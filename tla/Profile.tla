------------------------------ MODULE Profile ------------------------------
(***************************************************************************)
(* Pairing and starting: the daemon's pair and run commands                *)
(* (cmd/discodrive), and the desktop App's PairPoll, startup and Unpair    *)
(* (cmd/discodrive-wails, internal/desktop/session.go).  Each has a        *)
(* profile of its own: the configuration, the index with the URL of the    *)
(* server it was built against, and a folder of files.                     *)
(*                                                                         *)
(* The files of a server are one token, the server itself: what a folder,  *)
(* an index or a server holds is the set of the servers its files are      *)
(* from.  A sync pass is one step (modules SyncEngine and SyncLoop have    *)
(* its inside).                                                            *)
(***************************************************************************)
EXTENDS Naturals

CONSTANTS
    Servers, Procs, None,
    Default,      \* the default folder; the desktop's content folder
    Picked,       \* folders the user names with --dir
    MaxCalls      \* bound on the commands that are started

ASSUME ConstantAssumption ==
    /\ None \notin Servers \cup Procs \cup Picked \cup {Default}
    /\ {Default} \cap (Servers \cup Picked) = {} /\ Servers \cap Picked = {}
    /\ MaxCalls \in Nat

VARIABLES
    app,       \* whose profile this is: "daemon" or "desktop"
    config,    \* config.json
    db,        \* the index file of the profile
    disk,      \* folders
    got,       \* what each server holds
    lock,      \* the process that has daemon.lock
    proc,      \* the processes; for the desktop, the calls of the App
    begun,     \* commands started
    mishaps    \* history: what has happened of pairings that overlap, a server
               \* paired again with another folder, and a cut save

vars == <<app, config, db, disk, got, lock, proc, begun, mishaps>>

\* The folder freshSyncDirFor derives for a server is denoted by the server.
Dirs == {Default} \cup Servers \cup Picked

Config == [server : Servers \cup {None}, dir : Dirs]
NoConfig == [server |-> None, dir |-> Default]

Index == [stamp : Servers \cup {None}, rows : SUBSET Servers]
EmptyIndex == [stamp |-> None, rows |-> {}]

\* "asking" to "saving" belong to pairing, "locked" and "starting" to run and its
\* detached child, the others to opening the profile and to Unpair.
Held == {"loading", "opening", "removing", "clearing", "reopening", "stamping", "on"}
Stages == {"idle", "asking", "resetting", "saving", "locked", "starting", "leaving"} \cup Held

\* server, dir: what it pairs with or has loaded; old: oldServer.  An index file
\* that is removed while it is open stays with the process that has it open: own.
Proc == [stage : Stages, server : Servers \cup {None}, dir : Dirs,
         old : Servers \cup {None}, own : BOOLEAN, mine : Index]
Idle == [stage |-> "idle", server |-> None, dir |-> Default, old |-> None,
         own |-> FALSE, mine |-> EmptyIndex]

TypeOK ==
    /\ app \in {"daemon", "desktop"}
    /\ config \in Config /\ db \in Index
    /\ disk \in [Dirs -> SUBSET Servers] /\ got \in [Servers -> SUBSET Servers]
    /\ lock \in Procs \cup {None}
    /\ proc \in [Procs -> Proc]
    /\ begun \in 0 .. MaxCalls /\ mishaps \subseteq {"pairings", "dir", "cut"}
    /\ \A p \in Procs : lock = p => proc[p].stage \in Held \cup {"locked"}

\* A profile no one has used, or the desktop's of a version that did not stamp
\* the index and could mix the servers in it.
Init ==
    /\ app \in {"daemon", "desktop"}
    /\ \/ config = NoConfig /\ db = EmptyIndex
       \/ /\ app = "desktop"
          /\ \E s \in Servers, rows \in SUBSET Servers :
               config = [server |-> s, dir |-> Default] /\ db = [stamp |-> None, rows |-> rows]
    /\ disk = [d \in Dirs |-> {}] /\ got = [s \in Servers |-> {s}]
    /\ lock = None /\ proc = [p \in Procs |-> Idle] /\ begun = 0 /\ mishaps = {}

At(p, stage) == proc[p].stage = stage
Go(p, stage) == proc' = [proc EXCEPT ![p].stage = stage]
Begin        == begun < MaxCalls /\ begun' = begun + 1

\* A process of the daemon that ends gives up the lock.
Exit(p) == /\ proc' = [proc EXCEPT ![p] = Idle]
           /\ lock' = IF lock = p THEN None ELSE lock

-----------------------------------------------------------------------------
(* The index file                                                          *)

HasOpen(p) == ~proc[p].own /\ proc[p].stage \in {"stamping", "on"}

Db(p) == IF proc[p].own THEN proc[p].mine ELSE db

SetDb(p, x, stage) ==
    IF proc[p].own
    THEN proc' = [proc EXCEPT ![p].mine = x, ![p].stage = stage] /\ UNCHANGED db
    ELSE db' = x /\ Go(p, stage)

\* removeStateDB; process p goes on without an index.
RemoveDb(p, stage) ==
    /\ db' = EmptyIndex
    /\ proc' = [q \in Procs |->
                  IF q = p THEN [proc[p] EXCEPT !.stage = stage, !.own = FALSE, !.mine = EmptyIndex]
                  ELSE IF HasOpen(q) THEN [proc[q] EXCEPT !.own = TRUE, !.mine = db]
                  ELSE proc[q]]

-----------------------------------------------------------------------------
(* Pairing                                                                 *)

\* Mutant: the folder of the old server is adopted.
ResolveOld(given, old, s) == IF given = None THEN Default ELSE given

\* Mutant: for the server it is paired with already the folder is the default one.
ResolveAgain(given, old, s) ==
    IF given = None \/ old = s THEN Default ELSE given

\* resolvePairDir; given is None without --dir.
Resolve(given, old, s) ==
    CASE given # None                       -> given
      [] given = None /\ old \in {None, s}  -> Default
      [] OTHER                              -> s

Pairing(p) == proc[p].stage \in {"asking", "resetting", "saving"}

\* A folder that holds nothing of a server other than s, now or soon.
MayName(d, s) ==
    /\ disk[d] \subseteq {s}
    /\ config.dir = d => config.server = s
    /\ \A q \in Procs : ~At(q, "idle") /\ proc[q].dir = d => proc[q].server = s

\* A server that is paired again keeps its folder, and no process works for it in
\* another.
SameDir(s, given) ==
    /\ config.server = s => config.dir = (IF given = None THEN Default ELSE given)
    /\ \A q \in Procs : ~At(q, "idle") /\ proc[q].server = s
                          => s = config.server /\ proc[q].dir = config.dir

\* Nothing in the code keeps a pairing from overlapping another one (or, in the
\* desktop, another call), or a server from being paired again with another folder.
Overlaps == \E q \in Procs : IF app = "daemon" THEN Pairing(q) ELSE ~At(q, "idle")
OtherDir(s, given) == app = "daemon" /\ ~SameDir(s, given)

\* The user names a folder that is no other server's.  The desktop shows the pairing
\* screen while it has no profile open.
Pair(p, s, given) ==
    /\ Begin /\ At(p, "idle")
    /\ app = "desktop" => given = None /\ \A q \in Procs : ~At(q, "on")
    /\ given # None => MayName(given, s)
    /\ proc' = [proc EXCEPT ![p] = [Idle EXCEPT
                  !.stage = "asking", !.server = s, !.old = config.server,
                  !.dir = IF app = "daemon" THEN Resolve(given, config.server, s) ELSE Default]]
    /\ mishaps' = mishaps \cup {m \in {"pairings"} : Overlaps} \cup {m \in {"dir"} : OtherDir(s, given)}
    /\ UNCHANGED <<app, config, db, disk, got, lock>>

\* PairPoll has the token.
Approved(p) ==
    /\ At(p, "asking")
    /\ Go(p, IF app = "daemon" /\ proc[p].old \notin {None, proc[p].server}
             THEN "resetting" ELSE "saving")
    /\ UNCHANGED <<app, config, db, disk, got, lock, begun, mishaps>>

Reset(p) ==
    /\ At(p, "resetting")
    /\ RemoveDb(p, "saving")
    /\ UNCHANGED <<app, config, disk, got, lock, begun, mishaps>>

\* The desktop opens the profile in the same call.
Save(p) ==
    /\ At(p, "saving")
    /\ config' = [server |-> proc[p].server, dir |-> proc[p].dir]
    /\ IF app = "daemon" THEN Exit(p) ELSE Go(p, "loading") /\ UNCHANGED lock
    /\ UNCHANGED <<app, db, disk, got, begun, mishaps>>

\* os.WriteFile empties the file first; what is left is no configuration.
CutSave(p) ==
    /\ At(p, "saving")
    /\ config' = NoConfig
    /\ Exit(p)
    /\ mishaps' = IF app = "daemon" THEN mishaps \cup {"cut"} ELSE mishaps
    /\ UNCHANGED <<app, db, disk, got, begun>>

-----------------------------------------------------------------------------
(* Starting                                                                *)

Start(p) ==
    /\ Begin /\ At(p, "idle")
    /\ CASE app = "daemon"  -> lock = None /\ lock' = p /\ Go(p, "locked")
         [] app = "desktop" -> /\ \A q \in Procs : At(q, "idle")
                               /\ Go(p, "loading") /\ UNCHANGED lock
    /\ UNCHANGED <<app, config, db, disk, got, mishaps>>

Foreground(p) ==
    /\ At(p, "locked") /\ Go(p, "loading")
    /\ UNCHANGED <<app, config, db, disk, got, lock, begun, mishaps>>

\* Mutant: the lock is not given up for the child.
DetachHolding(p) ==
    /\ At(p, "locked") /\ Go(p, "starting")
    /\ UNCHANGED <<app, config, db, disk, got, lock, begun, mishaps>>

\* The process ends and its child, which takes its place here, has yet to lock.
Detach(p) ==
    /\ At(p, "locked") /\ Go(p, "starting")
    /\ lock' = None
    /\ UNCHANGED <<app, config, db, disk, got, begun, mishaps>>

\* Mutant: the detached child goes on whether or not it has the lock.
RelockAnyway(p) ==
    /\ At(p, "starting")
    /\ lock' = (IF lock = None THEN p ELSE lock) /\ Go(p, "loading")
    /\ UNCHANGED <<app, config, db, disk, got, begun, mishaps>>

\* The child; it ends when another process was faster.
Relock(p) ==
    /\ At(p, "starting")
    /\ IF lock = None THEN lock' = p /\ Go(p, "loading") ELSE Exit(p)
    /\ UNCHANGED <<app, config, db, disk, got, begun, mishaps>>

Load(p) ==
    /\ At(p, "loading")
    /\ IF config = NoConfig THEN Exit(p)
       ELSE /\ proc' = [proc EXCEPT ![p].stage = "opening", ![p].server = config.server,
                                    ![p].dir = config.dir]
            /\ UNCHANGED lock
    /\ UNCHANGED <<app, config, db, disk, got, begun, mishaps>>

\* Mutant: the stamp is not looked at.
Trusted(p) == FALSE

\* The index was built against another server; the desktop trusts no index
\* without a stamp either.
Suspect(p) == \/ db.stamp \notin {None, proc[p].server}
              \/ app = "desktop" /\ db.stamp = None /\ db.rows # {}

OpenIndex(p) ==
    /\ At(p, "opening")
    /\ Go(p, IF Suspect(p) THEN "removing" ELSE "stamping")
    /\ UNCHANGED <<app, config, db, disk, got, lock, begun, mishaps>>

\* removeStateDB, and the first half of WipeState.
Remove(p) ==
    /\ At(p, "removing") \/ At(p, "leaving")
    /\ RemoveDb(p, IF app = "daemon" THEN "reopening" ELSE "clearing")
    /\ UNCHANGED <<app, config, disk, got, lock, begun, mishaps>>

\* Mutant: Unpair removes the index only.
ClearNothing(p) ==
    /\ At(p, "clearing")
    /\ IF proc[p].server = None THEN Exit(p) ELSE Go(p, "reopening") /\ UNCHANGED lock
    /\ UNCHANGED <<app, config, db, disk, got, begun, mishaps>>

\* The second half of WipeState; after it Unpair returns, or Open goes on.
Clear(p) ==
    /\ At(p, "clearing")
    /\ disk' = [disk EXCEPT ![Default] = {}]
    /\ IF proc[p].server = None THEN Exit(p) ELSE Go(p, "reopening") /\ UNCHANGED lock
    /\ UNCHANGED <<app, config, db, got, begun, mishaps>>

Reopen(p) ==
    /\ At(p, "reopening") /\ Go(p, "stamping")
    /\ UNCHANGED <<app, config, db, disk, got, lock, begun, mishaps>>

SetServerURL(p) ==
    /\ At(p, "stamping")
    /\ SetDb(p, [Db(p) EXCEPT !.stamp = proc[p].server], "on")
    /\ UNCHANGED <<app, config, disk, got, lock, begun, mishaps>>

-----------------------------------------------------------------------------
(* Working                                                                 *)

\* A pass of the daemon: what the index has and the folder has not is deleted on
\* the server, what only the folder has is uploaded, the rest is downloaded.
Pass(p) ==
    LET s == proc[p].server
        d == proc[p].dir
        kept == (got[s] \ (Db(p).rows \ disk[d])) \cup disk[d]
    IN  /\ app = "daemon" /\ At(p, "on")
        /\ got' = [got EXCEPT ![s] = kept]
        /\ disk' = [disk EXCEPT ![d] = kept]
        /\ SetDb(p, [Db(p) EXCEPT !.rows = kept], "on")
        /\ UNCHANGED <<app, config, lock, begun, mishaps>>

\* The first pass on a new index, when the server's sync scope was ever changed:
\* the folder becomes what the server has.
Mirror(p) ==
    LET s == proc[p].server
    IN  /\ app = "daemon" /\ At(p, "on") /\ Db(p).rows = {}
        /\ disk' = [disk EXCEPT ![proc[p].dir] = got[s]]
        /\ SetDb(p, [Db(p) EXCEPT !.rows = got[s]], "on")
        /\ UNCHANGED <<app, config, got, lock, begun, mishaps>>

\* Refresh and Open of the desktop.
Browse(p) ==
    LET s == proc[p].server
    IN  /\ app = "desktop" /\ At(p, "on")
        /\ SetDb(p, [Db(p) EXCEPT !.rows = @ \cup got[s]], "on")
        /\ disk' = [disk EXCEPT ![Default] = @ \cup Db(p).rows']
        /\ UNCHANGED <<app, config, got, lock, begun, mishaps>>

\* Unpair closes the index and removes the configuration.
Unpair(p) ==
    /\ app = "desktop" /\ At(p, "on")
    /\ config' = NoConfig
    /\ proc' = [proc EXCEPT ![p] = [Idle EXCEPT !.stage = "leaving"]]
    /\ UNCHANGED <<app, db, disk, got, lock, begun, mishaps>>

\* An error, a refused pairing, a signal, or the end of the program.
Stop(p) ==
    /\ ~At(p, "idle")
    /\ Exit(p)
    /\ UNCHANGED <<app, config, db, disk, got, begun, mishaps>>

Next == \E p \in Procs :
    \/ \E s \in Servers, given \in Picked \cup {None} : Pair(p, s, given)
    \/ Approved(p) \/ Reset(p) \/ Save(p) \/ CutSave(p)
    \/ Start(p) \/ Foreground(p) \/ Detach(p) \/ Relock(p)
    \/ Load(p) \/ OpenIndex(p) \/ Remove(p) \/ Clear(p) \/ Reopen(p) \/ SetServerURL(p)
    \/ Pass(p) \/ Mirror(p) \/ Browse(p) \/ Unpair(p) \/ Stop(p)

Spec == Init /\ [][Next]_vars

-----------------------------------------------------------------------------
(* Properties                                                              *)

\* One process at most works with the daemon's profile, also while one hands it
\* over to a child in the background.
OneDaemon == app = "daemon" => \A p \in Procs : proc[p].stage \in Held => lock = p

\* Nothing of one server is uploaded to another ("nothing from the old server leaks
\* into, or gets uploaded to, the new one").  In this model a server has no file of
\* another one otherwise.
NothingLeaks == \A s \in Servers : got[s] \subseteq {s}

\* The same as long as no save of the configuration is cut.
NothingLeaksUncut == "cut" \notin mishaps => NothingLeaks

\* The same as long as a server that is paired again keeps its folder.
NothingLeaksSameDir == "dir" \notin mishaps => NothingLeaks

\* The same, however often the profile is paired, with a daemon that still runs for
\* the server before, as long as no pairings overlap, no server is paired again with
\* another folder, and no save is cut.
NothingCrosses == mishaps = {} => NothingLeaks

\* Nothing is deleted on a server, with the same three exceptions: in this model the
\* user deletes nothing.
NothingDeleted == mishaps = {} => \A s \in Servers : s \in got[s]

\* An index in use has rows of the server it is used for, and of no other, with the
\* same exceptions.
IndexIsOfServer ==
    mishaps = {} => \A p \in Procs : At(p, "on") => Db(p).rows \subseteq {proc[p].server}

\* When Unpair returns nothing of the old server is left in the profile; the desktop
\* has one of the exceptions, a pairing that overlaps another call.
UnpairLeavesNothing ==
    [][\A p \in Procs : mishaps = {} /\ At(p, "clearing") /\ proc[p].server = None /\ Clear(p)
          => config = NoConfig /\ db = EmptyIndex /\ disk'[Default] = {}]_vars
=============================================================================
