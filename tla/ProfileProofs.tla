--------------------------- MODULE ProfileProofs ---------------------------
(***************************************************************************)
(* Pairing and starting, for any number of processes, servers, folders and *)
(* commands.  First: type correctness, and that one process at most works  *)
(* with the daemon's profile, whatever has happened.  Then, as long as no  *)
(* pairings have overlapped, no server was paired again with another       *)
(* folder and no save of the daemon was cut (mishaps = {}): nothing        *)
(* crosses from one server to another or is deleted on one, an index is    *)
(* of the server it is used for, and Unpair leaves nothing behind.         *)
(***************************************************************************)
EXTENDS Profile, TLAPS

\* The lock says who works with the profile: not only does a worker have it, also
\* a process that has it has come no further than its stage says; only the desktop,
\* which takes no lock, unpairs.
LockRules ==
    /\ \A p \in Procs : lock = p => proc[p].stage \in Held \cup {"locked"}
    /\ app = "daemon" => \A p \in Procs :
          /\ proc[p].stage \in Held \cup {"locked"} => lock = p
          /\ proc[p].stage # "leaving"
    /\ app = "desktop" => /\ lock = None
                          /\ \A p \in Procs : proc[p].stage \notin {"locked", "starting"}

Typed ==
    /\ app \in {"daemon", "desktop"}
    /\ config \in Config /\ db \in Index
    /\ disk \in [Dirs -> SUBSET Servers] /\ got \in [Servers -> SUBSET Servers]
    /\ lock \in Procs \cup {None}
    /\ proc \in [Procs -> Proc]
    /\ begun \in 0 .. MaxCalls

Core == Typed /\ LockRules

\* Who pairs or has loaded a configuration knows the server.
Knowing == {"asking", "resetting", "saving", "opening", "removing", "reopening", "stamping", "on"}
HasServer ==
    /\ config = NoConfig \/ config.server \in Servers
    /\ \A p \in Procs : proc[p].stage \in Knowing => proc[p].server \in Servers

Marked == mishaps \subseteq {"pairings", "dir", "cut"}

IInv == Core /\ HasServer /\ Marked

LEMMA Constants ==
    /\ Idle \in Proc /\ NoConfig \in Config /\ EmptyIndex \in Index
    /\ Default \in Dirs /\ None \notin Procs
BY ConstantAssumption DEF Idle, Proc, Stages, Held, NoConfig, Config, EmptyIndex, Index, Dirs

LEMMA CoreIsEnough == IInv => TypeOK /\ OneDaemon
BY DEF IInv, Marked, Core, Typed, LockRules, TypeOK, OneDaemon

LEMMA InitHolds == Init => IInv
<1> SUFFICES ASSUME Init PROVE IInv
  OBVIOUS
<1>1. Typed
  BY Constants, ConstantAssumption DEF Init, Typed, Config, Index, Dirs
<1>2. LockRules
  BY Constants DEF Init, LockRules, Idle, Held
<1>3. HasServer
  BY DEF Init, HasServer, Knowing, Idle
<1> QED
  BY <1>1, <1>2, <1>3 DEF IInv, Core, Init, Marked

\* The two ways a step changes one process, and what an exit does to the lock.
LEMMA GoTyped ==
    ASSUME Typed, NEW p \in Procs, NEW stage \in Stages, Go(p, stage)
    PROVE  /\ proc' \in [Procs -> Proc]
           /\ proc'[p].stage = stage /\ proc'[p].server = proc[p].server
           /\ \A q \in Procs \ {p} : proc'[q] = proc[q]
BY DEF Typed, Go, Proc

LEMMA ExitTyped ==
    ASSUME Core, NEW p \in Procs, Exit(p)
    PROVE  /\ proc' \in [Procs -> Proc] /\ lock' \in Procs \cup {None}
           /\ app' = app => LockRules'
<1>1. /\ proc' \in [Procs -> Proc] /\ lock' \in Procs \cup {None}
      /\ proc'[p] = Idle /\ \A q \in Procs \ {p} : proc'[q] = proc[q]
      /\ lock' = IF lock = p THEN None ELSE lock
  BY Constants DEF Core, Typed, Exit
<1>2. proc'[p].stage = "idle"
  BY <1>1 DEF Idle
<1> QED
  BY <1>1, <1>2, Constants DEF Core, LockRules, Held

LEMMA RemoveDbTyped ==
    ASSUME Typed, NEW p \in Procs, NEW stage \in Stages, RemoveDb(p, stage)
    PROVE  /\ proc' \in [Procs -> Proc] /\ db' \in Index
           /\ proc'[p].stage = stage /\ proc'[p].server = proc[p].server
           /\ \A q \in Procs \ {p} : proc'[q].stage = proc[q].stage /\ proc'[q].server = proc[q].server
<1> DEFINE new(q) ==
             IF q = p THEN [proc[p] EXCEPT !.stage = stage, !.own = FALSE, !.mine = EmptyIndex]
             ELSE IF HasOpen(q) THEN [proc[q] EXCEPT !.own = TRUE, !.mine = db]
             ELSE proc[q]
<1>1. db' = EmptyIndex /\ proc' = [q \in Procs |-> new(q)]
  BY Zenon DEF RemoveDb
<1>2. ASSUME NEW q \in Procs
      PROVE  /\ new(q) \in Proc /\ new(q).server = proc[q].server
             /\ new(q).stage = IF q = p THEN stage ELSE proc[q].stage
  <2>1. proc[q] \in Proc /\ db \in Index
    BY DEF Typed
  <2>2. CASE q = p
    BY <2>1, <2>2, Constants DEF Proc
  <2>3. CASE q # p
    BY <2>1, <2>3 DEF Proc
  <2> QED
    BY <2>2, <2>3
<1> HIDE DEF new
<1>3. proc' \in [Procs -> Proc]
  BY <1>1, <1>2
<1>4. \A q \in Procs : proc'[q] = new(q)
  BY <1>1
<1> QED
  BY <1>1, <1>2, <1>3, <1>4, Constants

LEMMA SetDbTyped ==
    ASSUME Typed, NEW p \in Procs, NEW stage \in Stages, NEW i \in Index, SetDb(p, i, stage)
    PROVE  /\ proc' \in [Procs -> Proc] /\ db' \in Index
           /\ proc'[p].stage = stage /\ proc'[p].server = proc[p].server
           /\ \A q \in Procs \ {p} : proc'[q] = proc[q]
BY DEF Typed, SetDb, Go, Proc

LEMMA DbTyped ==
    ASSUME Typed, NEW p \in Procs
    PROVE  Db(p) \in Index
BY DEF Typed, Db, Proc

\* A step that leaves the lock alone and takes p to a stage that goes with it.
LEMMA LockKept ==
    ASSUME Core, NEW p \in Procs, NEW stage,
           app' = app, lock' = lock, proc'[p].stage = stage,
           \A q \in Procs \ {p} : proc'[q].stage = proc[q].stage,
           lock = p => stage \in Held \cup {"locked"},
           app = "daemon" => /\ stage \in Held \cup {"locked"} => lock = p
                             /\ stage # "leaving",
           app = "desktop" => stage \notin {"locked", "starting"}
    PROVE  LockRules'
BY DEF Core, LockRules

\* Each action keeps the types and the rules of the lock.
LEMMA CoreStep ==
    ASSUME Core, HasServer, [Next]_vars
    PROVE  Core'
<1> USE Constants
<1>0. Typed /\ LockRules
  BY DEF Core
<1>1. ASSUME NEW p \in Procs, NEW s \in Servers, NEW given \in Picked \cup {None}, Pair(p, s, given)
      PROVE  Core'
  <2>1. Resolve(given, config.server, s) \in Dirs
    BY <1>0, <1>1, ConstantAssumption DEF Resolve, Dirs
  <2>2. /\ proc' \in [Procs -> Proc] /\ proc'[p].stage = "asking"
        /\ \A q \in Procs \ {p} : proc'[q] = proc[q]
    BY <1>0, <1>1, <2>1 DEF Pair, Typed, Proc, Idle, Config, Stages, Held
  <2>3. Typed'
    BY <1>0, <1>1, <2>2, ConstantAssumption DEF Pair, Typed, Begin
  <2>4. LockRules'
    BY <1>0, <1>1, <2>2, LockKept DEF Pair, At, LockRules, Held
  <2> QED
    BY <2>3, <2>4 DEF Core
<1>2. ASSUME NEW p \in Procs, Approved(p) \/ Foreground(p) \/ OpenIndex(p) \/ Reopen(p)
      PROVE  Core'
  <2>1. PICK stage \in Stages :
          /\ Go(p, stage)
          /\ \/ proc[p].stage = "asking" /\ stage \in {"resetting", "saving"}
             \/ proc[p].stage = "locked" /\ stage = "loading"
             \/ proc[p].stage \in {"opening", "reopening"} /\ stage \in {"removing", "stamping"}
    BY <1>2 DEF Approved, Foreground, OpenIndex, Reopen, At, Stages, Held
  <2>2. UNCHANGED <<app, config, db, disk, got, lock, begun>>
    BY <1>2 DEF Approved, Foreground, OpenIndex, Reopen
  <2>3. Typed'
    BY <1>0, <2>1, <2>2, GoTyped DEF Typed
  <2>4. LockRules'
    BY <1>0, <2>1, <2>2, GoTyped, LockKept DEF LockRules, Held
  <2> QED
    BY <2>3, <2>4 DEF Core
<1>3. ASSUME NEW p \in Procs, Reset(p) \/ Remove(p)
      PROVE  Core'
  <2>1. PICK stage \in Stages :
          /\ RemoveDb(p, stage)
          /\ \/ proc[p].stage = "resetting" /\ stage = "saving"
             \/ /\ proc[p].stage = "removing" \/ proc[p].stage = "leaving"
                /\ stage \in {"reopening", "clearing"}
    BY <1>3 DEF Reset, Remove, At, Stages, Held
  <2>2. UNCHANGED <<app, config, disk, got, lock, begun>>
    BY <1>3 DEF Reset, Remove
  <2>3. Typed'
    BY <1>0, <2>1, <2>2, RemoveDbTyped DEF Typed
  <2>4. LockRules'
    BY <1>0, <2>1, <2>2, RemoveDbTyped, LockKept DEF Typed, LockRules, Held
  <2> QED
    BY <2>3, <2>4 DEF Core
<1>4. ASSUME NEW p \in Procs, Save(p) \/ CutSave(p)
      PROVE  Core'
  <2>1. config' \in Config
    BY <1>0, <1>4 DEF Save, CutSave, Typed, Proc, Config
  <2>2. UNCHANGED <<app, db, disk, got, begun>>
    BY <1>4 DEF Save, CutSave
  <2>3. CASE Exit(p)
    BY <1>0, <2>1, <2>2, <2>3, ExitTyped DEF Core, Typed
  <2>4. CASE app # "daemon" /\ Go(p, "loading") /\ lock' = lock
    <3>1. "loading" \in Stages
      BY DEF Stages, Held
    <3>2. Typed'
      BY <1>0, <2>1, <2>2, <2>4, <3>1, GoTyped DEF Typed
    <3>3. LockRules'
      BY <1>0, <2>2, <2>4, <3>1, GoTyped, LockKept DEF LockRules, Held, Typed
    <3> QED
      BY <3>2, <3>3 DEF Core
  <2> QED
    BY <1>4, <2>3, <2>4 DEF Save, CutSave
<1>5. ASSUME NEW p \in Procs, Start(p)
      PROVE  Core'
  <2>1. "locked" \in Stages /\ "loading" \in Stages
    BY DEF Stages, Held
  <2>2. CASE app = "daemon"
    <3>1. lock = None /\ lock' = p /\ Go(p, "locked")
      BY <1>5, <2>2 DEF Start
    <3>2. Typed'
      BY <1>0, <1>5, <2>1, <3>1, GoTyped, ConstantAssumption DEF Start, Begin, Typed
    <3>3. LockRules'
      BY <1>0, <1>5, <2>1, <2>2, <3>1, GoTyped DEF Start, LockRules, Held
    <3> QED
      BY <3>2, <3>3 DEF Core
  <2>3. CASE app = "desktop"
    <3>1. Go(p, "loading") /\ lock' = lock
      BY <1>5, <2>3 DEF Start
    <3>2. Typed'
      BY <1>0, <1>5, <2>1, <3>1, GoTyped, ConstantAssumption DEF Start, Begin, Typed
    <3>3. LockRules'
      BY <1>0, <1>5, <2>1, <2>3, <3>1, GoTyped, LockKept DEF Start, LockRules, Held
    <3> QED
      BY <3>2, <3>3 DEF Core
  <2> QED
    BY <1>0, <2>2, <2>3 DEF Typed
<1>6. ASSUME NEW p \in Procs, Detach(p)
      PROVE  Core'
  <2>1. "starting" \in Stages
    BY DEF Stages
  <2>2. Typed'
    BY <1>0, <1>6, <2>1, GoTyped DEF Detach, Typed
  <2>3. LockRules'
    BY <1>0, <1>6, <2>1, GoTyped DEF Detach, At, LockRules, Held
  <2> QED
    BY <2>2, <2>3 DEF Core
<1>7. ASSUME NEW p \in Procs, Relock(p)
      PROVE  Core'
  <2>1. UNCHANGED <<app, config, db, disk, got, begun>>
    BY <1>7 DEF Relock
  <2>2. CASE lock = None /\ lock' = p /\ Go(p, "loading")
    <3>1. "loading" \in Stages
      BY DEF Stages, Held
    <3>2. Typed'
      BY <1>0, <2>1, <2>2, <3>1, GoTyped DEF Typed
    <3>3. app = "daemon"
      BY <1>0, <1>7 DEF Relock, At, Typed, LockRules
    <3>4. LockRules'
      BY <1>0, <2>1, <2>2, <3>1, <3>3, GoTyped DEF LockRules, Held
    <3> QED
      BY <3>2, <3>4 DEF Core
  <2>3. CASE Exit(p)
    BY <1>0, <2>1, <2>3, ExitTyped DEF Core, Typed
  <2> QED
    BY <1>7, <2>2, <2>3 DEF Relock
<1>8. ASSUME NEW p \in Procs, Load(p)
      PROVE  Core'
  <2>1. UNCHANGED <<app, config, db, disk, got, begun>>
    BY <1>8 DEF Load
  <2>2. CASE config = NoConfig
    BY <1>0, <1>8, <2>1, <2>2, ExitTyped DEF Load, Core, Typed
  <2>3. CASE config # NoConfig
    <3>1. /\ proc' \in [Procs -> Proc] /\ proc'[p].stage = "opening" /\ lock' = lock
          /\ \A q \in Procs \ {p} : proc'[q] = proc[q]
      BY <1>0, <1>8, <2>3 DEF Load, Typed, Proc, Config, Stages, Held
    <3>2. Typed'
      BY <1>0, <2>1, <3>1 DEF Typed
    <3>3. LockRules'
      BY <1>0, <1>8, <2>1, <3>1, LockKept DEF Load, At, LockRules, Held
    <3> QED
      BY <3>2, <3>3 DEF Core
  <2> QED
    BY <2>2, <2>3
<1>9. ASSUME NEW p \in Procs, Clear(p)
      PROVE  Core'
  <2>1. UNCHANGED <<app, config, db, got, begun>> /\ disk' \in [Dirs -> SUBSET Servers]
    BY <1>0, <1>9 DEF Clear, Typed
  <2>2. CASE Exit(p)
    BY <1>0, <2>1, <2>2, ExitTyped DEF Core, Typed
  <2>3. CASE Go(p, "reopening") /\ lock' = lock
    <3>1. "reopening" \in Stages
      BY DEF Stages, Held
    <3>2. Typed'
      BY <1>0, <2>1, <2>3, <3>1, GoTyped DEF Typed
    <3>3. LockRules'
      BY <1>0, <1>9, <2>1, <2>3, <3>1, GoTyped, LockKept DEF Clear, At, LockRules, Held
    <3> QED
      BY <3>2, <3>3 DEF Core
  <2> QED
    BY <1>9, <2>2, <2>3 DEF Clear
<1>10. ASSUME NEW p \in Procs, SetServerURL(p) \/ Pass(p) \/ Mirror(p) \/ Browse(p)
       PROVE  Core'
  <2>1. Db(p) \in Index /\ proc[p].server \in Servers \cup {None} /\ proc[p].dir \in Dirs
    BY <1>0, DbTyped DEF Typed, Proc
  <2> DEFINE s == proc[p].server
             d == proc[p].dir
  <2>2. CASE SetServerURL(p)
    <3>1. [Db(p) EXCEPT !.stamp = s] \in Index /\ "on" \in Stages
      BY <2>1 DEF Index, Stages, Held
    <3>2. Typed'
      BY <1>0, <2>2, <3>1, SetDbTyped DEF SetServerURL, Typed
    <3>3. LockRules'
      BY <1>0, <2>2, <3>1, SetDbTyped, LockKept DEF SetServerURL, At, LockRules, Held
    <3> QED
      BY <3>2, <3>3 DEF Core
  <2>3. ASSUME Pass(p) \/ Mirror(p) \/ Browse(p)
        PROVE  Core'
    <3>1. s \in Servers /\ proc[p].stage = "on" /\ "on" \in Stages
      BY <2>3 DEF Pass, Mirror, Browse, At, HasServer, Knowing, Stages, Held
    <3>2. got[s] \in SUBSET Servers /\ disk[d] \in SUBSET Servers
      BY <1>0, <2>1, <3>1 DEF Typed
    <3>3. PICK rows \in SUBSET Servers : SetDb(p, [Db(p) EXCEPT !.rows = rows], "on")
      BY <2>1, <2>3, <3>2 DEF Pass, Mirror, Browse, Index
    <3>4. [Db(p) EXCEPT !.rows = rows] \in Index
      BY <2>1 DEF Index
    <3>5. got' \in [Servers -> SUBSET Servers] /\ UNCHANGED <<app, config, lock, begun>>
      BY <1>0, <2>3, <3>2 DEF Pass, Mirror, Browse, Typed
    <3>6. disk' \in [Dirs -> SUBSET Servers]
      <4>1. CASE Pass(p) \/ Mirror(p)
        BY <1>0, <4>1, <3>2 DEF Pass, Mirror, Typed
      <4>2. CASE Browse(p)
        <5>1. proc' \in [Procs -> Proc] /\ db' \in Index
          BY <1>0, <3>1, <3>3, <3>4, SetDbTyped
        <5>2. Db(p)' \in Index
          BY <5>1 DEF Db, Proc
        <5> QED
          BY <1>0, <4>2, <5>2 DEF Browse, Typed, Index
      <4> QED
        BY <2>3, <4>1, <4>2
    <3>7. Typed'
      BY <1>0, <3>1, <3>3, <3>4, <3>5, <3>6, SetDbTyped DEF Typed
    <3>8. LockRules'
      BY <1>0, <3>1, <3>3, <3>4, <3>5, SetDbTyped, LockKept DEF LockRules, Held
    <3> QED
      BY <3>7, <3>8 DEF Core
  <2> QED
    BY <1>10, <2>2, <2>3
<1>11. ASSUME NEW p \in Procs, Unpair(p)
       PROVE  Core'
  <2>1. /\ proc' \in [Procs -> Proc] /\ proc'[p].stage = "leaving"
        /\ \A q \in Procs \ {p} : proc'[q] = proc[q]
    BY <1>0, <1>11 DEF Unpair, Typed, Proc, Idle, Stages
  <2>2. Typed'
    BY <1>0, <1>11, <2>1 DEF Unpair, Typed
  <2>3. LockRules'
    BY <1>0, <1>11, <2>1, LockKept DEF Unpair, LockRules
  <2> QED
    BY <2>2, <2>3 DEF Core
<1>12. ASSUME NEW p \in Procs, Stop(p)
       PROVE  Core'
  BY <1>0, <1>12, ExitTyped DEF Stop, Core, Typed
<1>13. CASE UNCHANGED vars
  BY <1>0, <1>13 DEF vars, Core, Typed, LockRules
<1> QED
  BY <1>1, <1>2, <1>3, <1>4, <1>5, <1>6, <1>7, <1>8, <1>9, <1>10, <1>11, <1>12, <1>13 DEF Next

\* A step that gives p a server, or keeps the one it has.
LEMMA ServerKept ==
    ASSUME HasServer, NEW p \in Procs, config' = config,
           \A q \in Procs \ {p} : proc'[q].stage = proc[q].stage /\ proc'[q].server = proc[q].server,
           proc'[p].stage \in Knowing => proc'[p].server \in Servers
    PROVE  HasServer'
BY DEF HasServer

LEMMA ServerStep ==
    ASSUME Core, HasServer, [Next]_vars
    PROVE  HasServer'
<1> USE Constants
<1>0. Typed /\ LockRules
  BY DEF Core
<1>1. ASSUME NEW p \in Procs, Exit(p)
      PROVE  /\ proc'[p].stage = "idle" /\ \A q \in Procs \ {p} : proc'[q] = proc[q]
             /\ config' = config => HasServer'
  <2>1. proc'[p].stage = "idle" /\ \A q \in Procs \ {p} : proc'[q] = proc[q]
    BY <1>0, <1>1 DEF Exit, Typed, Idle
  <2> QED
    BY <2>1, ServerKept DEF Knowing
<1>2. ASSUME NEW p \in Procs, NEW s \in Servers, NEW given \in Picked \cup {None}, Pair(p, s, given)
      PROVE  HasServer'
  <2>1. /\ config' = config /\ proc'[p].server = s
        /\ \A q \in Procs \ {p} : proc'[q] = proc[q]
    BY <1>0, <1>2 DEF Pair, Typed, Proc, Idle
  <2> QED
    BY <2>1, ServerKept
<1>3. ASSUME NEW p \in Procs, NEW stage \in Stages, Go(p, stage), config' = config,
             stage \in Knowing => proc[p].server \in Servers
      PROVE  HasServer'
  BY <1>0, <1>3, GoTyped, ServerKept
<1>4. ASSUME NEW p \in Procs,
             \/ Approved(p) \/ Foreground(p) \/ OpenIndex(p) \/ Reopen(p) \/ Start(p) \/ Detach(p)
      PROVE  HasServer'
  <2>1. PICK stage \in Stages :
          /\ Go(p, stage)
          /\ \/ proc[p].stage \in Knowing
             \/ stage \notin Knowing
    <3>1. CASE Approved(p) \/ OpenIndex(p) \/ Reopen(p)
      BY <3>1 DEF Approved, OpenIndex, Reopen, At, Stages, Held, Knowing
    <3>2. CASE Foreground(p) \/ Detach(p)
      BY <3>2 DEF Foreground, Detach, Stages, Held, Knowing
    <3>3. CASE Start(p)
      <4>1. Go(p, "locked") \/ Go(p, "loading")
        BY <1>0, <3>3 DEF Start, Typed
      <4> QED
        BY <4>1 DEF Stages, Held, Knowing
    <3> QED
      BY <1>4, <3>1, <3>2, <3>3
  <2>2. config' = config
    BY <1>4 DEF Approved, Foreground, OpenIndex, Reopen, Start, Detach
  <2> QED
    BY <1>3, <2>1, <2>2 DEF HasServer
<1>5. ASSUME NEW p \in Procs, Relock(p) \/ Clear(p)
      PROVE  HasServer'
  <2>1. "loading" \in Stages /\ "reopening" \in Stages /\ "loading" \notin Knowing /\ config' = config
    BY <1>5 DEF Relock, Clear, Stages, Held, Knowing
  <2>2. \/ Exit(p) \/ Go(p, "loading")
        \/ proc[p].server # None /\ Go(p, "reopening")
    BY <1>5 DEF Relock, Clear
  <2>3. proc[p].server \in Servers \cup {None}
    BY <1>0 DEF Typed, Proc
  <2> QED
    BY <1>1, <1>3, <2>1, <2>2, <2>3
<1>6. ASSUME NEW p \in Procs, Reset(p) \/ Remove(p)
      PROVE  HasServer'
  <2>1. PICK stage \in Stages :
          /\ RemoveDb(p, stage)
          /\ proc[p].stage \in Knowing \/ stage \notin Knowing
    BY <1>0, <1>6 DEF Reset, Remove, At, Stages, Held, Knowing, LockRules, Typed
  <2> QED
    BY <1>0, <1>6, <2>1, RemoveDbTyped, ServerKept DEF Reset, Remove, HasServer
<1>7. ASSUME NEW p \in Procs, Save(p) \/ CutSave(p)
      PROVE  HasServer'
  <2>1. proc[p].server \in Servers
    BY <1>7 DEF Save, CutSave, At, HasServer, Knowing
  <2>2. config' = NoConfig \/ config'.server \in Servers
    BY <1>7, <2>1 DEF Save, CutSave
  <2>3. Exit(p) \/ Go(p, "loading")
    BY <1>7 DEF Save, CutSave
  <2>4. "loading" \in Stages /\ "loading" \notin Knowing
    BY DEF Stages, Held, Knowing
  <2>5. /\ proc'[p].stage \notin Knowing
        /\ \A q \in Procs \ {p} : proc'[q] = proc[q]
    BY <1>0, <1>1, <2>3, <2>4, GoTyped DEF Knowing
  <2> QED
    BY <2>2, <2>5 DEF HasServer
<1>8. ASSUME NEW p \in Procs, Load(p)
      PROVE  HasServer'
  <2>1. CASE config = NoConfig
    BY <1>1, <1>8, <2>1 DEF Load
  <2>2. CASE config # NoConfig
    <3>1. /\ proc'[p].server = config.server /\ config' = config
          /\ \A q \in Procs \ {p} : proc'[q] = proc[q]
      BY <1>0, <1>8, <2>2 DEF Load, Typed, Proc
    <3> QED
      BY <2>2, <3>1, ServerKept DEF HasServer
  <2> QED
    BY <2>1, <2>2
<1>9. ASSUME NEW p \in Procs, SetServerURL(p) \/ Pass(p) \/ Mirror(p) \/ Browse(p)
      PROVE  HasServer'
  <2>1. /\ config' = config /\ proc[p].stage \in Knowing
        /\ \E i : SetDb(p, i, "on")
    BY <1>9 DEF SetServerURL, Pass, Mirror, Browse, At, Knowing
  <2>2. \A q \in Procs : proc'[q].server = proc[q].server /\ (q # p => proc'[q].stage = proc[q].stage)
    BY <1>0, <2>1 DEF SetDb, Go, Typed, Proc
  <2> QED
    BY <2>1, <2>2, ServerKept DEF HasServer
<1>10. ASSUME NEW p \in Procs, Unpair(p)
       PROVE  HasServer'
  <2>1. /\ config' = NoConfig /\ proc'[p].stage = "leaving"
        /\ \A q \in Procs \ {p} : proc'[q] = proc[q]
    BY <1>0, <1>10 DEF Unpair, Typed, Idle
  <2> QED
    BY <2>1 DEF HasServer, Knowing
<1>11. ASSUME NEW p \in Procs, Stop(p)
       PROVE  HasServer'
  BY <1>1, <1>11 DEF Stop
<1>12. CASE UNCHANGED vars
  BY <1>12 DEF vars, HasServer
<1> QED
  BY <1>2, <1>4, <1>5, <1>6, <1>7, <1>8, <1>9, <1>10, <1>11, <1>12 DEF Next

\* What has happened to a profile is not forgotten.
LEMMA MishapsStay ==
    ASSUME [Next]_vars
    PROVE  mishaps \subseteq mishaps' /\ (Marked => Marked')
<1>1. ASSUME NEW p \in Procs,
             \/ Approved(p) \/ Reset(p) \/ Save(p) \/ Start(p) \/ Foreground(p)
             \/ Detach(p) \/ Relock(p) \/ Load(p) \/ OpenIndex(p)
      PROVE  mishaps' = mishaps
  BY <1>1 DEF Approved, Reset, Save, Start, Foreground, Detach, Relock, Load, OpenIndex
<1>2. ASSUME NEW p \in Procs,
             \/ Remove(p) \/ Clear(p) \/ Reopen(p) \/ SetServerURL(p) \/ Pass(p)
             \/ Mirror(p) \/ Browse(p) \/ Unpair(p) \/ Stop(p)
      PROVE  mishaps' = mishaps
  BY <1>2 DEF Remove, Clear, Reopen, SetServerURL, Pass, Mirror, Browse, Unpair, Stop
<1>3. ASSUME NEW p \in Procs, CutSave(p)
      PROVE  mishaps' \in {mishaps, mishaps \cup {"cut"}}
  BY <1>3 DEF CutSave
<1>4. ASSUME NEW p \in Procs, NEW s \in Servers, NEW given \in Picked \cup {None}, Pair(p, s, given)
      PROVE  mishaps \subseteq mishaps' /\ mishaps' \subseteq mishaps \cup {"pairings", "dir"}
  BY <1>4 DEF Pair
<1>5. CASE UNCHANGED vars
  BY <1>5 DEF vars, Marked
<1> QED
  BY <1>1, <1>2, <1>3, <1>4, <1>5 DEF Next, Marked

LEMMA Invariant == Spec => []IInv
<1>1. IInv /\ [Next]_vars => IInv'
  BY CoreStep, ServerStep, MishapsStay DEF IInv
<1> QED
  BY <1>1, InitHolds, PTL DEF Spec

\* Every reachable state of the profile, its processes, folders and servers has its type.
THEOREM ProfileTypeCorrect == Spec => []TypeOK
<1>1. IInv => TypeOK
  BY CoreIsEnough DEF IInv
<1> QED
  BY <1>1, Invariant, PTL

\* One process at most works with the daemon's profile, also while one hands the
\* lock over to its child: flock decides, and a process without it does not go on.
THEOREM OneDaemonWorks == Spec => []OneDaemon
<1>1. IInv => OneDaemon
  BY CoreIsEnough DEF IInv
<1> QED
  BY <1>1, Invariant, PTL
-----------------------------------------------------------------------------
(* Servers, folders and indexes.  The rest is about a profile without      *)
(* mishaps: after any of the three it is false.                            *)

\* The configuration or a process uses folder d for server s.
Uses(s, d) == \/ config.server = s /\ config.dir = d
              \/ \E p \in Procs : proc[p].server = s /\ proc[p].dir = d

\* The same without a pairing that has the index of another server before it.
Relies(s, d) == \/ config.server = s /\ config.dir = d
                \/ \E p \in Procs : /\ proc[p].server = s /\ proc[p].dir = d
                                    /\ proc[p].stage \notin {"asking", "resetting"}

\* One pairing of the daemon, one call of the desktop.  It still sees the
\* configuration it began with.
OneAtATime ==
    /\ \A p \in Procs : proc[p].stage = "idle" => proc[p].server = None
    /\ app = "daemon" =>
          /\ \A p, q \in Procs : Pairing(p) /\ Pairing(q) => p = q
          /\ \A p \in Procs : Pairing(p) => proc[p].old = config.server
    /\ app = "desktop" =>
          \A p, q \in Procs : proc[p].stage # "idle" /\ proc[q].stage # "idle" => p = q

\* A server has one folder and a folder one server, whose files it has.
OneFolder ==
    \A s, t \in Servers, d, e \in Dirs : Uses(s, d) /\ Uses(t, e) => (s = t <=> d = e)
NamedFolders ==
    \A d \in Servers : disk[d] \subseteq {d} /\ \A s \in Servers : Uses(s, d) => s = d
CleanFolders == \A s \in Servers, d \in Dirs : Uses(s, d) => disk[d] \subseteq {s}

\* Before the first pairing is saved there are only pairings.
NothingYet ==
    config = NoConfig =>
        /\ db = EmptyIndex /\ \A d \in Dirs : disk[d] = {}
        /\ \A p \in Procs : proc[p].server # None => Pairing(p)

\* What an index has of a server is in the folder of that server.
IndexInFolder ==
    /\ \A s \in Servers, d \in Dirs : Relies(s, d) /\ s \in db.rows => s \in disk[d]
    /\ \A p \in Procs : proc[p].own => proc[p].mine.rows \subseteq disk[proc[p].dir]

Folders == OneFolder /\ NamedFolders /\ CleanFolders /\ NothingYet /\ IndexInFolder

\* An index is of the server it is stamped with, and the index in use of the server
\* in use.  Only the desktop's can be without a stamp and not empty.
Stamped ==
    /\ db.stamp # None \/ app = "daemon" => db.rows \subseteq {db.stamp}
    /\ \A p \in Procs :
          /\ proc[p].own => proc[p].stage \in {"stamping", "on"}
          /\ proc[p].stage \in {"stamping", "on"} => Db(p).rows \subseteq {proc[p].server}
          /\ proc[p].stage = "on" => Db(p).stamp = proc[p].server
          /\ proc[p].stage \in {"clearing", "reopening"} => db = EmptyIndex
          /\ proc[p].stage = "clearing" => app = "desktop"
          /\ proc[p].stage = "leaving" \/ (proc[p].stage = "clearing" /\ proc[p].server = None)
               => config = NoConfig

OwnFiles == \A s \in Servers : got[s] = {s}

Rest == OneAtATime /\ Stamped /\ OwnFiles /\ (app = "daemon" => Folders)
PInv == IInv /\ Rest

\* The ways a step changes processes, field by field.
LEMMA GoFields ==
    ASSUME Typed, NEW p \in Procs, NEW stage, Go(p, stage)
    PROVE  /\ proc'[p].stage = stage /\ proc'[p].server = proc[p].server
           /\ proc'[p].dir = proc[p].dir /\ proc'[p].old = proc[p].old
           /\ proc'[p].own = proc[p].own /\ proc'[p].mine = proc[p].mine
           /\ \A q \in Procs \ {p} : proc'[q] = proc[q]
BY DEF Typed, Go, Proc

LEMMA ExitFields ==
    ASSUME Typed, NEW p \in Procs, Exit(p)
    PROVE  /\ proc'[p].stage = "idle" /\ proc'[p].server = None /\ ~proc'[p].own
           /\ \A q \in Procs \ {p} : proc'[q] = proc[q]
BY DEF Typed, Exit, Idle

LEMMA SetDbFields ==
    ASSUME Typed, NEW p \in Procs, NEW x, NEW stage, SetDb(p, x, stage)
    PROVE  /\ proc'[p].stage = stage /\ proc'[p].server = proc[p].server
           /\ proc'[p].dir = proc[p].dir /\ proc'[p].old = proc[p].old
           /\ proc'[p].own = proc[p].own /\ Db(p)' = x
           /\ IF proc[p].own THEN db' = db /\ proc'[p].mine = x ELSE db' = x
           /\ \A q \in Procs \ {p} : proc'[q] = proc[q]
BY DEF Typed, SetDb, Go, Proc, Db

LEMMA RemoveDbFields ==
    ASSUME Typed, NEW p \in Procs, NEW stage, RemoveDb(p, stage)
    PROVE  /\ db' = EmptyIndex
           /\ proc'[p].stage = stage /\ ~proc'[p].own
           /\ \A q \in Procs : /\ proc'[q].server = proc[q].server
                               /\ proc'[q].dir = proc[q].dir /\ proc'[q].old = proc[q].old
           /\ \A q \in Procs \ {p} :
                 /\ proc'[q].stage = proc[q].stage
                 /\ HasOpen(q) => proc'[q].own /\ proc'[q].mine = db
                 /\ ~HasOpen(q) => proc'[q] = proc[q]
                 /\ proc[q].stage \in {"stamping", "on"} => Db(q)' = Db(q)
<1>1. db' = EmptyIndex
  BY Zenon DEF RemoveDb
<1>2. /\ proc'[p].stage = stage /\ ~proc'[p].own /\ proc'[p].server = proc[p].server
      /\ proc'[p].dir = proc[p].dir /\ proc'[p].old = proc[p].old
  <2>1. proc'[p] = [proc[p] EXCEPT !.stage = stage, !.own = FALSE, !.mine = EmptyIndex]
    BY Zenon DEF RemoveDb
  <2>2. proc[p] \in Proc
    BY DEF Typed
  <2> QED
    BY <2>1, <2>2 DEF Proc
<1>3. ASSUME NEW q \in Procs \ {p}
      PROVE  /\ proc'[q].server = proc[q].server /\ proc'[q].dir = proc[q].dir
             /\ proc'[q].old = proc[q].old /\ proc'[q].stage = proc[q].stage
             /\ HasOpen(q) => proc'[q].own /\ proc'[q].mine = db
             /\ ~HasOpen(q) => proc'[q] = proc[q]
             /\ proc[q].stage \in {"stamping", "on"} => Db(q)' = Db(q)
  <2>1. proc[q] \in Proc
    BY DEF Typed
  <2>2. CASE HasOpen(q)
    <3>1. proc'[q] = [proc[q] EXCEPT !.own = TRUE, !.mine = db]
      BY <2>2, Zenon DEF RemoveDb
    <3>2. /\ proc'[q].server = proc[q].server /\ proc'[q].dir = proc[q].dir
          /\ proc'[q].old = proc[q].old /\ proc'[q].stage = proc[q].stage
          /\ proc'[q].own /\ proc'[q].mine = db
      BY <2>1, <3>1 DEF Proc
    <3> QED
      BY <2>2, <3>2 DEF Db, HasOpen
  <2>3. CASE ~HasOpen(q)
    <3>1. proc'[q] = proc[q]
      BY <2>3, Zenon DEF RemoveDb
    <3>2. proc[q].stage \in {"stamping", "on"} => proc[q].own
      BY <2>3 DEF HasOpen
    <3> QED
      BY <2>3, <3>1, <3>2 DEF Db
  <2> QED
    BY <2>2, <2>3
<1> QED
  BY <1>1, <1>2, <1>3

\* Who works with the profile is alone, by the lock or by the screen it shows.
LEMMA Alone ==
    ASSUME Core, OneAtATime, NEW p \in Procs, NEW q \in Procs,
           proc[p].stage \in Held \cup {"leaving"}, proc[q].stage \in Held \cup {"leaving"}
    PROVE  p = q
BY DEF Core, Typed, LockRules, OneAtATime, Held

-----------------------------------------------------------------------------
(* What a step leaves of the folders.                                      *)

\* No new use of a folder, nothing new on disk.
LEMMA FewerUses ==
    ASSUME OneFolder, NamedFolders, CleanFolders, disk' = disk,
           \A s \in Servers, d \in Dirs : Uses(s, d)' => Uses(s, d)
    PROVE  OneFolder' /\ NamedFolders' /\ CleanFolders'
<1>1. OneFolder'
  BY DEF OneFolder
<1>2. Servers \subseteq Dirs
  BY DEF Dirs
<1> QED
  BY <1>1, <1>2 DEF NamedFolders, CleanFolders

LEMMA SameUses ==
    ASSUME config' = config,
           \A q \in Procs : \/ proc'[q].server = None
                            \/ /\ proc'[q].server = proc[q].server
                               /\ proc'[q].dir = proc[q].dir
    PROVE  \A s \in Servers, d \in Dirs : Uses(s, d)' => Uses(s, d)
BY ConstantAssumption DEF Uses

LEMMA SameRelies ==
    ASSUME config' = config,
           \A q \in Procs : \/ proc'[q].server = None
                            \/ /\ proc'[q].server = proc[q].server
                               /\ proc'[q].dir = proc[q].dir
                               /\ proc[q].stage \in {"asking", "resetting"}
                                    => proc'[q].stage \in {"asking", "resetting"}
    PROVE  \A s \in Servers, d \in Dirs : Relies(s, d)' => Relies(s, d)
BY ConstantAssumption DEF Relies

LEMMA ReliesUses == \A s, d : Relies(s, d) => Uses(s, d)
BY DEF Relies, Uses
-----------------------------------------------------------------------------
(* The steps.                                                              *)

LEMMA Idles == ASSUME PInv, NEW p \in Procs, proc[p].stage = "idle"
               PROVE  proc[p].server = None /\ ~proc[p].own
BY DEF PInv, Rest, OneAtATime, Stamped, IInv, Core, Typed, Proc

\* A process goes on with what it has.
LEMMA MoveStep ==
    ASSUME PInv, NEW p \in Procs, NEW stage \in Stages, Go(p, stage),
           UNCHANGED <<app, config, db, disk, got>>, ~proc[p].own,
           stage \notin {"idle", "on", "clearing", "reopening", "leaving"},
           stage \in {"asking", "resetting", "saving"} <=> Pairing(p),
           At(p, "idle") /\ app = "desktop" => \A q \in Procs : At(q, "idle"),
           stage = "stamping" => db.rows \subseteq {proc[p].server},
           app = "daemon" /\ stage = "saving" => proc[p].old \in {None, proc[p].server}
    PROVE  Rest'
<1>0. Typed
  BY DEF PInv, IInv, Core
<1>1. /\ proc'[p].stage = stage /\ proc'[p].server = proc[p].server
      /\ proc'[p].dir = proc[p].dir /\ proc'[p].old = proc[p].old
      /\ proc'[p].own = proc[p].own
      /\ \A q \in Procs \ {p} : proc'[q] = proc[q]
  BY <1>0, GoFields
<1>2. OneAtATime'
  BY <1>1 DEF PInv, Rest, OneAtATime, Pairing, At
<1>3. Stamped'
  <2>1. Db(p)' = db' /\ Db(p) = db
    BY <1>1 DEF Db
  <2>2. \A q \in Procs \ {p} : Db(q)' = Db(q)
    BY <1>1 DEF Db
  <2> QED
    BY <1>1, <2>1, <2>2 DEF PInv, Rest, Stamped
<1>4. OwnFiles'
  BY DEF PInv, Rest, OwnFiles
<1>5. ASSUME app = "daemon"
      PROVE  Folders'
  <2>0. OneFolder /\ NamedFolders /\ CleanFolders /\ NothingYet /\ IndexInFolder
    BY <1>5 DEF PInv, Rest, Folders
  <2>1. \A s \in Servers, d \in Dirs : Uses(s, d)' => Uses(s, d)
    BY <1>1, SameUses
  <2>2. OneFolder' /\ NamedFolders' /\ CleanFolders'
    BY <2>0, <2>1, FewerUses
  <2>3. NothingYet'
    BY <1>1, <2>0 DEF NothingYet, Pairing, At
  <2>4. ASSUME NEW s \in Servers, NEW d \in Dirs, Relies(s, d)', s \in db.rows
        PROVE  s \in disk[d]
    <3>1. CASE Relies(s, d)
      BY <2>0, <2>4, <3>1 DEF IndexInFolder
    <3>2. CASE ~Relies(s, d)
      <4>1. /\ proc[p].server = s /\ proc[p].dir = d /\ stage = "saving" /\ Pairing(p)
        BY <1>1, <2>4, <3>2 DEF Relies, Pairing, At
      <4>2. proc[p].old = config.server
        BY <1>5, <4>1 DEF PInv, Rest, OneAtATime
      <4>3. CASE config.server = None
        <5>1. config = NoConfig
          BY <4>3, ConstantAssumption DEF PInv, IInv, HasServer
        <5> QED
          BY <2>0, <2>4, <5>1 DEF NothingYet, EmptyIndex
      <4>4. CASE config.server = s
        <5>1. config.dir \in Dirs
          BY <1>0 DEF Typed, Config
        <5>2. config.dir = d
          BY <2>0, <4>1, <4>4, <5>1 DEF OneFolder, Uses
        <5>3. Relies(s, d)
          BY <4>4, <5>2 DEF Relies
        <5> QED
          BY <3>2, <5>3
      <4> QED
        BY <1>5, <4>1, <4>2, <4>3, <4>4
    <3> QED
      BY <3>1, <3>2
  <2>5. IndexInFolder'
    BY <1>1, <2>0, <2>4 DEF IndexInFolder
  <2> QED
    BY <2>2, <2>3, <2>5 DEF Folders
<1> QED
  BY <1>2, <1>3, <1>4, <1>5 DEF Rest

\* A process ends.
LEMMA ExitStep ==
    ASSUME PInv, NEW p \in Procs, Exit(p), UNCHANGED <<app, config, db, disk, got>>
    PROVE  Rest'
<1>0. Typed
  BY DEF PInv, IInv, Core
<1>1. /\ proc'[p].stage = "idle" /\ proc'[p].server = None /\ ~proc'[p].own
      /\ \A q \in Procs \ {p} : proc'[q] = proc[q]
  BY <1>0, ExitFields
<1>2. OneAtATime'
  BY <1>1 DEF PInv, Rest, OneAtATime, Pairing, At
<1>3. Stamped'
  <2>1. \A q \in Procs \ {p} : Db(q)' = Db(q)
    BY <1>1 DEF Db
  <2> QED
    BY <1>1, <2>1 DEF PInv, Rest, Stamped
<1>4. OwnFiles'
  BY DEF PInv, Rest, OwnFiles
<1>5. ASSUME app = "daemon"
      PROVE  Folders'
  <2>0. OneFolder /\ NamedFolders /\ CleanFolders /\ NothingYet /\ IndexInFolder
    BY <1>5 DEF PInv, Rest, Folders
  <2>1. \A s \in Servers, d \in Dirs : Uses(s, d)' => Uses(s, d)
    BY <1>1, SameUses
  <2>2. OneFolder' /\ NamedFolders' /\ CleanFolders'
    BY <2>0, <2>1, FewerUses
  <2>3. NothingYet'
    BY <1>1, <2>0 DEF NothingYet, Pairing, At
  <2>4. \A s \in Servers, d \in Dirs : Relies(s, d)' => Relies(s, d)
    BY <1>1, SameRelies
  <2>5. IndexInFolder'
    BY <1>1, <2>0, <2>4 DEF IndexInFolder
  <2> QED
    BY <2>2, <2>3, <2>5 DEF Folders
<1> QED
  BY <1>2, <1>3, <1>4, <1>5 DEF Rest

\* The user names a folder that is no other server's, or none: then the folder is
\* the one the server has, the default one of a new profile, or one named after it.
LEMMA PairStep ==
    ASSUME PInv, mishaps' = {}, NEW p \in Procs, NEW s \in Servers, NEW given \in Picked \cup {None},
           Pair(p, s, given)
    PROVE  Rest'
<1>0. Typed /\ UNCHANGED <<app, config, db, disk, got>> /\ proc[p].stage = "idle"
  BY DEF PInv, IInv, Core, Pair, At
<1> DEFINE d == IF app = "daemon" THEN Resolve(given, config.server, s) ELSE Default
<1>1. /\ proc'[p].stage = "asking" /\ proc'[p].server = s /\ proc'[p].dir = d
      /\ proc'[p].old = config.server /\ ~proc'[p].own
      /\ \A q \in Procs \ {p} : proc'[q] = proc[q]
  BY <1>0 DEF Pair, Typed, Idle
<1>2. OneAtATime'
  <2>1. app = "daemon" => \A q \in Procs : ~Pairing(q)
    BY DEF Pair, Overlaps
  <2>2. app = "desktop" => \A q \in Procs : proc[q].stage = "idle"
    BY <1>0 DEF Pair, Overlaps, At
  <2> QED
    BY <1>0, <1>1, <2>1, <2>2 DEF PInv, Rest, OneAtATime, Pairing, At
<1>3. Stamped'
  <2>1. \A q \in Procs \ {p} : Db(q)' = Db(q)
    BY <1>0, <1>1 DEF Db
  <2> QED
    BY <1>0, <1>1, <2>1 DEF PInv, Rest, Stamped
<1>4. OwnFiles'
  BY <1>0 DEF PInv, Rest, OwnFiles
<1>5. ASSUME app = "daemon"
      PROVE  Folders'
  <2>0. /\ OneFolder /\ NamedFolders /\ CleanFolders /\ NothingYet /\ IndexInFolder
        /\ d = Resolve(given, config.server, s) /\ d \in Dirs /\ config.dir \in Dirs
        /\ \A q \in Procs : proc[q].server # None => ~At(q, "idle") /\ proc[q].dir \in Dirs
    <3>1. Resolve(given, config.server, s) \in Dirs
      BY ConstantAssumption DEF Resolve, Dirs
    <3> QED
      BY <1>0, <1>5, <3>1 DEF PInv, Rest, Folders, OneAtATime, At, Typed, Config, Proc
  <2>1. SameDir(s, given) /\ (given # None => MayName(given, s)) /\ \A q \in Procs : ~Pairing(q)
    BY <1>5 DEF Pair, Overlaps, OtherDir
  <2>2. /\ \A t \in Servers, e \in Dirs : Uses(t, e) => (t = s <=> e = d)
        /\ d \in Servers => d = s
        /\ disk[d] \subseteq {s}
    <3>1. \A e \in Dirs : Uses(s, e) => config.server = s /\ e = config.dir
      BY <2>0, <2>1, ConstantAssumption DEF SameDir, Uses
    <3>2. CASE given # None
      <4>1. d = given /\ d \in Picked
        BY <2>0, <3>2 DEF Resolve
      <4>2. \A t \in Servers, e \in Dirs : Uses(t, e) /\ e = d => t = s
        BY <2>0, <2>1, <3>2, <4>1, ConstantAssumption DEF MayName, Uses
      <4>3. \A e \in Dirs : Uses(s, e) => e = d
        BY <2>1, <3>1, <3>2, <4>1 DEF SameDir
      <4> QED
        BY <2>1, <3>2, <4>1, <4>2, <4>3, ConstantAssumption DEF MayName
    <3>3. CASE given = None /\ config.server = s
      <4>1. d = Default /\ config.dir = Default
        BY <2>0, <2>1, <3>3 DEF Resolve, SameDir
      <4>2. Uses(s, d)
        BY <3>3, <4>1 DEF Uses
      <4> QED
        BY <2>0, <4>1, <4>2, ConstantAssumption DEF OneFolder, CleanFolders
    <3>4. CASE given = None /\ config.server = None
      <4>1. d = Default
        BY <2>0, <3>4 DEF Resolve
      <4>2. config = NoConfig
        BY <3>4, ConstantAssumption DEF PInv, IInv, HasServer
      <4>3. \A t \in Servers, e \in Dirs : ~Uses(t, e)
        BY <2>0, <2>1, <3>4, <4>2, ConstantAssumption DEF NothingYet, Uses
      <4> QED
        BY <2>0, <4>1, <4>2, <4>3, ConstantAssumption DEF NothingYet
    <3>5. CASE given = None /\ config.server \notin {None, s}
      <4>1. d = s
        BY <2>0, <3>5 DEF Resolve
      <4> QED
        BY <2>0, <3>1, <3>5, <4>1 DEF NamedFolders
    <3> QED
      BY <3>2, <3>3, <3>4, <3>5
  <2>3. \A t \in Servers, e \in Dirs : Uses(t, e)' => Uses(t, e) \/ (t = s /\ e = d)
    BY <1>0, <1>1, ConstantAssumption DEF Uses
  <2>4. OneFolder'
    BY <2>0, <2>2, <2>3 DEF OneFolder
  <2>5. NamedFolders' /\ CleanFolders'
    <3>1. Servers \subseteq Dirs
      BY DEF Dirs
    <3> QED
      BY <1>0, <2>0, <2>2, <2>3, <3>1 DEF NamedFolders, CleanFolders
  <2>6. NothingYet'
    BY <1>0, <1>1, <2>0 DEF NothingYet, Pairing, At
  <2>7. \A t \in Servers, e \in Dirs : Relies(t, e)' => Relies(t, e)
    BY <1>0, <1>1 DEF Relies
  <2>8. IndexInFolder'
    BY <1>0, <1>1, <2>0, <2>7 DEF IndexInFolder
  <2> QED
    BY <2>4, <2>5, <2>6, <2>8 DEF Folders
<1> QED
  BY <1>0, <1>2, <1>3, <1>4, <1>5 DEF Rest

\* The configuration takes over the folder of the pairing.
LEMMA SaveStep ==
    ASSUME PInv, NEW p \in Procs, Save(p)
    PROVE  Rest'
<1>0. /\ Typed /\ UNCHANGED <<app, db, disk, got>> /\ proc[p].stage = "saving"
      /\ config'.server = proc[p].server /\ config'.dir = proc[p].dir
      /\ proc[p].server \in Servers /\ ~proc[p].own
  BY DEF PInv, IInv, Core, HasServer, Knowing, Rest, Stamped, Save, At
<1>1. /\ \A q \in Procs \ {p} : proc'[q] = proc[q]
      /\ app = "daemon" => proc'[p].stage = "idle" /\ proc'[p].server = None
      /\ app = "desktop" => proc'[p].stage = "loading"
      /\ ~proc'[p].own
  <2>1. CASE app = "daemon"
    BY <1>0, <2>1, ExitFields DEF Save
  <2>2. CASE app = "desktop"
    BY <1>0, <2>2, GoFields DEF Save
  <2> QED
    BY <1>0, <2>1, <2>2 DEF Typed
<1>2. /\ app = "daemon" => \A q \in Procs : Pairing(q) => q = p
      /\ app = "desktop" => \A q \in Procs : proc[q].stage # "idle" => q = p
  BY <1>0 DEF PInv, Rest, OneAtATime, Pairing, At
<1>3. OneAtATime'
  <2>0. OneAtATime /\ app \in {"daemon", "desktop"}
    BY <1>0 DEF PInv, Rest, Typed
  <2>1. CASE app = "daemon"
    <3>1. \A q \in Procs : ~Pairing(q)'
      BY <1>1, <1>2, <2>1 DEF Pairing, At
    <3> QED
      BY <1>0, <1>1, <2>0, <2>1, <3>1 DEF OneAtATime
  <2>2. CASE app = "desktop"
    BY <1>0, <1>1, <1>2, <2>0, <2>2 DEF OneAtATime
  <2> QED
    BY <2>0, <2>1, <2>2
<1>4. Stamped'
  <2>1. \A q \in Procs \ {p} : Db(q)' = Db(q)
    BY <1>0, <1>1 DEF Db
  <2>2. \A q \in Procs \ {p} : proc[q].stage \notin {"clearing", "leaving"}
    BY <1>0, <1>2 DEF PInv, IInv, Core, Typed, LockRules, Rest, Stamped
  <2>3. proc'[p].stage \in {"idle", "loading"}
    BY <1>0, <1>1 DEF Typed
  <2> QED
    BY <1>0, <1>1, <2>1, <2>2, <2>3 DEF PInv, Rest, Stamped
<1>5. OwnFiles'
  BY <1>0 DEF PInv, Rest, OwnFiles
<1>6. ASSUME app = "daemon"
      PROVE  Folders'
  <2>0. OneFolder /\ NamedFolders /\ CleanFolders /\ IndexInFolder
    BY <1>6 DEF PInv, Rest, Folders
  <2>1. \A s \in Servers, d \in Dirs : Uses(s, d)' => Uses(s, d)
    BY <1>0, <1>1, <1>6, ConstantAssumption DEF Uses
  <2>2. OneFolder' /\ NamedFolders' /\ CleanFolders'
    BY <1>0, <2>0, <2>1, FewerUses
  <2>3. NothingYet'
    BY <1>0, ConstantAssumption DEF NothingYet, NoConfig
  <2>4. \A s \in Servers, d \in Dirs : Relies(s, d)' => Relies(s, d)
    BY <1>0, <1>1, <1>6, ConstantAssumption DEF Relies
  <2>5. IndexInFolder'
    BY <1>0, <1>1, <2>0, <2>4 DEF IndexInFolder
  <2> QED
    BY <2>2, <2>3, <2>5 DEF Folders
<1> QED
  BY <1>0, <1>3, <1>4, <1>5, <1>6 DEF Rest

\* Only the desktop's configuration can be cut, and then nothing else goes on.
LEMMA CutSaveStep ==
    ASSUME PInv, mishaps' = {}, NEW p \in Procs, CutSave(p)
    PROVE  Rest'
<1>0. /\ Typed /\ app = "desktop" /\ UNCHANGED <<app, db, disk, got>>
      /\ proc[p].stage = "saving" /\ config' = NoConfig
  BY DEF PInv, IInv, Core, Typed, CutSave, At
<1>1. /\ proc'[p].stage = "idle" /\ proc'[p].server = None /\ ~proc'[p].own
      /\ \A q \in Procs \ {p} : proc'[q] = proc[q]
  BY <1>0, ExitFields DEF CutSave
<1>2. OneAtATime'
  BY <1>0, <1>1 DEF PInv, Rest, OneAtATime
<1>3. Stamped'
  <2>1. \A q \in Procs \ {p} : Db(q)' = Db(q)
    BY <1>0, <1>1 DEF Db
  <2> QED
    BY <1>0, <1>1, <2>1 DEF PInv, Rest, Stamped
<1>4. OwnFiles'
  BY <1>0 DEF PInv, Rest, OwnFiles
<1> QED
  BY <1>0, <1>2, <1>3, <1>4 DEF Rest

LEMMA LoadStep ==
    ASSUME PInv, NEW p \in Procs, Load(p)
    PROVE  Rest'
<1>0. Typed /\ UNCHANGED <<app, config, db, disk, got>> /\ proc[p].stage = "loading"
  BY DEF PInv, IInv, Core, Load, At
<1>1. CASE config = NoConfig
  BY <1>0, <1>1, ExitStep DEF Load
<1>2. CASE config # NoConfig
  <2>1. /\ proc'[p].stage = "opening" /\ proc'[p].server = config.server
        /\ proc'[p].dir = config.dir /\ proc'[p].own = proc[p].own
        /\ \A q \in Procs \ {p} : proc'[q] = proc[q]
    BY <1>0, <1>2 DEF Load, Typed, Proc
  <2>2. OneAtATime'
    BY <1>0, <2>1 DEF PInv, Rest, OneAtATime, Pairing, At
  <2>3. Stamped'
    <3>1. \A q \in Procs \ {p} : Db(q)' = Db(q)
      BY <1>0, <2>1 DEF Db
    <3> QED
      BY <1>0, <2>1, <3>1 DEF PInv, Rest, Stamped
  <2>4. OwnFiles'
    BY <1>0 DEF PInv, Rest, OwnFiles
  <2>5. ASSUME app = "daemon"
        PROVE  Folders'
    <3>0. OneFolder /\ NamedFolders /\ CleanFolders /\ NothingYet /\ IndexInFolder
      BY <2>5 DEF PInv, Rest, Folders
    <3>1. \A s \in Servers, d \in Dirs : Uses(s, d)' => Uses(s, d)
      BY <1>0, <2>1 DEF Uses
    <3>2. OneFolder' /\ NamedFolders' /\ CleanFolders'
      BY <1>0, <3>0, <3>1, FewerUses
    <3>3. NothingYet'
      BY <1>0, <1>2 DEF NothingYet
    <3>4. \A s \in Servers, d \in Dirs : Relies(s, d)' => Relies(s, d)
      BY <1>0, <2>1 DEF Relies
    <3>5. ~proc[p].own
      BY <1>0 DEF PInv, Rest, Stamped
    <3>6. IndexInFolder'
      BY <1>0, <2>1, <3>0, <3>4, <3>5 DEF IndexInFolder
    <3> QED
      BY <3>2, <3>3, <3>6 DEF Folders
  <2> QED
    BY <1>0, <2>2, <2>3, <2>4, <2>5 DEF Rest
<1> QED
  BY <1>1, <1>2

\* Whoever has the index open keeps what is in it; the next finds nothing.
LEMMA RemoveDbStep ==
    ASSUME PInv, NEW p \in Procs, NEW stage, RemoveDb(p, stage),
           UNCHANGED <<app, config, disk, got>>,
           \/ proc[p].stage = "resetting" /\ stage = "saving"
           \/ proc[p].stage = "removing" /\ stage = "reopening"
           \/ /\ proc[p].stage \in {"removing", "leaving"} /\ stage = "clearing"
              /\ app = "desktop"
    PROVE  Rest'
<1>0. Typed
  BY DEF PInv, IInv, Core
<1>1. /\ db' = EmptyIndex
      /\ proc'[p].stage = stage /\ ~proc'[p].own
      /\ \A q \in Procs : /\ proc'[q].server = proc[q].server
                          /\ proc'[q].dir = proc[q].dir /\ proc'[q].old = proc[q].old
      /\ \A q \in Procs \ {p} :
            /\ proc'[q].stage = proc[q].stage
            /\ HasOpen(q) => proc'[q].own /\ proc'[q].mine = db
            /\ ~HasOpen(q) => proc'[q] = proc[q]
            /\ proc[q].stage \in {"stamping", "on"} => Db(q)' = Db(q)
  BY <1>0, RemoveDbFields
<1>2. OneAtATime'
  BY <1>1 DEF PInv, Rest, OneAtATime, Pairing, At
<1>3. Stamped'
  <2>1. \A q \in Procs \ {p} : proc'[q].own => proc'[q].stage \in {"stamping", "on"}
    BY <1>1 DEF HasOpen, PInv, Rest, Stamped
  <2>2. db'.rows = {} /\ db'.stamp = None
    BY <1>1 DEF EmptyIndex
  <2>3. proc[p].stage # "leaving" => proc[p].server \in Servers
    BY DEF PInv, IInv, HasServer, Knowing
  <2>4. stage = "clearing" /\ proc[p].server = None => config = NoConfig
    BY <2>3, ConstantAssumption DEF PInv, Rest, Stamped
  <2>5. \A q \in Procs : proc[q].stage = "clearing" => app = "desktop"
    BY DEF PInv, Rest, Stamped
  <2>6. \A q \in Procs \ {p} :
            /\ proc[q].stage \in {"stamping", "on"} => Db(q).rows \subseteq {proc[q].server}
            /\ proc[q].stage = "on" => Db(q).stamp = proc[q].server
            /\ proc[q].stage = "leaving" \/ (proc[q].stage = "clearing" /\ proc[q].server = None)
                 => config = NoConfig
    BY DEF PInv, Rest, Stamped
  <2> QED
    BY <1>1, <2>1, <2>2, <2>4, <2>5, <2>6 DEF Stamped
<1>4. OwnFiles'
  BY DEF PInv, Rest, OwnFiles
<1>5. ASSUME app = "daemon"
      PROVE  Folders'
  <2>0. OneFolder /\ NamedFolders /\ CleanFolders /\ NothingYet /\ IndexInFolder
    BY <1>5 DEF PInv, Rest, Folders
  <2>1. \A s \in Servers, d \in Dirs : Uses(s, d)' => Uses(s, d)
    BY <1>1, SameUses
  <2>2. OneFolder' /\ NamedFolders' /\ CleanFolders'
    BY <2>0, <2>1, FewerUses
  <2>3. NothingYet'
    <3>1. proc[p].server # None /\ Pairing(p) => stage = "saving"
      BY DEF Pairing, At
    <3> QED
      BY <1>1, <2>0, <3>1 DEF NothingYet, Pairing, At
  <2>4. \A q \in Procs \ {p} : HasOpen(q) => db.rows \subseteq disk[proc[q].dir]
    <3>1. SUFFICES ASSUME NEW q \in Procs \ {p}, HasOpen(q)
                   PROVE  db.rows \subseteq disk[proc[q].dir]
      OBVIOUS
    <3>2. proc[q].stage \in {"stamping", "on"} /\ Db(q) = db
      BY <3>1 DEF HasOpen, Db
    <3>3. proc[q].server \in Servers /\ proc[q].dir \in Dirs
      BY <1>0, <3>2 DEF PInv, IInv, HasServer, Knowing, Typed, Proc
    <3>4. db.rows \subseteq {proc[q].server}
      BY <3>2 DEF PInv, Rest, Stamped
    <3>5. Relies(proc[q].server, proc[q].dir)
      BY <3>2 DEF Relies
    <3> QED
      BY <2>0, <3>3, <3>4, <3>5 DEF IndexInFolder
  <2>5. IndexInFolder'
    <3>1. db'.rows = {}
      BY <1>1 DEF EmptyIndex
    <3>2. \A q \in Procs : proc'[q].own => proc'[q].mine.rows \subseteq disk[proc'[q].dir]
      BY <1>1, <2>0, <2>4 DEF IndexInFolder
    <3> QED
      BY <3>1, <3>2 DEF IndexInFolder
  <2> QED
    BY <2>2, <2>3, <2>5 DEF Folders
<1> QED
  BY <1>2, <1>3, <1>4, <1>5 DEF Rest

\* Clear, of the desktop only.
LEMMA ClearStep ==
    ASSUME PInv, NEW p \in Procs, Clear(p)
    PROVE  Rest'
<1>0. /\ Typed /\ UNCHANGED <<app, config, db, got>> /\ proc[p].stage = "clearing"
      /\ app = "desktop" /\ db = EmptyIndex /\ ~proc[p].own
  BY DEF PInv, IInv, Core, Rest, Stamped, Clear, At
<1>1. /\ proc'[p].stage \in {"idle", "reopening"} /\ ~proc'[p].own
      /\ proc'[p].stage = "idle" => proc'[p].server = None
      /\ \A q \in Procs \ {p} : proc'[q] = proc[q]
  <2>1. CASE Exit(p)
    BY <1>0, <2>1, ExitFields
  <2>2. CASE Go(p, "reopening")
    BY <1>0, <2>2, GoFields
  <2> QED
    BY <2>1, <2>2 DEF Clear
<1>2. OneAtATime'
  BY <1>0, <1>1 DEF PInv, Rest, OneAtATime
<1>3. Stamped'
  <2>1. \A q \in Procs \ {p} : Db(q)' = Db(q)
    BY <1>0, <1>1 DEF Db
  <2> QED
    BY <1>0, <1>1, <2>1 DEF PInv, Rest, Stamped
<1>4. OwnFiles'
  BY <1>0 DEF PInv, Rest, OwnFiles
<1> QED
  BY <1>0, <1>2, <1>3, <1>4 DEF Rest

\* Who stamps or fills the index it has open: it is of its server from then on, and
\* what it has is in the folder.
LEMMA IndexStep ==
    ASSUME PInv, NEW p \in Procs, NEW x \in Index, SetDb(p, x, "on"),
           proc[p].stage \in {"stamping", "on"}, UNCHANGED <<app, config, got>>,
           x.stamp = proc[p].server, x.rows \subseteq {proc[p].server},
           app = "daemon" =>
               /\ disk' \in {disk, [disk EXCEPT ![proc[p].dir] = {proc[p].server}]}
               /\ x.rows \subseteq disk'[proc[p].dir]
    PROVE  Rest'
<1> DEFINE s == proc[p].server
           d == proc[p].dir
<1>0. Typed /\ s \in Servers /\ d \in Dirs /\ disk \in [Dirs -> SUBSET Servers]
  BY DEF PInv, IInv, Core, HasServer, Knowing, Typed, Proc
<1>1. /\ proc'[p].stage = "on" /\ proc'[p].server = s
      /\ proc'[p].dir = d /\ proc'[p].old = proc[p].old
      /\ proc'[p].own = proc[p].own /\ Db(p)' = x
      /\ IF proc[p].own THEN db' = db /\ proc'[p].mine = x ELSE db' = x
      /\ \A q \in Procs \ {p} : proc'[q] = proc[q]
  BY <1>0, SetDbFields
<1>2. \A q \in Procs \ {p} : proc[q].stage \notin Held \cup {"leaving"}
  BY Alone DEF PInv, IInv, Rest, Held
<1>3. OneAtATime'
  BY <1>1 DEF PInv, Rest, OneAtATime, Pairing, At
<1>4. Stamped'
  <2>1. db'.stamp # None \/ app = "daemon" => db'.rows \subseteq {db'.stamp}
    BY <1>1 DEF PInv, Rest, Stamped
  <2>2. \A q \in Procs \ {p} : ~proc[q].own
    BY <1>2 DEF PInv, Rest, Stamped, Held
  <2> QED
    BY <1>1, <1>2, <2>1, <2>2 DEF Stamped, Held
<1>5. OwnFiles'
  BY DEF PInv, Rest, OwnFiles
<1>6. ASSUME app = "daemon"
      PROVE  Folders'
  <2>0. OneFolder /\ NamedFolders /\ CleanFolders /\ NothingYet /\ IndexInFolder
    BY <1>6 DEF PInv, Rest, Folders
  <2>1. Uses(s, d) /\ Servers \subseteq Dirs
    BY DEF Uses, Dirs
  <2>2. \A t \in Servers, e \in Dirs : Uses(t, e)' => Uses(t, e)
    BY <1>1, SameUses
  <2>3. \A e \in Dirs : disk'[e] = disk[e] \/ (e = d /\ disk'[e] = {s})
    BY <1>0, <1>6
  <2>4. OneFolder'
    BY <2>0, <2>2 DEF OneFolder
  <2>5. NamedFolders' /\ CleanFolders'
    <3>1. \A t \in Servers, e \in Dirs : Uses(t, e) => disk'[e] \subseteq {t}
      BY <1>0, <2>0, <2>1, <2>3 DEF CleanFolders, OneFolder
    <3>2. \A e \in Servers : disk'[e] \subseteq {e}
      BY <1>0, <2>0, <2>1, <2>3 DEF NamedFolders
    <3>3. CleanFolders'
      BY <2>2, <3>1 DEF CleanFolders
    <3>4. \A t \in Servers, e \in Servers : Uses(t, e)' => t = e
      BY <2>0, <2>1, <2>2 DEF NamedFolders
    <3> QED
      BY <3>2, <3>3, <3>4 DEF NamedFolders
  <2>6. NothingYet'
    BY <1>0, <2>0, ConstantAssumption DEF NothingYet, Pairing, At
  <2>7. \A e \in Dirs : disk[e] \subseteq disk'[e]
    BY <1>0, <2>0, <2>1, <2>3 DEF CleanFolders
  <2>8. \A t \in Servers, e \in Dirs : Relies(t, e)' => Relies(t, e)
    BY <1>1, SameRelies
  <2>9. IndexInFolder'
    <3>1. ASSUME NEW t \in Servers, NEW e \in Dirs, Relies(t, e)', t \in db'.rows
          PROVE  t \in disk'[e]
      <4>1. CASE db' = db
        BY <2>0, <2>7, <2>8, <3>1, <4>1 DEF IndexInFolder
      <4>2. CASE db' = x
        <5>1. t = s /\ Uses(s, e)
          BY <2>8, <3>1, <4>2, ReliesUses
        <5>2. e = d
          BY <1>0, <2>0, <2>1, <5>1 DEF OneFolder
        <5> QED
          BY <1>6, <3>1, <4>2, <5>2
      <4> QED
        BY <1>1, <4>1, <4>2
    <3>2. \A q \in Procs : proc'[q].own => proc'[q].mine.rows \subseteq disk'[proc'[q].dir]
      <4>1. \A q \in Procs \ {p} : ~proc[q].own
        BY <1>2 DEF PInv, Rest, Stamped, Held
      <4> QED
        BY <1>1, <1>6, <4>1
    <3> QED
      BY <3>1, <3>2 DEF IndexInFolder
  <2> QED
    BY <2>4, <2>5, <2>6, <2>9 DEF Folders
<1> QED
  BY <1>3, <1>4, <1>5, <1>6 DEF Rest

\* What a daemon has in the index it has open is in its folder.
LEMMA InFolder ==
    ASSUME PInv, NEW p \in Procs, proc[p].stage \in {"stamping", "on"}
    PROVE  /\ proc[p].server \in Servers /\ proc[p].dir \in Dirs /\ Db(p) \in Index
           /\ Db(p).rows \subseteq {proc[p].server}
           /\ app = "daemon" => Db(p).rows \subseteq disk[proc[p].dir]
<1>1. /\ proc[p].server \in Servers /\ proc[p].dir \in Dirs /\ Db(p) \in Index
      /\ Db(p).rows \subseteq {proc[p].server}
  BY DbTyped DEF PInv, IInv, Core, HasServer, Knowing, Typed, Proc, Rest, Stamped
<1>2. ASSUME app = "daemon"
      PROVE  Db(p).rows \subseteq disk[proc[p].dir]
  <2>1. IndexInFolder
    BY <1>2 DEF PInv, Rest, Folders
  <2>2. Relies(proc[p].server, proc[p].dir)
    BY DEF Relies
  <2>3. CASE proc[p].own
    BY <2>1, <2>3 DEF IndexInFolder, Db
  <2>4. CASE ~proc[p].own
    BY <1>1, <2>1, <2>2, <2>4 DEF IndexInFolder, Db
  <2> QED
    BY <2>3, <2>4
<1> QED
  BY <1>1, <1>2

\* A pass finds what it expects on the server and in the folder, so it changes
\* neither but to fill a folder that is empty.
LEMMA WorkStep ==
    ASSUME PInv, NEW p \in Procs, SetServerURL(p) \/ Pass(p) \/ Mirror(p) \/ Browse(p)
    PROVE  Rest'
<1> DEFINE s == proc[p].server
           d == proc[p].dir
<1>0. /\ Typed /\ OwnFiles /\ proc[p].stage \in {"stamping", "on"}
      /\ disk \in [Dirs -> SUBSET Servers] /\ got \in [Servers -> SUBSET Servers]
  BY DEF PInv, IInv, Core, Typed, Rest, SetServerURL, Pass, Mirror, Browse, At
<1>1. /\ s \in Servers /\ d \in Dirs /\ Db(p) \in Index /\ Db(p).rows \subseteq {s}
      /\ app = "daemon" => Db(p).rows \subseteq disk[d]
      /\ got[s] = {s}
  BY <1>0, InFolder DEF OwnFiles
<1>2. proc[p].stage = "on" => Db(p).stamp = s
  BY DEF PInv, Rest, Stamped
<1>3. CASE SetServerURL(p)
  <2> DEFINE x == [Db(p) EXCEPT !.stamp = s]
  <2>1. x \in Index /\ x.stamp = s /\ x.rows = Db(p).rows
    BY <1>1 DEF Index
  <2>2. SetDb(p, x, "on") /\ UNCHANGED <<app, config, got, disk>>
    BY <1>3 DEF SetServerURL
  <2> QED
    BY <1>0, <1>1, <2>1, <2>2, IndexStep
<1>4. CASE Pass(p)
  <2> DEFINE kept == (got[s] \ (Db(p).rows \ disk[d])) \cup disk[d]
             x == [Db(p) EXCEPT !.rows = kept]
  <2>1. app = "daemon" /\ proc[p].stage = "on" /\ SetDb(p, x, "on") /\ UNCHANGED <<app, config>>
    BY <1>4 DEF Pass, At
  <2>2. disk[d] \subseteq {s}
    <3>1. CleanFolders /\ Uses(s, d)
      BY <2>1 DEF PInv, Rest, Folders, Uses
    <3> QED
      BY <1>1, <3>1 DEF CleanFolders
  <2>3. kept = {s}
    BY <1>1, <2>1, <2>2
  <2>4. x \in Index /\ x.stamp = s /\ x.rows = {s}
    BY <1>1, <1>2, <2>1, <2>3 DEF Index
  <2>5. got' = got /\ disk' = [disk EXCEPT ![d] = {s}]
    <3>1. got' = [got EXCEPT ![s] = kept] /\ disk' = [disk EXCEPT ![d] = kept]
      BY <1>4 DEF Pass
    <3> QED
      BY <1>0, <1>1, <2>3, <3>1
  <2>6. x.rows \subseteq disk'[d]
    BY <1>0, <1>1, <2>4, <2>5
  <2> QED
    BY <1>0, <1>1, <2>1, <2>4, <2>5, <2>6, IndexStep
<1>5. CASE Mirror(p)
  <2> DEFINE x == [Db(p) EXCEPT !.rows = got[s]]
  <2>1. /\ proc[p].stage = "on" /\ SetDb(p, x, "on") /\ UNCHANGED <<app, config, got>>
        /\ disk' = [disk EXCEPT ![d] = {s}]
    BY <1>1, <1>5 DEF Mirror, At
  <2>2. x \in Index /\ x.stamp = s /\ x.rows = {s} /\ disk'[d] = {s}
    BY <1>0, <1>1, <1>2, <2>1 DEF Index
  <2> QED
    BY <1>0, <1>1, <2>1, <2>2, IndexStep
<1>6. CASE Browse(p)
  <2> DEFINE x == [Db(p) EXCEPT !.rows = @ \cup got[s]]
  <2>1. /\ app = "desktop" /\ proc[p].stage = "on" /\ SetDb(p, x, "on")
        /\ UNCHANGED <<app, config, got>>
    BY <1>6 DEF Browse, At
  <2>2. x \in Index /\ x.stamp = s /\ x.rows \subseteq {s}
    BY <1>1, <1>2, <2>1 DEF Index
  <2> QED
    BY <1>0, <1>1, <2>1, <2>2, IndexStep
<1> QED
  BY <1>3, <1>4, <1>5, <1>6

\* The desktop closes its index and has no configuration from then on.
LEMMA UnpairStep ==
    ASSUME PInv, NEW p \in Procs, Unpair(p)
    PROVE  Rest'
<1>0. /\ Typed /\ app = "desktop" /\ UNCHANGED <<app, db, disk, got>>
      /\ proc[p].stage = "on" /\ config' = NoConfig
  BY DEF PInv, IInv, Core, Unpair, At
<1>1. /\ proc'[p].stage = "leaving" /\ ~proc'[p].own
      /\ \A q \in Procs \ {p} : proc'[q] = proc[q]
  BY <1>0 DEF Unpair, Typed, Idle
<1>2. OneAtATime'
  BY <1>0, <1>1 DEF PInv, Rest, OneAtATime
<1>3. Stamped'
  <2>1. \A q \in Procs \ {p} : Db(q)' = Db(q)
    BY <1>0, <1>1 DEF Db
  <2> QED
    BY <1>0, <1>1, <2>1 DEF PInv, Rest, Stamped
<1>4. OwnFiles'
  BY <1>0 DEF PInv, Rest, OwnFiles
<1> QED
  BY <1>0, <1>2, <1>3, <1>4 DEF Rest
-----------------------------------------------------------------------------
(* Together.                                                               *)

LEMMA InitRest == Init => Rest
<1> SUFFICES ASSUME Init PROVE Rest
  OBVIOUS
<1>1. /\ \A p \in Procs : /\ proc[p].stage = "idle" /\ proc[p].server = None
                          /\ ~proc[p].own /\ ~Pairing(p)
      /\ \A d \in Dirs : disk[d] = {}
      /\ app = "daemon" => config = NoConfig
      /\ config = NoConfig \/ app = "desktop"
  BY DEF Init, Idle, Pairing, At
<1>2. OneAtATime
  BY <1>1 DEF OneAtATime
<1>3. Stamped
  BY <1>1 DEF Init, Stamped, EmptyIndex
<1>4. OwnFiles
  BY Zenon DEF Init, OwnFiles
<1>5. ASSUME app = "daemon"
      PROVE  Folders
  <2>1. db = EmptyIndex
    BY <1>5 DEF Init
  <2>2. \A s \in Servers, d \in Dirs : ~Uses(s, d) /\ ~Relies(s, d)
    BY <1>1, <1>5, ConstantAssumption DEF Uses, Relies, NoConfig
  <2>3. Servers \subseteq Dirs
    BY DEF Dirs
  <2> QED
    BY <1>1, <2>1, <2>2, <2>3
    DEF Folders, OneFolder, NamedFolders, CleanFolders, NothingYet, IndexInFolder
<1> QED
  BY <1>2, <1>3, <1>4, <1>5 DEF Rest

LEMMA RestStep ==
    ASSUME PInv, mishaps' = {}, [Next]_vars
    PROVE  Rest'
<1>0. /\ Typed /\ LockRules /\ Stamped
      /\ \A p \in Procs : proc[p].stage \notin {"stamping", "on"} => ~proc[p].own
  BY DEF PInv, IInv, Core, Rest, Stamped, Typed, Proc
<1>1. ASSUME NEW p \in Procs, Approved(p)
      PROVE  Rest'
  <2>1. PICK stage \in {"resetting", "saving"} :
          /\ Go(p, stage) /\ proc[p].stage = "asking" /\ UNCHANGED <<app, config, db, disk, got>>
          /\ app = "daemon" /\ stage = "saving" => proc[p].old \in {None, proc[p].server}
    BY <1>1 DEF Approved, At
  <2>2. stage \in Stages /\ Pairing(p)
    BY <2>1 DEF Stages, Pairing, At
  <2> QED
    BY <1>0, <2>1, <2>2, MoveStep DEF At
<1>2. ASSUME NEW p \in Procs, Start(p)
      PROVE  Rest'
  <2>1. PICK stage \in {"locked", "loading"} :
          /\ Go(p, stage) /\ proc[p].stage = "idle" /\ UNCHANGED <<app, config, db, disk, got>>
          /\ app = "desktop" => \A q \in Procs : At(q, "idle")
    <3>1. CASE app = "daemon"
      BY <1>2, <3>1 DEF Start, At
    <3>2. CASE app = "desktop"
      BY <1>2, <3>2 DEF Start, At
    <3> QED
      BY <1>0, <3>1, <3>2 DEF Typed
  <2>2. stage \in Stages /\ ~Pairing(p)
    BY <2>1 DEF Stages, Held, Pairing, At
  <2> QED
    BY <1>0, <2>1, <2>2, MoveStep
<1>3. ASSUME NEW p \in Procs, Foreground(p) \/ Detach(p)
      PROVE  Rest'
  <2>1. PICK stage \in {"loading", "starting"} :
          Go(p, stage) /\ proc[p].stage = "locked" /\ UNCHANGED <<app, config, db, disk, got>>
    BY <1>3 DEF Foreground, Detach, At
  <2>2. stage \in Stages /\ ~Pairing(p)
    BY <2>1 DEF Stages, Held, Pairing, At
  <2> QED
    BY <1>0, <2>1, <2>2, MoveStep DEF At
<1>4. ASSUME NEW p \in Procs, Relock(p)
      PROVE  Rest'
  <2>1. proc[p].stage = "starting" /\ UNCHANGED <<app, config, db, disk, got>>
    BY <1>4 DEF Relock, At
  <2>2. CASE Exit(p)
    BY <2>1, <2>2, ExitStep
  <2>3. CASE Go(p, "loading")
    <3>1. "loading" \in Stages /\ ~Pairing(p) /\ ~At(p, "idle")
      BY <2>1 DEF Stages, Held, Pairing, At
    <3> QED
      BY <1>0, <2>1, <2>3, <3>1, MoveStep
  <2> QED
    BY <1>4, <2>2, <2>3 DEF Relock
<1>5. ASSUME NEW p \in Procs, OpenIndex(p)
      PROVE  Rest'
  <2>1. PICK stage \in {"removing", "stamping"} :
          /\ Go(p, stage) /\ proc[p].stage = "opening" /\ UNCHANGED <<app, config, db, disk, got>>
          /\ stage = "stamping" => ~Suspect(p)
    BY <1>5 DEF OpenIndex, At
  <2>2. stage \in Stages /\ ~Pairing(p) /\ ~At(p, "idle")
    BY <2>1 DEF Stages, Held, Pairing, At
  <2>3. ASSUME ~Suspect(p)
        PROVE  db.rows \subseteq {proc[p].server}
    <3>1. db.rows \subseteq Servers
      BY <1>0 DEF Typed, Index
    <3>2. CASE db.stamp = None
      BY <1>0, <2>3, <3>1, <3>2, ConstantAssumption DEF Suspect, Stamped, Typed
    <3>3. CASE db.stamp # None
      BY <1>0, <2>3, <3>3 DEF Suspect, Stamped
    <3> QED
      BY <3>2, <3>3
  <2> QED
    BY <1>0, <2>1, <2>2, <2>3, MoveStep
<1>6. ASSUME NEW p \in Procs, Reopen(p)
      PROVE  Rest'
  <2>1. /\ Go(p, "stamping") /\ proc[p].stage = "reopening"
        /\ UNCHANGED <<app, config, db, disk, got>>
    BY <1>6 DEF Reopen, At
  <2>2. "stamping" \in Stages /\ ~Pairing(p) /\ ~At(p, "idle")
    BY <2>1 DEF Stages, Held, Pairing, At
  <2>3. db.rows = {}
    BY <1>0, <2>1 DEF Stamped, EmptyIndex
  <2> QED
    BY <1>0, <2>1, <2>2, <2>3, MoveStep
<1>7. ASSUME NEW p \in Procs, Reset(p)
      PROVE  Rest'
  <2>1. /\ RemoveDb(p, "saving") /\ proc[p].stage = "resetting"
        /\ UNCHANGED <<app, config, disk, got>>
    BY <1>7 DEF Reset, At
  <2> QED
    BY <2>1, RemoveDbStep
<1>8. ASSUME NEW p \in Procs, Remove(p)
      PROVE  Rest'
  <2>1. /\ RemoveDb(p, IF app = "daemon" THEN "reopening" ELSE "clearing")
        /\ proc[p].stage \in {"removing", "leaving"} /\ UNCHANGED <<app, config, disk, got>>
    BY <1>8 DEF Remove, At
  <2>2. CASE app = "daemon"
    <3>1. proc[p].stage = "removing" /\ RemoveDb(p, "reopening")
      BY <1>0, <2>1, <2>2 DEF LockRules
    <3> QED
      BY <2>1, <3>1, RemoveDbStep
  <2>3. CASE app = "desktop"
    <3>1. RemoveDb(p, "clearing")
      BY <2>1, <2>3
    <3> QED
      BY <2>1, <2>3, <3>1, RemoveDbStep
  <2> QED
    BY <1>0, <2>2, <2>3 DEF Typed
<1>9. ASSUME NEW p \in Procs, Unpair(p)
      PROVE  Rest'
  BY <1>9, UnpairStep
<1>10. ASSUME NEW p \in Procs, Stop(p)
       PROVE  Rest'
  BY <1>10, ExitStep DEF Stop
<1>11. CASE UNCHANGED vars
  BY <1>11 DEF PInv, vars, Rest, OneAtATime, Pairing, At, Stamped, Db, OwnFiles, Folders, OneFolder,
     NamedFolders, CleanFolders, NothingYet, IndexInFolder, Uses, Relies
<1> QED
  BY <1>1, <1>2, <1>3, <1>4, <1>5, <1>6, <1>7, <1>8, <1>9, <1>10, <1>11,
     PairStep, SaveStep, CutSaveStep, LoadStep, ClearStep, WorkStep DEF Next

NInv == IInv /\ (mishaps = {} => Rest)

LEMMA WithoutMishaps == Spec => []NInv
<1>1. Init => NInv
  BY InitHolds, InitRest DEF NInv
<1>2. NInv /\ [Next]_vars => NInv'
  <2> SUFFICES ASSUME NInv, [Next]_vars PROVE NInv'
    OBVIOUS
  <2>1. mishaps' = {} => Rest'
    BY MishapsStay, RestStep DEF NInv, PInv
  <2>2. IInv'
    BY CoreStep, ServerStep, MishapsStay DEF NInv, IInv
  <2> QED
    BY <2>1, <2>2 DEF NInv
<1> QED
  BY <1>1, <1>2, PTL DEF Spec

\* As long as no pairings overlap, no server is paired again with another folder and
\* no save of the daemon is cut, nothing of one server is uploaded to another: who
\* pairs with another server gets a folder of its own, and an index that is not of
\* that server is removed before the first pass.
THEOREM NothingCrossesServers == Spec => []NothingCrosses
<1>1. NInv => NothingCrosses
  <2>1. ASSUME NInv, mishaps = {}, NEW s \in Servers
        PROVE  got[s] \subseteq {s}
    <3>1. got[s] = {s}
      BY <2>1, Zenon DEF NInv, Rest, OwnFiles
    <3> QED
      BY <3>1
  <2> QED
    BY <2>1, Zenon DEF NothingCrosses, NothingLeaks
<1> QED
  BY <1>1, WithoutMishaps, PTL

\* Nothing is deleted on a server, with the same exceptions: the index of a server
\* never goes with a folder that has not got its files.
THEOREM NothingDeletedByPairing == Spec => []NothingDeleted
<1>1. NInv => NothingDeleted
  <2>1. ASSUME NInv, mishaps = {}, NEW s \in Servers
        PROVE  s \in got[s]
    <3>1. got[s] = {s}
      BY <2>1, Zenon DEF NInv, Rest, OwnFiles
    <3> QED
      BY <3>1
  <2> QED
    BY <2>1, Zenon DEF NothingDeleted
<1> QED
  BY <1>1, WithoutMishaps, PTL

\* With the same exceptions, an index in use has rows of the server it is used for, the
\* index of a desktop that did not stamp it included: such an index is removed unless
\* it is empty.
THEOREM IndexOfServer == Spec => []IndexIsOfServer
<1>1. NInv => IndexIsOfServer
  BY DEF NInv, Rest, Stamped, IndexIsOfServer, At
<1> QED
  BY <1>1, WithoutMishaps, PTL

\* When Unpair returns no configuration, no index and no file of the old server is
\* left, whichever way the profile was paired, opened and closed before, unless a
\* pairing has overlapped another call.
THEOREM UnpairIsClean == Spec => UnpairLeavesNothing
<1> DEFINE Clean == \A p \in Procs : mishaps = {} /\ At(p, "clearing") /\ proc[p].server = None /\ Clear(p)
                       => config = NoConfig /\ db = EmptyIndex /\ disk'[Default] = {}
<1>1. NInv => Clean
  BY Constants DEF NInv, IInv, Core, Typed, Rest, Stamped, At, Clear
<1>2. NInv /\ [Next]_vars => [Clean]_vars
  BY <1>1
<1> QED
  BY <1>2, WithoutMishaps, PTL DEF Spec, UnpairLeavesNothing
=============================================================================
