---------------------------- MODULE SyncPromise ----------------------------
(***************************************************************************)
(* What Syncer.Run promises to whoever changes something: the change is    *)
(* outstanding until a pass that began after it has succeeded, and as long *)
(* as the daemon is not told to stop, such a pass begins.                  *)
(***************************************************************************)
VARIABLES
    work,       \* something changed since the last pass that succeeded began
    running,    \* a pass is running
    asked       \* the daemon was told to stop

TypeOK == work \in BOOLEAN /\ running \in BOOLEAN /\ asked \in BOOLEAN

Init == work = TRUE /\ running = FALSE /\ asked = FALSE

Change == work' = TRUE /\ UNCHANGED <<running, asked>>

Begin == ~running /\ running' = TRUE /\ work' = FALSE /\ UNCHANGED asked

\* A pass that fails leaves the work outstanding.
End == running /\ running' = FALSE /\ work' \in {work, TRUE} /\ UNCHANGED asked

Ask == asked' = TRUE /\ UNCHANGED <<work, running>>

Next == Change \/ Begin \/ End \/ Ask

vars == <<work, running, asked>>

Spec == Init /\ [][Next]_vars /\ WF_vars(work /\ ~asked /\ Begin) /\ WF_vars(End)

=============================================================================
