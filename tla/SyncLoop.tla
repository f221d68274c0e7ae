------------------------------ MODULE SyncLoop ------------------------------
(***************************************************************************)
(* Syncer.Run (internal/syncer/syncer.go): when passes run.  Three         *)
(* goroutines call notify, a non-blocking send on a channel with room for  *)
(* one token: the fsnotify watcher, the listener of the server's event     *)
(* stream, and a ticker.  The loop turns tokens into passes: a debounce    *)
(* timer, one pass, and after a failure a sleep that doubles.              *)
(*                                                                         *)
(* A pass is one step here: whether it succeeds, and what it does, is      *)
(* SyncEngine's.  Time is abstracted: a timer that runs fires at some      *)
(* later moment.                                                           *)
(***************************************************************************)
EXTENDS Naturals

VARIABLES
    trigger,    \* the channel holds a token
    pending,    \* the loop's flag: the debounce timer was set
    timer,      \* the debounce timer
    pc,         \* what the loop is doing
    backoff,    \* seconds of the next sleep
    status,     \* what status.json says
    stream,     \* is the event stream connected?
    done,       \* the context was cancelled
    owed,       \* history: notify was called since the last pass began, or that
                \* pass has failed
    missed      \* history: something changed since the last pass began, and
                \* nobody called notify for it

vars == <<trigger, pending, timer, pc, backoff, status, stream, done, owed, missed>>

TypeOK ==
    /\ trigger \in BOOLEAN /\ pending \in BOOLEAN
    /\ timer \in {"stopped", "running", "fired"}
    /\ pc \in {"select", "sync", "sleep", "returned"}
    /\ backoff \in {1, 2, 4, 8, 16, 32}
    /\ status \in {"none", "idle", "syncing", "offline"}
    /\ stream \in BOOLEAN /\ done \in BOOLEAN
    /\ owed \in BOOLEAN /\ missed \in BOOLEAN

\* The first token is there before the loop starts.
Init ==
    /\ trigger = TRUE /\ owed = TRUE
    /\ pending = FALSE /\ timer = "stopped"
    /\ pc = "select" /\ backoff = 1 /\ status = "none"
    /\ stream = FALSE /\ done = FALSE /\ missed = FALSE

-----------------------------------------------------------------------------
(* The goroutines, and what they listen to.                                *)

\* With a token in the channel already, this one is dropped.
notify == trigger' = TRUE /\ owed' = TRUE

loop == <<pending, timer, pc, backoff, status>>

\* A change in the folder.  The watcher reports it, unless it happens in a
\* folder the watcher has not been added to yet, or there is no watcher.
LocalChange ==
    /\ \/ notify /\ UNCHANGED missed
       \/ missed' = TRUE /\ UNCHANGED <<trigger, owed>>
    /\ UNCHANGED <<loop, stream, done>>

\* A change on the server is an event for the streams connected at that time.
RemoteChange ==
    /\ IF stream THEN notify /\ UNCHANGED missed
       ELSE missed' = TRUE /\ UNCHANGED <<trigger, owed>>
    /\ UNCHANGED <<loop, stream, done>>

\* The stream ends, with an event still in it perhaps, and listenEvents is
\* called again; nothing asks for a pass when it is back.
StreamDrops ==
    /\ stream /\ stream' = FALSE
    /\ missed' \in {missed, TRUE}
    /\ UNCHANGED <<loop, trigger, done, owed>>

StreamConnects ==
    /\ ~stream /\ ~done /\ stream' = TRUE
    /\ UNCHANGED <<loop, trigger, done, owed, missed>>

\* Like the watcher, the ticker may win once more against a cancelled context.
Tick ==
    /\ notify
    /\ UNCHANGED <<loop, stream, done, missed>>

Cancel ==
    /\ ~done /\ done' = TRUE
    /\ UNCHANGED <<loop, trigger, stream, owed, missed>>

-----------------------------------------------------------------------------
(* The loop.  When several cases of the select are ready, any is taken.    *)

TakeToken ==
    /\ pc = "select" /\ trigger
    /\ trigger' = FALSE
    /\ pending' = TRUE
    /\ timer' = IF pending THEN timer ELSE "running"
    /\ UNCHANGED <<pc, backoff, status, stream, done, owed, missed>>

TimerFires ==
    /\ timer = "running" /\ timer' = "fired"
    /\ UNCHANGED <<trigger, pending, pc, backoff, status, stream, done, owed, missed>>

\* Mutant: the flag is not lowered when the pass starts.
StartPassKeepsFlag ==
    /\ pc = "select" /\ timer = "fired"
    /\ timer' = "stopped"
    /\ pc' = "sync" /\ status' = "syncing"
    /\ owed' = FALSE /\ missed' = FALSE
    /\ UNCHANGED <<trigger, pending, backoff, stream, done>>

StartPass ==
    /\ pc = "select" /\ timer = "fired"
    /\ pending' = FALSE /\ timer' = "stopped"
    /\ pc' = "sync" /\ status' = "syncing"
    /\ owed' = FALSE /\ missed' = FALSE
    /\ UNCHANGED <<trigger, backoff, stream, done>>

\* Mutant: the pass takes a token that came while it ran for its own.
PassDrains ==
    /\ pc = "sync" /\ pc' = "select"
    /\ status' = "idle" /\ backoff' = 1
    /\ trigger' = FALSE
    /\ UNCHANGED <<pending, timer, stream, done, owed, missed>>

PassSucceeds ==
    /\ pc = "sync" /\ pc' = "select"
    /\ status' = "idle" /\ backoff' = 1
    /\ UNCHANGED <<trigger, pending, timer, stream, done, owed, missed>>

PassFails ==
    /\ pc = "sync" /\ pc' = "sleep"
    /\ status' = "offline" /\ owed' = TRUE
    /\ UNCHANGED <<trigger, pending, timer, backoff, stream, done, missed>>

\* Mutant: the sleep doubles without a limit.
WakeUpLater ==
    /\ pc = "sleep" /\ pc' = "select"
    /\ backoff' = 2 * backoff
    /\ notify
    /\ UNCHANGED <<pending, timer, status, stream, done, missed>>

\* The sleep does not look at the context.
WakeUp ==
    /\ pc = "sleep" /\ pc' = "select"
    /\ backoff' = IF backoff < 30 THEN 2 * backoff ELSE backoff
    /\ notify
    /\ UNCHANGED <<pending, timer, status, stream, done, missed>>

\* Mutant: the loop returns when nothing is left to do.
ReturnWhenQuiet ==
    /\ pc = "select" /\ done /\ ~trigger /\ ~pending /\ pc' = "returned"
    /\ UNCHANGED <<trigger, pending, timer, backoff, status, stream, done, owed, missed>>

Return ==
    /\ pc = "select" /\ done /\ pc' = "returned"
    /\ UNCHANGED <<trigger, pending, timer, backoff, status, stream, done, owed, missed>>

-----------------------------------------------------------------------------
EndPass == PassSucceeds \/ PassFails

Next ==
    \/ LocalChange \/ RemoteChange \/ StreamDrops \/ StreamConnects \/ Tick
    \/ Cancel
    \/ TakeToken \/ TimerFires \/ StartPass \/ EndPass \/ WakeUp \/ Return

Spec == Init /\ [][Next]_vars

\* Every step of the loop is taken sooner or later: the goroutine runs, timers
\* fire, the ticker ticks, passes and sleeps end.  A select with several ready
\* cases picks one at random, so a case that is ready again and again is taken:
\* strong fairness for the three of them.
FairSpec ==
    /\ Spec
    /\ WF_vars(~done /\ Tick) /\ WF_vars(TimerFires) /\ WF_vars(EndPass) /\ WF_vars(WakeUp)
    /\ SF_vars(TakeToken) /\ SF_vars(StartPass) /\ SF_vars(Return)

-----------------------------------------------------------------------------
(* Properties.                                                             *)

\* Tokens are dropped when the channel is full, taken while the timer runs, and
\* given back after a failure: through all that, a notification that no pass has
\* answered yet still has a token, a timer or a sleep to answer for it.
NothingForgotten == owed => trigger \/ timer # "stopped" \/ pc = "sleep"

\* Told to stop, Run returns, in the middle of a storm of events too.
ShutsDown == done ~> pc = "returned"

\* Run keeps the promise: what changes is outstanding until a pass that began
\* later has succeeded, and such a pass begins, also for the changes no goroutine
\* reported.
Promise == INSTANCE SyncPromise WITH work <- owed \/ missed,
                                     running <- pc = "sync", asked <- done
KeepsPromise == Promise!Spec

=============================================================================
