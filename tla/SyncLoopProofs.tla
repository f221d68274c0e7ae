--------------------------- MODULE SyncLoopProofs ---------------------------
(***************************************************************************)
(* What Syncer.Run does whatever the events: types, no notification        *)
(* forgotten, and the safety part of the promise of SyncPromise.           *)
(***************************************************************************)
EXTENDS SyncLoop, TLAPS

\* The flag pending and the debounce timer go together: the loop arms the timer
\* exactly when it raises the flag.  Without it TakeToken could drop the last
\* token without leaving a timer.
FlagIsTimer == pending <=> timer # "stopped"

IInv == TypeOK /\ FlagIsTimer /\ NothingForgotten

LEMMA InitInv == Init => IInv
  BY DEF Init, IInv, TypeOK, FlagIsTimer, NothingForgotten

\* No step of Run or of its goroutines breaks the invariant.
LEMMA NextInv == IInv /\ [Next]_vars => IInv'
<1> SUFFICES ASSUME IInv, [Next]_vars
             PROVE  IInv'
  OBVIOUS
<1> USE DEF IInv, TypeOK, FlagIsTimer, NothingForgotten
<1>1. CASE LocalChange
  <2>1. UNCHANGED <<pending, timer, pc, backoff, status, stream, done>>
    BY <1>1 DEF LocalChange, loop
  <2>2. CASE notify /\ UNCHANGED missed
    BY <2>1, <2>2 DEF notify
  <2>3. CASE missed' = TRUE /\ UNCHANGED <<trigger, owed>>
    BY <2>1, <2>3
  <2> QED
    BY <1>1, <2>2, <2>3 DEF LocalChange
<1>2. CASE RemoteChange
  <2>1. UNCHANGED <<pending, timer, pc, backoff, status, stream, done>>
    BY <1>2 DEF RemoteChange, loop
  <2>2. CASE stream
    BY <1>2, <2>1, <2>2 DEF RemoteChange, notify
  <2>3. CASE ~stream
    BY <1>2, <2>1, <2>3 DEF RemoteChange
  <2> QED
    BY <2>2, <2>3
<1>3. CASE StreamDrops
  <2>1. /\ UNCHANGED <<pending, timer, pc, backoff, status, trigger, done, owed>>
        /\ stream' = FALSE
    BY <1>3 DEF StreamDrops, loop
  <2>2. missed' \in BOOLEAN
    BY <1>3 DEF StreamDrops
  <2> QED
    BY <2>1, <2>2
<1>4. CASE StreamConnects
  BY <1>4 DEF StreamConnects, loop
<1>5. CASE Tick
  BY <1>5 DEF Tick, notify, loop
<1>6. CASE Cancel
  BY <1>6 DEF Cancel, loop
<1>7. CASE TakeToken
  BY <1>7 DEF TakeToken
<1>8. CASE TimerFires
  BY <1>8 DEF TimerFires
<1>9. CASE StartPass
  BY <1>9 DEF StartPass
<1>10. CASE PassSucceeds
  BY <1>10 DEF PassSucceeds
<1>11. CASE PassFails
  BY <1>11 DEF PassFails
<1>12. CASE WakeUp
  BY <1>12 DEF WakeUp, notify
<1>13. CASE Return
  BY <1>13 DEF Return
<1>14. CASE UNCHANGED vars
  BY <1>14 DEF vars
<1> QED
  BY <1>1, <1>2, <1>3, <1>4, <1>5, <1>6, <1>7, <1>8, <1>9, <1>10, <1>11, <1>12,
     <1>13, <1>14 DEF Next, EndPass

LEMMA SpecInv == Spec => []IInv
  BY InitInv, NextInv, PTL DEF Spec

-----------------------------------------------------------------------------
\* Every variable of Run keeps to its type, and the sleep after a failure never
\* grows beyond 32 seconds.
THEOREM LoopTypeCorrect == Spec => []TypeOK
<1>1. IInv => TypeOK
  BY DEF IInv
<1> QED
  BY <1>1, SpecInv, PTL

\* A notification that no pass has answered yet always has a token, a timer or a
\* sleep to answer for it, whatever is dropped, coalesced or failed.
THEOREM NoNotificationForgotten == Spec => []NothingForgotten
<1>1. IInv => NothingForgotten
  BY DEF IInv
<1> QED
  BY <1>1, SpecInv, PTL

-----------------------------------------------------------------------------
(* Run implements SyncPromise, but for its fairness.                       *)

LEMMA PromiseInit == Init => Promise!Init
  BY DEF Init, Promise!Init

\* Every step of Run is a step of the promise or a stutter: only the start of a
\* pass clears what is outstanding, and only a pass that succeeds leaves it so.
LEMMA PromiseNext == IInv /\ [Next]_vars => [Promise!Next]_(Promise!vars)
<1> SUFFICES ASSUME IInv, [Next]_vars
             PROVE  [Promise!Next]_(Promise!vars)
  OBVIOUS
<1> USE DEF Promise!vars, Promise!Next
<1>1. CASE LocalChange
  BY <1>1 DEF LocalChange, notify, loop, Promise!Change
<1>2. CASE RemoteChange
  BY <1>2 DEF RemoteChange, notify, loop, Promise!Change
<1>3. CASE StreamDrops
  <2>1. UNCHANGED <<pc, done, owed>>
    BY <1>3 DEF StreamDrops, loop
  <2>2. CASE UNCHANGED missed
    BY <2>1, <2>2
  <2>3. CASE missed' = TRUE
    BY <2>1, <2>3 DEF Promise!Change
  <2> QED
    BY <1>3, <2>2, <2>3 DEF StreamDrops
<1>4. CASE StreamConnects
  BY <1>4 DEF StreamConnects, loop
<1>5. CASE Tick
  BY <1>5 DEF Tick, notify, loop, Promise!Change
<1>6. CASE Cancel
  BY <1>6 DEF Cancel, loop, Promise!Ask
<1>7. CASE TakeToken
  BY <1>7 DEF TakeToken
<1>8. CASE TimerFires
  BY <1>8 DEF TimerFires
<1>9. CASE StartPass
  BY <1>9 DEF StartPass, Promise!Begin
<1>10. CASE PassSucceeds
  BY <1>10 DEF PassSucceeds, Promise!End
<1>11. CASE PassFails
  BY <1>11 DEF PassFails, Promise!End
<1>12. CASE WakeUp
  BY <1>12 DEF WakeUp, notify, Promise!Change
<1>13. CASE Return
  BY <1>13 DEF Return
<1>14. CASE UNCHANGED vars
  BY <1>14 DEF vars
<1> QED
  BY <1>1, <1>2, <1>3, <1>4, <1>5, <1>6, <1>7, <1>8, <1>9, <1>10, <1>11, <1>12,
     <1>13, <1>14 DEF Next, EndPass

\* What changes stays outstanding until a pass that began later has succeeded:
\* the safety part of KeepsPromise.
THEOREM RunKeepsPromise == Spec => Promise!Init /\ [][Promise!Next]_(Promise!vars)
  BY PromiseInit, PromiseNext, SpecInv, PTL DEF Spec

=============================================================================
