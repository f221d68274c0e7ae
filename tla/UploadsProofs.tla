--------------------------- MODULE UploadsProofs ----------------------------
(***************************************************************************)
(* Proofs about Client and about Uploads, which has a client: for any      *)
(* number of callers, files of any length and any number of withdrawn      *)
(* tokens, the invariants that Client.cfg checks; that the client of       *)
(* Uploads is the one of module Client, and that an upload is never ahead  *)
(* of the server nor reported before it is published.                      *)
(***************************************************************************)
EXTENDS Uploads, TLAPS

-----------------------------------------------------------------------------
(* The client: types.                                                      *)

LEMMA TypeInit == ClientInit => TypeOK
  BY BlocksAssumption DEF ClientInit, TypeOK, Call, Body, Stages

LEMMA TypeStep == TypeOK /\ [ClientNext]_clientVars => TypeOK'
<1> SUFFICES ASSUME TypeOK, [ClientNext]_clientVars PROVE TypeOK'
  OBVIOUS
<1> USE BlocksAssumption DEF TypeOK, Call, Body, Stages, At, To, SetCall, SetBody
<1>1. ASSUME NEW c \in Callers, Request(c) PROVE TypeOK'
  BY <1>1 DEF Request, Reset
<1>2. ASSUME NEW c \in Callers, CachedToken(c) PROVE TypeOK'
  BY <1>2 DEF CachedToken, Send
<1>3. ASSUME NEW c \in Callers, StartExchange(c) PROVE TypeOK'
  BY <1>3 DEF StartExchange
<1>4. ASSUME NEW c \in Callers, Issue(c) PROVE TypeOK'
  BY <1>4 DEF Issue
<1>5. ASSUME NEW c \in Callers, FailExchange(c) PROVE TypeOK'
  BY <1>5 DEF FailExchange, Reset
<1>6. ASSUME NEW c \in Callers, StoreToken(c) PROVE TypeOK'
  BY <1>6 DEF StoreToken, Send
<1>7. ASSUME NEW c \in Callers, Arrive(c) PROVE TypeOK'
  BY <1>7 DEF Arrive
<1>8. ASSUME NEW c \in Callers, ReadBlock(c) PROVE TypeOK'
  BY <1>8 DEF ReadBlock
<1>9. ASSUME NEW c \in Callers, StaleRead(c) \/ StaleStop(c) PROVE TypeOK'
  <2>1. CASE StaleRead(c)
    BY <2>1 DEF StaleRead
  <2>2. CASE StaleStop(c)
    BY <2>2 DEF StaleStop
  <2> QED
    BY <1>9, <2>1, <2>2
<1>10. ASSUME NEW c \in Callers, Take(c) PROVE TypeOK'
  BY <1>10 DEF Take, CanTake
<1>11. ASSUME NEW c \in Callers, Answer(c) \/ Break(c) PROVE TypeOK'
  <2>1. \E outcome \in {"ok", "error"} : Reset(c, outcome)
    BY <1>11 DEF Answer, Break
  <2>2. UNCHANGED <<jwt, mu, issued, expired>>
    BY <1>11 DEF Answer, Break
  <2> QED
    BY <2>1, <2>2 DEF Reset
<1>12. ASSUME NEW c \in Callers, Deny(c) PROVE TypeOK'
  <2>1. CASE call[c].refused = 0
    <3> DEFINE nb == [pos |-> body[c].pos, sent |-> body[c].sent,
                      stale |-> body[c].pos < Blocks[c]]
               nc == [stage |-> "refused", tok |-> call[c].tok, refused |-> call[c].tok]
    <3>1. call' = [call EXCEPT ![c] = nc] /\ body' = [body EXCEPT ![c] = nb]
      BY <1>12, <2>1 DEF Deny
    <3>2. nb \in Body /\ nb.pos = body[c].pos
      <4>1. (body[c].pos < Blocks[c]) \in BOOLEAN
        OBVIOUS
      <4>2. body[c].pos \in Nat /\ body[c].sent \in Seq(Nat)
        OBVIOUS
      <4> HIDE DEF TypeOK
      <4> QED
        BY <4>1, <4>2, Zenon
    <3>3. nc \in Call /\ nc.tok = call[c].tok
      OBVIOUS
    <3>4. jwt' = jwt /\ mu' = mu /\ issued' = issued /\ expired' = expired
      BY <1>12 DEF Deny
    <3> HIDE DEF nb, nc
    <3> QED
      BY <3>1, <3>2, <3>3, <3>4
  <2>2. CASE call[c].refused # 0
    <3>1. Reset(c, "error") /\ UNCHANGED <<jwt, mu, issued, expired>>
      BY <1>12, <2>2 DEF Deny
    <3> QED
      BY <3>1 DEF Reset
  <2> QED
    BY <2>1, <2>2
<1>13. ASSUME NEW c \in Callers, ClearJWT(c) PROVE TypeOK'
  BY <1>13 DEF ClearJWT
<1>14. CASE Expire
  BY <1>14 DEF Expire
<1>15. CASE UNCHANGED clientVars
  BY <1>15 DEF clientVars
<1>16. QED
  BY <1>1, <1>2, <1>3, <1>4, <1>5, <1>6, <1>7, <1>8, <1>9, <1>10, <1>11, <1>12,
     <1>13, <1>14, <1>15 DEF ClientNext, Proceed

\* The values of the variables keep their types.
THEOREM TypeCorrect == ClientSpec => []TypeOK
  BY TypeInit, TypeStep, PTL DEF ClientSpec

-----------------------------------------------------------------------------
(* The token of a retry.                                                   *)

\* Whoever has asked for a token under mu holds mu.
HoldsMutex == \A c \in Callers : call[c].stage \in {"exchange", "store"} => mu = c

\* c has cleared the token that was refused, and has no other yet.
Retrying(c) == call[c].refused # 0 /\ call[c].stage \in {"token", "exchange", "store"}

\* No token is refused that was not issued; the cached one and the one that is
\* about to be cached are newer than any that a caller is retrying for.
TokensAreNewer ==
    /\ \A c \in Callers : call[c].refused <= issued
    /\ \A c \in Callers : Retrying(c) => jwt = 0 \/ jwt > call[c].refused
    /\ \A c, d \in Callers :
         Retrying(d) /\ At(c, "store") => call[c].tok > call[d].refused

TokenInv == HoldsMutex /\ TokensAreNewer /\ RetryHasNewerToken

LEMMA TokenStep ==
  ASSUME TypeOK, TokenInv, [ClientNext]_clientVars
  PROVE  TokenInv'
<1> USE NoneAssumption DEF TypeOK, Call, Stages, TokenInv, HoldsMutex, TokensAreNewer,
        Retrying, RetryHasNewerToken, Sending, At, To, SetCall, Reset
<1>1. ASSUME NEW c \in Callers, Request(c) PROVE TokenInv'
  BY <1>1 DEF Request, CanRequest
<1>2. ASSUME NEW c \in Callers, CachedToken(c) PROVE TokenInv'
  BY <1>2 DEF CachedToken, Send, MuFree
<1>3. ASSUME NEW c \in Callers, StartExchange(c) PROVE TokenInv'
  BY <1>3 DEF StartExchange, MuFree
<1>4. ASSUME NEW c \in Callers, Issue(c) PROVE TokenInv'
  BY <1>4 DEF Issue
<1>5. ASSUME NEW c \in Callers, FailExchange(c) PROVE TokenInv'
  BY <1>5 DEF FailExchange
<1>6. ASSUME NEW c \in Callers, StoreToken(c) PROVE TokenInv'
  BY <1>6 DEF StoreToken, Send
<1>7. ASSUME NEW c \in Callers, Arrive(c) PROVE TokenInv'
  BY <1>7 DEF Arrive
<1>8. ASSUME NEW c \in Callers, ReadBlock(c) \/ StaleRead(c) \/ StaleStop(c) PROVE TokenInv'
  BY <1>8 DEF ReadBlock, StaleRead, StaleStop
<1>9. ASSUME NEW c \in Callers, Take(c) PROVE TokenInv'
  BY <1>9 DEF Take, CanTake
<1>10. ASSUME NEW c \in Callers, Answer(c) \/ Break(c) PROVE TokenInv'
  <2>1. /\ \E outcome \in {"ok", "error"} : SetCall(c, outcome, 0, 0)
        /\ call[c].stage \notin {"exchange", "store"}
        /\ UNCHANGED <<jwt, mu, issued, expired>>
    BY <1>10 DEF Answer, Break
  <2> QED
    BY <2>1
<1>11. ASSUME NEW c \in Callers, Deny(c) PROVE TokenInv'
  <2>1. CASE call[c].refused = 0
    BY <1>11, <2>1 DEF Deny
  <2>2. CASE call[c].refused # 0
    <3>1. Reset(c, "error") /\ At(c, "denied") /\ UNCHANGED <<jwt, mu, issued, expired>>
      BY <1>11, <2>2 DEF Deny
    <3> QED
      BY <3>1
  <2> QED
    BY <2>1, <2>2
<1>12. ASSUME NEW c \in Callers, ClearJWT(c) PROVE TokenInv'
  BY <1>12 DEF ClearJWT, MuFree
<1>13. CASE Expire
  BY <1>13 DEF Expire
<1>14. CASE UNCHANGED clientVars
  BY <1>14 DEF clientVars
<1>15. QED
  BY <1>1, <1>2, <1>3, <1>4, <1>5, <1>6, <1>7, <1>8, <1>9, <1>10, <1>11, <1>12,
     <1>13, <1>14 DEF ClientNext, Proceed

\* A retry never goes out with a token as old as the one that was refused.
THEOREM RetriesAreNewer == ClientSpec => []RetryHasNewerToken
<1>1. ClientInit => TokenInv
  BY NoneAssumption DEF ClientInit, TokenInv, HoldsMutex, TokensAreNewer, Retrying,
     RetryHasNewerToken, Sending, At
<1>2. TypeOK /\ TokenInv /\ [ClientNext]_clientVars => TokenInv'
  BY TokenStep
<1>3. TokenInv => RetryHasNewerToken
  BY DEF TokenInv
<1> QED
  BY <1>1, <1>2, <1>3, TypeCorrect, PTL DEF ClientSpec

-----------------------------------------------------------------------------
(* The body of a file.                                                     *)

\* Blocks go out in the order of the file.  A block another writer has read is
\* missing for good: what is sent lags behind the offset by that much, so that
\* the file's length can only be reached without a gap.
Ordered(p, s) ==
    /\ Len(s) <= p
    /\ \A i \in 1 .. Len(s) : i <= s[i] /\ s[i] + Len(s) <= p + i

InOrder(b) == Ordered(b.pos, b.sent)

BodyInv ==
    \A c \in Callers : InOrder(body[c]) /\ (At(c, "taken") => SentAll(c))

LEMMA AppendKeepsOrder ==
  ASSUME NEW p \in Nat, NEW s \in Seq(Nat), Ordered(p, s)
  PROVE  Ordered(p + 1, Append(s, p + 1))
<1> DEFINE t == Append(s, p + 1)
<1>1. Len(s) \in Nat /\ Len(t) = Len(s) + 1 /\ t[Len(s) + 1] = p + 1
  OBVIOUS
<1>2. \A i \in 1 .. Len(s) : t[i] = s[i] /\ s[i] \in Nat
  OBVIOUS
<1> HIDE DEF t
<1>3. ASSUME NEW i \in 1 .. Len(s)
      PROVE  i <= t[i] /\ t[i] + Len(t) <= p + 1 + i
  <2>1. t[i] = s[i] /\ s[i] \in Nat /\ i <= s[i] /\ s[i] + Len(s) <= p + i
    BY <1>2 DEF Ordered
  <2> QED
    BY <1>1, <2>1
<1>4. \A i \in 1 .. Len(t) : i \in 1 .. Len(s) \/ i = Len(s) + 1
  BY <1>1
<1>5. Len(s) <= p
  BY DEF Ordered
<1>6. \A i \in 1 .. Len(t) : i <= t[i] /\ t[i] + Len(t) <= p + 1 + i
  BY <1>1, <1>3, <1>4, <1>5
<1> QED
  BY <1>1, <1>5, <1>6 DEF Ordered, t

LEMMA SkippingKeepsOrder ==
  ASSUME NEW p \in Nat, NEW s \in Seq(Nat), Ordered(p, s)
  PROVE  Ordered(p + 1, s)
<1>1. Len(s) \in Nat /\ \A i \in 1 .. Len(s) : s[i] \in Nat
  OBVIOUS
<1> QED
  BY <1>1 DEF Ordered

LEMMA ReadKeepsOrder ==
  ASSUME NEW b \in Body, InOrder(b), NEW n \in Body,
         n.pos = b.pos + 1, n.sent = Append(b.sent, b.pos + 1)
  PROVE  InOrder(n)
<1>1. b.pos \in Nat /\ b.sent \in Seq(Nat)
  BY DEF Body
<1> QED
  BY <1>1, AppendKeepsOrder DEF InOrder

LEMMA SkipKeepsOrder ==
  ASSUME NEW b \in Body, InOrder(b), NEW n \in Body,
         n.pos \in {b.pos, b.pos + 1}, n.sent = b.sent
  PROVE  InOrder(n)
<1>1. b.pos \in Nat /\ b.sent \in Seq(Nat)
  BY DEF Body
<1> QED
  BY <1>1, SkippingKeepsOrder DEF InOrder

LEMMA BodyStep ==
  ASSUME TypeOK, TypeOK', BodyInv, [ClientNext]_clientVars
  PROVE  BodyInv'
<1>1. \A c \in Callers : body[c] \in Body /\ body'[c] \in Body
  BY DEF TypeOK
<1>2. ASSUME NEW c \in Callers, NEW stage, stage # "taken",
             (\E t, r : SetCall(c, stage, t, r)),
             InOrder(body'[c]), \A d \in Callers \ {c} : body'[d] = body[d]
      PROVE  BodyInv'
  <2>1. ~At(c, "taken")'
    BY <1>2 DEF TypeOK, SetCall, At
  <2>2. \A d \in Callers \ {c} : call'[d] = call[d]
    BY <1>2 DEF TypeOK, SetCall
  <2> QED
    BY <1>2, <2>1, <2>2 DEF BodyInv, SentAll, Declared, At
<1> DEFINE Empty(c) == SetBody(c, 0, <<>>, FALSE) \/ SetBody(c, 0, <<>>, body[c].stale)
<1>3. ASSUME NEW c \in Callers, Empty(c)
      PROVE  InOrder(body'[c]) /\ \A d \in Callers \ {c} : body'[d] = body[d]
  BY <1>3 DEF TypeOK, SetBody, InOrder, Ordered
<1>4. ASSUME NEW c \in Callers, NEW stage \in {"token", "error", "ok"}, Reset(c, stage)
      PROVE  BodyInv'
  BY <1>2, <1>3, <1>4 DEF Reset
<1>5. ASSUME NEW c \in Callers, NEW t, Send(c, t)
      PROVE  BodyInv'
  BY <1>2, <1>3, <1>5 DEF Send
<1>6. ASSUME NEW c \in Callers, NEW stage, stage # "taken",
             (\E t, r : SetCall(c, stage, t, r)), UNCHANGED body
      PROVE  BodyInv'
  BY <1>2, <1>6 DEF BodyInv
<1>7. ASSUME NEW c \in Callers, ReadBlock(c) PROVE BodyInv'
  <2>1. /\ body'[c].pos = body[c].pos + 1
        /\ body'[c].sent = Append(body[c].sent, body[c].pos + 1)
        /\ \A d \in Callers \ {c} : body'[d] = body[d]
        /\ UNCHANGED call /\ ~At(c, "taken")
    BY <1>7 DEF ReadBlock, SetBody, TypeOK, Sending, At
  <2>2. InOrder(body'[c])
    BY <1>1, <2>1, ReadKeepsOrder DEF BodyInv
  <2> QED
    BY <2>1, <2>2 DEF BodyInv, SentAll, Declared, At
<1>8. ASSUME NEW c \in Callers, StaleRead(c) \/ StaleStop(c) PROVE BodyInv'
  <2>1. /\ body'[c].pos \in {body[c].pos, body[c].pos + 1}
        /\ body'[c].pos # body[c].pos => body[c].pos < Blocks[c]
        /\ body'[c].sent = body[c].sent
        /\ \A d \in Callers \ {c} : body'[d] = body[d]
        /\ UNCHANGED call
    BY <1>8 DEF StaleRead, StaleStop, SetBody, TypeOK
  <2>2. InOrder(body'[c])
    BY <1>1, <2>1, SkipKeepsOrder DEF BodyInv
  <2>3. At(c, "taken") => body[c].pos = Blocks[c]
    BY DEF BodyInv, SentAll
  <2>4. At(c, "taken") => body'[c].pos = body[c].pos
    BY <2>1, <2>3, <1>1, BlocksAssumption DEF Body
  <2> QED
    BY <2>1, <2>2, <2>4 DEF BodyInv, SentAll, Declared, At
<1>9. ASSUME NEW c \in Callers, Take(c) PROVE BodyInv'
  <2>1. /\ UNCHANGED body /\ SentAll(c)
        /\ \A d \in Callers \ {c} : call'[d] = call[d]
    BY <1>9 DEF Take, CanTake, To, SetCall, TypeOK
  <2> QED
    BY <2>1 DEF BodyInv, SentAll, Declared, At
<1>10. ASSUME NEW c \in Callers, Deny(c) PROVE BodyInv'
  <2>1. CASE call[c].refused = 0
    <3>1. /\ body'[c].pos = body[c].pos /\ body'[c].sent = body[c].sent
          /\ \A d \in Callers \ {c} : body'[d] = body[d]
      BY <1>10, <2>1 DEF Deny, SetBody, TypeOK
    <3>2. InOrder(body'[c])
      BY <1>1, <3>1, SkipKeepsOrder DEF BodyInv
    <3> QED
      BY <1>2, <1>10, <2>1, <3>1, <3>2 DEF Deny
  <2>2. CASE call[c].refused # 0
    BY <1>4, <1>10, <2>2 DEF Deny
  <2> QED
    BY <2>1, <2>2
<1>11. CASE Expire \/ UNCHANGED clientVars
  BY <1>11 DEF Expire, clientVars, BodyInv, SentAll, Declared, At
<1>12. ASSUME NEW c \in Callers,
              StartExchange(c) \/ Issue(c) \/ Arrive(c) \/ ClearJWT(c)
       PROVE  BodyInv'
  <2>1. CASE StartExchange(c)
    BY <1>6, <2>1 DEF StartExchange, To
  <2>2. CASE Issue(c)
    BY <1>6, <2>2 DEF Issue
  <2>3. CASE Arrive(c)
    BY <1>6, <2>3 DEF Arrive, To
  <2>4. CASE ClearJWT(c)
    BY <1>6, <2>4 DEF ClearJWT, To
  <2> QED
    BY <1>12, <2>1, <2>2, <2>3, <2>4
<1>13. ASSUME NEW c \in Callers,
              Request(c) \/ FailExchange(c) \/ Answer(c) \/ Break(c)
       PROVE  BodyInv'
  BY <1>4, <1>13 DEF Request, FailExchange, Answer, Break
<1>14. ASSUME NEW c \in Callers, CachedToken(c) \/ StoreToken(c) PROVE BodyInv'
  BY <1>5, <1>14 DEF CachedToken, StoreToken
<1> QED
  BY <1>7, <1>8, <1>9, <1>10, <1>11, <1>12, <1>13, <1>14 DEF ClientNext, Proceed

\* What the server takes is the file, also when the writer of a refused attempt
\* has read from it next to the attempt that succeeds.
THEOREM BodiesAreWhole == ClientSpec => []WholeBodies
<1>1. ClientInit => BodyInv
  BY DEF ClientInit, BodyInv, InOrder, Ordered, At
<1>2. TypeOK /\ TypeOK' /\ BodyInv /\ [ClientNext]_clientVars => BodyInv'
  BY BodyStep
<1>3. TypeOK /\ BodyInv => WholeBodies
  <2> SUFFICES ASSUME TypeOK, BodyInv, NEW c \in Callers, At(c, "taken")
               PROVE  body[c].sent = [i \in 1 .. Blocks[c] |-> i]
    BY DEF WholeBodies
  <2>1. /\ body[c].sent \in Seq(Nat) /\ body[c].pos = Blocks[c]
        /\ Len(body[c].sent) = Blocks[c] /\ Blocks[c] \in Nat
    BY BlocksAssumption DEF TypeOK, Body, BodyInv, SentAll, Declared
  <2>2. \A i \in 1 .. Blocks[c] : body[c].sent[i] = i
    BY <2>1 DEF BodyInv, InOrder, Ordered
  <2> QED
    BY <2>1, <2>2
<1> QED
  BY <1>1, <1>2, <1>3, TypeCorrect, PTL DEF ClientSpec

-----------------------------------------------------------------------------
(***************************************************************************)
(* Uploads.                                                                *)
(***************************************************************************)
-----------------------------------------------------------------------------
(* Every step is a step of Client, or leaves the client alone.             *)

LEMMA StepIsClientStep == [Next]_vars => [ClientNext]_clientVars
<1> SUFFICES ASSUME [Next]_vars PROVE [ClientNext]_clientVars
  OBVIOUS
<1> USE FilesAssumption
<1>1. ASSUME NEW f \in Files, FindFile(f) \/ Handle(f) PROVE [ClientNext]_clientVars
  <2>1. Request(Walker) \/ Request(f) \/ UNCHANGED clientVars
    BY <1>1 DEF FindFile, Handle, Acquire, Initiated, Resumed, ChunkSent, Finished, Loop, Go
  <2> QED
    BY <2>1 DEF ClientNext
<1>2. ASSUME NEW f \in Files, Serve(f) \/ Fail(f) PROVE ClientNext
  BY <1>2 DEF Serve, Fail, ClientNext
<1>3. ASSUME NEW f \in Files, LateChunk(f) \/ Forget(f) PROVE UNCHANGED clientVars
  BY <1>3 DEF LateChunk, Forget
<1>4. ASSUME FolderMade PROVE UNCHANGED clientVars
  BY <1>4 DEF FolderMade
<1>5. ASSUME NEW c \in Callers, Other(c) \/ Upstream(c) PROVE ClientNext
  BY <1>5 DEF Other, Upstream, ClientNext
<1>6. CASE UNCHANGED vars
  BY <1>6 DEF vars
<1> QED
  BY <1>1, <1>2, <1>3, <1>4, <1>5, <1>6 DEF Next, ClientNext

\* The uploads use the client as Client says: what is proved there of its token
\* and of its bodies holds for them.
THEOREM ImplementsClient == Spec => ClientSpec
<1>1. Init => ClientInit
  BY DEF Init
<1> QED
  BY <1>1, StepIsClientStep, PTL DEF Spec, ClientSpec

-----------------------------------------------------------------------------
(* Types.                                                                  *)

LEMMA UploadTypeStep ==
  ASSUME UploadTypeOK, [Next]_vars
  PROVE  UploadTypeOK'
<1> USE FilesAssumption DEF UploadTypeOK, Upload, Session, Requests, Ended, New
<1>1. ASSUME NEW f \in Files, FindFile(f) PROVE UploadTypeOK'
  BY <1>1 DEF FindFile
<1>2. ASSUME FolderMade PROVE UploadTypeOK'
  <2>1. /\ walking \in Files /\ walking' = None
        /\ sess' = sess /\ ans' = ans /\ late' = late
    BY <1>2 DEF FolderMade
  <2>2. dirKnown' \in BOOLEAN
    BY <1>2, Zenon DEF FolderMade, At
  <2>3. \E s \in {"queued", "failed"} : up' = [up EXCEPT ![walking] = New(s)]
    BY <1>2 DEF FolderMade
  <2> QED
    BY <2>1, <2>2, <2>3
<1>3. ASSUME NEW f \in Files, NEW stage \in {"found", "queued"} \cup Requests \cup Ended,
             NEW next \in Nat, NEW attempts \in 0 .. 2, Go(f, stage, next, attempts)
      PROVE  UploadTypeOK'
  BY <1>3 DEF Go
<1>4. ASSUME NEW f \in Files, Handle(f) PROVE UploadTypeOK'
  <2>1. ans[f] \in Nat /\ up[f].next \in Nat /\ up[f].attempts \in 0 .. 2
        /\ Answered(f) \in Nat
    BY DEF Answered
  <2>2. CASE Acquire(f)
    BY <1>3, <2>2 DEF Acquire
  <2>3. CASE Initiated(f)
    BY <1>3, <2>1, <2>3 DEF Initiated
  <2>4. ASSUME NEW next \in Nat, NEW attempts \in 0 .. 2, Loop(f, next, attempts)
        PROVE  UploadTypeOK'
    BY <1>3, <2>4 DEF Loop
  <2>5. CASE Resumed(f)
    BY <2>1, <2>4, <2>5 DEF Resumed
  <2>6. CASE ChunkSent(f)
    <3>1. CASE Loop(f, ans[f], 0)
      BY <2>1, <2>4, <3>1
    <3>2. CASE up[f].attempts + 1 < 3 /\ Go(f, "resync", up[f].next, up[f].attempts + 1)
      BY <1>3, <2>1, <3>2
    <3>3. CASE Go(f, "abort", up[f].next, 0)
      BY <1>3, <2>1, <3>3
    <3> QED
      BY <2>6, <3>1, <3>2, <3>3 DEF ChunkSent
  <2>7. CASE Finished(f)
    BY <1>3, <2>1, <2>7 DEF Finished
  <2> QED
    BY <1>4, <2>2, <2>3, <2>5, <2>6, <2>7 DEF Handle
<1>5. ASSUME NEW s \in Session, NEW n \in Nat PROVE HasChunk(s, n) \in Session
  BY DEF HasChunk
<1>6. ASSUME NEW f \in Files, Serve(f) PROVE UploadTypeOK'
  <2>1. PICK s \in Session : Answers(f, s)
    BY <1>5, <1>6 DEF Serve, Served
  <2> QED
    BY <1>6, <2>1 DEF Serve, Answers
<1>7. ASSUME NEW f \in Files, Fail(f) \/ Forget(f) PROVE UploadTypeOK'
  <2>1. CASE Fail(f)
    BY <2>1 DEF Fail
  <2>2. CASE Forget(f)
    BY <2>2 DEF Forget
  <2> QED
    BY <1>7, <2>1, <2>2
<1>8. ASSUME NEW f \in Files, LateChunk(f) PROVE UploadTypeOK'
  <2>1. PICK n \in late[f] :
          /\ late' = [late EXCEPT ![f] = @ \ {n}]
          /\ sess' = [sess EXCEPT ![f] = IF @.state = "open" THEN HasChunk(@, n) ELSE @]
    BY <1>8 DEF LateChunk
  <2>2. (IF sess[f].state = "open" THEN HasChunk(sess[f], n) ELSE sess[f]) \in Session
    BY <1>5
  <2> QED
    BY <1>8, <2>1, <2>2 DEF LateChunk
<1>9. ASSUME UNCHANGED uploadVars PROVE UploadTypeOK'
  BY <1>9 DEF uploadVars
<1>10. ASSUME NEW c \in Callers, Upstream(c) PROVE UNCHANGED uploadVars
  BY <1>10 DEF Upstream
<1>11. CASE UNCHANGED vars
  BY <1>11 DEF vars, uploadVars
<1>12. CASE Next
  <2> HIDE DEF UploadTypeOK
  <2> QED
    BY <1>1, <1>2, <1>4, <1>6, <1>7, <1>8, <1>9, <1>10, <1>12 DEF Next
<1> QED
  BY <1>11, <1>12

\* The uploads keep their types, the three attempts included.
THEOREM UploadTypesCorrect == Spec => []UploadTypeOK
<1>1. Init => UploadTypeOK
  <2> SUFFICES ASSUME Init PROVE UploadTypeOK
    OBVIOUS
  <2>1. New("found") \in Upload
    BY DEF New, Upload
  <2>2. [state |-> "none", next |-> 0] \in Session
    BY DEF Session
  <2>3. late \in [Files -> SUBSET Nat] /\ dirKnown \in BOOLEAN
    BY DEF Init
  <2> QED
    BY <2>1, <2>2, <2>3 DEF Init, UploadTypeOK
<1> QED
  BY <1>1, UploadTypeStep, PTL DEF Spec

-----------------------------------------------------------------------------
(* An upload and its session.                                              *)

Holds(f) == call[f].stage \in {"taken", "ok"}

\* The server's answer is not ahead of the session it came from, and an upload
\* that has none yet starts at 0.
NotAhead(f) ==
    /\ sess[f].state = "open" => up[f].next <= sess[f].next /\ ans[f] <= sess[f].next
    /\ up[f].stage \in {"found", "queued", "init"} => up[f].next = 0

\* UploadComplete succeeds only when the session was published.
Published(f) == sess[f] = [state |-> "published", next |-> Chunks[f]]

NotEarly(f) ==
    /\ up[f].stage = "complete" /\ Holds(f) => Published(f)
    /\ up[f].stage = "done" => Published(f)

SessionInv == \A f \in Files : NotAhead(f) /\ NotEarly(f)

\* A request the server has taken stays taken, and no other becomes so.
LEMMA OnlyServed ==
  ASSUME TypeOK, NEW c \in Callers, Proceed(c) \/ Answer(c) \/ Break(c) \/ Request(c),
         NEW f \in Callers, Holds(f)'
  PROVE  Holds(f)
<1> USE DEF TypeOK, Call, Holds, To, SetCall, At
<1>1. ASSUME NEW s, NEW t, NEW r, SetCall(c, s, t, r), s = "ok" => Holds(c), s # "taken"
      PROVE  Holds(f)
  BY <1>1
<1>2. CASE CachedToken(c) \/ StoreToken(c)
  BY <1>1, <1>2 DEF CachedToken, StoreToken, Send
<1>3. CASE StartExchange(c) \/ Issue(c) \/ FailExchange(c)
  <2>1. \E s \in {"exchange", "store", "error"} : \E t, r : SetCall(c, s, t, r)
    BY <1>3 DEF StartExchange, Issue, FailExchange, Reset
  <2> QED
    BY <1>1, <2>1
<1>4. CASE Arrive(c)
  <2>1. \E s \in {"denied", "admitted"} : \E t, r : SetCall(c, s, t, r)
    BY <1>4 DEF Arrive
  <2> QED
    BY <1>1, <2>1
<1>5. CASE ReadBlock(c) \/ StaleRead(c) \/ StaleStop(c)
  BY <1>5 DEF ReadBlock, StaleRead, StaleStop
<1>6. CASE Deny(c)
  <2>1. \E s \in {"refused", "error"} : \E t, r : SetCall(c, s, t, r)
    BY <1>6 DEF Deny, Reset
  <2> QED
    BY <1>1, <2>1
<1>7. CASE ClearJWT(c)
  BY <1>1, <1>7 DEF ClearJWT
<1>8. CASE Answer(c)
  BY <1>1, <1>8 DEF Answer, Reset
<1>9. CASE Break(c) \/ Request(c)
  BY <1>1, <1>9 DEF Break, Request, Reset
<1> QED
  BY <1>2, <1>3, <1>4, <1>5, <1>6, <1>7, <1>8, <1>9 DEF Proceed

LEMMA OthersKept ==
  ASSUME TypeOK, NEW c \in Callers, Take(c), NEW f \in Callers \ {c}
  PROVE  Holds(f)' <=> Holds(f)
  BY DEF TypeOK, Call, Holds, Take, To, SetCall

LEMMA SessionStep ==
  ASSUME TypeOK, UploadTypeOK, UploadTypeOK', SessionInv, [Next]_vars
  PROVE  SessionInv'
<1> USE FilesAssumption
<1>1. ASSUME NEW f \in Files, UNCHANGED <<up, sess, ans>>, Holds(f)' => Holds(f)
      PROVE  (NotAhead(f) /\ NotEarly(f))'
  BY <1>1 DEF SessionInv, NotAhead, NotEarly, Published
<1>2. ASSUME NEW f \in Files, NEW stage, NEW next, NEW attempts,
             Go(f, stage, next, attempts),
             sess[f].state = "open" => next <= sess[f].next,
             stage \in {"found", "queued", "init"} => next = 0,
             stage = "done" => Published(f),
             stage \in Requests \/ stage # "complete"
      PROVE  SessionInv'
  <2>1. /\ up'[f] = [stage |-> stage, next |-> next, attempts |-> attempts]
        /\ \A g \in Files \ {f} : up'[g] = up[g]
        /\ UNCHANGED <<sess, ans>>
        /\ stage \in Requests => Request(f)
        /\ stage \notin Requests => UNCHANGED call
    BY <1>2 DEF Go, UploadTypeOK, clientVars
  <2>2. \A g \in Files : Holds(g)' => Holds(g)
    BY <2>1, OnlyServed DEF Holds
  <2>3. stage \in Requests => ~Holds(f)'
    BY <2>1 DEF Request, Reset, SetCall, Holds, TypeOK
  <2> QED
    BY <1>2, <2>1, <2>2, <2>3 DEF SessionInv, NotAhead, NotEarly, Published
<1>3. ASSUME NEW f \in Files, FindFile(f) PROVE SessionInv'
  <2>1. /\ up' = up \/ up' = [up EXCEPT ![f] = New("queued")]
        /\ Request(Walker) \/ UNCHANGED call
        /\ UNCHANGED <<sess, ans>> /\ up[f].stage = "found"
    BY <1>3 DEF FindFile, clientVars
  <2>2. \A g \in Files : Holds(g)' => Holds(g)
    BY <2>1, OnlyServed DEF Holds
  <2> QED
    BY <2>1, <2>2 DEF SessionInv, NotAhead, NotEarly, Published, New, UploadTypeOK, Session
<1>4. ASSUME FolderMade PROVE SessionInv'
  <2>1. /\ \E s \in {"queued", "failed"} : up' = [up EXCEPT ![walking] = New(s)]
        /\ UNCHANGED <<call, sess, ans>>
    BY <1>4 DEF FolderMade, clientVars
  <2> QED
    BY <2>1 DEF SessionInv, NotAhead, NotEarly, Published, Holds, New, UploadTypeOK, Session
<1>5. ASSUME NEW f \in Files, Handle(f) PROVE SessionInv'
  <2>1. sess[f].state = "open" =>
          /\ ans[f] <= sess[f].next /\ up[f].next <= sess[f].next
          /\ Answered(f) <= sess[f].next /\ 0 <= sess[f].next
    BY DEF SessionInv, NotAhead, Answered, UploadTypeOK, Session
  <2>2. CASE Acquire(f)
    <3>1. PICK stage \in {"init", "failed", "ignored"} : Go(f, stage, 0, 0)
      BY <2>2 DEF Acquire
    <3> QED
      BY <1>2, <2>1, <3>1
  <2>3. CASE Initiated(f)
    <3>1. CASE Go(f, "status", ans[f], 0)
      BY <1>2, <2>1, <3>1
    <3>2. CASE Go(f, "failed", 0, 0)
      BY <1>2, <2>1, <3>2
    <3> QED
      BY <2>3, <3>1, <3>2 DEF Initiated
  <2>4. ASSUME NEW next, NEW attempts, Loop(f, next, attempts),
               sess[f].state = "open" => next <= sess[f].next
        PROVE  SessionInv'
    <3>1. PICK stage \in {"chunk", "complete"} : Go(f, stage, next, attempts)
      BY <2>4 DEF Loop
    <3> QED
      BY <1>2, <2>4, <3>1 DEF Requests
  <2>5. CASE Resumed(f)
    BY <2>1, <2>4, <2>5 DEF Resumed
  <2>6. CASE ChunkSent(f)
    <3>1. CASE Loop(f, ans[f], 0)
      BY <2>1, <2>4, <3>1
    <3>2. CASE \E n : Go(f, "resync", up[f].next, n)
      BY <1>2, <2>1, <3>2
    <3>3. CASE Go(f, "abort", up[f].next, 0)
      BY <1>2, <2>1, <3>3
    <3> QED
      BY <2>6, <3>1, <3>2, <3>3 DEF ChunkSent
  <2>7. CASE Finished(f)
    <3>1. PICK stage \in {"done", "failed"} :
            /\ Go(f, stage, up[f].next, 0)
            /\ stage = "done" => Returned(f, "complete") /\ At(f, "ok")
      BY <2>7 DEF Finished
    <3>2. stage = "done" => Published(f)
      BY <3>1 DEF Returned, At, SessionInv, NotEarly, Holds
    <3> QED
      BY <1>2, <2>1, <3>1, <3>2
  <2> QED
    BY <1>5, <2>2, <2>3, <2>5, <2>6, <2>7 DEF Handle
<1>6. ASSUME NEW f \in Files, Serve(f) PROVE SessionInv'
  <2>1. PICK s \in Session :
          /\ Answers(f, s)
          /\ \/ up[f].stage = "init" /\ s.next = 0
             \/ /\ sess[f].state = "open" /\ s.next >= sess[f].next
                /\ up[f].stage \in Requests
                /\ up[f].stage = "complete" => s = [state |-> "published", next |-> Chunks[f]]
    <3>1. sess[f] \in Session /\ sess[f].next \in Nat
      BY DEF UploadTypeOK, Session
    <3>2. CASE up[f].stage = "init" /\ Answers(f, [state |-> "open", next |-> 0])
      BY <3>2 DEF Session
    <3>3. CASE sess[f].state = "open" /\ up[f].stage \in {"status", "resync"} /\ Answers(f, sess[f])
      BY <3>1, <3>3 DEF Requests
    <3>4. CASE sess[f].state = "open" /\ up[f].stage = "chunk" /\ Answers(f, HasChunk(sess[f], up[f].next))
      <4>1. HasChunk(sess[f], up[f].next) \in Session /\ HasChunk(sess[f], up[f].next).next >= sess[f].next
        BY <3>1 DEF HasChunk, Session
      <4> QED
        BY <3>4, <4>1 DEF Requests
    <3>5. CASE /\ sess[f].state = "open" /\ up[f].stage = "complete" /\ sess[f].next = Chunks[f]
               /\ Answers(f, [state |-> "published", next |-> sess[f].next])
      BY <3>1, <3>5 DEF Requests, Session
    <3>6. CASE /\ sess[f].state = "open" /\ up[f].stage = "abort"
               /\ Answers(f, [state |-> "gone", next |-> sess[f].next])
      BY <3>1, <3>6 DEF Requests, Session
    <3> QED
      BY <1>6, <3>2, <3>3, <3>4, <3>5, <3>6 DEF Serve, Served
  <2>2. UNCHANGED up /\ Take(f)
    BY <1>6 DEF Serve
  <2>3. \A g \in Files \ {f} : (NotAhead(g) /\ NotEarly(g))'
    <3> SUFFICES ASSUME NEW g \in Files \ {f} PROVE (NotAhead(g) /\ NotEarly(g))'
      OBVIOUS
    <3>1. sess'[g] = sess[g] /\ ans'[g] = ans[g] /\ up'[g] = up[g]
      BY <2>1, <2>2 DEF UploadTypeOK, Answers
    <3>2. Holds(g)' <=> Holds(g)
      BY <2>2, OthersKept
    <3> QED
      BY <3>1, <3>2 DEF SessionInv, NotAhead, NotEarly, Published
  <2>4. sess'[f] = s /\ ans'[f] = s.next /\ up'[f] = up[f]
    BY <2>1, <2>2 DEF UploadTypeOK, Answers
  <2>5. /\ sess[f].next \in Nat /\ up[f].next \in Nat
        /\ s.next \in Nat /\ sess[f] \in Session
    BY <2>4 DEF UploadTypeOK, Upload, Session
  <2>6. NotAhead(f)'
    BY <2>1, <2>4, <2>5 DEF SessionInv, NotAhead
  <2>7. NotEarly(f)'
    BY <2>1, <2>4 DEF NotEarly, Published, Requests
  <2> QED
    BY <2>3, <2>6, <2>7 DEF SessionInv
<1>7. ASSUME NEW f \in Files, Fail(f) PROVE SessionInv'
  BY <1>1, <1>7, OnlyServed DEF Fail, SessionInv
<1>8. ASSUME NEW f \in Files, LateChunk(f) \/ Forget(f) PROVE SessionInv'
  <2>1. /\ UNCHANGED <<call, up, ans>>
        /\ \E s : /\ sess' = [sess EXCEPT ![f] = s]
                  /\ sess[f].state # "open" => s = sess[f]
                  /\ s.state = "open" => sess[f].state = "open" /\ s.next >= sess[f].next
    <3>1. sess[f] \in Session
      BY DEF UploadTypeOK
    <3>2. CASE Forget(f)
      <4>1. sess' = [sess EXCEPT ![f] = [sess[f] EXCEPT !.state = "gone"]]
        BY <3>2 DEF Forget
      <4>2. [sess[f] EXCEPT !.state = "gone"].state = "gone"
        BY <3>1 DEF Session
      <4> QED
        BY <3>2, <4>1, <4>2 DEF Forget, clientVars
    <3>3. CASE LateChunk(f)
      <4>1. PICK n \in late[f] :
              sess' = [sess EXCEPT ![f] = IF sess[f].state = "open" THEN HasChunk(sess[f], n) ELSE sess[f]]
        BY <3>3 DEF LateChunk
      <4>2. HasChunk(sess[f], n).state = sess[f].state /\ HasChunk(sess[f], n).next >= sess[f].next
        BY <3>1 DEF HasChunk, Session
      <4>3. UNCHANGED <<call, up, ans>>
        BY <3>3 DEF LateChunk, clientVars
      <4>4. CASE sess[f].state = "open"
        BY <4>1, <4>2, <4>3, <4>4
      <4>5. CASE sess[f].state # "open"
        BY <4>1, <4>3, <4>5
      <4> QED
        BY <4>4, <4>5
    <3> QED
      BY <1>8, <3>2, <3>3
  <2>2. PICK s : /\ sess' = [sess EXCEPT ![f] = s]
                 /\ sess[f].state # "open" => s = sess[f]
                 /\ s.state = "open" => sess[f].state = "open" /\ s.next >= sess[f].next
    BY <2>1
  <2>3. /\ sess'[f] = s /\ \A g \in Files \ {f} : sess'[g] = sess[g]
        /\ sess[f].next \in Nat /\ s.next \in Nat
        /\ \A g \in Files : up[g].next \in Nat /\ ans[g] \in Nat
    BY <2>2 DEF UploadTypeOK, Session, Upload
  <2> QED
    BY <2>1, <2>2, <2>3 DEF SessionInv, NotAhead, NotEarly, Published, Holds
<1>9. ASSUME NEW c \in Callers \ Files, Other(c), UNCHANGED uploadVars PROVE SessionInv'
  BY <1>1, <1>9, OnlyServed, OthersKept DEF Other, uploadVars, SessionInv
<1>10. ASSUME NEW c \in Callers, Upstream(c) PROVE SessionInv'
  BY <1>1, <1>10, OnlyServed DEF Upstream, uploadVars, SessionInv
<1>11. CASE Expire /\ UNCHANGED uploadVars
  BY <1>1, <1>11 DEF Expire, uploadVars, SessionInv, Holds
<1>12. CASE UNCHANGED vars
  BY <1>1, <1>12 DEF vars, clientVars, uploadVars, SessionInv, Holds
<1>13. CASE Next
  BY <1>3, <1>4, <1>5, <1>6, <1>7, <1>8, <1>9, <1>10, <1>11, <1>13 DEF Next
<1> QED
  BY <1>12, <1>13

LEMMA SessionsInOrder == Spec => []SessionInv
<1>1. Init => SessionInv
  BY DEF Init, New, SessionInv, NotAhead, NotEarly
<1> QED
  BY <1>1, SessionStep, ImplementsClient, TypeCorrect, UploadTypesCorrect, PTL DEF Spec

\* No chunk leaves a gap and no upload is completed before every chunk is there.
THEOREM UploadsNeverAhead == Spec => []NeverAhead
<1>1. SessionInv => NeverAhead
  BY DEF SessionInv, NotAhead, NeverAhead
<1> QED
  BY <1>1, SessionsInOrder, PTL

\* A file reported as uploaded has been published, whole.
THEOREM UploadsDone == Spec => []DoneMeansPublished
<1>1. SessionInv => DoneMeansPublished
  BY DEF SessionInv, NotEarly, Published, DoneMeansPublished
<1> QED
  BY <1>1, SessionsInOrder, PTL

=============================================================================
