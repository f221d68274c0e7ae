------------------------------ MODULE Uploads ------------------------------
(***************************************************************************)
(* Chunked uploads: App.uploadFolder and App.uploadFile                    *)
(* (cmd/discodrive-wails/app.go) start one goroutine per file, a semaphore *)
(* lets a few of them work, and Uploader.Upload (upload.go) takes a file   *)
(* through init, status, chunks and complete.  Each of these is a request  *)
(* of the client they share, module Client; another caller of that client  *)
(* sends files of its own (PushFile, UploadFile).                          *)
(*                                                                         *)
(* A chunk is its index.  The server's side is external: it keeps, for a   *)
(* session, how many chunks it has, takes a chunk again that it has, and   *)
(* refuses one that leaves a gap.                                          *)
(***************************************************************************)
EXTENDS Client

CONSTANTS
    Files,     \* the files of the folder; each has its goroutine, a caller
    Walker,    \* the goroutine of uploadFolder
    Chunks,    \* [Files -> Nat]: length of each file
    Slots      \* capacity of uploadSem; 3 in the code

ASSUME FilesAssumption ==
    /\ Files \subseteq Callers /\ Walker \in Callers \ Files
    /\ \A f \in Files \cup {Walker} : Blocks[f] = 0
    /\ Chunks \in [Files -> Nat]

VARIABLES
    up,        \* the upload of each file
    walking,   \* the file uploadFolder wants a folder for; None
    dirKnown,  \* dirID has the folder
    sess,      \* the server's session for each file
    ans,       \* next_chunk in the answer to the caller's last request
    late       \* chunks the client has an error for that are still on their way

uploadVars == <<up, walking, dirKnown, sess, ans, late>>
vars == <<clientVars, uploadVars>>

Requests == {"init", "status", "chunk", "resync", "complete", "abort"}
Ended == {"done", "failed", "ignored"}

\* "found": WalkDir has not come to it; "queued": waits for the semaphore.
Upload == [stage : {"found", "queued"} \cup Requests \cup Ended,
           next : Nat, attempts : 0 .. 2]

New(stage) == [stage |-> stage, next |-> 0, attempts |-> 0]

Session == [state : {"none", "open", "gone", "published"}, next : Nat]

UploadTypeOK ==
    /\ up \in [Files -> Upload]
    /\ walking \in Files \cup {None} /\ dirKnown \in BOOLEAN
    /\ sess \in [Files -> Session]
    /\ ans \in [Files -> Nat] /\ late \in [Files -> SUBSET Nat]

Init ==
    /\ ClientInit
    /\ up = [f \in Files |-> New("found")]
    /\ walking = None /\ dirKnown = FALSE
    /\ sess = [f \in Files |-> [state |-> "none", next |-> 0]]
    /\ ans = [f \in Files |-> 0] /\ late = [f \in Files |-> {}]

-----------------------------------------------------------------------------
(* uploadFolder                                                            *)

\* A file of a folder whose id is known gets its goroutine at once.
FindFile(f) ==
    /\ up[f].stage = "found" /\ walking = None
    /\ IF dirKnown
         THEN /\ up' = [up EXCEPT ![f] = New("queued")]
              /\ UNCHANGED <<walking, clientVars>>
         ELSE walking' = f /\ Request(Walker) /\ UNCHANGED up
    /\ UNCHANGED <<dirKnown, sess, ans, late>>

\* EnsureDir has returned.  After an error the next file asks again.
FolderMade ==
    /\ walking # None /\ call[Walker].stage \in {"ok", "error"}
    /\ walking' = None
    /\ dirKnown' = At(Walker, "ok")
    /\ up' = [up EXCEPT ![walking] =
                           New(IF At(Walker, "ok") THEN "queued" ELSE "failed")]
    /\ UNCHANGED <<clientVars, sess, ans, late>>

-----------------------------------------------------------------------------
(* uploadFile and Upload: an action per answer, up to the next request.    *)

Working == {f \in Files : up[f].stage \in Requests}

Go(f, stage, next, attempts) ==
    /\ up' = [up EXCEPT ![f] = [stage |-> stage, next |-> next, attempts |-> attempts]]
    /\ IF stage \in Requests THEN Request(f) ELSE UNCHANGED clientVars
    /\ UNCHANGED <<walking, dirKnown, sess, ans, late>>

\* The name may be too long, the file unreadable, or a folder by now; there is
\* no event for the last.
Acquire(f) ==
    /\ up[f].stage = "queued" /\ Cardinality(Working) < Slots
    /\ \E stage \in {"init", "failed", "ignored"} : Go(f, stage, 0, 0)

Returned(f, stage) == up[f].stage = stage /\ call[f].stage \in {"ok", "error"}

\* The head of the loop.
Loop(f, next, attempts) ==
    Go(f, IF next < Chunks[f] THEN "chunk" ELSE "complete", next, attempts)

Initiated(f) ==
    /\ Returned(f, "init")
    /\ IF At(f, "ok") THEN Go(f, "status", ans[f], 0) ELSE Go(f, "failed", 0, 0)

\* Mutant: without an answer, the chunk is taken to have arrived.
AnsweredByGuess(f) == IF At(f, "ok") THEN ans[f] ELSE up[f].next + 1

\* An error of UploadStatus is ignored.
Answered(f) == IF At(f, "ok") THEN ans[f] ELSE up[f].next

Resumed(f) ==
    /\ Returned(f, "status") \/ Returned(f, "resync")
    /\ Loop(f, Answered(f), up[f].attempts)

\* Mutant: the failures are counted and never looked at.
ChunkSentUnlimited(f) ==
    /\ Returned(f, "chunk")
    /\ \/ At(f, "ok") /\ Loop(f, ans[f], 0)
       \/ At(f, "error") /\ Go(f, "resync", up[f].next, up[f].attempts + 1)

\* Mutant: the failures are counted anew after a status request.
ChunkSentForgets(f) ==
    /\ Returned(f, "chunk")
    /\ \/ At(f, "ok") /\ Loop(f, ans[f], 0)
       \/ At(f, "error") /\ Go(f, "resync", up[f].next, 0)

ChunkSent(f) ==
    /\ Returned(f, "chunk")
    /\ LET failures == up[f].attempts + 1 IN
         \/ At(f, "ok") /\ Loop(f, ans[f], 0)
         \/ At(f, "error") /\ failures < 3 /\ Go(f, "resync", up[f].next, failures)
         \/ At(f, "error") /\ failures = 3 /\ Go(f, "abort", up[f].next, 0)

\* Mutant: the error of UploadComplete is ignored, like those of the others.
FinishedAnyway(f) ==
    \/ Returned(f, "complete") /\ Go(f, "done", up[f].next, 0)
    \/ Returned(f, "abort") /\ Go(f, "failed", up[f].next, 0)

Finished(f) ==
    \/ Returned(f, "complete")
         /\ Go(f, IF At(f, "ok") THEN "done" ELSE "failed", up[f].next, 0)
    \/ Returned(f, "abort") /\ Go(f, "failed", up[f].next, 0)

Handle(f) == Acquire(f) \/ Initiated(f) \/ Resumed(f) \/ ChunkSent(f) \/ Finished(f)

-----------------------------------------------------------------------------
(* The server.                                                             *)

HasChunk(s, n) == [s EXCEPT !.next = IF n = s.next THEN n + 1 ELSE s.next]

Answers(f, s) ==
    sess' = [sess EXCEPT ![f] = s] /\ ans' = [ans EXCEPT ![f] = s.next]

\* What the request of f makes of its session, unless the server refuses it.
Served(f) ==
    LET s == sess[f] IN
    \/ up[f].stage = "init" /\ Answers(f, [state |-> "open", next |-> 0])
    \/ /\ s.state = "open"
       /\ \/ up[f].stage \in {"status", "resync"} /\ Answers(f, s)
          \/ up[f].stage = "chunk" /\ up[f].next <= s.next /\ Answers(f, HasChunk(s, up[f].next))
          \/ /\ up[f].stage = "complete" /\ s.next = Chunks[f]
             /\ Answers(f, [state |-> "published", next |-> s.next])
          \/ up[f].stage = "abort" /\ Answers(f, [state |-> "gone", next |-> s.next])

Serve(f) ==
    /\ Take(f) /\ Served(f)
    /\ UNCHANGED <<up, walking, dirKnown, late>>

\* A chunk the client has an error for may still be on its way.
Fail(f) ==
    /\ Break(f)
    /\ \/ UNCHANGED late
       \/ up[f].stage = "chunk" /\ late' = [late EXCEPT ![f] = @ \cup {up[f].next}]
    /\ UNCHANGED <<up, walking, dirKnown, sess, ans>>

LateChunk(f) ==
    /\ \E n \in late[f] :
         /\ late' = [late EXCEPT ![f] = @ \ {n}]
         /\ sess' = [sess EXCEPT ![f] = IF @.state = "open" THEN HasChunk(@, n) ELSE @]
    /\ UNCHANGED <<clientVars, up, walking, dirKnown, ans>>

\* The server gives a session up.
Forget(f) ==
    /\ sess[f].state = "open"
    /\ sess' = [sess EXCEPT ![f].state = "gone"]
    /\ UNCHANGED <<clientVars, up, walking, dirKnown, ans, late>>

-----------------------------------------------------------------------------
(* The whole.                                                              *)

\* The walker's requests, and those of other users of the client.
Other(c) ==
    \/ Take(c) \/ Break(c)
    \/ c # Walker /\ Request(c)

Upstream(c) == (Proceed(c) \/ Answer(c)) /\ UNCHANGED uploadVars

Next ==
    \/ \E f \in Files : FindFile(f) \/ Handle(f) \/ Serve(f) \/ Fail(f)
                        \/ LateChunk(f) \/ Forget(f)
    \/ FolderMade
    \/ \E c \in Callers \ Files : Other(c) /\ UNCHANGED uploadVars
    \/ \E c \in Callers : Upstream(c)
    \/ Expire /\ UNCHANGED uploadVars

\* A goroutine that can go on does, and a request ends: it is answered or its
\* connection breaks.  Goroutines that wait for the mutex get it in turn.
Fairness ==
    /\ \A f \in Files :
         /\ WF_vars(FindFile(f)) /\ WF_vars(Handle(f)) /\ WF_vars(Serve(f) \/ Fail(f))
    /\ WF_vars(FolderMade)
    /\ WF_vars((Take(Walker) \/ Break(Walker)) /\ UNCHANGED uploadVars)
    /\ \A c \in Callers :
         /\ WF_vars(Upstream(c))
         /\ SF_vars((CachedToken(c) \/ StartExchange(c) \/ ClearJWT(c)) /\ UNCHANGED uploadVars)

Spec == Init /\ [][Next]_vars /\ Fairness

-----------------------------------------------------------------------------
(* Properties.                                                             *)

\* While the server keeps the session, an upload never runs ahead of it: no
\* chunk leaves a gap, and UploadComplete comes when every chunk is there,
\* after lost answers, chunks that arrive late, and status requests that fail.
\* (Uploader.Upload, upload.go:40-79.)
NeverAhead ==
    \A f \in Files :
        up[f].stage \in Requests /\ sess[f].state = "open" => up[f].next <= sess[f].next

\* A file reported with upload:done has been published, whole.  (App.uploadFile,
\* app.go:358-370.)
DoneMeansPublished ==
    \A f \in Files :
        up[f].stage = "done" => sess[f] = [state |-> "published", next |-> Chunks[f]]

\* Every file of the folder comes to its end: no upload starves for a place
\* in uploadSem, for the token, or in its retries.  (App.uploadFile,
\* Uploader.Upload: three failures in a row end it.)
UploadsEnd == \A f \in Files : <>(up[f].stage \in Ended)

=============================================================================
