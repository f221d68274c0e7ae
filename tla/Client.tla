------------------------------- MODULE Client -------------------------------
(***************************************************************************)
(* The requests of protocol.Client (internal/protocol/client.go).  The     *)
(* goroutines of a program share one client and its session token: each    *)
(* request takes the token, exchanging the device token for one when there *)
(* is none, and is made once more with a new token after a 401.            *)
(*                                                                         *)
(* The body of PushFile and UploadFile is read from an open file as it is  *)
(* sent.  When the answer comes before the whole body has been sent, the   *)
(* transport's writer may go on reading that file for a while, next to the *)
(* second attempt, which has rewound it: they share one offset.            *)
(***************************************************************************)
EXTENDS Naturals, Sequences, FiniteSets

CONSTANTS
    Callers,      \* goroutines
    Blocks,       \* [Callers -> Nat]: the length of the file a caller sends;
                  \* 0: its bodies are kept in memory
    None,         \* no caller
    MaxExpired    \* bound: the last token the server withdraws, or one more

ASSUME BlocksAssumption == Blocks \in [Callers -> Nat]
ASSUME NoneAssumption == None \notin Callers

VARIABLES
    jwt,       \* the client's token; 0: none.  Tokens are numbered as issued
    mu,        \* the caller that holds the client's mutex while it does I/O
    issued,    \* the server: number of tokens issued
    expired,   \* the server: the newest token it no longer accepts
    call,      \* the request of each caller
    body       \* its source and what of it was sent in the present attempt

clientVars == <<jwt, mu, issued, expired, call, body>>

\* "exchange": the token request is under way, under mu; "store": its answer
\* is there; "admitted", "denied": what the server made of the token, the body
\* still being sent; "refused": the caller has the 401 of its first attempt;
\* "taken": the server has the whole request.
Stages == {"idle", "token", "exchange", "store", "send", "admitted", "denied",
           "refused", "taken", "ok", "error"}

\* refused: the token the first attempt was refused with; 0: first attempt.
Call == [stage : Stages, tok : Nat, refused : Nat]

\* pos: the offset of the file; stale: a writer of the first attempt is there.
Body == [pos : Nat, sent : Seq(Nat), stale : BOOLEAN]

TypeOK ==
    /\ jwt \in 0 .. issued
    /\ mu \in Callers \cup {None}
    /\ issued \in Nat
    /\ expired \in 0 .. issued
    /\ call \in [Callers -> Call]
    /\ body \in [Callers -> Body]
    /\ \A c \in Callers : call[c].tok <= issued /\ body[c].pos <= Blocks[c]

ClientInit ==
    /\ jwt = 0 /\ mu = None /\ issued = 0 /\ expired = 0
    /\ call = [c \in Callers |-> [stage |-> "idle", tok |-> 0, refused |-> 0]]
    /\ body = [c \in Callers |-> [pos |-> 0, sent |-> <<>>, stale |-> FALSE]]

-----------------------------------------------------------------------------
At(c, stage) == call[c].stage = stage

SetCall(c, stage, tok, refused) ==
    call' = [call EXCEPT ![c] = [stage |-> stage, tok |-> tok, refused |-> refused]]

SetBody(c, pos, sent, stale) ==
    body' = [body EXCEPT ![c] = [pos |-> pos, sent |-> sent, stale |-> stale]]

To(c, stage) == SetCall(c, stage, call[c].tok, call[c].refused)

\* The caller has the outcome.  What is left of the body is of no account: the
\* caller closes its file.
Reset(c, stage) ==
    /\ SetCall(c, stage, 0, 0)
    /\ SetBody(c, 0, <<>>, FALSE)

\* An attempt begins: it has a token, and the source at its start (newBody).
Send(c, t) ==
    /\ SetCall(c, "send", t, call[c].refused)
    /\ SetBody(c, 0, <<>>, body[c].stale)

\* A request of a caller that has none under way, with a source of its own.
CanRequest(c) == call[c].stage \in {"idle", "ok", "error"}

Request(c) ==
    /\ CanRequest(c)
    /\ Reset(c, "token")
    /\ UNCHANGED <<jwt, mu, issued, expired>>

\* Mutant: the mutex guards the field, and not the exchange.
Unguarded == TRUE

\* The mutex can be had.  Who holds it without doing I/O is not seen.
MuFree == mu = None

\* token: the cached one ...
CachedToken(c) ==
    /\ At(c, "token") /\ MuFree /\ jwt # 0
    /\ Send(c, jwt)
    /\ UNCHANGED <<jwt, mu, issued, expired>>

\* ... or a new one: mu is held from here until the answer is stored.
StartExchange(c) ==
    /\ At(c, "token") /\ MuFree /\ jwt = 0
    /\ mu' = c
    /\ To(c, "exchange")
    /\ UNCHANGED <<jwt, issued, expired, body>>

Issue(c) ==
    /\ At(c, "exchange")
    /\ issued' = issued + 1
    /\ SetCall(c, "store", issued + 1, call[c].refused)
    /\ UNCHANGED <<jwt, mu, expired, body>>

FailExchange(c) ==
    /\ At(c, "exchange")
    /\ mu' = None
    /\ Reset(c, "error")
    /\ UNCHANGED <<jwt, issued, expired>>

StoreToken(c) ==
    /\ At(c, "store")
    /\ jwt' = call[c].tok /\ mu' = None
    /\ Send(c, call[c].tok)
    /\ UNCHANGED <<issued, expired>>

-----------------------------------------------------------------------------
(* The request on its way.                                                 *)

\* The server looks at the token before it has the body.
Arrive(c) ==
    /\ At(c, "send")
    /\ To(c, IF call[c].tok <= expired THEN "denied" ELSE "admitted")
    /\ UNCHANGED <<jwt, mu, issued, expired, body>>

Sending(c) == call[c].stage \in {"send", "admitted", "denied"}

ReadBlock(c) ==
    /\ Sending(c) /\ body[c].pos < Blocks[c]
    /\ SetBody(c, body[c].pos + 1, Append(body[c].sent, body[c].pos + 1), body[c].stale)
    /\ UNCHANGED <<jwt, mu, issued, expired, call>>

\* Mutant: the writer of the first attempt does not see the end of the file.
StaleReadOn(c) ==
    /\ body[c].stale
    /\ SetBody(c, body[c].pos + 1, body[c].sent, TRUE)
    /\ UNCHANGED <<jwt, mu, issued, expired, call>>

\* The writer of the first attempt reads on; its connection is closed.
StaleRead(c) ==
    /\ body[c].stale /\ body[c].pos < Blocks[c]
    /\ SetBody(c, body[c].pos + 1, body[c].sent, TRUE)
    /\ UNCHANGED <<jwt, mu, issued, expired, call>>

StaleStop(c) ==
    /\ body[c].stale
    /\ SetBody(c, body[c].pos, body[c].sent, FALSE)
    /\ UNCHANGED <<jwt, mu, issued, expired, call>>

\* Mutant: no Content-Length, the body goes out in chunks.
Undeclared(c) == TRUE

\* The transport has read the file to its end, and has sent as much as the
\* Content-Length that was declared.
Declared(c) == Len(body[c].sent) = Blocks[c]

SentAll(c) == body[c].pos = Blocks[c] /\ Declared(c)

CanTake(c) == At(c, "admitted") /\ SentAll(c)

Take(c) ==
    /\ CanTake(c)
    /\ To(c, "taken")
    /\ UNCHANGED <<jwt, mu, issued, expired, body>>

Answer(c) ==
    /\ At(c, "taken")
    /\ Reset(c, "ok")
    /\ UNCHANGED <<jwt, mu, issued, expired>>

\* The server answers with an error of its own, the connection breaks, or the
\* source ends before the declared length; the first two perhaps when the
\* server has all of it.
Break(c) ==
    /\ Sending(c) \/ At(c, "taken")
    /\ Reset(c, "error")
    /\ UNCHANGED <<jwt, mu, issued, expired>>

\* A 401 is final at the second attempt.  The body may be half sent.
Deny(c) ==
    /\ At(c, "denied")
    /\ IF call[c].refused = 0
         THEN /\ SetCall(c, "refused", call[c].tok, call[c].tok)
              /\ SetBody(c, body[c].pos, body[c].sent, body[c].pos < Blocks[c])
         ELSE Reset(c, "error")
    /\ UNCHANGED <<jwt, mu, issued, expired>>

\* clearJWT: whichever token is there, also a newer one.
ClearJWT(c) ==
    /\ At(c, "refused") /\ MuFree
    /\ jwt' = 0
    /\ To(c, "token")
    /\ UNCHANGED <<mu, issued, expired, body>>

-----------------------------------------------------------------------------
\* The server withdraws tokens, the oldest ones first: their time is over.
Expire ==
    /\ expired < MaxExpired
    /\ expired' \in expired + 1 .. issued
    /\ UNCHANGED <<jwt, mu, issued, call, body>>

\* What happens to a request until the server has all of it.
Proceed(c) ==
    \/ CachedToken(c) \/ StartExchange(c) \/ Issue(c) \/ FailExchange(c)
    \/ StoreToken(c) \/ Arrive(c) \/ ReadBlock(c) \/ StaleRead(c) \/ StaleStop(c)
    \/ Deny(c) \/ ClearJWT(c)

ClientNext ==
    \/ \E c \in Callers : Request(c) \/ Proceed(c) \/ Take(c) \/ Answer(c) \/ Break(c)
    \/ Expire

ClientSpec == ClientInit /\ [][ClientNext]_clientVars

-----------------------------------------------------------------------------
(* Properties.                                                             *)

\* A retry never goes out with a token as old as the one that was refused:
\* a request fails with 401 only when the server has withdrawn two tokens
\* since it began.  (token and clearJWT, client.go:68-93 and 184-188: another
\* caller's exchange may end between the two.)
RetryHasNewerToken ==
    \A c \in Callers :
        Sending(c) /\ call[c].refused # 0 => call[c].tok > call[c].refused

\* What the server takes is the file, whatever the writer of a refused attempt
\* has read next to the one that succeeds.  (replayableBody, PushFile and
\* UploadFile, client.go:199-290: "instead of letting a short file reach the
\* server looking complete".)
WholeBodies ==
    \A c \in Callers :
        At(c, "taken") => body[c].sent = [i \in 1 .. Blocks[c] |-> i]

=============================================================================
