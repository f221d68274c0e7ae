---------------------------- MODULE VaultSession ----------------------------
(***************************************************************************)
(* Opening and closing encrypted vaults on the desktop                     *)
(* (internal/desktop/vaultsync.go over internal/vaultmgr and the tree      *)
(* walks of internal/vault).  OpenVault downloads the ciphertext into a    *)
(* temporary folder and decrypts it into a plain folder, where the user    *)
(* works; CloseVault encrypts the plain folder, removes it and uploads the *)
(* ciphertext.  Between those steps are other calls, the user, the other   *)
(* devices, errors, and the end of the process.                            *)
(*                                                                         *)
(* A file stands for its name and content, encrypted or not: the names of  *)
(* files in a vault's root are encrypted the same way every time.          *)
(* Sub-folders do not occur (they get fresh random names).  The ciphertext *)
(* of a call is its own until it is published in a session.                *)
(***************************************************************************)
EXTENDS Naturals

CONSTANTS
    Vaults,         \* the vaults' paths on the server
    Folders,        \* base names: what plain folders are named by
    FolderOf,       \* the base name of a vault
    Files,          \* names of files
    Contents,       \* contents of files
    Stored,         \* what the server has at first
    Callers,        \* threads that call the controller
    UserContents,   \* what the user writes
    RemoteContents, \* what the other devices write
    FaultsAt,       \* the stages where a call may fail
    MaxEdit, MaxRemote, MaxFault, MaxCrash      \* bounds on the environment

Absent == "absent"

ASSUME ContentsAssumption == Absent \notin Contents
ASSUME VaultsAssumption   == Vaults # {} /\ FolderOf \in [Vaults -> Folders]
ASSUME StoredAssumption   == Stored \in [Vaults -> [Files -> Contents \cup {Absent}]]
ASSUME WritesAssumption   == UserContents \cup RemoteContents \subseteq Contents

VARIABLES
    remote,     \* the vaults on the server
    plain,      \* the plain folders
    sessions,   \* Controller.sessions
    calls,      \* OpenVault and CloseVault under way
    unsaved,    \* history: what the user wrote in an open vault and the server
                \* has not been sent
    abandoned,  \* history: plain folders left by a crash or a failed decryption
    overlapped, \* history: plain folders in use when a vault was opened into them
    torn,       \* history: plain folders that a failed removal has left in part
    retried,    \* history: plain folders that were encrypted again when torn
    spent       \* steps of the environment so far

marks == <<overlapped, torn, retried>>
vars  == <<remote, plain, sessions, calls, unsaved, abandoned, marks, spent>>

Content == Contents \cup {Absent}
Tree    == [Files -> Content]
Nothing == [f \in Files |-> Absent]
\* Mutant: the walk yields the contents for the names.
InByContent(tree) == {tree[f] : f \in Files} \ {Absent}

In(tree) == {f \in Files : tree[f] # Absent}

NoFolder == [made |-> FALSE, files |-> Nothing]

\* vm and tmpDir of a vaultSession: the keys in memory, the ciphertext.
Session   == [open : BOOLEAN, keys : BOOLEAN, tmp : Tree]
NoSession == [open |-> FALSE, keys |-> FALSE, tmp |-> Nothing]

Opening == {"list", "download", "decrypt"}
Closing == {"check", "encrypt", "wipe", "upload"}
Call == [at : Opening \cup Closing \cup {"idle"}, vault : Vaults,
         todo : SUBSET Files, tmp : Tree, keys : BOOLEAN]
Idle == [at |-> "idle", vault |-> CHOOSE v \in Vaults : TRUE,
         todo |-> {}, tmp |-> Nothing, keys |-> FALSE]

TypeOK ==
    /\ remote \in [Vaults -> Tree]
    /\ plain \in [Folders -> [made : BOOLEAN, files : Tree]]
    /\ sessions \in [Vaults -> Session]
    /\ calls \in [Callers -> Call]
    /\ unsaved \in [Vaults -> Tree]
    /\ abandoned \subseteq Folders /\ overlapped \subseteq Folders
    /\ torn \subseteq Folders /\ retried \subseteq Folders
    /\ spent \in [edit : Nat, remote : Nat, fault : Nat, crash : Nat]

Init ==
    /\ remote = Stored
    /\ plain = [n \in Folders |-> NoFolder]
    /\ sessions = [v \in Vaults |-> NoSession]
    /\ calls = [c \in Callers |-> Idle]
    /\ unsaved = [v \in Vaults |-> Nothing]
    /\ abandoned = {} /\ overlapped = {} /\ torn = {} /\ retried = {}
    /\ spent = [edit |-> 0, remote |-> 0, fault |-> 0, crash |-> 0]

Folder(c) == FolderOf[calls[c].vault]

\* A fault of the network, the disk or another program.
FaultAt(stage) == stage \in FaultsAt /\ spent.fault < MaxFault
Fault == spent' = [spent EXCEPT !.fault = @ + 1]

-----------------------------------------------------------------------------
(* OpenVault.                                                              *)

\* Another call is at work on the plain folder, or a vault with it is open.
InUse(n) ==
    \/ \E c \in Callers : calls[c].at # "idle" /\ Folder(c) = n
    \/ \E v \in Vaults : FolderOf[v] = n /\ sessions[v].open

\* A vault that has a session is not opened again: the call returns the name of
\* its plain folder.  Nobody asks whether that folder is in use.
OpenVault(c, v) ==
    /\ calls[c].at = "idle" /\ ~sessions[v].open
    /\ overlapped' = IF InUse(FolderOf[v]) THEN overlapped \cup {FolderOf[v]} ELSE overlapped
    /\ calls' = [calls EXCEPT ![c] = [Idle EXCEPT !.at = "list", !.vault = v]]
    /\ UNCHANGED <<remote, plain, sessions, unsaved, abandoned, spent, torn, retried>>

\* Refresh: the files to download are those the index has now.
ListFiles(c) ==
    /\ calls[c].at = "list"
    /\ calls' = [calls EXCEPT ![c].at = "download", ![c].todo = In(remote[calls[c].vault])]
    /\ UNCHANGED <<remote, plain, sessions, unsaved, abandoned, spent, marks>>

DownloadFile(c, f) ==
    /\ calls[c].at = "download" /\ f \in calls[c].todo /\ remote[calls[c].vault][f] # Absent
    /\ calls' = [calls EXCEPT ![c].todo = @ \ {f},
                              ![c].tmp[f] = remote[calls[c].vault][f]]
    /\ UNCHANGED <<remote, plain, sessions, unsaved, abandoned, spent, marks>>

\* The right password: the plain folder is made if need be, never emptied.
Unlock(c) ==
    /\ calls[c].at = "download" /\ calls[c].todo = {}
    /\ plain' = [plain EXCEPT ![Folder(c)].made = TRUE]
    /\ calls' = [calls EXCEPT ![c].at = "decrypt", ![c].todo = In(calls[c].tmp)]
    /\ UNCHANGED <<remote, sessions, unsaved, abandoned, spent, marks>>

DecryptFile(c, f) ==
    /\ calls[c].at = "decrypt" /\ f \in calls[c].todo /\ plain[Folder(c)].made
    /\ plain' = [plain EXCEPT ![Folder(c)].files[f] = calls[c].tmp[f]]
    /\ calls' = [calls EXCEPT ![c].todo = @ \ {f}]
    /\ UNCHANGED <<remote, sessions, unsaved, abandoned, spent, marks>>

\* storeUnlocked and the entry in the map, whatever the map holds by then.
Register(c) ==
    /\ calls[c].at = "decrypt" /\ calls[c].todo = {}
    /\ sessions' = [sessions EXCEPT ![calls[c].vault] =
                        [open |-> TRUE, keys |-> TRUE, tmp |-> calls[c].tmp]]
    /\ calls' = [calls EXCEPT ![c] = Idle]
    /\ abandoned' = abandoned \ {Folder(c)}
    /\ UNCHANGED <<remote, plain, unsaved, spent, marks>>

\* An error ends the call and removes its ciphertext: a wrong password, a file
\* that is gone from the server or a plain folder that is gone by now, a fault.
\* What has been decrypted stays.
FailOpen(c) ==
    LET call == calls[c] IN
    /\ \/ call.at = "download" /\ call.todo = {} /\ spent' = spent
       \/ /\ call.at = "download" /\ spent' = spent
          /\ \E f \in call.todo : remote[call.vault][f] = Absent
       \/ call.at = "decrypt" /\ call.todo # {} /\ ~plain[Folder(c)].made /\ spent' = spent
       \/ call.at \in Opening /\ FaultAt(call.at) /\ Fault
    /\ calls' = [calls EXCEPT ![c] = Idle]
    /\ abandoned' = IF call.at = "decrypt" /\ plain[Folder(c)].made
                    THEN abandoned \cup {Folder(c)} ELSE abandoned
    /\ UNCHANGED <<remote, plain, sessions, unsaved, marks>>

-----------------------------------------------------------------------------
(* CloseVault.                                                             *)

\* The session is claimed under the lock.
CloseVault(c, v) ==
    /\ calls[c].at = "idle" /\ sessions[v].open
    /\ calls' = [calls EXCEPT ![c] = [Idle EXCEPT !.at = "check", !.vault = v,
                        !.tmp = sessions[v].tmp, !.keys = sessions[v].keys]]
    /\ sessions' = [sessions EXCEPT ![v] = NoSession]
    /\ UNCHANGED <<remote, plain, unsaved, abandoned, spent, marks>>

\* The old ciphertext is removed before the new one is written.
StartEncrypt(c) ==
    /\ calls[c].at = "check" /\ calls[c].keys /\ plain[Folder(c)].made
    /\ calls' = [calls EXCEPT ![c].at = "encrypt", ![c].tmp = Nothing,
                              ![c].todo = In(plain[Folder(c)].files)]
    /\ retried' = IF Folder(c) \in torn THEN retried \cup {Folder(c)} ELSE retried
    /\ UNCHANGED <<remote, plain, sessions, unsaved, abandoned, spent, overlapped, torn>>

EncryptFile(c, f) ==
    /\ calls[c].at = "encrypt" /\ f \in calls[c].todo /\ plain[Folder(c)].files[f] # Absent
    /\ calls' = [calls EXCEPT ![c].todo = @ \ {f},
                              ![c].tmp[f] = plain[Folder(c)].files[f]]
    /\ UNCHANGED <<remote, plain, sessions, unsaved, abandoned, spent, marks>>

\* Mutant: an error of the walk is dropped, what it did not reach is left out.
EncryptedInPart(c) ==
    /\ calls[c].at = "encrypt"
    /\ calls' = [calls EXCEPT ![c].at = "wipe"]
    /\ UNCHANGED <<remote, plain, sessions, unsaved, abandoned, spent, marks>>

Encrypted(c) ==
    /\ calls[c].at = "encrypt" /\ calls[c].todo = {}
    /\ calls' = [calls EXCEPT ![c].at = "wipe"]
    /\ UNCHANGED <<remote, plain, sessions, unsaved, abandoned, spent, marks>>

\* The plain folder goes, and the keys with it.
Wipe(c) ==
    /\ calls[c].at = "wipe"
    /\ plain' = [plain EXCEPT ![Folder(c)] = NoFolder]
    /\ calls' = [calls EXCEPT ![c].at = "upload", ![c].keys = FALSE,
                              ![c].todo = In(calls[c].tmp)]
    /\ abandoned' = abandoned \ {Folder(c)}
    /\ torn' = torn \ {Folder(c)}
    /\ UNCHANGED <<remote, sessions, unsaved, spent, overlapped, retried>>

\* PushFile without a base version: the file is replaced, whatever it holds.
UploadFile(c, f) ==
    LET v == calls[c].vault
        x == calls[c].tmp[f]
    IN
    /\ calls[c].at = "upload" /\ f \in calls[c].todo
    /\ remote' = [remote EXCEPT ![v][f] = x]
    /\ calls' = [calls EXCEPT ![c].todo = @ \ {f}]
    /\ unsaved' = [unsaved EXCEPT ![v][f] = IF @ = x THEN Absent ELSE @]
    /\ UNCHANGED <<plain, sessions, abandoned, spent, marks>>

\* Mutant: an error of the upload is dropped.
FinishCloseInPart(c) ==
    /\ calls[c].at = "upload"
    /\ calls' = [calls EXCEPT ![c] = Idle]
    /\ UNCHANGED <<remote, plain, sessions, unsaved, abandoned, spent, marks>>

\* Nothing is deleted on the server.  The ciphertext goes.
FinishClose(c) ==
    /\ calls[c].at = "upload" /\ calls[c].todo = {}
    /\ calls' = [calls EXCEPT ![c] = Idle]
    /\ UNCHANGED <<remote, plain, sessions, unsaved, abandoned, spent, marks>>

\* Mutant: a close that failed has ended the session.
PutNothingBack(c) ==
    /\ calls' = [calls EXCEPT ![c] = Idle]
    /\ UNCHANGED sessions

\* The claimed session goes back into the map, whatever the map holds by then.
PutBack(c) ==
    /\ sessions' = [sessions EXCEPT ![calls[c].vault] =
                        [open |-> TRUE, keys |-> calls[c].keys, tmp |-> calls[c].tmp]]
    /\ calls' = [calls EXCEPT ![c] = Idle]

\* No keys (ErrLocked), no plain folder, a file gone since it was listed, or a
\* fault.
FailClose(c) ==
    LET call == calls[c] IN
    /\ \/ /\ call.at = "check" /\ ~(call.keys /\ plain[Folder(c)].made)
          /\ spent' = spent
       \/ /\ call.at = "encrypt" /\ spent' = spent
          /\ \E f \in call.todo : plain[Folder(c)].files[f] = Absent
       \/ call.at \in {"encrypt", "upload"} /\ FaultAt(call.at) /\ Fault
    /\ PutBack(c)
    /\ UNCHANGED <<remote, plain, unsaved, abandoned, marks>>

\* RemoveAll of the plain folder fails (another program has a file open), at its
\* first file or half-way.  The keys stay, and so does what was encrypted.
FailWipe(c) ==
    /\ calls[c].at = "wipe" /\ FaultAt("wipe") /\ Fault
    /\ \E gone \in SUBSET In(plain[Folder(c)].files) :
           /\ torn' = IF gone = {} THEN torn ELSE torn \cup {Folder(c)}
           /\ plain' = [plain EXCEPT ![Folder(c)].files =
                        [f \in Files |-> IF f \in gone THEN Absent ELSE @[f]]]
    /\ PutBack(c)
    /\ UNCHANGED <<remote, unsaved, abandoned, overlapped, retried>>

-----------------------------------------------------------------------------
(* The environment.                                                        *)

\* The user writes or deletes a file in a plain folder.  A write counts as
\* unsaved if the vault is open, not if it is being closed, or was left behind.
\* (AddFilesToVault does the same for files dropped on the window.)
Edit(n, f, x) ==
    /\ spent.edit < MaxEdit /\ plain[n].made /\ plain[n].files[f] # x
    /\ plain' = [plain EXCEPT ![n].files[f] = x]
    /\ unsaved' = [v \in Vaults |->
                     IF FolderOf[v] # n THEN unsaved[v]
                     ELSE [unsaved[v] EXCEPT ![f] = IF sessions[v].open THEN x ELSE Absent]]
    /\ spent' = [spent EXCEPT !.edit = @ + 1]
    /\ UNCHANGED <<remote, sessions, calls, abandoned, marks>>

\* Another device changes a vault.
RemoteEdit(v, f, x) ==
    /\ spent.remote < MaxRemote /\ remote[v][f] # x
    /\ remote' = [remote EXCEPT ![v][f] = x]
    /\ spent' = [spent EXCEPT !.remote = @ + 1]
    /\ UNCHANGED <<plain, sessions, calls, unsaved, abandoned, marks>>

\* The process ends: killed, or by Quit, which ignores errors of closing.  The
\* plain folders stay.
Crash ==
    /\ spent.crash < MaxCrash
    /\ sessions' = [v \in Vaults |-> NoSession]
    /\ calls' = [c \in Callers |-> Idle]
    /\ unsaved' = [v \in Vaults |-> Nothing]
    /\ abandoned' = {n \in Folders : plain[n].made}
    /\ overlapped' = {} /\ torn' = {} /\ retried' = {}
    /\ spent' = [spent EXCEPT !.crash = @ + 1]
    /\ UNCHANGED <<remote, plain>>

-----------------------------------------------------------------------------
Open(c) ==
    \/ \E v \in Vaults : OpenVault(c, v)
    \/ ListFiles(c)
    \/ \E f \in Files : DownloadFile(c, f)
    \/ Unlock(c)
    \/ \E f \in Files : DecryptFile(c, f)
    \/ Register(c)
    \/ FailOpen(c)

Close(c) ==
    \/ \E v \in Vaults : CloseVault(c, v)
    \/ StartEncrypt(c)
    \/ \E f \in Files : EncryptFile(c, f)
    \/ Encrypted(c)
    \/ Wipe(c)
    \/ \E f \in Files : UploadFile(c, f)
    \/ FinishClose(c)
    \/ FailClose(c)
    \/ FailWipe(c)

Environment ==
    \/ \E n \in Folders, f \in Files, x \in UserContents \cup {Absent} : Edit(n, f, x)
    \/ \E v \in Vaults, f \in Files, x \in RemoteContents \cup {Absent} : RemoteEdit(v, f, x)
    \/ Crash

Next == (\E c \in Callers : Open(c) \/ Close(c)) \/ Environment

Spec == Init /\ [][Next]_vars

-----------------------------------------------------------------------------
(* Properties.                                                             *)

\* What the user wrote in an open vault is in the plain folder, or in the
\* ciphertext of the session or of the call that closes it, until it has been
\* uploaded.
EditsKept(v) ==
    \A f \in Files : unsaved[v][f] # Absent =>
        \/ plain[FolderOf[v]].files[f] = unsaved[v][f]
        \/ sessions[v].open /\ sessions[v].tmp[f] = unsaved[v][f]
        \/ \E c \in Callers : /\ calls[c].at \in Closing /\ calls[c].vault = v
                              /\ calls[c].tmp[f] = unsaved[v][f]

\* "The session and ciphertext tmpDir are kept so no data is lost": whatever
\* fails, and however often a close is tried again, every edit is kept, unless the
\* vault was opened into a folder in use, or a folder that a failed removal had
\* left in part was encrypted again.
EditsSurvive ==
    \A v \in Vaults : FolderOf[v] \notin overlapped \cup retried => EditsKept(v)

\* The same without exception.
NoEditLost == \A v \in Vaults : EditsKept(v)

\* CloseVault returns without an error: no fault and no crash has ended it.
ReturnsNil(c) == calls[c].at = "upload" /\ calls'[c].at = "idle" /\ spent' = spent

\* When CloseVault returns without an error, the server has been sent everything
\* the user wrote before it was called ("CloseVault re-encrypts the open vault's
\* plaintext back into ciphertext and uploads it to the server"), with the same
\* two exceptions.
SavedOnReturn ==
    [][\A c \in Callers : ReturnsNil(c) /\ Folder(c) \notin overlapped \cup retried
                              => unsaved[calls[c].vault] = Nothing]_vars

\* A plain folder belongs to a session with keys to close it, or to a call that is
\* opening or closing a vault of its name, unless a crash or a failed decryption
\* has left it behind.
Owned(n) ==
    plain[n].made =>
        \/ n \in abandoned
        \/ \E v \in Vaults : FolderOf[v] = n /\ sessions[v].open /\ sessions[v].keys
        \/ \E c \in Callers : Folder(c) = n /\ calls[c].at = "decrypt"
        \/ \E c \in Callers : Folder(c) = n /\ calls[c].at \in Closing /\ calls[c].keys

\* "So plaintext never lingers on disk": every plain folder has an owner, unless a
\* vault was opened into it while it was in use.
PlaintextOwned == \A n \in Folders \ overlapped : Owned(n)

\* The same without exception.
NoPlaintextLingers == \A n \in Folders : Owned(n)
=============================================================================
