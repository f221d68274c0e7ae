------------------------- MODULE VaultSessionProofs -------------------------
(***************************************************************************)
(* What CloseVault keeps of the user's work, whatever fails around it, and *)
(* that a plain folder on disk belongs to an open session or to a call at  *)
(* work.  Calls overlap and fail at will; a plain folder leaves the        *)
(* promise when a vault is opened into it while it is in use, or, as far   *)
(* as edits go, when it is encrypted again after a removal stopped         *)
(* half-way, and no other folder leaves with it.                           *)
(***************************************************************************)
EXTENDS VaultSession, TLAPS

Busy(c) == calls[c].at # "idle"

Sound(n) == n \notin overlapped \cup retried

\* A plain folder has one holder, an open session or one call, unless a vault was
\* opened into it while it was in use.
Alone(n) ==
    /\ \A c, d \in Callers : Busy(c) /\ Busy(d) /\ Folder(c) = n /\ Folder(d) = n => c = d
    /\ \A c \in Callers, v \in Vaults :
          Busy(c) /\ Folder(c) = n /\ FolderOf[v] = n => ~sessions[v].open
    /\ \A v, w \in Vaults :
          v # w /\ FolderOf[v] = n /\ FolderOf[w] = n => ~(sessions[v].open /\ sessions[w].open)
OneHolder == \A n \in Folders \ overlapped : Alone(n)

\* The keys are there while the plain folder is needed, and go with it.
KeysByStage ==
    \A c \in Callers : /\ calls[c].at \in {"encrypt", "wipe"} => calls[c].keys
                       /\ calls[c].at = "upload" => ~calls[c].keys

KeysGoWithFolder ==
    /\ \A c \in Callers :
          calls[c].at \in {"check", "upload"} /\ ~calls[c].keys /\ Sound(Folder(c))
            => ~plain[Folder(c)].made
    /\ \A v \in Vaults :
          sessions[v].open /\ ~sessions[v].keys /\ Sound(FolderOf[v])
            => ~plain[FolderOf[v]].made

GoneIsEmpty == \A n \in Folders : ~plain[n].made => plain[n].files = Nothing

\* Where an unsaved content is at each stage of its holder.  When a folder has
\* been removed in part, what it has lost is in the ciphertext.
Readable(v, f, tmp) ==
    \/ plain[FolderOf[v]].files[f] = unsaved[v][f]
    \/ FolderOf[v] \in torn /\ tmp[f] = unsaved[v][f]

InSession(v, f) ==
    /\ sessions[v].open
    /\ IF sessions[v].keys THEN Readable(v, f, sessions[v].tmp)
                           ELSE sessions[v].tmp[f] = unsaved[v][f]

InCall(c, v, f) ==
    LET call      == calls[c]
        inPlain   == plain[FolderOf[v]].files[f] = unsaved[v][f]
        encrypted == call.tmp[f] = unsaved[v][f]
    IN
    /\ call.vault = v
    /\ \/ call.at = "check" /\ IF call.keys THEN Readable(v, f, call.tmp) ELSE encrypted
       \/ call.at = "encrypt" /\ inPlain /\ (f \in call.todo \/ encrypted)
       \/ call.at = "wipe" /\ inPlain /\ encrypted
       \/ call.at = "upload" /\ f \in call.todo /\ encrypted

Kept ==
    \A v \in Vaults, f \in Files : Sound(FolderOf[v]) /\ unsaved[v][f] # Absent =>
        InSession(v, f) \/ \E c \in Callers : InCall(c, v, f)

-----------------------------------------------------------------------------
(* Types.                                                                  *)

LEMMA TreeTypes ==
    /\ Nothing \in Tree
    /\ \A t \in Tree, f \in Files, x \in Content : [t EXCEPT ![f] = x] \in Tree
    /\ \A t \in Tree, f \in Files : t[f] \in Content
    /\ \A t \in Tree : In(t) \in SUBSET Files
  BY DEF Nothing, Tree, Content, In

LEMMA IdleType == Idle \in Call
  BY VaultsAssumption, TreeTypes DEF Idle, Call, Opening, Closing

LEMMA InitType == Init => TypeOK
  BY IdleType, TreeTypes, StoredAssumption
  DEF Init, TypeOK, Tree, Content, NoFolder, NoSession, Session

\* A step of a call changes its own record, and may change a plain folder, a
\* session, a file of the server and what is unsaved: all within their types.
LEMMA OpenType ==
    ASSUME TypeOK, NEW c \in Callers, Open(c)
    PROVE  TypeOK'
<1> USE DEF TypeOK, marks
<1>0. Folder(c) \in Folders
  BY VaultsAssumption DEF Folder, Call
<1>1. ASSUME NEW v \in Vaults, OpenVault(c, v)
      PROVE  TypeOK'
  <2>1. [Idle EXCEPT !.at = "list", !.vault = v] \in Call
    BY IdleType DEF Call, Opening
  <2> QED
    BY <1>1, <2>1, VaultsAssumption DEF OpenVault
<1>2. CASE ListFiles(c)
  <2>1. In(remote[calls[c].vault]) \in SUBSET Files
    BY TreeTypes DEF Call
  <2>2. [calls[c] EXCEPT !.at = "download", !.todo = In(remote[calls[c].vault])] \in Call
    BY <2>1 DEF Call, Opening
  <2>3. calls' = [calls EXCEPT ![c] = [calls[c] EXCEPT !.at = "download",
                                       !.todo = In(remote[calls[c].vault])]]
    BY <1>2 DEF ListFiles
  <2> QED
    BY <1>2, <2>2, <2>3 DEF ListFiles
<1>3. ASSUME NEW f \in Files, DownloadFile(c, f)
      PROVE  TypeOK'
  <2>1. remote[calls[c].vault][f] \in Content
    BY TreeTypes DEF Call
  <2>2. [calls[c].tmp EXCEPT ![f] = remote[calls[c].vault][f]] \in Tree
    BY <2>1, TreeTypes DEF Call
  <2>3. [calls[c] EXCEPT !.todo = @ \ {f}, !.tmp[f] = remote[calls[c].vault][f]] \in Call
    BY <2>2 DEF Call
  <2>4. calls' = [calls EXCEPT ![c] = [calls[c] EXCEPT !.todo = @ \ {f},
                                       !.tmp[f] = remote[calls[c].vault][f]]]
    BY <1>3 DEF DownloadFile
  <2> QED
    BY <1>3, <2>3, <2>4 DEF DownloadFile
<1>4. CASE Unlock(c)
  <2>1. In(calls[c].tmp) \in SUBSET Files
    BY TreeTypes DEF Call
  <2>2. [calls[c] EXCEPT !.at = "decrypt", !.todo = In(calls[c].tmp)] \in Call
    BY <2>1 DEF Call, Opening
  <2>3. calls' = [calls EXCEPT ![c] = [calls[c] EXCEPT !.at = "decrypt",
                                       !.todo = In(calls[c].tmp)]]
    BY <1>4 DEF Unlock
  <2>4. plain' \in [Folders -> [made : BOOLEAN, files : Tree]]
    BY <1>0, <1>4 DEF Unlock
  <2>5. calls' \in [Callers -> Call]
    BY <2>2, <2>3
  <2> QED
    BY <1>4, <2>4, <2>5 DEF Unlock
<1>5. ASSUME NEW f \in Files, DecryptFile(c, f)
      PROVE  TypeOK'
  <2>1. [plain[Folder(c)].files EXCEPT ![f] = calls[c].tmp[f]] \in Tree
    BY <1>0, TreeTypes DEF Call
  <2>2. plain' \in [Folders -> [made : BOOLEAN, files : Tree]]
    BY <1>0, <1>5, <2>1 DEF DecryptFile
  <2>3. calls' \in [Callers -> Call]
    BY <1>5 DEF DecryptFile, Call
  <2> QED
    BY <1>5, <2>2, <2>3 DEF DecryptFile
<1>6. CASE Register(c)
  <2>1. [open |-> TRUE, keys |-> TRUE, tmp |-> calls[c].tmp] \in Session
    BY DEF Call, Session
  <2> QED
    BY <1>6, <2>1, IdleType DEF Register
<1>7. CASE FailOpen(c)
  <2>1. spent' \in [edit : Nat, remote : Nat, fault : Nat, crash : Nat]
    BY <1>7 DEF FailOpen, Fault
  <2> QED
    BY <1>0, <1>7, <2>1, IdleType DEF FailOpen
<1> QED
  BY <1>1, <1>2, <1>3, <1>4, <1>5, <1>6, <1>7 DEF Open

LEMMA PutBackType ==
    ASSUME TypeOK, NEW c \in Callers, PutBack(c)
    PROVE  sessions' \in [Vaults -> Session] /\ calls' \in [Callers -> Call]
<1>1. [open |-> TRUE, keys |-> calls[c].keys, tmp |-> calls[c].tmp] \in Session
  BY DEF TypeOK, Call, Session
<1> QED
  BY <1>1, IdleType DEF TypeOK, PutBack

LEMMA CloseType ==
    ASSUME TypeOK, NEW c \in Callers, Close(c)
    PROVE  TypeOK'
<1> USE DEF TypeOK, marks
<1>0. Folder(c) \in Folders
  BY VaultsAssumption DEF Folder, Call
<1>1. ASSUME NEW v \in Vaults, CloseVault(c, v)
      PROVE  TypeOK'
  <2>1. [Idle EXCEPT !.at = "check", !.vault = v, !.tmp = sessions[v].tmp,
                     !.keys = sessions[v].keys] \in Call
    BY IdleType DEF Call, Closing, Session
  <2>2. NoSession \in Session
    BY TreeTypes DEF NoSession, Session
  <2> QED
    BY <1>1, <2>1, <2>2 DEF CloseVault
<1>2. CASE StartEncrypt(c)
  <2>1. In(plain[Folder(c)].files) \in SUBSET Files
    BY <1>0, TreeTypes
  <2>2. [calls[c] EXCEPT !.at = "encrypt", !.tmp = Nothing,
                         !.todo = In(plain[Folder(c)].files)] \in Call
    BY <2>1, TreeTypes DEF Call, Closing
  <2>3. calls' = [calls EXCEPT ![c] = [calls[c] EXCEPT !.at = "encrypt", !.tmp = Nothing,
                                       !.todo = In(plain[Folder(c)].files)]]
    BY <1>2 DEF StartEncrypt
  <2> QED
    BY <1>2, <2>2, <2>3 DEF StartEncrypt
<1>3. ASSUME NEW f \in Files, EncryptFile(c, f)
      PROVE  TypeOK'
  <2>1. plain[Folder(c)].files[f] \in Content
    BY <1>0, TreeTypes
  <2>2. [calls[c].tmp EXCEPT ![f] = plain[Folder(c)].files[f]] \in Tree
    BY <2>1, TreeTypes DEF Call
  <2>3. [calls[c] EXCEPT !.todo = @ \ {f}, !.tmp[f] = plain[Folder(c)].files[f]] \in Call
    BY <2>2 DEF Call
  <2>4. calls' = [calls EXCEPT ![c] = [calls[c] EXCEPT !.todo = @ \ {f},
                                       !.tmp[f] = plain[Folder(c)].files[f]]]
    BY <1>3 DEF EncryptFile
  <2> QED
    BY <1>3, <2>3, <2>4 DEF EncryptFile
<1>4. CASE Encrypted(c)
  <2>1. calls' \in [Callers -> Call]
    BY <1>4 DEF Encrypted, Call, Closing
  <2> QED
    BY <1>4, <2>1 DEF Encrypted
<1>5. CASE Wipe(c)
  <2>1. In(calls[c].tmp) \in SUBSET Files
    BY TreeTypes DEF Call
  <2>2. [calls[c] EXCEPT !.at = "upload", !.keys = FALSE, !.todo = In(calls[c].tmp)] \in Call
    BY <2>1 DEF Call, Closing
  <2>3. calls' = [calls EXCEPT ![c] = [calls[c] EXCEPT !.at = "upload", !.keys = FALSE,
                                       !.todo = In(calls[c].tmp)]]
    BY <1>5 DEF Wipe
  <2>4. NoFolder \in [made : BOOLEAN, files : Tree]
    BY TreeTypes DEF NoFolder
  <2> QED
    BY <1>0, <1>5, <2>2, <2>3, <2>4 DEF Wipe
<1>6. ASSUME NEW f \in Files, UploadFile(c, f)
      PROVE  TypeOK'
  <2> DEFINE v == calls[c].vault
             x == calls[c].tmp[f]
             u == IF unsaved[v][f] = x THEN Absent ELSE unsaved[v][f]
  <2>1. v \in Vaults /\ x \in Content /\ u \in Content
    BY TreeTypes DEF Call, Content
  <2>2. [remote[v] EXCEPT ![f] = x] \in Tree /\ [unsaved[v] EXCEPT ![f] = u] \in Tree
    BY <2>1, TreeTypes
  <2>3. /\ remote' = [remote EXCEPT ![v] = [remote[v] EXCEPT ![f] = x]]
        /\ unsaved' = [unsaved EXCEPT ![v] = [unsaved[v] EXCEPT ![f] = u]]
    BY <1>6, <2>1 DEF UploadFile
  <2>4. remote' \in [Vaults -> Tree] /\ unsaved' \in [Vaults -> Tree]
    BY <2>1, <2>2, <2>3
  <2>5. calls' \in [Callers -> Call]
    BY <1>6 DEF UploadFile, Call
  <2> QED
    BY <1>6, <2>4, <2>5 DEF UploadFile
<1>7. CASE FinishClose(c)
  BY <1>7, IdleType DEF FinishClose
<1>8. CASE FailClose(c)
  <2>1. spent' \in [edit : Nat, remote : Nat, fault : Nat, crash : Nat]
    BY <1>8 DEF FailClose, Fault
  <2> QED
    BY <1>8, <2>1, PutBackType DEF FailClose
<1>9. CASE FailWipe(c)
  <2>1. spent' \in [edit : Nat, remote : Nat, fault : Nat, crash : Nat]
    BY <1>9 DEF FailWipe, Fault
  <2>2. PICK gone \in SUBSET In(plain[Folder(c)].files) :
            /\ torn' = IF gone = {} THEN torn ELSE torn \cup {Folder(c)}
            /\ plain' = [plain EXCEPT ![Folder(c)].files =
                         [f \in Files |-> IF f \in gone THEN Absent ELSE @[f]]]
    BY <1>9 DEF FailWipe
  <2>6. torn' \subseteq Folders
    BY <1>0, <2>2
  <2> DEFINE rest == [f \in Files |-> IF f \in gone THEN Absent
                                      ELSE plain[Folder(c)].files[f]]
  <2>3. rest \in Tree
    BY <1>0, TreeTypes DEF Tree, Content
  <2>4. plain' = [plain EXCEPT ![Folder(c)] = [plain[Folder(c)] EXCEPT !.files = rest]]
    BY <2>2
  <2>5. plain' \in [Folders -> [made : BOOLEAN, files : Tree]]
    BY <1>0, <2>3, <2>4
  <2>7. PutBack(c) /\ UNCHANGED <<remote, unsaved, abandoned, overlapped, retried>>
    BY <1>9 DEF FailWipe
  <2> QED
    BY <2>1, <2>5, <2>6, <2>7, PutBackType
<1> QED
  BY <1>1, <1>2, <1>3, <1>4, <1>5, <1>6, <1>7, <1>8, <1>9 DEF Close

LEMMA EnvironmentType ==
    ASSUME TypeOK, Environment
    PROVE  TypeOK'
<1> USE DEF TypeOK, marks
<1>1. ASSUME NEW n \in Folders, NEW f \in Files, NEW x \in UserContents \cup {Absent},
             Edit(n, f, x)
      PROVE  TypeOK'
  <2>1. x \in Content /\ Absent \in Content
    BY WritesAssumption DEF Content
  <2>2. [plain[n].files EXCEPT ![f] = x] \in Tree
    BY <2>1, TreeTypes
  <2>3. plain' \in [Folders -> [made : BOOLEAN, files : Tree]]
    BY <1>1, <2>2 DEF Edit
  <2>4. \A v \in Vaults : [unsaved[v] EXCEPT ![f] = IF sessions[v].open THEN x ELSE Absent]
                              \in Tree
    BY <2>1, TreeTypes
  <2>5. unsaved' \in [Vaults -> Tree]
    BY <1>1, <2>4 DEF Edit
  <2>6. spent' \in [edit : Nat, remote : Nat, fault : Nat, crash : Nat]
    BY <1>1 DEF Edit
  <2>7. UNCHANGED <<remote, sessions, calls, abandoned, marks>>
    BY <1>1 DEF Edit
  <2> QED
    BY <2>3, <2>5, <2>6, <2>7
<1>2. ASSUME NEW v \in Vaults, NEW f \in Files, NEW x \in RemoteContents \cup {Absent},
             RemoteEdit(v, f, x)
      PROVE  TypeOK'
  <2>1. x \in Content
    BY WritesAssumption DEF Content
  <2>2. [remote[v] EXCEPT ![f] = x] \in Tree
    BY <2>1, TreeTypes
  <2>3. remote' = [remote EXCEPT ![v] = [remote[v] EXCEPT ![f] = x]]
    BY <1>2 DEF RemoteEdit
  <2> QED
    BY <1>2, <2>2, <2>3 DEF RemoteEdit
<1>3. CASE Crash
  <2>1. NoSession \in Session
    BY TreeTypes DEF NoSession, Session
  <2> QED
    BY <1>3, <2>1, IdleType, TreeTypes DEF Crash
<1> QED
  BY <1>1, <1>2, <1>3 DEF Environment

LEMMA NextType == TypeOK /\ [Next]_vars => TypeOK'
<1>1. TypeOK /\ UNCHANGED vars => TypeOK'
  BY DEF TypeOK, vars, marks
<1> QED
  BY <1>1, OpenType, CloseType, EnvironmentType DEF Next

\* The controller's sessions, its calls, the plain folders and the vaults on the
\* server stay within their types, however calls overlap and fail.
THEOREM VaultTypeCorrect == Spec => []TypeOK
  BY InitType, NextType, PTL DEF Spec

-----------------------------------------------------------------------------
(* One holder.  A step of a call concerns one vault and its plain folder.  *)

\* What a step of c on v leaves alone.
Frame(c, v) ==
    /\ \A d \in Callers \ {c} : calls'[d] = calls[d]
    /\ \A w \in Vaults \ {v} : sessions'[w] = sessions[w] /\ unsaved'[w] = unsaved[w]
    /\ \A n \in Folders \ {FolderOf[v]} : /\ plain'[n] = plain[n]
                                          /\ n \in torn <=> n \in torn'
                                          /\ n \in abandoned => n \in abandoned'
    /\ overlapped \subseteq overlapped' /\ retried \subseteq retried'
    /\ Busy(c) => calls[c].vault = v
    /\ Busy(c)' => calls'[c].vault = v
    /\ Busy(c) \/ Busy(c)'

\* How a call becomes a holder, and how it stops being one.
Hands(c, v) ==
    /\ ~Busy(c) => \/ ~InUse(FolderOf[v]) /\ UNCHANGED sessions
                   \/ FolderOf[v] \in overlapped'
                   \/ sessions[v].open /\ ~sessions'[v].open
    /\ Busy(c) /\ Busy(c)' => UNCHANGED sessions

LEMMA OpenFrame ==
    ASSUME TypeOK, NEW c \in Callers, Open(c)
    PROVE  \E v \in Vaults : Frame(c, v) /\ Hands(c, v)
<1>0. /\ calls \in [Callers -> Call] /\ sessions \in [Vaults -> Session]
      /\ plain \in [Folders -> [made : BOOLEAN, files : Tree]]
  BY DEF TypeOK
<1>1. ASSUME NEW v \in Vaults, OpenVault(c, v)
      PROVE  Frame(c, v) /\ Hands(c, v)
  BY <1>0, <1>1 DEF OpenVault, Frame, Hands, Busy, Idle, marks
<1>v. PICK v \in Vaults : v = calls[c].vault
  BY <1>0 DEF Call
<1>2. Folder(c) = FolderOf[v] /\ FolderOf[v] \in Folders
  BY <1>v, VaultsAssumption DEF Folder
<1>3. ASSUME ListFiles(c) \/ (\E f \in Files : DownloadFile(c, f))
      PROVE  Frame(c, v) /\ Hands(c, v)
  <2>1. CASE ListFiles(c)
    BY <1>0, <1>v, <2>1 DEF ListFiles, Frame, Hands, Busy, marks
  <2>2. ASSUME NEW f \in Files, DownloadFile(c, f)
        PROVE  Frame(c, v) /\ Hands(c, v)
    BY <1>0, <1>v, <2>2 DEF DownloadFile, Frame, Hands, Busy, marks
  <2> QED
    BY <1>3, <2>1, <2>2
<1>4. ASSUME Unlock(c) \/ (\E f \in Files : DecryptFile(c, f))
      PROVE  Frame(c, v) /\ Hands(c, v)
  <2>1. CASE Unlock(c)
    BY <1>0, <1>v, <1>2, <2>1 DEF Unlock, Frame, Hands, Busy, marks
  <2>2. ASSUME NEW f \in Files, DecryptFile(c, f)
        PROVE  Frame(c, v) /\ Hands(c, v)
    BY <1>0, <1>v, <1>2, <2>2 DEF DecryptFile, Frame, Hands, Busy, marks
  <2> QED
    BY <1>4, <2>1, <2>2
<1>5. CASE Register(c)
  BY <1>0, <1>v, <1>2, <1>5 DEF Register, Frame, Hands, Busy, Idle, marks
<1>6. CASE FailOpen(c)
  <2>1. /\ calls[c].at # "idle" /\ calls' = [calls EXCEPT ![c] = Idle]
        /\ UNCHANGED <<plain, sessions, unsaved, marks>>
        /\ \A n \in Folders : n \in abandoned => n \in abandoned'
    BY <1>6 DEF FailOpen, Opening
  <2> QED
    BY <1>0, <1>v, <2>1 DEF Frame, Hands, Busy, Idle, marks
<1> QED
  BY <1>1, <1>3, <1>4, <1>5, <1>6 DEF Open

LEMMA CloseFrame ==
    ASSUME TypeOK, NEW c \in Callers, Close(c)
    PROVE  \E v \in Vaults : Frame(c, v) /\ Hands(c, v)
<1>0. /\ calls \in [Callers -> Call] /\ sessions \in [Vaults -> Session]
      /\ plain \in [Folders -> [made : BOOLEAN, files : Tree]]
      /\ unsaved \in [Vaults -> Tree]
  BY DEF TypeOK
<1>1. ASSUME NEW v \in Vaults, CloseVault(c, v)
      PROVE  Frame(c, v) /\ Hands(c, v)
  BY <1>0, <1>1 DEF CloseVault, Frame, Hands, Busy, Idle, NoSession, marks
<1>v. PICK v \in Vaults : v = calls[c].vault
  BY <1>0 DEF Call
<1>2. Folder(c) = FolderOf[v] /\ FolderOf[v] \in Folders
  BY <1>v, VaultsAssumption DEF Folder
<1>3. ASSUME StartEncrypt(c) \/ Encrypted(c) \/ (\E f \in Files : EncryptFile(c, f))
      PROVE  Frame(c, v) /\ Hands(c, v)
  <2>1. CASE StartEncrypt(c)
    BY <1>0, <1>v, <2>1 DEF StartEncrypt, Frame, Hands, Busy, marks
  <2>2. CASE Encrypted(c)
    BY <1>0, <1>v, <2>2 DEF Encrypted, Frame, Hands, Busy, marks
  <2>3. ASSUME NEW f \in Files, EncryptFile(c, f)
        PROVE  Frame(c, v) /\ Hands(c, v)
    BY <1>0, <1>v, <2>3 DEF EncryptFile, Frame, Hands, Busy, marks
  <2> QED
    BY <1>3, <2>1, <2>2, <2>3
<1>4. CASE Wipe(c)
  BY <1>0, <1>v, <1>2, <1>4 DEF Wipe, Frame, Hands, Busy, marks
<1>5. ASSUME NEW f \in Files, UploadFile(c, f)
      PROVE  Frame(c, v) /\ Hands(c, v)
  BY <1>0, <1>v, <1>5 DEF UploadFile, Frame, Hands, Busy, marks
<1>6. CASE FinishClose(c)
  BY <1>0, <1>v, <1>6 DEF FinishClose, Frame, Hands, Busy, Idle, marks
<1>7. ASSUME PutBack(c), calls[c].at # "idle", UNCHANGED <<unsaved, abandoned, overlapped, retried>>,
             \A n \in Folders \ {FolderOf[v]} : plain'[n] = plain[n] /\ (n \in torn <=> n \in torn')
      PROVE  Frame(c, v) /\ Hands(c, v)
  BY <1>0, <1>v, <1>7 DEF PutBack, Frame, Hands, Busy, Idle
<1>8. CASE FailClose(c)
  BY <1>7, <1>8 DEF FailClose, marks
<1>9. CASE FailWipe(c)
  BY <1>0, <1>2, <1>7, <1>9 DEF FailWipe
<1> QED
  BY <1>1, <1>3, <1>4, <1>5, <1>6, <1>8, <1>9 DEF Close

LEMMA HolderStep ==
    ASSUME TypeOK, TypeOK', OneHolder, NEW c \in Callers, Open(c) \/ Close(c)
    PROVE  OneHolder'
<1>1. PICK v \in Vaults : Frame(c, v) /\ Hands(c, v)
  BY OpenFrame, CloseFrame
<1>2. \A d \in Callers : calls[d].vault \in Vaults /\ calls'[d].vault \in Vaults
  BY DEF TypeOK, Call
<1>3. SUFFICES ASSUME NEW n \in Folders, n \notin overlapped'
               PROVE  Alone(n)'
  BY DEF OneHolder
<1>4. Alone(n)
  BY <1>1, <1>3 DEF OneHolder, Frame
<1>5. CASE n # FolderOf[v]
  BY <1>1, <1>2, <1>4, <1>5 DEF Alone, Frame, Busy, Folder
<1>6. CASE n = FolderOf[v]
  <2>1. CASE Busy(c)
    <3>1. /\ \A d \in Callers \ {c} : Busy(d) => Folder(d) # n
          /\ \A w \in Vaults : FolderOf[w] = n => ~sessions[w].open
      BY <1>1, <1>4, <1>6, <2>1 DEF Alone, Frame, Folder
    <3>2. \A d \in Callers \ {c} : Busy(d)' => Folder(d)' # n
      BY <1>1, <3>1 DEF Frame, Busy, Folder
    <3>3. \A w \in Vaults : FolderOf[w] = n /\ sessions'[w].open => w = v /\ ~Busy(c)'
      BY <1>1, <2>1, <3>1 DEF Frame, Hands
    <3>4. \A d \in Callers : Busy(d)' /\ Folder(d)' = n => d = c
      BY <3>2
    <3> QED
      BY <3>3, <3>4 DEF Alone, Busy, Folder
  <2>2. CASE ~Busy(c)
    <3>1. \A d \in Callers \ {c} : Busy(d) => Folder(d) # n
      BY <1>1, <1>3, <1>4, <1>6, <2>2 DEF Alone, Hands, InUse, Busy
    <3>2. \A d \in Callers \ {c} : Busy(d)' => Folder(d)' # n
      BY <1>1, <3>1 DEF Frame, Busy, Folder
    <3>3. \A w \in Vaults : FolderOf[w] = n => ~sessions'[w].open
      BY <1>1, <1>3, <1>4, <1>6, <2>2 DEF Alone, Hands, InUse, Frame
    <3>4. \A d \in Callers : Busy(d)' /\ Folder(d)' = n => d = c
      BY <3>2
    <3> QED
      BY <3>3, <3>4 DEF Alone, Busy, Folder
  <2> QED
    BY <2>1, <2>2
<1> QED
  BY <1>5, <1>6

\* The part of the invariants that holds of every plain folder.
Basic == TypeOK /\ OneHolder /\ KeysByStage /\ GoneIsEmpty

LEMMA OpenBasic ==
    ASSUME Basic, NEW c \in Callers, Open(c)
    PROVE  Basic'
<1>0. /\ calls \in [Callers -> Call]
      /\ plain \in [Folders -> [made : BOOLEAN, files : Tree]]
      /\ Folder(c) \in Folders
  BY VaultsAssumption DEF Basic, TypeOK, Call, Folder
<1>1. TypeOK' /\ OneHolder'
  BY OpenType, HolderStep DEF Basic
<1>2. calls'[c].at \in Opening \cup {"idle"} /\ \A d \in Callers \ {c} : calls'[d] = calls[d]
  <2>1. ASSUME NEW v \in Vaults, OpenVault(c, v)
        PROVE  calls'[c].at = "list"
    BY <1>0, <2>1 DEF OpenVault, Idle
  <2>2. CASE Register(c) \/ FailOpen(c)
    BY <1>0, <2>2 DEF Register, FailOpen, Idle
  <2>6. CASE ListFiles(c)
    BY <1>0, <2>6 DEF ListFiles, Opening
  <2>7. CASE Unlock(c)
    BY <1>0, <2>7 DEF Unlock, Opening
  <2>3. ASSUME NEW f \in Files, DownloadFile(c, f)
        PROVE  calls'[c].at = "download"
    BY <1>0, <2>3 DEF DownloadFile
  <2>4. ASSUME NEW f \in Files, DecryptFile(c, f)
        PROVE  calls'[c].at = "decrypt"
    BY <1>0, <2>4 DEF DecryptFile
  <2>5. \A d \in Callers \ {c} : calls'[d] = calls[d]
    BY OpenFrame DEF Basic, Frame
  <2> QED
    BY <2>1, <2>2, <2>3, <2>4, <2>5, <2>6, <2>7 DEF Open, Opening
<1>3. KeysByStage'
  BY <1>2 DEF Basic, KeysByStage, Opening
<1>4. GoneIsEmpty'
  <2>1. CASE Unlock(c)
    BY <1>0, <2>1 DEF Unlock, Basic, GoneIsEmpty
  <2>2. ASSUME NEW f \in Files, DecryptFile(c, f)
        PROVE  GoneIsEmpty'
    BY <1>0, <2>2 DEF DecryptFile, Basic, GoneIsEmpty
  <2>3. CASE UNCHANGED plain
    BY <2>3 DEF Basic, GoneIsEmpty
  <2>4. \/ Unlock(c) \/ UNCHANGED plain
        \/ \E f \in Files : DecryptFile(c, f)
    BY Zenon DEF Open, OpenVault, ListFiles, DownloadFile, Register, FailOpen
  <2> QED
    BY <2>1, <2>2, <2>3, <2>4
<1> QED
  BY <1>1, <1>3, <1>4 DEF Basic

LEMMA CloseBasic ==
    ASSUME Basic, NEW c \in Callers, Close(c)
    PROVE  Basic'
<1>0. /\ calls \in [Callers -> Call]
      /\ plain \in [Folders -> [made : BOOLEAN, files : Tree]]
      /\ Folder(c) \in Folders
  BY VaultsAssumption DEF Basic, TypeOK, Call, Folder
<1>1. TypeOK' /\ OneHolder'
  BY CloseType, HolderStep DEF Basic
<1>2. \A d \in Callers \ {c} : calls'[d] = calls[d]
  BY CloseFrame DEF Basic, Frame
<1>3. /\ calls'[c].at \in {"encrypt", "wipe"} => calls'[c].keys
      /\ calls'[c].at = "upload" => ~calls'[c].keys
  <2>1. ASSUME NEW f \in Files, EncryptFile(c, f)
        PROVE  calls'[c].at = calls[c].at /\ calls'[c].keys = calls[c].keys
    BY <1>0, <2>1 DEF EncryptFile
  <2>2. ASSUME NEW f \in Files, UploadFile(c, f)
        PROVE  calls'[c].at = calls[c].at /\ calls'[c].keys = calls[c].keys
    BY <1>0, <2>2 DEF UploadFile
  <2>3. ASSUME NEW v \in Vaults, CloseVault(c, v)
        PROVE  calls'[c].at = "check"
    BY <1>0, <2>3 DEF CloseVault, Idle
  <2>4. CASE FinishClose(c) \/ FailClose(c) \/ FailWipe(c)
    BY <1>0, <2>4 DEF FinishClose, FailClose, FailWipe, PutBack, Idle
  <2>5. CASE StartEncrypt(c)
    BY <1>0, <2>5 DEF StartEncrypt
  <2>6. CASE Encrypted(c)
    BY <1>0, <2>6 DEF Encrypted, Basic, KeysByStage
  <2>7. CASE Wipe(c)
    BY <1>0, <2>7 DEF Wipe
  <2> QED
    BY <2>1, <2>2, <2>3, <2>4, <2>5, <2>6, <2>7 DEF Close, Basic, KeysByStage
<1>4. KeysByStage'
  BY <1>2, <1>3 DEF Basic, KeysByStage
<1>5. GoneIsEmpty'
  <2>1. CASE Wipe(c)
    BY <1>0, <2>1 DEF Wipe, NoFolder, Basic, GoneIsEmpty
  <2>2. CASE FailWipe(c)
    <3>1. PICK gone \in SUBSET In(plain[Folder(c)].files) :
              plain' = [plain EXCEPT ![Folder(c)].files =
                           [f \in Files |-> IF f \in gone THEN Absent ELSE @[f]]]
      BY <2>2 DEF FailWipe
    <3>2. /\ \A n \in Folders : plain'[n].made = plain[n].made
          /\ \A n \in Folders \ {Folder(c)} : plain'[n] = plain[n]
          /\ plain'[Folder(c)].files = [f \in Files |-> IF f \in gone THEN Absent
                                                        ELSE plain[Folder(c)].files[f]]
      BY <1>0, <3>1
    <3>3. plain[Folder(c)].files = Nothing => plain'[Folder(c)].files = Nothing
      BY <3>2 DEF Nothing
    <3> QED
      BY <3>2, <3>3 DEF Basic, GoneIsEmpty
  <2>3. CASE UNCHANGED plain
    BY <2>3 DEF Basic, GoneIsEmpty
  <2>4. Wipe(c) \/ FailWipe(c) \/ UNCHANGED plain
    BY Zenon DEF Close, CloseVault, StartEncrypt, EncryptFile, Encrypted, UploadFile,
           FinishClose, FailClose
  <2> QED
    BY <2>1, <2>2, <2>3, <2>4
<1> QED
  BY <1>1, <1>4, <1>5 DEF Basic

LEMMA EnvironmentBasic ==
    ASSUME Basic, Environment
    PROVE  Basic'
<1>0. TypeOK'
  BY EnvironmentType DEF Basic
<1>1. ASSUME UNCHANGED <<sessions, calls, overlapped>>
      PROVE  OneHolder' /\ KeysByStage'
  BY <1>1 DEF Basic, OneHolder, Alone, KeysByStage, Busy, Folder
<1>2. ASSUME NEW n \in Folders, NEW f \in Files, NEW x \in UserContents \cup {Absent},
             Edit(n, f, x)
      PROVE  Basic'
  <2>1. GoneIsEmpty'
    BY <1>2 DEF Edit, Basic, TypeOK, GoneIsEmpty
  <2> QED
    BY <1>0, <1>1, <1>2, <2>1 DEF Edit, Basic, marks
<1>3. ASSUME NEW v \in Vaults, NEW f \in Files, NEW x \in RemoteContents \cup {Absent},
             RemoteEdit(v, f, x)
      PROVE  Basic'
  BY <1>0, <1>1, <1>3 DEF RemoteEdit, Basic, marks, GoneIsEmpty
<1>4. CASE Crash
  <2>1. /\ \A c \in Callers : calls'[c].at = "idle"
        /\ \A v \in Vaults : ~sessions'[v].open
        /\ UNCHANGED plain
    BY <1>4 DEF Crash, Idle, NoSession
  <2> QED
    <3>1. OneHolder'
      BY <2>1 DEF OneHolder, Alone, Busy, Folder
    <3>2. KeysByStage' /\ GoneIsEmpty'
      BY <2>1 DEF Basic, KeysByStage, GoneIsEmpty
    <3> QED
      BY <1>0, <3>1, <3>2 DEF Basic
<1> QED
  BY <1>2, <1>3, <1>4 DEF Environment

LEMMA InitBasic == Init => Basic
<1> SUFFICES ASSUME Init
             PROVE  Basic
  OBVIOUS
<1>1. /\ \A c \in Callers : calls[c].at = "idle"
      /\ \A v \in Vaults : ~sessions[v].open
      /\ \A n \in Folders : plain[n].files = Nothing
  <2>1. /\ calls = [c \in Callers |-> Idle] /\ sessions = [v \in Vaults |-> NoSession]
        /\ plain = [n \in Folders |-> NoFolder]
    BY DEF Init
  <2>2. Idle.at = "idle" /\ ~NoSession.open /\ NoFolder.files = Nothing
    BY DEF Idle, NoSession, NoFolder
  <2> QED
    BY <2>1, <2>2
<1>2. OneHolder
  BY <1>1 DEF OneHolder, Alone, Busy, Folder
<1>3. KeysByStage /\ GoneIsEmpty
  BY <1>1 DEF KeysByStage, GoneIsEmpty
<1> QED
  BY <1>2, <1>3, InitType DEF Basic

LEMMA NextBasic == Basic /\ [Next]_vars => Basic'
<1>1. Basic /\ UNCHANGED vars => Basic'
  BY NextType DEF vars, marks, Basic, OneHolder, Alone, KeysByStage, GoneIsEmpty, Busy, Folder
<1> QED
  BY <1>1, OpenBasic, CloseBasic, EnvironmentBasic DEF Next

-----------------------------------------------------------------------------
(* The user's work.                                                        *)

IInv == Basic /\ KeysGoWithFolder /\ Kept

\* The part of the invariant about vault v when c is the only call that may work
\* on its folder.
Local(c, v) ==
    /\ calls[c].at \in {"check", "upload"} /\ ~calls[c].keys /\ calls[c].vault = v
          => ~plain[FolderOf[v]].made
    /\ sessions[v].open /\ ~sessions[v].keys => ~plain[FolderOf[v]].made
    /\ \A f \in Files : unsaved[v][f] # Absent => InSession(v, f) \/ InCall(c, v, f)

\* A call under way is the only holder of its folder, if that has only one.
LEMMA BusyAlone ==
    ASSUME TypeOK, OneHolder, NEW c \in Callers, Busy(c), Folder(c) \notin overlapped
    PROVE  /\ \A d \in Callers \ {c} : Busy(d) => Folder(d) # Folder(c)
           /\ \A w \in Vaults : FolderOf[w] = Folder(c) => ~sessions[w].open
<1>1. Folder(c) \in Folders /\ Alone(Folder(c))
  BY VaultsAssumption DEF TypeOK, Call, Folder, OneHolder
<1> QED
  BY <1>1 DEF Alone

LEMMA BusyLocal ==
    ASSUME IInv, NEW c \in Callers, Busy(c), Sound(Folder(c))
    PROVE  /\ calls[c].vault \in Vaults /\ Folder(c) = FolderOf[calls[c].vault]
           /\ ~sessions[calls[c].vault].open
           /\ Local(c, calls[c].vault)
<1>1. calls[c].vault \in Vaults /\ Folder(c) = FolderOf[calls[c].vault]
  BY DEF IInv, Basic, TypeOK, Call, Folder
<1>2. /\ \A d \in Callers \ {c} : Busy(d) => Folder(d) # Folder(c)
      /\ ~sessions[calls[c].vault].open
  BY <1>1, BusyAlone DEF IInv, Basic, Sound
<1>3. ASSUME NEW f \in Files, unsaved[calls[c].vault][f] # Absent
      PROVE  InCall(c, calls[c].vault, f)
  <2>1. PICK d \in Callers : InCall(d, calls[c].vault, f)
    BY <1>1, <1>2, <1>3 DEF IInv, Kept, InSession
  <2>2. Busy(d) /\ Folder(d) = Folder(c)
    BY <1>1, <2>1 DEF InCall, Busy, Folder
  <2> QED
    BY <1>2, <2>1, <2>2
<1>4. calls[c].at \in {"check", "upload"} /\ ~calls[c].keys => ~plain[Folder(c)].made
  BY DEF IInv, KeysGoWithFolder
<1> QED
  BY <1>1, <1>2, <1>3, <1>4 DEF Local

\* A folder nobody holds has nothing unsaved.
LEMMA IdleSaved ==
    ASSUME IInv, NEW v \in Vaults, Sound(FolderOf[v]), ~sessions[v].open,
           \A d \in Callers : Busy(d) => calls[d].vault # v
    PROVE  \A f \in Files : unsaved[v][f] = Absent
BY DEF IInv, Kept, InSession, InCall, Busy

LEMMA Globally ==
    ASSUME IInv, Basic', NEW c \in Callers, NEW v \in Vaults, Frame(c, v),
           Sound(FolderOf[v])' => Local(c, v)'
    PROVE  IInv'
<1>0. \A w \in Vaults : FolderOf[w] \in Folders
  BY VaultsAssumption
<1>1. \A d \in Callers : calls[d].vault \in Vaults /\ calls'[d].vault \in Vaults
  BY DEF IInv, Basic, TypeOK, Call
<1>2. \A n \in Folders : Sound(n)' => Sound(n)
  BY DEF Sound, Frame
\* Of the vaults with that folder, v alone is held before and after.
<1>3. ASSUME Sound(FolderOf[v])'
      PROVE  /\ \A d \in Callers \ {c} : ~(Busy(d) /\ FolderOf[calls[d].vault] = FolderOf[v])
             /\ \A w \in Vaults \ {v} : ~(sessions[w].open /\ FolderOf[w] = FolderOf[v])
  <2>1. CASE Busy(c)
    <3>1. Folder(c) = FolderOf[v] /\ Folder(c) \notin overlapped
      BY <1>0, <1>2, <1>3, <2>1 DEF Frame, Folder, Sound
    <3> QED
      BY <2>1, <3>1, BusyAlone DEF IInv, Basic, Folder
  <2>2. CASE Busy(c)'
    <3>1. /\ \A d \in Callers \ {c} : calls'[d].at # "idle" => FolderOf[calls'[d].vault] # FolderOf[v]
          /\ \A w \in Vaults : FolderOf[w] = FolderOf[v] => ~sessions'[w].open
      BY <1>0, <1>3, <2>2 DEF Basic, OneHolder, Alone, Frame, Folder, Sound, Busy
    <3> QED
      BY <3>1 DEF Frame, Busy
  <2> QED
    BY <2>1, <2>2 DEF Frame
<1>4. KeysGoWithFolder'
  <2>1. ASSUME NEW d \in Callers, calls'[d].at \in {"check", "upload"}, ~calls'[d].keys,
               FolderOf[calls'[d].vault] \notin overlapped' \cup retried'
        PROVE  ~plain'[FolderOf[calls'[d].vault]].made
    <3>1. CASE d = c
      BY <2>1, <3>1 DEF Local, Frame, Busy, Sound
    <3>2. CASE d # c
      <4>1. calls'[d] = calls[d] /\ Busy(d)
        BY <2>1, <3>2 DEF Frame, Busy
      <4>2. FolderOf[calls[d].vault] # FolderOf[v]
        BY <1>3, <2>1, <3>2, <4>1 DEF Sound
      <4> QED
        BY <1>0, <1>1, <1>2, <2>1, <4>1, <4>2 DEF IInv, KeysGoWithFolder, Frame, Folder, Sound
    <3> QED
      BY <3>1, <3>2
  <2>2. ASSUME NEW w \in Vaults, sessions'[w].open, ~sessions'[w].keys,
               FolderOf[w] \notin overlapped' \cup retried'
        PROVE  ~plain'[FolderOf[w]].made
    <3>1. CASE w = v
      BY <2>2, <3>1 DEF Local, Sound
    <3>2. CASE w # v
      <4>1. sessions'[w] = sessions[w]
        BY <3>2 DEF Frame
      <4>2. FolderOf[w] # FolderOf[v]
        BY <1>3, <2>2, <3>2, <4>1 DEF Sound
      <4> QED
        BY <1>0, <1>2, <2>2, <4>1, <4>2 DEF IInv, KeysGoWithFolder, Frame, Sound
    <3> QED
      BY <3>1, <3>2
  <2> QED
    BY <2>1, <2>2 DEF KeysGoWithFolder, Folder, Sound
<1>5. Kept'
  <2>1. SUFFICES ASSUME NEW w \in Vaults, NEW f \in Files, Sound(FolderOf[w])',
                        unsaved'[w][f] # Absent
                 PROVE  InSession(w, f)' \/ \E d \in Callers : InCall(d, w, f)'
    BY DEF Kept
  <2>2. CASE w = v
    BY <2>1, <2>2 DEF Local
  <2>3. CASE w # v
    <3>1. unsaved'[w] = unsaved[w] /\ sessions'[w] = sessions[w] /\ Sound(FolderOf[w])
      BY <1>0, <1>2, <2>1, <2>3 DEF Frame
    <3>2. InSession(w, f) \/ \E d \in Callers : InCall(d, w, f)
      BY <2>1, <3>1 DEF IInv, Kept
    <3>3. FolderOf[w] # FolderOf[v]
      BY <1>3, <2>1, <2>3, <3>2 DEF InSession, InCall, Busy, Frame
    <3>4. plain'[FolderOf[w]] = plain[FolderOf[w]] /\ (FolderOf[w] \in torn <=> FolderOf[w] \in torn')
      BY <1>0, <3>3 DEF Frame
    <3>5. CASE InSession(w, f)
      BY <3>1, <3>4, <3>5 DEF InSession, Readable
    <3>6. ASSUME NEW d \in Callers, InCall(d, w, f)
          PROVE  InCall(d, w, f)'
      <4>1. d # c
        BY <2>3, <3>6 DEF InCall, Busy, Frame
      <4>2. calls'[d] = calls[d]
        BY <4>1 DEF Frame
      <4> QED
        BY <3>1, <3>4, <3>6, <4>2 DEF InCall, Readable
    <3> QED
      BY <3>2, <3>5, <3>6
  <2> QED
    BY <2>2, <2>3
<1> QED
  BY <1>4, <1>5 DEF IInv

\* Nothing in a plain folder that is being opened is unsaved: opening may
\* overwrite it.
LEMMA OpenKeeps ==
    ASSUME IInv, NEW c \in Callers, Open(c)
    PROVE  IInv'
<1>0. TypeOK /\ calls \in [Callers -> Call] /\ Basic'
  BY OpenBasic DEF IInv, Basic, TypeOK
<1>1. PICK v \in Vaults : Frame(c, v) /\ Hands(c, v)
  BY <1>0, OpenFrame
<1>2. SUFFICES ASSUME Sound(FolderOf[v])'
               PROVE  Local(c, v)'
  BY <1>0, <1>1, Globally
<1>3. FolderOf[v] \in Folders /\ Sound(FolderOf[v])
  BY <1>1, <1>2, VaultsAssumption DEF Sound, Frame
<1>4. /\ calls'[c].at \in Opening \cup {"idle"} /\ UNCHANGED unsaved
      /\ sessions'[v].open => sessions'[v].keys
      /\ \A f \in Files : unsaved[v][f] = Absent
  <2>1. ASSUME NEW u \in Vaults, OpenVault(c, u)
        PROVE  /\ calls'[c].at = "list" /\ UNCHANGED <<sessions, unsaved>> /\ u = v
               /\ ~sessions[v].open /\ \A d \in Callers : Busy(d) => calls[d].vault # v
    <3>1. /\ calls'[c].at = "list" /\ calls'[c].vault = u /\ UNCHANGED <<sessions, unsaved>>
          /\ ~sessions[u].open
          /\ FolderOf[u] \notin overlapped' => ~InUse(FolderOf[u])
      BY <1>0, <2>1 DEF OpenVault, Idle
    <3>2. u = v
      BY <1>1, <3>1 DEF Frame, Busy
    <3> QED
      BY <1>2, <3>1, <3>2 DEF InUse, Sound, Busy, Folder
  <2>2. ASSUME calls[c].at \in Opening
        PROVE  /\ ~sessions[v].open /\ Folder(c) = FolderOf[v] /\ calls[c].vault = v
               /\ \A f \in Files : unsaved[v][f] = Absent
    <3>1. Busy(c) /\ calls[c].vault = v /\ Folder(c) = FolderOf[v]
      BY <1>1, <2>2 DEF Frame, Busy, Opening, Folder
    <3>2. ~sessions[v].open /\ Local(c, v)
      BY <1>3, <3>1, BusyLocal
    <3> QED
      BY <2>2, <3>1, <3>2 DEF Local, InSession, InCall, Opening
  <2>3. ASSUME calls[c].at \in Opening, UNCHANGED <<sessions, unsaved>>,
               calls'[c].at \in Opening \cup {"idle"}
        PROVE  /\ calls'[c].at \in Opening \cup {"idle"} /\ UNCHANGED unsaved
               /\ sessions'[v].open => sessions'[v].keys
               /\ \A f \in Files : unsaved[v][f] = Absent
    BY <2>2, <2>3
  <2>4. CASE ListFiles(c)
    BY <1>0, <2>3, <2>4 DEF ListFiles, Opening
  <2>5. ASSUME NEW f \in Files, DownloadFile(c, f)
        PROVE  /\ calls[c].at \in Opening /\ UNCHANGED <<sessions, unsaved>>
               /\ calls'[c].at \in Opening \cup {"idle"}
    BY <1>0, <2>5 DEF DownloadFile, Opening
  <2>6. CASE Unlock(c)
    BY <1>0, <2>3, <2>6 DEF Unlock, Opening
  <2>7. ASSUME NEW f \in Files, DecryptFile(c, f)
        PROVE  /\ calls[c].at \in Opening /\ UNCHANGED <<sessions, unsaved>>
               /\ calls'[c].at \in Opening \cup {"idle"}
    BY <1>0, <2>7 DEF DecryptFile, Opening
  <2>8. CASE Register(c)
    <3>1. calls[c].at \in Opening /\ calls'[c].at = "idle" /\ UNCHANGED unsaved
      BY <1>0, <2>8 DEF Register, Opening, Idle
    <3>2. sessions'[v].keys
      BY <2>2, <2>8, <3>1 DEF Register, IInv, Basic, TypeOK
    <3> QED
      BY <2>2, <3>1, <3>2
  <2>9. CASE FailOpen(c)
    <3>1. calls[c].at \in Opening /\ calls'[c].at = "idle" /\ UNCHANGED <<sessions, unsaved>>
      BY <1>0, <2>9 DEF FailOpen, Opening, Idle
    <3> QED
      BY <2>3, <3>1
  <2>10. ASSUME NEW u \in Vaults, OpenVault(c, u)
         PROVE  \A f \in Files : unsaved[v][f] = Absent
    BY <1>3, <2>1, <2>10, IdleSaved
  <2> QED
    BY <2>1, <2>3, <2>4, <2>5, <2>6, <2>7, <2>8, <2>9, <2>10 DEF Open, Opening
<1> QED
  BY <1>4 DEF Local, Opening

\* Every content of an unsaved file goes from the plain folder to the ciphertext
\* before the folder goes, and to the server before the ciphertext goes.
LEMMA CloseKeeps ==
    ASSUME IInv, NEW c \in Callers, Close(c)
    PROVE  IInv'
<1>0. /\ calls \in [Callers -> Call] /\ sessions \in [Vaults -> Session]
      /\ plain \in [Folders -> [made : BOOLEAN, files : Tree]]
      /\ unsaved \in [Vaults -> Tree]
      /\ TypeOK /\ Basic'
  BY CloseBasic DEF IInv, Basic, TypeOK
<1>v. PICK v \in Vaults : Frame(c, v) /\ Hands(c, v)
  BY <1>0, CloseFrame
<1>s. SUFFICES ASSUME Sound(FolderOf[v])'
               PROVE  Local(c, v)'
  BY <1>0, <1>v, Globally
<1>t. FolderOf[v] \in Folders /\ Sound(FolderOf[v])
  BY <1>v, <1>s, VaultsAssumption DEF Sound, Frame
<1>1. ASSUME NEW u \in Vaults, CloseVault(c, u)
      PROVE  Local(c, v)'
  <2>1. /\ calls'[c].at = "check" /\ calls'[c].vault = u
        /\ calls'[c].tmp = sessions[u].tmp /\ calls'[c].keys = sessions[u].keys
        /\ UNCHANGED <<plain, unsaved, torn>>
        /\ ~sessions'[u].open /\ sessions[u].open
    BY <1>0, <1>1 DEF CloseVault, Idle, NoSession, marks
  <2>2. u = v
    BY <1>v, <2>1 DEF Frame, Busy
  <2>3. \A d \in Callers : Busy(d) => calls[d].vault # v
    BY <1>t, <2>1, <2>2 DEF IInv, Basic, OneHolder, Alone, Sound, Folder
  <2>4. \A f \in Files : unsaved[v][f] # Absent => InSession(v, f)
    BY <1>t, <2>3 DEF IInv, Kept, InCall, Busy
  <2>5. \A f \in Files : unsaved'[v][f] # Absent => InCall(c, v, f)'
    BY <2>1, <2>2, <2>4 DEF InSession, InCall, Readable
  <2>6. sessions[v].open /\ ~sessions[v].keys => ~plain[FolderOf[v]].made
    BY <1>t DEF IInv, KeysGoWithFolder
  <2> QED
    BY <2>1, <2>2, <2>5, <2>6 DEF Local
<1>2. ASSUME calls[c].at \in Closing
      PROVE  /\ Busy(c) /\ calls[c].vault = v /\ Folder(c) = FolderOf[v]
             /\ Local(c, v) /\ ~sessions[v].open
             /\ calls[c].at \in {"encrypt", "wipe"} => calls[c].keys
             /\ calls[c].at = "upload" => ~calls[c].keys
             /\ \A f \in Files : unsaved[v][f] # Absent => InCall(c, v, f)
  <2>1. Busy(c) /\ calls[c].vault = v /\ Folder(c) = FolderOf[v]
    BY <1>v, <1>2 DEF Frame, Busy, Closing, Folder
  <2>2. Local(c, v) /\ ~sessions[v].open
    BY <1>t, <2>1, BusyLocal
  <2> QED
    BY <2>1, <2>2 DEF Local, InSession, IInv, Basic, KeysByStage
\* A step that leaves the call at work, and the session closed.
<1>3. ASSUME calls[c].at \in Closing, calls'[c].at \in {"encrypt", "wipe", "upload"},
             UNCHANGED sessions,
             calls'[c].at = "upload" => ~plain'[FolderOf[v]].made,
             \A f \in Files : unsaved'[v][f] # Absent => InCall(c, v, f)'
      PROVE  Local(c, v)'
  BY <1>2, <1>3 DEF Local
<1>4. CASE StartEncrypt(c)
  <2>1. calls[c].at = "check" /\ calls[c].keys /\ calls[c].at \in Closing
    BY <1>4 DEF StartEncrypt, Closing
  <2>2. /\ calls'[c].at = "encrypt" /\ calls'[c].vault = v /\ calls'[c].keys
        /\ calls'[c].todo = In(plain[FolderOf[v]].files)
        /\ UNCHANGED <<plain, sessions, unsaved>>
    BY <1>0, <1>2, <1>4, <2>1 DEF StartEncrypt
  <2>3. FolderOf[v] \notin torn
    BY <1>2, <1>4, <1>s, <2>1 DEF StartEncrypt, Sound
  <2>4. \A f \in Files : unsaved'[v][f] # Absent => InCall(c, v, f)'
    BY <1>2, <2>1, <2>2, <2>3 DEF InCall, In, Readable
  <2> QED
    BY <1>3, <2>1, <2>2, <2>4
<1>5. ASSUME NEW g \in Files, EncryptFile(c, g)
      PROVE  Local(c, v)'
  <2>1. calls[c].at = "encrypt" /\ calls[c].at \in Closing
    BY <1>5 DEF EncryptFile, Closing
  <2>2. /\ calls'[c].at = "encrypt" /\ calls'[c].vault = v /\ calls'[c].keys = calls[c].keys
        /\ calls'[c].todo = calls[c].todo \ {g}
        /\ calls'[c].tmp = [calls[c].tmp EXCEPT ![g] = plain[FolderOf[v]].files[g]]
        /\ UNCHANGED <<plain, sessions, unsaved>>
    BY <1>0, <1>2, <1>5, <2>1 DEF EncryptFile
  <2>3. calls[c].tmp \in Tree
    BY <1>0 DEF Call
  <2>4. \A f \in Files : calls'[c].tmp[f] = IF f = g THEN plain[FolderOf[v]].files[g]
                                                    ELSE calls[c].tmp[f]
    BY <2>2, <2>3 DEF Tree
  <2>5. \A f \in Files : unsaved'[v][f] # Absent => InCall(c, v, f)'
    BY <1>2, <2>1, <2>2, <2>4 DEF InCall
  <2> QED
    BY <1>3, <2>1, <2>2, <2>5
<1>6. CASE Encrypted(c)
  <2>1. calls[c].at = "encrypt" /\ calls[c].at \in Closing /\ calls[c].todo = {}
    BY <1>6 DEF Encrypted, Closing
  <2>2. /\ calls'[c].at = "wipe" /\ calls'[c].vault = v /\ calls'[c].tmp = calls[c].tmp
        /\ UNCHANGED <<plain, sessions, unsaved>>
    BY <1>0, <1>2, <1>6, <2>1 DEF Encrypted
  <2>3. \A f \in Files : unsaved'[v][f] # Absent => InCall(c, v, f)'
    BY <1>2, <2>1, <2>2 DEF InCall
  <2> QED
    BY <1>3, <2>1, <2>2, <2>3
<1>7. CASE Wipe(c)
  <2>1. calls[c].at = "wipe" /\ calls[c].at \in Closing
    BY <1>7 DEF Wipe, Closing
  <2>2. /\ calls'[c].at = "upload" /\ calls'[c].vault = v
        /\ calls'[c].tmp = calls[c].tmp /\ calls'[c].todo = In(calls[c].tmp)
        /\ ~plain'[FolderOf[v]].made
        /\ UNCHANGED <<sessions, unsaved>>
    BY <1>0, <1>2, <1>7, <1>t, <2>1 DEF Wipe, NoFolder
  <2>3. \A f \in Files : unsaved'[v][f] # Absent => InCall(c, v, f)'
    BY <1>2, <2>1, <2>2 DEF InCall, In
  <2> QED
    BY <1>3, <2>1, <2>2, <2>3
<1>8. ASSUME NEW g \in Files, UploadFile(c, g)
      PROVE  Local(c, v)'
  <2>1. calls[c].at = "upload" /\ calls[c].at \in Closing
    BY <1>8 DEF UploadFile, Closing
  <2>2. /\ calls'[c].at = "upload" /\ calls'[c].vault = v
        /\ calls'[c].tmp = calls[c].tmp /\ calls'[c].todo = calls[c].todo \ {g}
        /\ UNCHANGED <<plain, sessions>>
    BY <1>0, <1>2, <1>8, <2>1 DEF UploadFile
  <2>3. unsaved' = [unsaved EXCEPT ![v] = [unsaved[v] EXCEPT ![g] =
                      IF unsaved[v][g] = calls[c].tmp[g] THEN Absent ELSE unsaved[v][g]]]
    BY <1>0, <1>2, <1>8, <2>1 DEF UploadFile
  <2>4. /\ \A f \in Files \ {g} : unsaved'[v][f] = unsaved[v][f]
        /\ unsaved'[v][g] # Absent =>
               unsaved'[v][g] = unsaved[v][g] /\ unsaved[v][g] # calls[c].tmp[g]
    BY <1>0, <2>3 DEF Tree
  <2>5. \A f \in Files : unsaved'[v][f] # Absent => InCall(c, v, f)'
    BY <1>2, <2>1, <2>2, <2>4 DEF InCall
  <2>6. ~plain[FolderOf[v]].made
    BY <1>2, <2>1 DEF Local
  <2> QED
    BY <1>3, <2>1, <2>2, <2>5, <2>6
<1>9. CASE FinishClose(c)
  <2>1. calls[c].at = "upload" /\ calls[c].at \in Closing /\ calls[c].todo = {}
    BY <1>9 DEF FinishClose, Closing
  <2>2. calls'[c].at = "idle" /\ UNCHANGED <<plain, sessions, unsaved>>
    BY <1>0, <1>9 DEF FinishClose, Idle
  <2>3. \A f \in Files : unsaved[v][f] = Absent
    BY <1>2, <2>1 DEF InCall
  <2> QED
    BY <1>2, <2>1, <2>2, <2>3 DEF Local
\* The session gets what the call holds.
<1>10. ASSUME calls[c].at \in Closing, PutBack(c), UNCHANGED unsaved,
              plain'[FolderOf[v]].made = plain[FolderOf[v]].made,
              \A f \in Files : InCall(c, v, f) =>
                  \/ plain'[FolderOf[v]].files[f] = unsaved[v][f] /\ calls[c].keys
                  \/ calls[c].tmp[f] = unsaved[v][f]
                        /\ (calls[c].keys => FolderOf[v] \in torn')
       PROVE  Local(c, v)'
  <2>1. calls'[c].at = "idle"
    BY <1>0, <1>10 DEF PutBack, Idle
  <2>2. /\ sessions'[v].open /\ sessions'[v].keys = calls[c].keys
        /\ sessions'[v].tmp = calls[c].tmp
    BY <1>0, <1>2, <1>10 DEF PutBack
  <2>3. \A f \in Files : unsaved'[v][f] # Absent => InSession(v, f)'
    BY <1>2, <1>10, <2>2 DEF InSession, Readable
  <2>4. ~calls[c].keys => ~plain[FolderOf[v]].made
    BY <1>2, <1>10 DEF Local, Closing
  <2> QED
    BY <1>10, <2>1, <2>2, <2>3, <2>4 DEF Local
<1>11. CASE FailClose(c)
  <2>1. calls[c].at \in Closing /\ PutBack(c) /\ UNCHANGED <<plain, unsaved, torn>>
    BY <1>11 DEF FailClose, Closing, marks
  <2>2. \A f \in Files : InCall(c, v, f) =>
            \/ plain[FolderOf[v]].files[f] = unsaved[v][f] /\ calls[c].keys
            \/ calls[c].tmp[f] = unsaved[v][f] /\ (calls[c].keys => FolderOf[v] \in torn)
    BY <1>2, <2>1 DEF InCall, Readable
  <2> QED
    BY <1>10, <2>1, <2>2
<1>12. CASE FailWipe(c)
  <2>1. calls[c].at \in Closing /\ calls[c].at = "wipe" /\ PutBack(c) /\ UNCHANGED unsaved
    BY <1>12 DEF FailWipe, Closing
  <2>2. PICK gone \in SUBSET In(plain[Folder(c)].files) :
            /\ torn' = IF gone = {} THEN torn ELSE torn \cup {Folder(c)}
            /\ plain' = [plain EXCEPT ![Folder(c)].files =
                         [f \in Files |-> IF f \in gone THEN Absent ELSE @[f]]]
    BY <1>12 DEF FailWipe
  <2>3. /\ plain'[FolderOf[v]].made = plain[FolderOf[v]].made
        /\ \A f \in Files : f \notin gone =>
               plain'[FolderOf[v]].files[f] = plain[FolderOf[v]].files[f]
    BY <1>0, <1>2, <1>t, <2>1, <2>2
  <2>4. \A f \in Files : InCall(c, v, f) =>
            \/ plain'[FolderOf[v]].files[f] = unsaved[v][f] /\ calls[c].keys
            \/ calls[c].tmp[f] = unsaved[v][f] /\ (calls[c].keys => FolderOf[v] \in torn')
    BY <1>2, <2>1, <2>2, <2>3 DEF InCall
  <2> QED
    BY <1>10, <2>1, <2>3, <2>4
<1> QED
  BY <1>1, <1>4, <1>5, <1>6, <1>7, <1>8, <1>9, <1>11, <1>12 DEF Close

\* The user writes where the folder is: never into one that is on its way to the
\* server.
LEMMA EditKeeps ==
    ASSUME IInv, Basic', NEW n \in Folders, NEW g \in Files,
           NEW x \in UserContents \cup {Absent}, Edit(n, g, x)
    PROVE  IInv'
<1>0. /\ plain \in [Folders -> [made : BOOLEAN, files : Tree]]
      /\ unsaved \in [Vaults -> Tree]
      /\ \A w \in Vaults : FolderOf[w] \in Folders
      /\ \A c \in Callers : calls[c].vault \in Vaults
  BY VaultsAssumption DEF IInv, Basic, TypeOK, Call
<1>1. /\ plain[n].made /\ UNCHANGED <<sessions, calls, overlapped, torn, retried>>
      /\ plain' = [plain EXCEPT ![n].files[g] = x]
      /\ unsaved' = [w \in Vaults |->
             IF FolderOf[w] # n THEN unsaved[w]
             ELSE [unsaved[w] EXCEPT ![g] = IF sessions[w].open THEN x ELSE Absent]]
  BY DEF Edit, marks
<1>2. /\ \A m \in Folders : plain'[m].made = plain[m].made
      /\ \A m \in Folders : m # n => plain'[m] = plain[m]
      /\ \A f \in Files : plain'[n].files[f] = IF f = g THEN x ELSE plain[n].files[f]
  BY <1>0, <1>1 DEF Tree
<1>3. KeysGoWithFolder'
  BY <1>0, <1>1, <1>2 DEF IInv, KeysGoWithFolder, Sound, Folder
<1>4. Kept'
  <2>1. SUFFICES ASSUME NEW w \in Vaults, NEW f \in Files, Sound(FolderOf[w])',
                        unsaved'[w][f] # Absent
                 PROVE  InSession(w, f)' \/ \E d \in Callers : InCall(d, w, f)'
    BY DEF Kept
  <2>0. Sound(FolderOf[w])
    BY <1>1, <2>1 DEF Sound
  <2>2. CASE FolderOf[w] # n \/ f # g
    <3>1. unsaved'[w][f] = unsaved[w][f]
      BY <1>0, <1>1, <2>2 DEF Tree
    <3>2. plain'[FolderOf[w]].files[f] = plain[FolderOf[w]].files[f]
      BY <1>0, <1>2, <2>2
    <3>3. InSession(w, f) => InSession(w, f)'
      BY <1>1, <3>1, <3>2 DEF InSession, Readable
    <3>4. \A d \in Callers : InCall(d, w, f) => InCall(d, w, f)'
      BY <1>1, <3>1, <3>2 DEF InCall, Readable
    <3>5. InSession(w, f) \/ \E d \in Callers : InCall(d, w, f)
      BY <2>0, <2>1, <3>1 DEF IInv, Kept
    <3> QED
      BY <3>3, <3>4, <3>5
  <2>3. CASE FolderOf[w] = n /\ f = g
    <3>1. unsaved'[w][f] = IF sessions[w].open THEN x ELSE Absent
      BY <1>0, <1>1, <2>3 DEF Tree
    <3>2. sessions[w].open /\ unsaved'[w][f] = x
      BY <2>1, <3>1
    <3>3. sessions[w].keys
      BY <1>1, <2>0, <2>3, <3>2 DEF IInv, KeysGoWithFolder
    <3> QED
      BY <1>1, <1>2, <2>3, <3>2, <3>3 DEF InSession, Readable
  <2> QED
    BY <2>2, <2>3
<1> QED
  BY <1>3, <1>4 DEF IInv

LEMMA SameKeeps ==
    ASSUME IInv, Basic', UNCHANGED <<plain, sessions, calls, unsaved, overlapped, torn, retried>>
    PROVE  IInv'
  BY DEF IInv, KeysGoWithFolder, Kept, InSession, InCall, Readable, Sound, Folder

LEMMA CrashKeeps ==
    ASSUME IInv, Basic', Crash
    PROVE  IInv'
<1>1. /\ \A c \in Callers : calls'[c].at = "idle"
      /\ \A v \in Vaults : ~sessions'[v].open
      /\ \A v \in Vaults, f \in Files : unsaved'[v][f] = Absent
  BY DEF IInv, Basic, TypeOK, Crash, Idle, NoSession, Nothing
<1> QED
  BY <1>1 DEF IInv, KeysGoWithFolder, Kept

LEMMA InitInv == Init => IInv
<1> SUFFICES ASSUME Init
             PROVE  IInv
  OBVIOUS
<1>1. /\ calls = [c \in Callers |-> Idle] /\ sessions = [v \in Vaults |-> NoSession]
      /\ unsaved = [v \in Vaults |-> Nothing]
  BY DEF Init
<1>2. Idle.at = "idle" /\ ~NoSession.open /\ \A f \in Files : Nothing[f] = Absent
  BY DEF Idle, NoSession, Nothing
<1>3. /\ \A c \in Callers : calls[c].at = "idle"
      /\ \A v \in Vaults : ~sessions[v].open
      /\ \A v \in Vaults, f \in Files : unsaved[v][f] = Absent
  BY <1>1, <1>2
<1> QED
  BY <1>3, InitBasic DEF IInv, KeysGoWithFolder, Kept

LEMMA NextInv == IInv /\ [Next]_vars => IInv'
<1> SUFFICES ASSUME IInv, [Next]_vars
             PROVE  IInv'
  OBVIOUS
<1>0. Basic'
  BY NextBasic DEF IInv
<1>1. ASSUME NEW c \in Callers, Open(c) \/ Close(c)
      PROVE  IInv'
  BY <1>1, OpenKeeps, CloseKeeps
<1>2. CASE Environment
  <2>1. ASSUME NEW n \in Folders, NEW f \in Files, NEW x \in UserContents \cup {Absent},
               Edit(n, f, x)
        PROVE  IInv'
    BY <1>0, <2>1, EditKeeps
  <2>2. ASSUME NEW v \in Vaults, NEW f \in Files, NEW x \in RemoteContents \cup {Absent},
               RemoteEdit(v, f, x)
        PROVE  IInv'
    BY <1>0, <2>2, SameKeeps DEF RemoteEdit, marks
  <2>3. CASE Crash
    BY <1>0, <2>3, CrashKeeps
  <2> QED
    BY <1>2, <2>1, <2>2, <2>3 DEF Environment
<1>3. CASE UNCHANGED vars
  BY <1>0, <1>3, SameKeeps DEF vars, marks
<1> QED
  BY <1>1, <1>2, <1>3 DEF Next

LEMMA KeptSurvives == IInv => EditsSurvive
  BY DEF IInv, Kept, Sound, EditsSurvive, EditsKept, InSession, InCall, Readable, Closing

\* Whatever fails around CloseVault, and however calls overlap, what the user wrote
\* into a plain folder is kept, unless a vault was opened into that folder while it
\* was in use, or it was encrypted again after it had been removed in part.
THEOREM VaultEditsSurvive == Spec => []EditsSurvive
<1>1. Init => IInv
  BY InitInv
<1>2. IInv /\ [Next]_vars => IInv'
  BY NextInv
<1>3. IInv => EditsSurvive
  BY KeptSurvives
<1> QED
  BY <1>1, <1>2, <1>3, PTL DEF Spec

\* Only FinishClose returns without an error.
LEMMA OnlyFinishReturns ==
    ASSUME TypeOK, [Next]_vars, NEW c \in Callers, ReturnsNil(c)
    PROVE  FinishClose(c)
<1>0. /\ calls \in [Callers -> Call]
      /\ spent \in [edit : Nat, remote : Nat, fault : Nat, crash : Nat]
  BY DEF TypeOK
<1>1. calls[c].at = "upload" /\ calls'[c].at = "idle" /\ spent' = spent
  BY DEF ReturnsNil
<1>2. [spent EXCEPT !.fault = @ + 1] # spent /\ [spent EXCEPT !.crash = @ + 1] # spent
  BY <1>0
<1>3. ASSUME NEW d \in Callers, Open(d) \/ Close(d), d # c
      PROVE  FALSE
  <2>1. PICK v \in Vaults : Frame(d, v)
    BY <1>3, OpenFrame, CloseFrame
  <2>2. calls'[c] = calls[c]
    BY <1>3, <2>1 DEF Frame
  <2> QED
    BY <1>1, <2>2
<1>4. ~Open(c)
  BY <1>1 DEF Open, OpenVault, ListFiles, DownloadFile, Unlock, DecryptFile, Register,
              FailOpen, Opening
<1>5. CASE Close(c)
  <2>1. \A f \in Files : ~UploadFile(c, f)
    <3>1. SUFFICES ASSUME NEW f \in Files, UploadFile(c, f)
                   PROVE  FALSE
      OBVIOUS
    <3>2. calls' = [calls EXCEPT ![c].todo = @ \ {f}]
      BY <3>1 DEF UploadFile
    <3> QED
      BY <1>0, <1>1, <3>2 DEF Call
  <2>2. ~FailClose(c)
    BY <1>1, <1>2 DEF FailClose, Fault
  <2> QED
    BY <1>1, <1>5, <2>1, <2>2
    DEF Close, CloseVault, StartEncrypt, EncryptFile, Encrypted, Wipe, FailWipe
<1>6. ~Environment
  BY <1>1, <1>2 DEF Environment, Edit, RemoteEdit, Crash
<1> QED
  BY <1>1, <1>3, <1>4, <1>5, <1>6 DEF Next, vars

LEMMA ReturnKeeps ==
    ASSUME IInv, [Next]_vars, NEW c \in Callers, ReturnsNil(c), Sound(Folder(c))
    PROVE  unsaved[calls[c].vault] = Nothing
<1>1. FinishClose(c)
  BY OnlyFinishReturns DEF IInv, Basic
<1>2. Busy(c) /\ calls[c].at = "upload" /\ calls[c].todo = {}
  BY <1>1 DEF FinishClose, Busy
<1>3. /\ calls[c].vault \in Vaults /\ ~sessions[calls[c].vault].open
      /\ Local(c, calls[c].vault)
  BY <1>2, BusyLocal
<1>4. \A f \in Files : unsaved[calls[c].vault][f] = Absent
  BY <1>2, <1>3 DEF Local, InSession, InCall
<1>5. unsaved[calls[c].vault] \in Tree
  BY <1>3 DEF IInv, Basic, TypeOK
<1> QED
  BY <1>4, <1>5 DEF Tree, Nothing

\* Under the same two exceptions, a CloseVault that returns without an error has
\* uploaded all the user wrote before it was called, whatever has failed before.
THEOREM VaultSavedOnReturn == Spec => SavedOnReturn
<1>1. Init => IInv
  BY InitInv
<1>2. IInv /\ [Next]_vars => IInv'
  BY NextInv
<1>3. IInv /\ [Next]_vars
      => [\A c \in Callers : ReturnsNil(c) /\ Folder(c) \notin overlapped \cup retried
                                 => unsaved[calls[c].vault] = Nothing]_vars
  BY ReturnKeeps DEF Sound
<1> QED
  BY <1>1, <1>2, <1>3, PTL DEF Spec, SavedOnReturn

-----------------------------------------------------------------------------
(* The plain folders.  A removal that stops half-way does no harm here.    *)

IOwned == Basic /\ PlaintextOwned

\* Call c or the session of v is there to remove the plain folder of v.
Owns(c, v) ==
    \/ sessions[v].open /\ sessions[v].keys
    \/ calls[c].vault = v /\ \/ calls[c].at = "decrypt"
                             \/ calls[c].at \in Closing /\ calls[c].keys

\* The folder of v has an owner after a step of c: c or the session of v, or
\* another one, that had it before.
StillOwned(c, v) ==
    plain'[FolderOf[v]].made =>
        \/ FolderOf[v] \in abandoned'
        \/ Owns(c, v)'
        \/ plain[FolderOf[v]].made /\ FolderOf[v] \notin abandoned /\ ~Owns(c, v)

\* A step of a call on the one vault it holds keeps the invariant, if it keeps it
\* for the folder of that vault.
LEMMA OwnerStep ==
    ASSUME IOwned, Basic', NEW c \in Callers, NEW v \in Vaults, Frame(c, v),
           FolderOf[v] \notin overlapped' => StillOwned(c, v)
    PROVE  IOwned'
<1>0. \A d \in Callers : calls[d].vault \in Vaults /\ calls'[d].vault \in Vaults
  BY DEF IOwned, Basic, TypeOK, Call
<1>1. SUFFICES ASSUME NEW n \in Folders, n \notin overlapped', plain'[n].made, n \notin abandoned'
      PROVE  \/ \E w \in Vaults : FolderOf[w] = n /\ sessions'[w].open /\ sessions'[w].keys
             \/ \E d \in Callers : /\ FolderOf[calls'[d].vault] = n
                                   /\ \/ calls'[d].at = "decrypt"
                                      \/ calls'[d].at \in Closing /\ calls'[d].keys
  BY DEF IOwned, PlaintextOwned, Owned, Folder
<1>2. CASE n = FolderOf[v] /\ Owns(c, v)'
  BY <1>2 DEF Owns
<1>3. CASE ~(n = FolderOf[v] /\ Owns(c, v)')
  <2>1. plain[n].made /\ n \notin abandoned /\ n \notin overlapped /\ (n = FolderOf[v] => ~Owns(c, v))
    BY <1>1, <1>3 DEF StillOwned, Frame
  <2>2. CASE \E w \in Vaults : FolderOf[w] = n /\ sessions[w].open /\ sessions[w].keys
    <3>1. PICK w \in Vaults : FolderOf[w] = n /\ sessions[w].open /\ sessions[w].keys
      BY <2>2
    <3>2. w # v
      BY <2>1, <3>1 DEF Owns
    <3> QED
      BY <3>1, <3>2 DEF Frame
  <2>3. CASE \E d \in Callers : /\ FolderOf[calls[d].vault] = n
                                /\ \/ calls[d].at = "decrypt"
                                   \/ calls[d].at \in Closing /\ calls[d].keys
    <3>1. PICK d \in Callers : /\ FolderOf[calls[d].vault] = n
                               /\ \/ calls[d].at = "decrypt"
                                  \/ calls[d].at \in Closing /\ calls[d].keys
      BY <2>3
    <3>2. Busy(d)
      BY <3>1 DEF Busy, Closing
    <3>3. d # c
      BY <2>1, <3>1, <3>2 DEF Owns, Frame
    <3> QED
      BY <3>1, <3>3 DEF Frame
  <2> QED
    BY <2>1, <2>2, <2>3 DEF IOwned, PlaintextOwned, Owned, Folder
<1> QED
  BY <1>2, <1>3

LEMMA OpenOwned ==
    ASSUME IOwned, NEW c \in Callers, Open(c)
    PROVE  IOwned'
<1>0. /\ TypeOK /\ calls \in [Callers -> Call] /\ sessions \in [Vaults -> Session]
      /\ plain \in [Folders -> [made : BOOLEAN, files : Tree]] /\ Basic'
  BY OpenBasic DEF IOwned, Basic, TypeOK
<1>v. PICK v \in Vaults : Frame(c, v) /\ Hands(c, v)
  BY <1>0, OpenFrame
<1>s. SUFFICES ASSUME FolderOf[v] \notin overlapped'
               PROVE  StillOwned(c, v)
  BY <1>0, <1>v, OwnerStep
<1>1. ASSUME NEW u \in Vaults, OpenVault(c, u)
      PROVE  StillOwned(c, v)
  <2>1. /\ calls'[c].vault = u /\ calls'[c].at = "list"
        /\ UNCHANGED <<plain, sessions, abandoned>> /\ ~sessions[u].open
        /\ calls[c].at = "idle"
    BY <1>0, <1>1 DEF OpenVault, Idle
  <2>2. u = v
    BY <1>v, <2>1 DEF Frame, Busy
  <2> QED
    BY <2>1, <2>2 DEF StillOwned, Owns, Closing
<1>2. ASSUME calls[c].at \in Opening
      PROVE  /\ calls[c].vault = v /\ Folder(c) = FolderOf[v] /\ Folder(c) \in Folders
             /\ ~sessions[v].open
  <2>1. Busy(c) /\ calls[c].vault = v /\ Folder(c) = FolderOf[v]
    BY <1>v, <1>2 DEF Frame, Busy, Opening, Folder
  <2>2. FolderOf[v] \notin overlapped
    BY <1>v, <1>s DEF Frame
  <2> QED
    BY <2>1, <2>2, BusyAlone, VaultsAssumption DEF IOwned, Basic
<1>3. ASSUME calls[c].at \in {"list", "download"}, UNCHANGED <<plain, sessions, abandoned>>
      PROVE  StillOwned(c, v)
  BY <1>2, <1>3 DEF StillOwned, Owns, Opening, Closing
<1>4. CASE ListFiles(c)
  BY <1>3, <1>4 DEF ListFiles
<1>5. ASSUME NEW f \in Files, DownloadFile(c, f)
      PROVE  StillOwned(c, v)
  BY <1>3, <1>5 DEF DownloadFile
<1>6. ASSUME calls[c].at \in Opening, calls'[c].at = "decrypt"
      PROVE  StillOwned(c, v)
  <2>1. calls'[c].vault = v
    BY <1>v, <1>6 DEF Frame, Busy
  <2> QED
    BY <1>6, <2>1 DEF StillOwned, Owns
<1>7. CASE Unlock(c)
  BY <1>0, <1>6, <1>7 DEF Unlock, Opening
<1>8. ASSUME NEW f \in Files, DecryptFile(c, f)
      PROVE  StillOwned(c, v)
  BY <1>0, <1>6, <1>8 DEF DecryptFile, Opening
<1>9. CASE Register(c)
  <2>1. calls[c].vault = v
    BY <1>2, <1>9 DEF Register, Opening
  <2>2. sessions'[v].open /\ sessions'[v].keys
    BY <1>0, <1>9, <2>1 DEF Register
  <2> QED
    BY <2>2 DEF StillOwned, Owns
<1>10. CASE FailOpen(c)
  <2>1. /\ calls[c].at \in Opening /\ UNCHANGED <<plain, sessions>>
        /\ abandoned' = IF calls[c].at = "decrypt" /\ plain[Folder(c)].made
                        THEN abandoned \cup {Folder(c)} ELSE abandoned
    BY <1>10 DEF FailOpen, Opening
  <2> QED
    BY <1>2, <2>1 DEF StillOwned, Owns, Opening, Closing
<1> QED
  BY <1>1, <1>4, <1>5, <1>7, <1>8, <1>9, <1>10 DEF Open

\* Keys leave memory with the plain folder, and a session gets back the keys the
\* call took from it.
LEMMA CloseOwned ==
    ASSUME IOwned, NEW c \in Callers, Close(c)
    PROVE  IOwned'
<1>0. /\ TypeOK /\ calls \in [Callers -> Call] /\ sessions \in [Vaults -> Session]
      /\ plain \in [Folders -> [made : BOOLEAN, files : Tree]] /\ Basic'
  BY CloseBasic DEF IOwned, Basic, TypeOK
<1>v. PICK v \in Vaults : Frame(c, v) /\ Hands(c, v)
  BY <1>0, CloseFrame
<1>s. SUFFICES ASSUME FolderOf[v] \notin overlapped'
               PROVE  StillOwned(c, v)
  BY <1>0, <1>v, OwnerStep
<1>1. ASSUME NEW u \in Vaults, CloseVault(c, u)
      PROVE  StillOwned(c, v)
  <2>1. /\ calls'[c].vault = u /\ calls'[c].at = "check" /\ calls'[c].keys = sessions[u].keys
        /\ UNCHANGED <<plain, abandoned>> /\ calls[c].at = "idle"
    BY <1>0, <1>1 DEF CloseVault, Idle
  <2>2. u = v
    BY <1>v, <2>1 DEF Frame, Busy
  <2> QED
    BY <2>1, <2>2 DEF StillOwned, Owns, Closing
<1>2. ASSUME calls[c].at \in Closing
      PROVE  /\ calls[c].vault = v /\ Folder(c) = FolderOf[v] /\ Folder(c) \in Folders
             /\ ~sessions[v].open
             /\ calls[c].at \in {"encrypt", "wipe"} => calls[c].keys
             /\ calls[c].at = "upload" => ~calls[c].keys
  <2>1. Busy(c) /\ calls[c].vault = v /\ Folder(c) = FolderOf[v]
    BY <1>v, <1>2 DEF Frame, Busy, Closing, Folder
  <2>2. FolderOf[v] \notin overlapped
    BY <1>v, <1>s DEF Frame
  <2> QED
    BY <2>1, <2>2, BusyAlone, VaultsAssumption DEF IOwned, Basic, KeysByStage
\* A step on the way, with the keys in memory.
<1>3. ASSUME calls[c].at \in Closing, calls'[c].at \in {"encrypt", "wipe"}
      PROVE  StillOwned(c, v)
  <2>1. calls'[c].vault = v /\ calls'[c].keys
    BY <1>0, <1>v, <1>3 DEF Frame, Busy, Basic, KeysByStage
  <2> QED
    BY <1>3, <2>1 DEF StillOwned, Owns, Closing
<1>4. CASE StartEncrypt(c)
  BY <1>0, <1>3, <1>4 DEF StartEncrypt, Closing
<1>5. CASE Encrypted(c)
  BY <1>0, <1>3, <1>5 DEF Encrypted, Closing
<1>6. ASSUME NEW f \in Files, EncryptFile(c, f)
      PROVE  StillOwned(c, v)
  BY <1>0, <1>3, <1>6 DEF EncryptFile, Closing
<1>7. CASE Wipe(c)
  <2>1. ~plain'[FolderOf[v]].made
    BY <1>0, <1>2, <1>7 DEF Wipe, Closing, NoFolder
  <2> QED
    BY <2>1 DEF StillOwned
\* The upload is without keys before and after.
<1>8. ASSUME calls[c].at = "upload", UNCHANGED <<plain, sessions, abandoned>>
      PROVE  StillOwned(c, v)
  BY <1>2, <1>8 DEF StillOwned, Owns, Closing
<1>9. ASSUME NEW f \in Files, UploadFile(c, f)
      PROVE  StillOwned(c, v)
  BY <1>8, <1>9 DEF UploadFile
<1>10. CASE FinishClose(c)
  BY <1>8, <1>10 DEF FinishClose
<1>11. ASSUME calls[c].at \in Closing, PutBack(c), UNCHANGED abandoned,
              plain'[FolderOf[v]].made = plain[FolderOf[v]].made
       PROVE  StillOwned(c, v)
  <2>1. sessions'[v].open /\ sessions'[v].keys = calls[c].keys
    BY <1>0, <1>2, <1>11 DEF PutBack
  <2> QED
    BY <1>2, <1>11, <2>1 DEF StillOwned, Owns, Closing
<1>12. CASE FailClose(c)
  BY <1>11, <1>12 DEF FailClose, Closing
<1>13. CASE FailWipe(c)
  <2>1. plain'[FolderOf[v]].made = plain[FolderOf[v]].made
    BY <1>0, <1>2, <1>13 DEF FailWipe, Closing
  <2> QED
    BY <1>11, <1>13, <2>1 DEF FailWipe, Closing
<1> QED
  BY <1>1, <1>4, <1>5, <1>6, <1>7, <1>9, <1>10, <1>12, <1>13 DEF Close

LEMMA EnvironmentOwned ==
    ASSUME IOwned, Environment
    PROVE  IOwned'
<1>0. Basic'
  BY EnvironmentBasic DEF IOwned
<1>1. ASSUME UNCHANGED <<sessions, calls, abandoned, overlapped>>,
             \A n \in Folders : plain'[n].made = plain[n].made
      PROVE  IOwned'
  BY <1>0, <1>1 DEF IOwned, PlaintextOwned, Owned, Folder
<1>2. ASSUME NEW n \in Folders, NEW f \in Files, NEW x \in UserContents \cup {Absent},
             Edit(n, f, x)
      PROVE  IOwned'
  <2>1. \A m \in Folders : plain'[m].made = plain[m].made
    BY <1>2 DEF Edit, IOwned, Basic, TypeOK
  <2> QED
    BY <1>1, <1>2, <2>1 DEF Edit, marks
<1>3. ASSUME NEW v \in Vaults, NEW f \in Files, NEW x \in RemoteContents \cup {Absent},
             RemoteEdit(v, f, x)
      PROVE  IOwned'
  BY <1>1, <1>3 DEF RemoteEdit, marks
<1>4. CASE Crash
  <2>1. abandoned' = {n \in Folders : plain[n].made} /\ UNCHANGED plain
    BY <1>4 DEF Crash
  <2> QED
    BY <1>0, <2>1 DEF IOwned, PlaintextOwned, Owned
<1> QED
  BY <1>2, <1>3, <1>4 DEF Environment

LEMMA InitOwned == Init => IOwned
<1> SUFFICES ASSUME Init
             PROVE  IOwned
  OBVIOUS
<1>1. \A n \in Folders : ~plain[n].made
  BY DEF Init, NoFolder
<1> QED
  BY <1>1, InitBasic DEF IOwned, PlaintextOwned, Owned

\* Whatever fails and however calls overlap, a plain folder has something that will
\* remove it, or a crash or a failed decryption has left it; unless a vault was
\* opened into that folder while it was in use.
THEOREM VaultPlaintextOwned == Spec => []PlaintextOwned
<1>1. Init => IOwned
  BY InitOwned
<1>2. IOwned /\ [Next]_vars => IOwned'
  <2> SUFFICES ASSUME IOwned, [Next]_vars
               PROVE  IOwned'
    OBVIOUS
  <2>1. CASE UNCHANGED vars
    BY <2>1, NextBasic DEF vars, marks, IOwned, PlaintextOwned, Owned, Folder
  <2> QED
    BY <2>1, OpenOwned, CloseOwned, EnvironmentOwned DEF Next
<1>3. IOwned => PlaintextOwned
  BY DEF IOwned
<1> QED
  BY <1>1, <1>2, <1>3, PTL DEF Spec
=============================================================================
