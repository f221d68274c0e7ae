# A formal model of DiscoDrive

DiscoDrive keeps a folder on each device in step with a server, shows the files of
a server on demand, and keeps encrypted vaults on it. This directory holds TLA+ models of the parts of this repository where that can go wrong in
ways a test would hardly reach, the TLC runs that check them on small instances,
and proofs, checked by TLAPS, of what holds on all instances.

`PROJECT.json` is the index: which definition stands for which lines of the
source (`map`), which run checks what, which change of the code each property
would notice (`mutants`), where the code is exposed (`hazards`), where it differs
from what the repository says of it (`findings`), and what is proved
(`theorems`).

## 1. The system

| Component | State | Operations | What makes it hard |
|---|---|---|---|
| Sync engine (`daemon/internal/engine`) | the folder; the rows of the index | `DetectLocal`, `PushLocal`, `PullOnce`, `ResetForScope` | the user edits while a pass runs; three durable effects per change, a crash between any two; the feed is a snapshot, downloads and requests are not |
| Index (`internal/index`) | nodes table, cursor, scope epoch, server URL | `Get`, `Put`, `Delete`, `All`, `Clear`, `SetCursor`, ... | durable across crashes; `path` is not unique |
| Sync pass (`internal/syncer`, `SyncOnce`) | none of its own | epoch check, then rebuild, or push and pull | the epoch can change after the check |
| Sync loop (`internal/syncer`, `Run`) | a one-token channel, a debounce timer, the sleep, the status file | `notify` from watcher, event stream and ticker; start and end of a pass; sleep; return | tokens dropped, taken and given back; events missed; cancellation against a channel that is always ready |
| Safe paths (`internal/safepath`) | none | `Join` | symbolic links, names that leave the folder |
| Protocol client (`internal/protocol`) | the token | the requests; a second try after a 401 | concurrent requests share the token |
| Server (not in this repository) | nodes, change feed, scope epoch | `/sync/*`, `/files/*` | other devices; conflict copies |
| Mobile client (`daemon/mobile/mobile.go`) | engine and index opened per call | `SyncOnce` and `Status` | two calls at once |
| Desktop controller (`internal/desktop/controller.go`) and mobile browser (`mobile/browser.go`) | tree, pins, downloads | `Refresh`, `Open`, `Pin`, `Unpin`, `RemoveLocal`; the mobile one also sends changes | a download against a refresh; a refresh cut between a row, a copy and the cursor |
| Vault sessions (`internal/desktop/vaultsync.go`, `internal/vaultmgr`) | open sessions, plain and encrypted folders | open, save, lock, upload | look-up and use under different locks; steps that fail half-way |
| Lazy vault (`internal/vault/lazy.go`) | folders on the server | `List`, `MakeDir`, `Write`, ... | several requests per operation |
| Vault format (`internal/vault`) | none | encrypt, decrypt, names, keys | byte-level |
| Pairing and sessions (`internal/desktop/session.go`, `protocol/pair.go`, `cmd/discodrive/main.go`, `pairdir.go`) | configuration, the index's server URL | pair, wipe for another server | the folder outlives the index |
| Daemon process (`cmd/discodrive/lock.go`, `detach.go`, `tray.go`) | the profile lock | start, detach, quit | hand-over of the lock; quit during a pass |
| Chunked uploads (`cmd/discodrive-wails/upload.go`) | the upload's offset | begin, chunk, resume, abort | resume after failures |
| Swift browser (`clients/shared/AppState.swift`, `DiscoKit`) | the list of nodes, local copies and their versions, pins | `refresh`, `ensureDownloaded`, `importLocalFiles` | another call can run at every `await`; what was read before it is used after it |
| Applications (Wails, Kotlin, web view, installers) | presentation | | |

They interact like this. The watcher, the event stream and the ticker call
`notify`; `Run` turns tokens into passes; a pass asks the server for the epoch,
scans the folder, sends requests one at a time and writes the index after each
answer, then reads the feed page by page and changes folder, index and cursor
entry by entry. The user changes the folder and the other devices the server at
any time. Two processes, or two calls of the mobile client, share the folder and
the index and nothing else. Vault sessions do not go through the sync folder: the
desktop application downloads a vault's ciphertext and uploads it again by itself,
and shares only the server with the rest. All requests of a program go through one protocol client
and its token: the goroutines of an upload, the calls of the user interface and a vault
session at the same time. Two devices meet in a vault only on the server.

What makes a component correct:

- engine: no local content is lost that the server has never stored; what the
  cursor has passed is in the index; a completed pass leaves nothing to push that
  nobody changed; when everybody stops, the folder becomes the server's tree;
- pass: a rebuild for a new scope, however often it is cut, never pushes, and
  leaves exactly the new scope;
- loop: every notification is answered by a pass that began after it;
- pairing: the folder of one server is never pushed to, or swept for, another;
- client: a request that is made again has a newer token, and what the server takes is
  the whole file;
- chunked uploads: a file reported as uploaded is published, whole, and every upload
  ends;
- browsing: a copy shown as fresh is one; no change is skipped, wherever a refresh
  breaks off;
- one daemon works with a profile at a time;
- lazy vault: nothing stored becomes unreachable but what was left behind, also after a
  call or an upload that broke off;
- vault sessions: a change made in an open vault reaches the server or stays in
  the plain folder, whatever fails; plain files do not stay behind.

## 2. The modules

| Module | Stands for |
|---|---|
| `SyncTree` | the synced folder: a function from paths to a content, a folder or nothing, and the file system calls on it |
| `SyncServer` | the server as the client's requests and the tests' fixtures describe it (external): nodes, feed, scope; each request is the set of its possible answers |
| `SyncEngine` | `DetectLocal`, `PushLocal`, `PullOnce`, `ResetForScope`, `SyncOnce` over folder, index and server; faults; the user, the other devices and the scope as environment |
| `SyncLoop` | `Run`, `watch`, `listenEvents`, `writeStatus`; a pass is one step |
| `SyncPromise` | abstract specification of `Run`: a change is outstanding until a pass that began after it has succeeded |
| `Profile` | pairing and starting: `pair`, `run` with its detached child, and the desktop's `PairPoll`, `startup`, `Unpair`; a sync pass is one step |
| `Client` | the requests of the protocol client: token, exchange, 401 retry, the body read from a file |
| `Uploads` | `uploadFolder`, `uploadFile`, `Uploader.Upload` over `Client` |
| `Controller` | the desktop `Controller` and the mobile `Browser`: feed without content, copies on demand, pins |
| `VaultSession` | `OpenVault`, `CloseVault`, `CloseAllVaults` with the steps of `vaultmgr.Open` and `Close` and the walks of `DecryptTree` and `EncryptTree`, called by several threads; the user, the other devices, faults and the end of the process as environment |
| `LazyVault` | the mobile `Vault`, request by request, and a desktop session over sub-folders, on one vault |
| `MCSyncEngine`, `MCProfile`, `MCClient`, `MCUploads`, `MCController`, `MCVaultSession`, `MCLazyVault` | instances for TLC |
| `SyncServerProofs`, `SyncEngineProofs`, `SyncLoopProofs`, `ProfileProofs`, `UploadsProofs` (of `Client` too), `ControllerProofs`, `VaultSessionProofs`, `LazyVaultProofs` | lemmas and theorems |

`SyncEngine` EXTENDS `SyncServer`, which EXTENDS `SyncTree`. `SyncLoop` implements
`SyncPromise` (`KeepsPromise`); what its step "pass" does is `SyncEngine`, and what is a
step of `Profile` is `SyncLoop`. `Uploads` composes several uploads and other requests
over one `Client`, and implements `Client`'s specification: what holds of the client
holds under it.

### SyncEngine in detail

| Variable | In the code |
|---|---|
| `srv` | the server |
| `disk` | the synced folder |
| `idx`, `cursor`, `scopeEpoch` | the SQLite index: `nodes`, `meta.cursor`, `meta.scope_epoch` |
| `pass` | the local variables of `SyncOnce` and what it calls: step, epoch read, detected changes, `knownNodes`, page, its cursor |
| `rebuilding`, `touched`, `unrecorded` | history, for the properties only |
| `spent` | bounds of the runs |

| Action | In the code |
|---|---|
| `StartPush` | `SyncMeta`, the comparison, `DetectLocal`, `pairLocalMoves` |
| `StartReset` | the same with another epoch: `Clear` |
| `PushDir`, `PushFileChange`, `PushMove`, `PushDelete` | an iteration of `PushLocal`, its request and the row; or a refusal; or a lost answer |
| `RefusePath`, `RejectPath` | `abs` fails |
| `Fetch` | `Changes` |
| `ApplyDelete`, `ApplyDir`, `ApplyFile` | `apply` and `SetCursor` for one entry, cut after any durable effect, or failing |
| `FinishPull`, `FinishReset`, `BreakReset` | the end of a pass; `sweepOrphans` and `SetScopeEpoch`, whole or cut |
| `Abort` | a pass ends between two of its steps |
| `User*`, `Remote*`, `ChangeScope` | environment |

An error that is returned and a process that is killed are one thing here: both
lose the pass's memory and keep folder and index, which is all the next pass
sees.

Between the steps of a pass the environment is free to act, so what the code read
before (the epoch, the detected changes, `knownNodes`, the page) can be stale when
it is used, and what it reads late (the content it uploads, the content it
downloads, `GetByPath`) is read late in the model too.

Where the code leaves an order open the model chooses freely: which row of
several with one path a map keeps, which of several equal files are paired into a
move, in which order changes of one rank and depth are pushed.

What is abstracted:

- a content stands for its hash; names are single letters; versions are numbers;
- the scan of `DetectLocal` is one step, and so is one `apply` apart from the
  cuts named above; `MkdirAll` and `RemoveAll` are one step each; an upload sends
  the file as it is at one moment;
- the requests of one move are one step, but it can end after each of them;
- temporary files, `.DS_Store` and `._*` files and symbolic links do not occur;
  deleting the root does not occur (the feed has no entry for it);
- the 401 retry is not visible at this level: `Client` has it.

What is assumed of the server, from the client's requests and its tests:
`EnsureDir` is idempotent; deleting what is not there is not an error; a push
whose base version is not the current one becomes a conflict copy under a free
name; a push without a base version, on a path that is taken, may do either (the
vault code relies on overwriting, `push_test.go` on nothing); deleting a folder
deletes what is in it; the feed lists the current scope in the order of sequence
numbers. The repository does not say whether the feed keeps every change or the
last one of each node: `Compacted` chooses, and the runs use both.

### SyncLoop in detail

`trigger` is the channel of capacity one, `pending` and `timer` the debounce flag
and timer, `backoff` the next sleep in seconds, `status` the state in
`status.json`, `stream` the connection of `listenEvents`, `done` the context.
`owed` and `missed` are history: a notification, or a change nobody reported,
that no pass has answered yet. The watcher can fail to report a change (a folder
it has not been added to yet), events are lost while the stream is down. The
500 ms, 2 s and 60 s are abstracted: a timer that runs fires at some later moment.

### VaultSession in detail

| Variable | In the code |
|---|---|
| `remote` | the vaults on the server |
| `plain` | the plain folders, `plainDir` of `vaultmgr`: by the vault's base name, outside the sync folder |
| `sessions` | `Controller.sessions`: whether there is one, whether its `Manager` still has the keys, the ciphertext in its `tmpDir` |
| `calls` | the calls under way: stage, vault, the files still to do, the ciphertext and keys only this call refers to |
| `unsaved` | history: what the user wrote in an open vault and the server has not been sent |
| `abandoned` | history: plain folders left by a crash or a failed decryption |
| `overlapped` | history: plain folders that were in use (by a session, or a call at work) when a vault was opened into them |
| `torn`, `retried` | history: plain folders of which a failed `RemoveAll` has removed a part; those encrypted again after that |
| `spent` | bounds of the run |

| Action | In the code |
|---|---|
| `OpenVault` | `openVaultCore` finds no session |
| `ListFiles`, `DownloadFile` | `downloadVaultCiphertext`: `Refresh` and `idx.All`, then one file at a time |
| `Unlock`, `DecryptFile`, `Register` | the rest of `openVaultCore` with `vaultmgr.openUnlocked`: `MkdirAll` of the plain folder, `DecryptTree` file by file, keys and session stored |
| `FailOpen` | any of these returns an error, a wrong password among them |
| `CloseVault` | the session is taken out of the map under the lock |
| `StartEncrypt`, `EncryptFile`, `Encrypted`, `Wipe` | `vaultmgr.Close`: `RemoveAll(d)`, `EncryptTree` file by file, `RemoveAll` of the plain folder and `delete(m.unlocked)` |
| `UploadFile`, `FinishClose` | `uploadTree`, and the end of the call |
| `FailClose`, `FailWipe` | any of these returns an error: the session goes back into the map |
| `Edit`, `RemoteEdit`, `Crash` | environment |

`OpenVaultWithRecovery` differs from `OpenVault` by where its keys come from, and
`CloseAllVaults` is a `CloseVault` of each vault in turn. Opening a vault that has a
session returns the name of its folder and changes nothing.

What is abstracted:

- a file is its name and content, encrypted or not; the name of a file in the root of
  a vault is encrypted the same way every time, so a re-encrypted file replaces the
  old one on the server. Sub-folders, which get fresh names, are in `LazyVault`;
- the key files of a vault never change and are left out; `CreateVault` is left out;
- a file of a vault is pushed without a base version, and the server then replaces it:
  this is what the fake server of `vaultsync_test.go` does;
- a failing `RemoveAll(d)` leaves the same as an encryption that fails at its first
  file; an error and putting the session back are one step.

A write of the user counts as `unsaved` while the session is in the map. What is
written into a folder that is being closed, or that was left behind, is promised by
nothing in the code. A crash ends the promise too, since only the plain folder
outlives it; so does `QuitApp`, which ignores the errors of closing
(`app.go:557-558`).

Nothing in the model keeps calls apart, as nothing in the controller does. The
frontend does it in part: `Vaults.vue` orders the calls on one vault (`busyIds`), but
`App.vue:36-41` closes all vaults when the view is left, without telling it, and two vaults
with one base name share a plain folder. Nor is `RemoveAll` of a plain folder all or
nothing. What follows from the two is the subject of two configurations that end in a violation
(section 3); the properties that hold name these cases by the histories `overlapped` and
`retried`, per folder, and say nothing of a folder after it has met them. A crash starts
afresh.

### Client and Uploads in detail

`jwt` and `mu` are the client's fields; `mu` has an owner only while a token is
exchanged, the one place where the code holds it during a request. `issued` and
`expired` are the server's tokens, numbered in the order they were issued. `call` is
where each goroutine is in its request, with the token of the attempt and the one the
first attempt was refused with. `body` is its source: the offset of the file, what the
present attempt has sent, and whether a writer of the first attempt is still there.

| Action | In the code |
|---|---|
| `Request`, `CachedToken`, `StartExchange`, `Issue`, `FailExchange`, `StoreToken` | `token` |
| `Arrive`, `Deny`, `ClearJWT` | the answer 401 at the first attempt, perhaps before the body has been sent; at the second it is final |
| `ReadBlock`, `Take`, `Answer`, `Break` | the transport sends the body, as long as its `Content-Length` says; the request ends |
| `StaleRead`, `StaleStop` | the transport's writer of the refused attempt still reads the file that `replayableBody` has rewound |
| `FindFile`, `FolderMade` | `uploadFolder`: the folder's id is asked for with the first file in it and kept |
| `Acquire` | `uploadFile` gets a place in `uploadSem` |
| `Initiated`, `Resumed`, `ChunkSent`, `Finished` | what `Upload` does with each answer, up to its next request |
| `Serve`, `Fail`, `LateChunk`, `Forget` | the server's session: a request served or not, an answer lost, a chunk that arrives after its error, a session given up |

All requests of the client go the way of `do`; what they ask is told apart only in
`SyncServer` and `Uploads`. The source of a body is a file that nobody changes meanwhile,
and seeking in it does not fail. A chunk is buffered in memory (`Blocks` 0).
`UploadComplete` whose answer is lost is reported as an error although the file is
published, and a file replaced by a folder while it waits emits no event at all
("ignored").

### Controller in detail

| Variable | In the code |
|---|---|
| `srv`, `head` | the server's nodes and its feed; a version is the sequence number of the change |
| `rows`, `cursor`, `local` | the index: tables `nodes` and `local`, `meta.cursor` |
| `disk`, `handle` | the files under `contentDir`, and where the file that a download writes to has got to |
| `call`, `pull` | the call of each goroutine, the page its refresh works on |
| `seen` | history: the last version of each node that a refresh has put in the index |
| `overtaken`, `raced` | history: nodes whose row has been replaced by an older one since; two refreshes have overlapped |
| `spoiled` | history: nodes whose copy two calls worked on at once, whose old copy `Unpin` has marked, or whose path the client knew as another node's |

| Action | In the code |
|---|---|
| `Fetch`, `GetRow`, `CreateFile`, `Download`, `SetLocal` | `Open` or `Pin` of a copy that is not fresh: the row is read, the file is emptied, what the server has *now* is written, the row's version is recorded |
| `Mark` | `Pin` of a fresh copy, `Unpin` |
| `RemoveLocal`, `DeleteLocal` | the two halves of `RemoveLocal` |
| `Refresh`, `GetPage`, `Apply`, `MendLocal`, `PutRow`, `StoreCursor`, `EndPage` | `Refresh` and `reconcileLocalRelPath`; `pullChanges` |
| `Mutate` | the mobile `Mkdir`, `Upload`, `Rename`, `Move`, `Delete`, which refresh afterwards |
| `Remote`, `Fail` | environment; a call breaks off anywhere |

`app` chooses the program. The two differ where the code does: the mobile `Browser`
stores the cursor after every entry, never moves a copy, downloads also what is fresh,
ignores an error of `os.Remove`, and goes on when the cursor does not advance; the
desktop stores the cursor after a page. An entry is removed, moved or written under its
node's row, and `reconcileLocalRelPath` removes a copy that cannot be moved.

Files are at the top of the tree: the recursion of a renamed folder is one step per node
in the feed, as the server sends it. Whether a copy is pinned or cached changes no other
variable and is left out.

Calls overlap at will, on one node too, and so do refreshes: neither program has a lock for
them. The mobile `pullChanges` has none, and on the desktop the rows of a list stay usable
while one of them downloads, `afterMutation` starts a refresh without waiting for it, and
`OpenVault` and `CreateVault` refresh too.

### LazyVault in detail

`entries` is what the server stores: for each folder of the vault and each name, whether
there is a folder for it, a `name.c9s` in that, a `dir.c9r` with an identifier, a
content. `stored` are the storage directories. `known` is what a client has listed,
`call` the operation it is in with the requests still to send, `session` the desktop's:
what it has to upload, and the places it copied files from. Three parts are history: `left`,
the identifiers that were left behind, because their entry was removed or got another
identifier, or was still to be uploaded when the desktop ended; `met` of a call, somebody
else has written its entry since it began, or it writes a file where a folder is; `met` of
the session, the entries others have written since it was opened.

| Action | In the code |
|---|---|
| `List` | `Refresh`, `ListDir` |
| `MakeDir`, `WriteFile`, `Remove`, `Step`, `Return`, `BreakOff` | the operations of `lazy.go`, one step per request of `serverIO`; any request may be the last |
| `OpenVault`, `CloseVault`, `Upload`, `Closed` | a session: the vault is downloaded and decrypted in one step, encrypted again with a *new identifier for every sub-folder*, and uploaded request by request, in any order |
| `FailUpload`, `Quit` | a close that fails leaves a session without keys, which stays until the program ends; the program ends, by `QuitApp` or killed, at any time: with the vault open, in the middle of the upload, or after one that failed |

Names and contents stand for themselves: encryption keeps them apart. The edits of a
session are `VaultSession`'s subject; here it uploads what it found. The two requests that
make a storage directory are one, and the `dirid.c9r` in it, which nobody reads, is part
of it. A PUT without a base version replaces a file and makes the folders above it (external, as
the fake servers of the tests do it). `ReadFile` keeps no state.

Nothing keeps devices apart, in the code or here: `lazy.go` neither locks nor compares
versions, so a `MakeDir` may be about a name that exists, a client goes on in a folder that
another one has removed, and everybody works in the vault while the desktop has it open.
There is one desktop session at a time. `OpenVault` takes its copy in one step, where the
code takes a snapshot of the index and then downloads what it names.

### Profile in detail

| Variable | In the code |
|---|---|
| `config` | `config.json` |
| `db` | the index file: `meta.server_url` and the rows; a process that has it open when it is removed keeps its own (`own`, `mine`) |
| `disk`, `got` | the folders; what each server holds |
| `lock` | `daemon.lock` |
| `proc` | the processes of the daemon, or the calls of the desktop App: stage, server, folder, `oldServer` |
| `mishaps` | history: which of these have happened: `"pairings"`, a pairing began while another one (in the desktop: another call) was under way; `"dir"`, a server was paired again and got another folder; `"cut"`, the daemon's `Config.Save` was cut |

| Action | In the code |
|---|---|
| `Pair`, `Approved`, `Reset`, `Save`, `CutSave` | `cmdPair` with `resolvePairDir` and `removeStateDB`; `PairPoll`; `Config.Save`, which empties the file before it writes |
| `Start`, `Foreground`, `Detach`, `Relock` | `cmdRun` and `maybeDaemonize`: the lock is taken, given up, and taken again by the child |
| `Load`, `OpenIndex`, `Remove`, `Clear`, `Reopen`, `SetServerURL` | `buildSyncer`, `desktop.Open` and `WipeState` |
| `Pass`, `Mirror`, `Browse` | a pass of the syncer; its first one for a scope that was changed; the desktop's refresh and downloads |
| `Unpair`, `Stop` | `Unpair`; an error, a signal, the end of a program |

The files of a server are one token: the properties ask whose files are where, not which.
The default folder, a folder derived from a server (`freshSyncDirFor`) and picked folders
are different folders. In this model the user deletes nothing, so a deletion on a server
is the program's own doing. `pair` takes no lock, in the code and here. A folder given with
`--dir` is not one of another server (external).

## 3. The runs

Eleven runs must find no error; a twelfth, `edit_overwritten`, ends in a violation
(below, disagreements).

| Run | Question | Properties | Bounds |
|---|---|---|---|
| `folders` | a folder with a file, every operation on both sides | `TypeOK`, `CursorCoversIndex`, `NoSilentLoss` | 1 user, 2 remote, 1 fault |
| `moves` | local moves against remote changes | `PassSettles`, `NoSilentLoss` | 2 user, 2 remote |
| `scope` | changes of scope, rebuilds cut short, edits during a pass, a feed that keeps every change, in pages of two | `NoPushWhileRebuilding`, `EpochsInOrder`, `CursorCoversIndex`, `CompletedPassAgrees`, `ResetMirrorsScope` | 1 user, 2 remote, 2 faults, 2 scope changes |
| `converge` | does everything end well? | `Convergence` | 1 user, 2 remote, 1 fault, 1 scope change |
| `sync_loop` | the loop | `TypeOK`, `NothingForgotten`, `KeepsPromise`, `ShutsDown` | none: the state space is finite |
| `profile` | pairing, starting and unpairing, by two processes | `TypeOK`, `OneDaemon`, `NothingCrosses`, `NothingDeleted`, `IndexIsOfServer`, `UnpairLeavesNothing` | 2 servers, a picked folder, 8 commands |
| `client` | two goroutines that share a token and send files | `TypeOK`, `RetryHasNewerToken`, `WholeBodies` | files of 2 and 1 blocks; tokens withdrawn twice |
| `uploads` | a folder uploaded while requests fail | `UploadTypeOK`, `NeverAhead`, `DoneMeansPublished`, `UploadsEnd` | a file of two chunks, an empty one, one place in the semaphore; tokens withdrawn twice |
| `controller` | a list, its copies and its refreshes, with calls that overlap | `TypeOK`, `FreshIsCurrent`, `CursorCoversIndex`, `RefreshIsComplete` | 2 nodes, 2 paths, 2 changes of the server, 2 workers |
| `vaults` | opening and closing a vault | `TypeOK`, `EditsSurvive`, `PlaintextOwned`, `SavedOnReturn` | 1 vault, 2 files, 2 callers; 1 edit, 1 remote, 2 faults, 1 crash |
| `lazy_vault` | two devices and a session in one vault | `TypeOK`, `NothingHidden`, `DoneMeansListed`, `SessionKeepsFiles` | 2 identifiers, a short and a long name, 4 calls |

Beside them are configurations for larger questions, too many to check every time; each is
run by `tlc -config <file> <module>`. Three find no error, within two and a half minutes:

| Configuration | Module | Question |
|---|---|---|
| `ControllerAlone.cfg` | `MCController` | the properties of `controller` with one call at a time and four changes of the server |
| `VaultsOfOneName.cfg` | `MCVaultSession` | `EditsSurvive`, `PlaintextOwned` for two vaults that share a plain folder; 1 edit, 1 fault, 1 crash |
| `LazyVaultNested.cfg` | `MCLazyVault` | `NothingHidden`, `SessionKeepsFiles` for a device and sessions with folders in folders; 4 identifiers, 1 name, 6 calls |

Ten end in a violation (below, disagreements).

What the properties say:

- `CursorCoversIndex` (engine): for every node whose last change the cursor has passed,
  the row is the node, and a deleted node has no row. Checked across faults at every
  step, it is what "interruption mid-way is safe" comes down to for the index.
- `CompletedPassAgrees`: when a pass completes, the index describes the folder
  wherever the user has not been since and no broken step has left its traces.
- `PassSettles`: the same everywhere, when the user is idle during a pass.
- `NoSilentLoss`: what the engine overwrites, moves or deletes, the server has
  stored at some time.
- `NoPushWhileRebuilding`, `EpochsInOrder`, `ResetMirrorsScope`: section 1.
- `Convergence`: the folder becomes and stays the server's tree.
- `NothingForgotten`: an unanswered notification has a token, a running timer or a
  sleep to answer for it.
- `KeepsPromise`: `SyncLoop` implements `SyncPromise`, liveness included.
- `ShutsDown`: told to stop, `Run` returns.
- `OneDaemon`: one process at most works with the daemon's profile, also while one hands
  it over to its detached child and another one starts.
- `NothingCrosses`, `NothingDeleted`: nothing of one server is uploaded to another, and
  nothing is deleted on a server, however often the profile is paired while an old
  daemon still runs; until one of the three `mishaps` has happened.
- `IndexIsOfServer`: an index in use has rows of its server only, with the same exceptions.
- `UnpairLeavesNothing`: when `Unpair` returns, neither configuration nor index nor
  copies of the old server are left; the desktop has one of the exceptions, a pairing that
  overlaps another call.
- `RetryHasNewerToken`: the second attempt has a newer token than the one refused, although
  other goroutines clear and exchange the same field.
- `WholeBodies`: what the server takes is the whole file, although a writer of the refused
  attempt moves the same file offset.
- `NeverAhead`, `DoneMeansPublished`, `UploadsEnd`: an upload is never further than its
  session; "done" means published and whole; every file comes to its end.
- `FreshIsCurrent` (desktop): a copy that is shown as fresh is all of that node's content, of the
  version recorded or a later one, unless the node is `spoiled` or its row was put back by a
  slower refresh (`Overwritten`).
- `CursorCoversIndex` (browser): the stored cursor is never past a change that the index
  lacks, unless a slower refresh has put back the row.
- `RefreshIsComplete`: a refresh that returns has every change made before it was called, with
  the same exception.
- `EditsSurvive`: what the user wrote in an open vault is in its plain folder, or in the
  ciphertext of the session or of the call that closes it, until it has been uploaded,
  unless the folder is `overlapped` or `retried`.
- `SavedOnReturn`: a `CloseVault` that returns without an error has sent everything
  written before it was called, with the same exceptions.
- `PlaintextOwned`: a plain folder belongs to a session that can close it or to a call
  under way, unless a crash or a failed decryption left it or it is `overlapped`.
- `DoneMeansListed`: a call on a vault that returns without an error has done its work, whole
  and where a listing finds it, also over what a broken call had left there, unless somebody
  else has written the entry or it was a folder and is written as a file (`met`).
- `NothingHidden`: every stored file can be reached from the root, or from a folder that was
  left behind or whose new entry is still to be uploaded (`Adrift`). It holds at every
  moment, during an upload and after the desktop has ended in one.
- `SessionKeepsFiles`: after a close every file that was opened has been uploaded, whole where
  nobody else has written, and, when nobody has, can be reached, although every folder has a
  new identifier.

The exceptions are histories and not constants: the steps they are about are taken in every
run, what they do to others is checked, and the theorems of section 4 assume none of them
away.

Why the bounds are enough: every race in the engine involves one pass and at most two
foreign steps between two of its own, and every fault is followed by a whole new pass; two
faults allow a broken pass, a broken repair and a good pass. Two remote steps give an
entry that is overtaken by a later one. Depth 2 has a folder, a file in it, and a path
that changes its kind. With `PageLimit` 2 and a feed that keeps every change there are
several pages. In `vaults` two faults allow a close to fail at two stages and be retried,
two callers are what a race for one session needs, two files make a walk that is cut in
the middle, and what is lost is one edit, made at any moment. In `client` two withdrawals
are what it takes to refuse both attempts of one request; the other goroutine can clear
and exchange between them. In `uploads` two chunks make a gap possible, an empty file has
no chunk at all, and with one place the second file waits for the first. In `controller`
two changes are enough for a refresh that is overtaken and for a copy that is renamed or
replaced under a download; four, in `ControllerAlone.cfg`, create two nodes and change
each of them again, in any pages. In `lazy_vault` four calls make a folder, write below
it, open the vault and have the other device remove, replace or write what is uploaded; in
`LazyVaultNested.cfg` six make a folder in a folder with a file in it, open twice and
break off, and four identifiers are what two nested folders need before and after a
session. In `profile` eight commands pair twice, start twice and unpair; a third process,
for five commands, finds nothing else (2.7 million states).

The bounds also hide something, on purpose. The server of the model can run out of
free names for conflict copies (`CopyNames`) and of node ids (`Nodes`), and then
refuses; `converge` has enough of both for its number of steps. `converge` leaves
moves out, because a refused move stops convergence for good (below), and two
edits by the user with a fault can already lead there, since a conflict copy and a
deleted file of one content pair up into a move. In `moves` and `converge` the
other devices write contents of their own; with equal contents `PassSettles` fails: a
local edit is refused as a conflict, the server's file returns to the content the index
knows, and the pull skips it (`engine.go:197`), although `push.go:160-161` says that it
will overwrite the local file. `scope` has one user step: with two, a copy and a deletion
pair up as a move, a feed that keeps every change then still brings the old path, and
`CompletedPassAgrees` fails.

### What the promises do not cover

Each history of section 2 stands for something the code does not prevent. What happens then
is shown by a configuration of its own, whose property is the promise without the exception.

| Exception | What the code lacks | Configuration |
|---|---|---|
| `VaultSession.overlapped` | an open looks the session up, works without the lock and stores it under another hold of it | `VaultReopened.cfg` |
| `VaultSession.retried` | a plain folder that is removed in part is encrypted again by the next close | `VaultTorn.cfg` |
| `Controller.overtaken` | nothing keeps two refreshes apart, and a row is written over a newer one | `RefreshRace.cfg` |
| `Controller.spoiled` | `Unpin` marks whatever copy there is (`controller.go:209-218`) | `StaleUnpin.cfg` |
| the same | two calls work on one copy | `OpenedTwice.cfg` |
| the same | in a feed with the last change of each node, the new owner of a name may come before the move of the old one, which then takes the file away | none: no line promises anything about it |
| `LazyVault.left` | `MakeDir` of a name that exists replaces its identifier (`lazy.go:205`) | none: no line promises anything about it |
| the same | an upload replaces identifiers before what is below them is there | `VaultInterrupted.cfg` |
| `met` of the session | a session uploads over what others have written | `VaultOrphans.cfg` |
| `Profile.mishaps`: `"pairings"` | `oldServer` is read before the user approves and used after it | `PairOverlap.cfg` |
| `"dir"` | without `--dir` the default folder is taken, although the configured one is another | `PairAgain.cfg` |
| `"cut"` | `Config.Save` empties the file before it writes; without a configuration any folder is adopted | `PairCut.cfg` |

`NothingCrosses` and `IndexIsOfServer` need all three exceptions of `Profile`,
`NothingDeleted` needs `"dir"` and `"cut"` only, `UnpairLeavesNothing` `"pairings"` only.

### Disagreements

Eleven configurations show that the code does something other than the repository says;
`EditOverwritten.cfg` is that of the run `edit_overwritten`. The modules are `MCSyncEngine`,
`MCVaultSession`, `MCLazyVault`, `MCController` and `MCProfile`:

| Configuration | What happens | What the repository says |
|---|---|---|
| `EditOverwritten.cfg` | the user edits a file after `DetectLocal` and before the pull renames a download over it (`engine.go:225`): the edit is gone | `README.md:26`: "a conflict copy is created instead of a silent overwrite" |
| `VaultTorn.cfg` | `RemoveAll` of a plain folder fails half-way (`vaultmgr.go:154`); the close that is tried again removes the ciphertext and encrypts what is left | `vaultsync.go:286-287`: "so it can be retried / closed again" |
| `VaultReopened.cfg` | a vault is opened while it is being closed, the upload fails, and a session without keys is put over the new one: the plain files stay and nothing can remove them | `vaultsync.go:62-64`: "so plaintext never lingers on disk" |
| `VaultInterrupted.cfg` | the program ends in an upload or after a failed one: folders have their new identifiers and not their files | `vaultsync.go:276-278`: "kept so no data is lost"; `app.go:557-558`: "pending changes are saved before the process exits" |
| `VaultOrphans.cfg` | another device writes into a folder while the vault is open; the close gives the folder another identifier and leaves the file behind | `vaultsync.go:281-283`: "orphan ciphertext directories on the server (cosmetic bloat)" |
| `StaleUnpin.cfg` | `Unpin` marks an old copy with the row's version, `Open` hands it out | `controller.go:171-172`: "downloading and caching it if the local copy is missing or stale" |
| `OpenedTwice.cfg` | a second download empties the file the first has recorded as fresh | the same |
| `RefreshRace.cfg` | the slower of two refreshes puts an older row below the cursor of the faster one | `index.go:67`: "Cursor returns the last applied seq" |
| `PairOverlap.cfg` | two pairings settle on one folder before either is saved | `main.go:69-71`: "so nothing from the old server leaks into — or gets uploaded to — the new one" |
| `PairAgain.cfg` | paired again with the second server without `--dir`, the first one's folder is taken | the same |
| `PairCut.cfg` | the save of the configuration is cut; the next pairing knows of no old server and uploads its folder | `pairdir.go:46-48`: pairing with a different server "must not adopt the old server's folder" |

The others need only other constants for the same module. To see one, copy the
configuration named, with the changes given:

| From | Changes | What happens | What the repository says |
|---|---|---|---|
| `EditOverwritten.cfg` | `MaxUser` 0, `MaxFault` 1; `INVARIANT OnlyUserChangesArePushed` | a pull is cut after the change on disk and before its row; the next pass pushes the engine's own download or deletion | `engine.go:31-32`: "interruption mid-way is safe" |
| `Scope.cfg` | `CopyNames` {}, `Compacted` TRUE, `PageLimit` 1, `MaxUser` 1, the other bounds 0 but `MaxEpoch` 1; `PROPERTY PushStaysInScope` | the scope changes after `SyncMeta`; the pass uploads into the new scope | `syncer.go:31-32`: local files "must not leak into the new one" |
| `Moves.cfg` | `FairSpec`, `UserOps` {"move"}, `RemoteOps` {"create"}, one step each; `PROPERTY Convergence` | the server refuses a move; this and every later pass end there, before the pull | `push.go:160-161`: "No infinite loop" |
| `Moves.cfg` | `UserOps` {}, `RemoteOps` {"move", "delete"}, `MaxUser` 0; `PROPERTY PassSettles` | a file is moved and then deleted elsewhere between two passes; the pull deletes the new path, the old one stays and the next pass uploads it as new | `conflict_test.go:70`: "after a full push→pull cycle, DetectLocal must return nothing" |
| `Moves.cfg` | `UserOps` {}, `RemoteOps` {"move"}, `MaxUser` 0; `PROPERTY PassSettles` | a folder is renamed elsewhere and a file then moved out of it, and the feed keeps the last change of each node: the folder's entry renames the subtree, the file's entry finds nothing at the path of its row and downloads; the copy inside the renamed folder stays and the next pass uploads it as new | `engine.go:154-156`: "descendants' own feed entries then find their files already in place and become index-only no-ops" |

Two more were seen in the vault code: a close that failed in its upload cannot be "retried
/ closed again" (`vaultsync.go:286-287`; the comment at 278-279 knows that it returns
`ErrLocked`), so that the session stays until the process ends; and a file deleted in an open
vault is still on the server after a close, which is more than the "cosmetic bloat" of
281-283.
And in the mobile browser: `Pin` "downloads (if needed)" (`browser.go:153`), but it
downloads a fresh copy again, and when that fails what is left of the file still counts as
fresh.

### Fairness

`Convergence` assumes weak fairness of the pass as a whole: `Run`'s ticker starts
one every minute and every call in it returns. Nothing is assumed of users and other
devices; their steps and the faults are bounded, so that they end.

In `SyncLoop` timers fire, the ticker ticks until the context is cancelled, passes
and sleeps end (weak fairness). The three cases of the `select` need strong
fairness: Go chooses among ready cases at random, so a case that is ready again and
again is chosen at some time; while another case runs it is not ready, so weak
fairness would say nothing.

`UploadsEnd` assumes that a goroutine that can go on does, and that a request ends: it is
answered or its connection breaks. The HTTP client sets no timeout, so the second is an
assumption about the network and the server; a token exchange that hangs would block
every request of the program, since the mutex is held. For that mutex strong fairness
is assumed: Go's mutexes hand over to waiting goroutines. Requests that fail are not
bounded; that the uploads end all the same is what three failures in a row are for.

### Deadlock

The runs of the engine, the loop, the vaults and the client leave TLC's deadlock check
on: a state without a next step would be a wedge. Those of `Profile`, `Controller` and
`LazyVault` turn it off because the number of commands, calls and changes is bounded and all of them may have
been used; `uploads`, because it ends when all the files have.

## 4. The proofs

`tlapm` checks every step of the eight proof modules.

| Theorem | Says |
|---|---|
| `EngineTypeCorrect` | `Spec => []TypeOK` |
| `EpochsStayInOrder`, `RebuildNeverPushes` | `Spec => []EpochsInOrder`, `Spec => []NoPushWhileRebuilding` |
| `CursorCovers` | `Spec => []CursorCoversIndex` for the engine |
| `NothingLostSilently` | `Spec => NoSilentLoss`, assuming `~EditsDuringPass` |
| `LoopTypeCorrect` | `Spec => []TypeOK` for `SyncLoop` |
| `NoNotificationForgotten` | `Spec => []NothingForgotten` |
| `RunKeepsPromise` | `SyncLoop` implements `SyncPromise` as far as safety goes |
| `VaultTypeCorrect` | `Spec => []TypeOK` for `VaultSession` |
| `VaultEditsSurvive`, `VaultSavedOnReturn`, `VaultPlaintextOwned` | `Spec => []EditsSurvive`, `Spec => SavedOnReturn`, `Spec => []PlaintextOwned` |
| `ProfileTypeCorrect`, `OneDaemonWorks` | `Spec => []TypeOK`, `Spec => []OneDaemon` |
| `NothingCrossesServers`, `NothingDeletedByPairing`, `IndexOfServer`, `UnpairIsClean` | `Spec => []NothingCrosses`, `[]NothingDeleted`, `[]IndexIsOfServer`, `UnpairLeavesNothing` |
| `TypeCorrect`, `RetriesAreNewer`, `BodiesAreWhole` | `ClientSpec => []TypeOK`, `[]RetryHasNewerToken`, `[]WholeBodies` |
| `ImplementsClient` | `Uploads!Spec => ClientSpec` |
| `UploadTypesCorrect`, `UploadsNeverAhead`, `UploadsDone` | `Spec => []UploadTypeOK`, `[]NeverAhead`, `[]DoneMeansPublished` |
| `ControllerTypes` | `Spec => []TypeOK` for `Controller` |
| `IndexCovered`, `RefreshesAreComplete` | `Spec => []CursorCoversIndex`, `Spec => RefreshIsComplete` |
| `CopiesAreCurrent` | `Spec => []FreshIsCurrent` |
| `LazyVaultTypes` | `Spec => []TypeOK` for `LazyVault` |
| `FilesStayReachable`, `ReturnedIsListed`, `SessionKeeps` | `Spec => []NothingHidden`, `Spec => DoneMeansListed`, `Spec => SessionKeepsFiles`, the last for finitely many names and identifiers (it counts files) |

The theorems on vaults, browsing and pairing assume nothing of what the code does not ensure:
their exceptions are in the properties (section 3), as histories of a behaviour. Those of
the engine hold for every set of names, contents and nodes, every depth, initial
tree, page limit and bound that the named assumptions of the modules allow: a positive
depth and page limit, node ids that are a finite set of positive numbers, contents that
are not among the three reserved words, conflict names among the names, and an initial
tree in which no node is listed before a folder above it, and every folder above a node is
listed.

Type correctness of the engine is the long one, since `TypeOK` says that the server's
tree, the feed, the folder and the rows stay within `Path`: a rename grafts a subtree
elsewhere, and the lemmas of `SyncServerProofs` say that every operator returns what it
should. `TypeOK` is not inductive: a pushed change has a path in `Path` only because the
detected ones do, and the root is in the type of the field, for the sake of `from`. The
invariant proved is `Typed`, which adds `PushesHavePaths`.

`NoPushWhileRebuilding` is not inductive: it needs that a pass starts to push only when
the epochs are equal, and that while rebuilding they are not, which is the last part of
`EpochsInOrder`; that one in turn needs that the epoch a pass read is at most the
server's. Together they are `IInv`. The argument is what makes the order of
`ResetForScope` right: recording the epoch before the sweep breaks it, and the mutant
`RecordEpochFirst` shows how.

The engine's `CursorCoversIndex` is about the cursor at rest, with a row as the server has
the node. The invariant, `CInv`, has to follow the server behind the pass. `InOrder` is
about the server alone: the feed holds the last change of every node, no two entries have
one number, and a change of a folder has an entry of everything below it. `Covers`: a row
is as the server has it for every node that is `Settled`, which has no entry after the
cursor; so a step of the server never has to be followed by the rows, it unsettles the
node. `KnownCovers` says it for the rows a push copied at its start. `PageIsNext`: a page
leaves no entry out between the cursor and its last one, so that the cursor may go to each
entry as it is applied, and `PageInOrder` that an entry of the page is the feed's or the
node has a later one. Both are needed: an entry may be out of date by the time it is
applied, and its row is then wrong, but the node is unsettled. `MovesMove` is for a push,
which writes the server's answer to the row.

`NoSilentLoss` asks where a content is before it is overwritten, so that the invariant,
`LInv`, follows contents and not paths. `HashesStored`: whatever hash is in a node, a feed
entry, a row or a page, the server has stored. `FilesSent`: during a push every file that
is not on the server is still to be sent, as it is on the disk; so the pull, which begins
when nothing is left to send, finds only contents the server has, and what it writes are
downloads. That fails when the user edits between the scan and the download
(`EditsDuringPass`), which the run `edit_overwritten` shows.

For the loop, `NothingForgotten` needs that the debounce flag is up exactly while the
timer runs or has fired (`FlagIsTimer`): else a token could be taken without starting a
timer. The refinement needs only that invariant: each step of the loop is a step of the
promise or changes nothing it sees.

For the client, `RetryHasNewerToken` is not inductive: the field may be cleared, exchanged
and stored by others between a caller's 401 and its second attempt. `TokensAreNewer` says
what all of them keep: the cached token, and one that is about to be cached, is newer than
the token of anybody who is retrying. It needs `HoldsMutex`, without which a slow exchange
could store an old token over a newer one; the mutant `Unguarded` shows that.
`WholeBodies` follows from `InOrder`: two readers of one file never send a block twice or
out of order, they only leave some out, so a body of the declared length has no gap.
Without the `Content-Length` (`Undeclared`) it fails.

`ImplementsClient` says that every step of an upload is a step of the client or leaves it
alone, so that the three theorems of the client hold for the uploads too. `NeverAhead` and
`DoneMeansPublished` need what the answers say: an answer held by a caller is no further
than the session, and a `complete` that was taken has published.

For the browser, `CursorCoversIndex` is about the cursor at rest, and several refreshes
change rows and cursor while the server goes on. The trouble with two of them is that a row
can go back, so the invariant, `IndexInv`, does not follow the rows but what has once been in
them: `Arrived(n)`, the last version of `n` that was put in the index (`seen`) is the
server's. That never goes back. `Covered` says it of everything up to the cursor, and of
everything up to a refresh's own cursor that is not in its page any more (`CoversPull`), for
each refresh by itself; `PagesInOrder` says that an entry of a page is its node as it is, or
the node has a later change; `VersionsInOrder` that versions are unique; `RowsKept` that a
row is of the version seen, or the node is `overtaken`; and `OneRefresh` that no node is while
refreshes have not overlapped. From the same invariant a refresh that ends without more pages
has everything up to the head at its call, wherever the page's cursor is.

`FreshIsCurrent` relates a copy on the disk to what two tables say of it, while the server
renames and calls are half-way. `DeskInv` has the reasons, each of them for nodes that are
not `spoiled` and whatever happens to the others. A path is claimed, by server, page, row,
copy, call or open file, for one of them only (`OneOwner`), and one call at a time works on
one of them (`OneHand`). `Trusted(n)`, a copy of the last version seen, is what a fresh row is
about: a row of an older version is overtaken. `FilesHold`: the file of a trusted copy holds
its node, of the version of the copy or a later one. `InHand` has what a call knows of the
copy it works on: until a download is written whole the copy is not trusted, which is what
makes the order of download and record right (the mutant `DownloadUnchecked`). Wherever a call
breaks off, that is what is left.

For `Profile`, `OneDaemon` needs the other direction too: a process that has the lock is
at a stage that holds it (`LockRules`), so that nobody else gives it up; it holds with
pairings that overlap and saves that are cut. That a worker knows its server (`HasServer`)
is what its type needs.

The four theorems on pairing speak of behaviours up to their first mishap: once there is
one, it stays (`MishapsStay`), and before that `PInv` holds (`NInv` is the two together). It
says who relies on which folder. `Uses(s, d)` has the configuration and
every process, also a daemon that still runs for the server before: a server has one
folder and a folder one server (`OneFolder`), a folder in use has files of its server only
(`CleanFolders`), and what an index has rows of is in the folder (`IndexInFolder`), so
that a missing file is never taken for a deletion. An index between two stages of `pair`
is stamped with the server it has rows of or empty (`Stamped`). That a pairing under way
is not counted as one that relies on its folder is the point where the order of `pair`
matters: it resets the index before it saves.

The theorems on vaults hold for any number of vaults, files, callers, faults and
crashes, vaults that share a base name among them. `EditsSurvive` is not inductive. It says
where an edit is and not that it stays there: the next step may remove the plain folder, or
the ciphertext. The invariant proved, `IInv`, says exactly which place holds it at each
stage, for each folder that is neither `overlapped` nor `retried` (`Sound`). `OneHolder`: such
a folder has at most one of a session, an open under way, and a close under way, of all the
vaults that share it, which is what the claim under the lock is for. `KeysGoWithFolder`: the
keys are in memory as long as the plain folder is the session's, so a close that finds no
keys has nothing left to encrypt. `GoneIsEmpty`: a folder that does not exist has no files.
`Kept`: with keys the edit is in the plain folder, or, when a removal has stopped half-way,
still in the ciphertext (`Readable`); once `EncryptTree` has gone past a file, or the keys are
gone, it is in the ciphertext; while uploading it is so for the files still to do, and the
others are on the server. The lemma `Globally` reduces `IInv` to a statement about one vault
and its folder (`Local`), and each action changes only its own. `SavedOnReturn` follows from
`Kept` and `OneHolder`: at the end of the upload nothing is left to do. `PlaintextOwned` needs
whole removals no more than its statement says: that a session or a call is there for each
plain folder is about keys (`KeysByStage`, `OneHolder`).

`LazyVault` needs what a tree of folders is without induction over it: `Under` is the
least set that is closed under the entries, so whatever is said of it is shown by naming a
closed set (`UnderLeast`, `UnderClosed`). `NothingHidden` follows from `FInv`. The folders
that are found, `Found`, are those under the root and under what is adrift; what clients know
and where anything is stored is among them. No step takes a folder out (`FoundKept`): an
entry that loses an identifier puts it in `left`, so that the rest below it is found from
there (`UnderKept`), whoever does it and whatever others have in hand. For the session:
`PlanReaches`, every set that has the root and what its identifiers lead to in the plan has
all folders of the plan, so that the requests may come in any order, each new folder being
found from its entry or from what is still to upload (`PlanFound`, `SentThere`); and for a
program that ends in between, what was still to upload is left behind.

`DoneMeansListed` follows from `DInv`: what a call has sent is in its entry, whole, unless
somebody has met it there (`Making`, `Writing`, `Removing`). A request of another call, or
of an upload, either is about another entry or meets (`OthersProgress`). `SessionKeepsFiles`
follows from `KInv`, which says the same of an upload (`UploadHolds`) and that a plan does
not contradict itself (`PlanAgrees`), and from counting: the plan has one file for each that
was copied (`FilesCounted`), for which the sets have to be finite. `LazyVaultTypes` says that
devices that work on one folder at the same time leave no entry that is both a file and a
folder.

Model-checked only: liveness (`Convergence`, `ShutsDown`, `UploadsEnd`, the fairness of
`SyncPromise`), which is out of the prover's reach; and of the engine
`CompletedPassAgrees`, `PassSettles` and `ResetMirrorsScope`, which compare the folder
with the index or the server path by path. These three are not theorems of `Spec`: TLC
finds counterexamples for other constants. Equal contents break `PassSettles`, paired
moves of the user `CompletedPassAgrees` (section 3, the bounds), and moves by other
devices in a feed that keeps only last changes (`Compacted`) break all three: besides
the folder of the table above, take two files of the root that exchange their names
through a third (`RemoteOps` {"move"}, `MaxRemote` 3, `Depth` 1). The first row to be
renamed overwrites the other file, the other entry then takes the wrong content away, and
is not downloaded because its hash is the row's (`engine.go:197`); during a rebuild (`MaxEpoch` 1, `PageLimit` 1) this is a violation of
`ResetMirrorsScope`. With a feed that keeps every change TLC finds neither.

## 5. The plan

Done: the modules of section 2 and their proofs. What is left, in this order:

1. to prove: `ResetMirrorsScope` for the case TLC finds no counterexample in: last changes only
   and no moves by other devices. The server's invariant needs that a node has one entry and
   that the entry of a deleted node comes before those of what lives below its path; then, during
   a rebuild, a path the user has not touched holds what the row that names it says, and no entry
   still to come writes at, above or below it. `FinishReset` then compares the rows with the
   tree by `CursorCovers`;
2. `Browser`: the Swift counterpart of `Controller`, with a step at every `await`: a refresh
   dropped while one is running, a version read before a download and stored after it, the
   index and the client captured before an `await` and used after pairing again;
3. `VaultSession`, the rest: `CreateVault`; `VaultPromise`, an abstract specification of a vault that is open or closed;
4. `Controller` over `Client` and `VaultSession` over `LazyVault`'s folders, as compositions.

## 6. Not modelled

- Two concurrent `SyncOnce` of the mobile client (`mobile.go:101`): two passes of
  `SyncEngine` over one index have too many states for TLC with the bounds that make a
  race between them.
- Everything listed as `not_modelled` in `PROJECT.json`, with the reasons there: the
  vault format is byte-level cryptography without state, of which only the walks over the
  tree are modelled; the Swift browser keeps state of its own and is planned; the Kotlin
  clients, the web view and the installers are presentation and packaging; `DiscoKit`'s
  vault is a second implementation of the format.
- A cursor that does not advance while the server says there is more: `PullOnce`
  (`engine.go:38`) and the mobile `pullChanges` would repeat for ever; the servers of the models
  answer with a later one.
- `DeleteRemote` names a path and no version (`push.go:214`): what another device has put
  there is deleted. The model takes the step; `NoSilentLoss` is about local content only.
- Uploads from a vault without a base version replace the edits of others
  (`vaultsync.go:108`), also when nothing was changed; files deleted in an open vault stay on
  the server (`vaultsync.go:84`). Both steps are in the models, neither is promised anything.
- A plain folder left by a crash: the next open decrypts over it (`vaultmgr.go:114-122`).
  The model takes this step, and no property promises anything about it.
- After a failed upload (`FailUpload`) a session stays until the program ends. That it is
  there refuses another `OpenVault` in the model; in the code `OpenVault` of the same vault
  then returns the name of a plain folder that is gone, and a vault of another path could be
  opened. `OpenVault` of `LazyVault` reads the vault in one step. A half-made folder makes
  the listing of the folder above fail until the call is repeated or the entry removed (`Listable`); no property says that
  somebody does.
- Wedges on a path that changes between file and folder (`detect.go:72`,
  `push.go:124`) are reachable in `folders` but no property is about them.
- `Unpair` sets the controller to nil while `go a.ctrl.Refresh` may be about to read it; a
  `WipeState` cut between index and content leaves old content which the next `Open` does not suspect.
- A source that is edited during a chunked upload gives a mixture of both contents; seeking
  that fails half-way in `replayableBody`.
- The hand-over to and from the tray (`tray.go:49`), autostart, install and uninstall.
- Time, sizes, modification times, the wording of errors and logs.
