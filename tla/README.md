# TLA+ for DeskMux

DeskMux is a desktop workbench (Go, Wails, React) for SSH terminals, SFTP file transfer
and VNC desktops. This directory holds TLA+ modules translated from its source, the TLC
configurations that check them on small instances, and proofs that TLAPS checks.
Paths below are relative to the repository root.

    tlc -workers 2 -config SshManager.cfg SshManager      # check one model
    tlapm SshManager_proofs.tla                           # check one module of proofs

`PROJECT.json` maps each definition to the lines it stands for and lists the runs, the
theorems, the hazards, and for every property a mutated definition (`Mut...`, beside its
original in the module) under which the property must fail.

## 1. Inventory

The process has a Go side and a frontend. Wails serves every frontend call in a
goroutine of its own and forwards events; the frontend is a single thread that is
interrupted only at an `await`, a callback or a React effect.

| Component | State | Operations | What is hard |
|---|---|---|---|
| Saved-connection store: `internal/store/store.go`, `settings.go`, with `SetSecretStorage` in `bindings.go` | `connections`, `mode`, the two secret backends, connections.json, settings.json | Save, Delete, List, Get, load, MigrateSecrets, LoadSecretBackend | every durable step can fail or be the last before a crash; a switch of backends is a loop of three calls per secret; mode is compared in one critical section and migrated in another |
| Encrypted-file backend: `secrets_file.go` | secrets.key, secrets.json, the cached key | Get, Set, Delete, deriveKey | which key is used depends on a lookup that may fail once; the key file is written in place |
| SSH manager: `internal/sshx` | the table of sessions; per session the client, `mu`, `shell`, `done` | CreateSession, OpenShell, WriteToShell, ResizeShell, CloseSession, CloseAll; goroutines: watcher, keepaliveLoop, readLoop, readStderr | connections that fall silent, break or end; entries looked up under one lock and used under another; callbacks against return values |
| SFTP: `sftp.go` | none of its own; an SFTP client per call | list, mkdir, rename, delete, upload, download | a call whose session dies |
| VNC bridge: `internal/vncbridge/bridge.go` | `active`, `clients`, `isClosed`; per client two sockets, the pump, the copy loop | handleWebSocket, serveClient, Close | one slot, many goroutines blocked in reads and writes, Close at any moment |
| Relay and rewriter: `bridge.go`, `rewriter.go` | `wsReader.buf`, the rewriter's `buffer` and `disabled` | handshake replay, Push, forward | messages cut anywhere across frames and stages |
| RFB client: `internal/rfb` | version, security type, a deadline | PerformHandshake | who speaks next differs by version and type |
| VNC store: `frontend/src/store/vnc.ts`, `DesktopPanel.tsx`, and `bridges` in `bindings.go`, `app.go` | `liveBySession`, `lastAttachBySession`, stores, LiveSession; the registry of bridges | attachVnc, detachVnc, retryVnc, settings, VncStartBridge, VncStopBridge, shutdown | an answer of startBridge that is late; noVNC events of an earlier attempt |
| Terminal tab: `TerminalPanel.tsx`, `store/terminal.ts` | status, attempt; per effect run `cancelled`, ids, subscriptions | the connect effect and its cleanup, retry | StrictMode, late answers, the close event against the answer of openShell |
| File manager: `FileManagerPanel.tsx`, `store/files.ts` | phase, listings, request counters, session reference, queue | the connect effect, listings, mkdir, rename, delete, dialogs, serial transfers | listings that overtake, transfers over a lost session, state that survives an effect run beside state that does not |
| Workbench: `store/index.ts`, `utils/session.ts`, `useConnectSaved.ts`, `SessionPage.tsx` and the components over it | target address, scan and report, selected protocols, sessions with tabs, the active one, view, dialogs | startScan, toggleProtocol, beginSession, beginSavedSession, closeTab, closeSession, disconnect, setActive..., shortcuts | what follows an await reads the store as it is then; a palette over dialogs; closing in any order |
| Saved connections in the frontend: `savedConnections.ts`, `EditConnectionModal.tsx` | the list, the dialog's entry and form, calls under way | refresh, save, remove from anywhere; edit, probe, fetch, submit | answers that overtake one another or come for an earlier opening |
| Scanner: `internal/scanner` | none kept | Scan | probes gathered under a deadline |
| Bindings, events: `bindings.go`, `app.go`, `bridge/` | registry of bridges (above) | forwarding | - |
| UI components, i18n, types, mocks, scripts | - | rendering, forms | - |

How they interact. The panels call `ssh.connect`, `ssh.openShell`, `sftp.*` of the SSH
manager and receive `ssh:data` and `ssh:close` events from its reader goroutines. The
VNC store asks for a bridge; the bridge makes the RFB handshake with the host itself when
a noVNC client connects to its WebSocket, replays a handshake without password to that
client, then relays. The connection store is asked for secrets before SSH and
VNC are connected. Closing a session in the workbench drops its VNC store entry; React
then unmounts the panel, which detaches.

What makes each component correct:

* **Store** - what Save acknowledged is never lost or silently replaced by something
  older, whatever call fails and wherever the process dies; switching backends brings
  every secret along.
* **SSH manager** - one live shell per session, and no slot that names a dead one; a dead
  session leaves the table; every goroutine and shell of a session ends with it.
* **Bridge** - at most one connection to the host; the slot is held exactly while its
  client is served and comes free once it has gone; nothing is left running.
* **Relay** - the bytes pass once, in order; a message the rewriter has to rewrite is
  rewritten whole; every message arrives.
* **RFB client** - both sides stay in step, never wait for one another, agree on
  success; it always returns.
* **VNC store, terminal, file manager** - a session or bridge in the backend always
  belongs to something that shows it or is about to end it; the status shown is that
  of the attempt in charge; what is superseded ends; queues go on after a failure.
* **Encrypted file** - what was set can be read, by whatever instance and after any
  crash; if the key has to change, it changes once.
* **Workbench** - what is shown lives; one scan at a time; connecting adds a session and
  never takes one; a submission connects, to what it said.
* **Saved connections** - after a save or remove the list shows it; a dialog is about its
  own entry, and its spinner stops.

## 2. Modules

| Module | Models | Composed of / used by |
|---|---|---|
| `ConnectionStore` | store.go, settings.go, SetSecretStorage, start-up | `MCConnectionStore`, `ConnectionStore_proofs` |
| `SshManager` | sshx.go, keepalive.go over an external network | `SshManager_proofs` |
| `VncBridge` | bridge.go: slot, goroutines, Close | `VncPath_proofs` |
| `BridgeRelay` | bridge.go, rewriter.go: bytes from client to target | `MCBridgeRelay`, `VncPath_proofs` |
| `RfbHandshake` | rfb/handshake.go with an external server | `MCRfbHandshake`, `VncPath_proofs` |
| `VncSession` | vnc.ts, DesktopPanel.tsx and the registry of bridges | `VncSession_proofs` |
| `TerminalSession` | TerminalPanel.tsx, terminal.ts | `TerminalSession_proofs` |
| `FileManager` | FileManagerPanel.tsx, files.ts | `Frontend_proofs` |
| `SecretBackend` | abstract: what the store may count on in a secret backend | implemented by `FileSecrets` |
| `FileSecrets` | secrets_file.go | `FileSecrets_proofs` |
| `Workbench` | store/index.ts and the components that drive it | `MCWorkbench`, `Frontend_proofs` |
| `SavedList` | abstract: the list on the page against the repository | implemented by `SavedConnections` |
| `SavedConnections` | savedConnections.ts, EditConnectionModal.tsx, the list calls | `MCSavedConnections`, `SavedConnections_proofs` |

`VncSession` already composes the frontend store with the Go registry, `RfbHandshake`
the client with a server, `TerminalSession` and `FileManager` a panel with what it sees
of the SSH manager. `VncBridge` and `BridgeRelay` are two views of bridge.go: the first
says which goroutine and socket lives when, the second what passes through them.
`SecretBackend` and `SavedList` are specifications of what the component above may rely
on; `ImplementsBackend` and `ImplementsMirror` instantiate them with a refinement mapping
and are both model-checked and proved.

`VncPath_proofs` extends the three modules on the way from a noVNC client to its target,
`Frontend_proofs` the workbench and the file manager that it shows. Modules that are
extended together use different names: in `VncBridge` and `BridgeRelay`, for instance,
the initial condition is `BridgeInit` and `RelayInit`.

### How state and actions correspond to the code

**ConnectionStore.** `Store.mu` serialises operations, so `op` is the one under way, cut
into an action per durable effect: `SaveSecret` (backend Set or Delete and the change of
memory), `SavePersist` (the rename of connections.json); `DeletePersist`,
`DeleteSecret`; `MigrateBegin`, then for each entry `MigrateCopy`, `MigrateRemove`, or
`MigrateCopyFails`, `MigrateRemoveFails` leading to `MigrateAbort`; at the end
`MigrateSwap` or `MigrateSwapFails` (settings.json). `ReadMode` is the first critical
section of SetSecretStorage. `Restart` is death followed by `Load` and
`LoadSecretBackend`. `Faults` says which calls may fail. `ackSecret` and `ackMeta`
record what callers were told; `Unknown` is a value a failed call leaves undecided.

**SshManager.** `Dial`, `Handshake`, `Register` are CreateSession with its unlocked
middle; `WatcherSignals`, `WatcherDeletes` the two steps of the watcher;
`KeepaliveTicks`, `ProbeAnswered`, `ProbeFails`, `KeepaliveStops` the loop, in which a
probe that was sent ends with its answer or with the connection, by nothing else
(`ProbeErrs`); `RequireSession`, `LockSession`, `ShellStarts`, `ShellRefused`,
`UnlockSession`, `OpenReturns` OpenShell around its two locks, the deferred unlock before
the result is with the caller; `ReadLoopEnds`, `FireOnClose`, `EmitStderr`, `ReadStderrEnds` the
readers; `TakeOut` and `CloseClient` the two halves of CloseSession and CloseAll.
`FallsSilent`, `Resumes`, `Breaks`, `Drops` are the network's.

**VncBridge.** `Upgrade`, `RejectBusy`, `TakeSlot`, `Release` are handleWebSocket;
`DialOk`, `HandshakeOk`, `ReplayTakes`, `PresentOk`, `TakeChunk`, `PipeEnds`,
`ServeFails`, `Teardown` are serveClient in order. The handler is "piping" in its select and
"writing" in a tcp.Write, which `WriteOk` or `WriteFails` ends; in between it sees
nothing else. `PumpReads`, `PumpSends`, `PumpStops`, `PumpFails` are the pump, `queued` the
length of its channel, `DownReads`, `DownSends`, `DownEnds` the copy loop, each of the two
"sending" while it waits for the other side. `CloseBegins`, `CloseClient`, `CloseServer` are
Close. `ClientLeaves`, `TargetDrops` come from outside.

**BridgeRelay.** `Fill` and `ReplayStep` are presentServerSideHandshake reading through
`wsReader.buf`; `Flush` is drainBuffer; `TakeFrame` and `Forward` the select of pipe;
`TakeMessage`, `Disable`, `PushEnds` are Push. A byte is its number in what the client
says: the replay takes the first four (two for the banner, one for the selection, one for
ClientInit), and `Ends` says where the messages behind it may end. A rewritten message
stays in `target` as the bytes that it replaces, and is in `rewritten`. Of the lengths of
frames and messages nothing is assumed; where the parser waits for the header of a message
(rewriter.go:67, :84) it waits for the message.

**RfbHandshake.** `stage` is the read performHandshake is in; one action per message
read, with all the writes that follow it before the next read. `TimeOut` is the deadline.

**VncSession.** An attempt is one attachVnc that runs; `Attach` is the part before the
await, `StartResolved` and `StartRejected` the part after it, `TeardownOf` is
teardown with what it disconnects, stops and removes. `StartBridge`, `RegisterBridge`
and `StopBridge` are the Go methods, each interleaved with all others.

**TerminalSession.** An attempt is one run of the connect effect; `Cleanup` its cleanup;
`Connected`, `Opened`, `Failed` the continuations of its awaits; `ShellCloses` the
handler of the close event. Answers and events are under way separately.

**FileManager.** `Rerun` is cleanup and effect together, `LoadRemote` the request,
`Listed` its answer with the test of `remoteReqRef`; `StartOp`/`EndOp` are mkdir,
rename and delete; `OpenDialog`, `Upload`, `Download`, `CancelDialog` the file dialogs;
`StartTransfer`, `EndTransfer`, `StartRefresh`, `EndRefresh` the promise chain.

**FileSecrets.** `f.mu` makes one call at a time, `call`. `Set`, `Get`, `Delete` begin one;
`ReadKeyFile`, `LookupWorks`, `LookupFails`, `KeyWritten` are the branches of deriveKey,
with the file on disk and still too short between the last two; `PersistSet` and
`PersistDelete` the rename of secrets.json; `Returns` every return without effect;
`NewInstance` a new process or the instance a switch makes. An entry is its value with
the key that opens it. In the refinement, `held` is what can be read, `settled` whether
the instance has its key, `orphaned` whether there is a secrets.key.

**Workbench.** Store operations are operators (`StartScan`, `AddSession`, `CloseTab`,
`CloseSession`, ...) and one action per component calls them under the guard of what is
on the page and not covered. A scan (`scans`) or a call to the connection store
(`calls`) is under way until `ScanAnswered`, `Fetched` or `Saved`, which is the code
after the await. `mounted` are the panels SessionPane has rendered and keeps.

**SavedConnections.** `past` is every list the repository has held, `tasks` the
functions refresh, save and remove that are running: `RepoSave`, `RepoDelete`,
`RepoList` are the calls reaching the Go store, `ListAnswered` the rest of the function,
`TaskFails` a call that rejects. An opening of the dialog is numbered; `Got` and
`Probed` are its answers, `Cancelled` the flag of the effect's cleanup. What a failing
call may leave half done is `ConnectionStore`'s subject.

## 3. Runs

| Run | Shows |
|---|---|
| `ConnectionStoreFaults` | With any backend call or write failing and a crash between any two steps: acknowledged secrets stay (`AckedSecretHeld`), acknowledged bookmarks are in memory and file (`AckedBookmarkDurable`), a successful switch makes all secrets readable (`SwitchDelivers`). |
| `SshManager` | `OneShellPerSession`, `SlotNamesRunningShell`, `UnregisteredIsEnding`; and that what ended is torn down with its shells, and a broken connection is dropped unless a probe already waits for its reply. |
| `VncBridge` | `OneTargetConnection`; the slot is freed unless the handler or its copy loop is blocked for ever in a write to a side that does not read; all goroutines end. |
| `VncSession` | `NeverStacked`, `NoBridgeForgotten`, `StatusTellsTheSlot`; the bridge of a disposed attempt stops. |
| `BridgeRelay` | `StreamIntact`, `RewrittenWhole`; what the client sent arrives. |
| `RfbHandshake` | `InStep`, `NoMutualWait`, `SuccessIsMutual`, `AuthErrorIsDeserved`; it ends. |
| `TerminalSession` | `NoSessionLeaked`, `StatusIsOfLastAttempt`; old sessions end, "connecting" ends. |
| `FileManager` | `NoSessionLeaked`, `LoadingIsAwaited`, `ListingsInOrder`; the queue drains and leaves no item active. |
| `FileSecrets` | With a steady lookup nothing is lost (`SteadyLookupLosesNothing`); with any lookups `SecretBackend` is implemented. |
| `Workbench` | `ActiveIsLive`, `OneScan`, `OthersUntouched`; a submission that saves first connects (`SubmittedConnects`). |
| `SavedConnections` | `FormIsOwn`, `SubmittingEnds`; `SavedList` is implemented. |
| `WorkbenchTarget` | A counterexample, see section 6. |

The type invariants are proved (section 4; the bridge's inside `SlotSafe`) and left out of
the .cfg files.

### Bounds, and why they are enough

* `ConnectionStoreFaults`: 2 ids, 2 metas, 2 secrets, one caller of SetSecretStorage,
  no failing reads at start-up. Two ids are needed for a migration that is cut in the
  middle, two values to tell an older one from a newer one; entries do not interact
  otherwise. Histories are unbounded. With failing reads at start-up as well, a
  fallback to the keychain and a later switch really can leave the older copy in charge,
  and nothing in the code claims otherwise.
* `SshManager`: one session, since sessions share only the table and CloseAll treats each
  alike; two OpenShell calls to race for its slot; 3 keepalive failures as in the code.
  The proofs cover any number of sessions and calls.
* `VncBridge`: two clients, the fewest that compete, and a queue of one message instead of
  32, the smallest on which the pump can block. The proofs cover any number of both.
* `VncSession`: one session (the maps are keyed by session), three attempts: an old one,
  its successor, and one more that starts while both are unwinding.
* `BridgeRelay`: three messages after the replay, two frames waiting. Three messages give
  one before, at and after an unknown one. They are two bytes long, which is enough to be
  cut, or one, three and two, so that a frame may hold a whole message and parts of both
  its neighbours. The proofs cover any number of messages, of any lengths.
* `RfbHandshake`: all versions the client distinguishes and what it clamps, every list
  of security types where the version allows one. 3.7 with None is left out (section 6).
* `TerminalSession`: three effect runs (StrictMode's double run and one retry).
* `FileManager`: one directory, two runs, two user listings, two transfers: an old and a
  new one of each. User actions stop once `MaxRequests` listings were asked for.
* `BridgeRelay` again: the kind "extended" is left out of `Kinds` (section 6).
* `FileSecrets`: two entries, two values, two random keys, the fewest that tell an entry
  or a key from another; nothing else is bounded.
* `Workbench`, `WorkbenchTarget`: two sessions (a neighbour), two hosts (the right and
  the wrong one; one of them is the saved device's), one call to the connection store
  at a time, all while scans run. The proofs cover any number.
* `SavedConnections`: two tasks (to overtake one another), one write, an opening of the
  edit dialog and a later one, one device saved at the start and one free id. A fresh
  id is one no entry has.

Deadlock is not checked where a run legitimately ends: all attempts, calls, clients or
messages are used up. In the store, something is always possible and it is checked.

### Fairness, and why the code justifies it

* `SshManager`: goroutines that can run do. Nothing is assumed of the network, the
  server, or of callers: what waits for a reply (a probe, OpenShell) is only sure to go
  on once the connection has ended.
* `VncBridge`: goroutines run; dial and handshake return, both having timeouts. The
  replay towards the client has none, so a silent client may hold the slot
  for ever, and `SlotIsFreed` only speaks of clients that left or a bridge closed. Nor has
  a write a deadline once the handshake is over: a target, or a client, that stays
  connected and does not read may block one for ever (`WriteOk` and `DownSends` are not
  fair), and `SlotIsFreed` excepts just that (`WriteBlocked`). `BridgeRelay`, whose subject
  is what arrives, assumes a target that reads.
* `VncSession`: calls reach the backend and are answered, noVNC announces a disconnect
  it was asked for, React unmounts the panel of a session that was closed. After
  shutdown the frontend owes nothing.
* `BridgeRelay`: the relay runs. `RfbHandshake`: only the deadline is fair; the server
  may stop at any point. `TerminalSession`, `FileManager`: effects that are due run,
  calls are answered, the promise chain goes on. A connection that stays silent for ever
  is outside this assumption.
* `Workbench`: a save is answered (`Saved` is fair), nothing else. `SavedConnections`:
  every task's next call is answered or fails. The user may stop at any point in both.

## 4. Proofs

| Module | Theorems | Assumptions beyond the constants' |
|---|---|---|
| `ConnectionStore_proofs` | `TypeCorrect`, `BookmarkDurable`, `SecretHeld`, `SwitchDeliversAll` | `OneSwitcher`, `StartupReads` |
| `SshManager_proofs` | `TypeCorrect`, `OneShell`, `SlotIsLive`, `NoZombie`, `GoneIsEnding` | none |
| `VncPath_proofs` | `SlotSafe`, `SlotServed`, `OneTarget` (bridge); `RelayStreamIntact`, `RelayRewrittenWhole`, `RelayTyped` (relay); `HandshakeInStep`, `HandshakeSuccessIsMutual`, `HandshakeAuthError`, `HandshakeStuckOnNoneOnly`, `HandshakeNeverStuck`, `HandshakeTypes` (handshake) | `NoneIsAnswered`, in `HandshakeNeverStuck` only |
| `VncSession_proofs` | `TypeCorrect`, `BridgesOwned`, `OneAttempt`, `NoLeak`, `StatusTruthful` | none |
| `TerminalSession_proofs` | `NoLeak`, `TypeCorrect`, `StatusTruthful` | none |
| `Frontend_proofs` | `WorkbenchTypeOK`, `WorkbenchActiveIsLive`, `WorkbenchOneScan`, `WorkbenchOthersUntouched`; `FilesNoLeak`, `FilesLoadingAwaited`, `FilesInOrder`, `FilesMarkedIsRunning`, `FilesTypes` (file manager) | none |
| `SavedConnections_proofs` | `SavedTypeOK`, `SavedFormIsOwn`, `SavedImplementsMirror` | none |
| `FileSecrets_proofs` | `FileSecretsTypeOK`, `FileSecretsSteady`, `FileSecretsImplementsBackend` | none |

* **Store.** `SecretInv` is inductive. `AckedSecretHeld` alone is not: it allows a secret
  to sit in the inactive backend with the active one empty, so one has to know what a
  migration under way has still to do (`PassedIsMoved`: entries passed are in the
  target, `TargetIsOther`), that memory lists every acknowledged secret
  (`AckedSecretIsListed`, or the loop would skip it), that the persisted mode is the one
  in use (`ModePersisted`, for a crash), and what a Save or Delete under way has already
  done (`SaveInFlight`, `RemoveInFlight`). `OneSwitcher`: the settings dialog disables
  its controls during a switch; with two callers the property is false (section 6).
  `StartupReads`: connections.json and settings.json can be read at start-up.
* **SSH manager.** `ShellInv` relates the holder of `session.mu`, the slot and the state
  of every reader, so that a free slot means that no shell lives (`OneShell`) and a taken
  one that its shell does (`SlotIsLive`); `LifeInv` adds where
  the watcher is to `RegisteredIsWatched` and `UnregisteredIsEnding`.
* **Bridge.** `SlotInv`: the slot names the one handler between `TakeSlot` and `Release`,
  and a target socket is open only in part of that span.
* **VNC store.** Three invariants, each on the one before: `SlotInv` (an undisposed
  attempt is in its session's slot; which call states go with which session), then
  `BridgeInv` (a registered bridge has an attempt that knows it, will learn of it, or
  has asked for its stop), then `SessionInv` (status against slot).
* **Terminal.** `LeakInv`: effect runs are numbered in order, all but the last are
  cancelled, a session exists only for an attempt that called, and it is in
  its attempt's hands, in the answer under way, or being closed. `StatusInv` adds what
  `StatusIsOfLastAttempt` needs: the last attempt of a panel on the page is not cancelled
  (`LastIsLive`, or its answers would leave "connecting" standing), an idle panel has not
  run, a shell was asked for by the attempt that holds the session, and whoever may still
  write the status (the answer or a close event under way) speaks for that attempt.
  `StatusTruthful` does not say that a shell shown as connected still lives (section 6).
* **File manager.** `FilesInv` is the terminal's argument without a shell: runs in order,
  a session follows its run, and none is without an owner. `ListInv` numbers the
  listings asked for: a pane that shows "loading" waits for the latest request, which is
  unanswered, and an answer is shown only while it is the latest - from which also
  `ListingsInOrder`.
* **Handshake.** `HandshakeInv`: `Flow` says, for every read of the client, what may be
  under way to it and where the server is; `Settled` and `Outcome` say what is left once
  a side has ended. `NoMutualWait` follows in every case but one: with a 3.7 server
  that offers None, which sends no result, the client waits for one (`StuckOnNone`
  states that case). So `HandshakeStuckOnNoneOnly` has no assumption, and
  `HandshakeNeverStuck` needs `NoneIsAnswered`. The attempt to prove it showed CASEs
  whose guards overlapped; they are written as IF chains, in the order of the code.
* **Relay.** `RelayInv` cuts the server's stream at three places: what has passed, what
  the rewriter holds, what the reader holds, then the frames still to come.
  `StreamIntact` is not inductive by itself: the rewriter has to stand at the boundary
  of a message (`AtBoundary`), and what it holds has to be a beginning of the next one
  (`Parsed`). The lemmas are about stretches `Bytes(a, b)`: how they join and split, and
  that a stretch tells its ends. Bytes are numbered for this: a fold that joins the
  messages is recursive, and nothing could be shown of it. In return the theorems hold
  for every number of messages and all their lengths.
* **Workbench.** `SessionsOK` and `PageOK`. `ActiveIsLive` is not inductive by itself: a
  session with tabs needs a mounted one on top (`Sound`), and live sessions have to be
  numbered up to `sessionSeq`, or a new one could take the place of an old one. The lemmas
  say what each store operation does to the sessions; a component's action then only
  has to name the operations it calls.
* **Saved connections.** `RepoOK`, `TasksOK` (a list that is there was read after the write
  it follows) and `DialogOK` are inductive, and each step is a step of `SavedList` or
  leaves its variables alone (`MirrorStep`).
* **Encrypted file.** `KeyOK` (a cached key is that of secrets.key if there is one),
  `EntriesOK` (an entry needs the machine's key or that of secrets.key) and `LookupsOK`
  (what the lookups must have done for that). `LookupFails` maps to the one `Orphan`
  step, `KeyWritten` to `Settle` or a stutter. Assumed: reading secrets.key
  fails only when it is not there.

Safety is all there is to prove of the two refinements: neither abstract
specification has fairness.

Type correctness of the later modules rests on these: `HandshakeTypes` on `InStep` (what is
read next has the fields that the read looks at), `RelayTyped` on `RelayInv` (the length
of the message taken off), `FilesTypes` on `FilesInv` (whose session a listing uses).

Only model-checked: every liveness property (fairness and ENABLED are beyond TLAPS here),
and the counterexample of section 6.

## 5. Not modelled

* Cipher arithmetic, key parsing, error wording, formatting, sizes of terminals, the
  progress of transfers: no control depends on them beyond what is kept.
* The bytes from target to client: one buffer, read then written (where this copy loop
  waits is in `VncBridge`).
* Which of two scans of the same host an answer belongs to: `Workbench.scans` is a set of
  hosts. The cut of a 3.3 server's security type to one byte (handshake.go:203): a type over
  255 would be taken for another one; the servers of the model only choose types below.
* The local listing of the file manager (it works as the remote one), selections.
* `ProbeSecurityTypes`, which no caller in the program uses.
* The OS keychain, the SSH and WebSocket libraries, noVNC, React and Wails are external:
  modelled from how the code uses them.
* AES-GCM, base64 and SHA-256 in secrets_file.go: an entry is its value with its key.
  Two processes over one directory: the program does not support that.
* What dialogs and panels look like, the settings dialog, and leaving the devices view
  by a shortcut with the edit dialog open, which unmounts it.
* The scanner (section 7): independent probes under one deadline.

## 6. Where code and text disagree

`WorkbenchTarget` shows that a session which is saved first opens for the target and the
protocols the store holds once the save has ended. With another address typed, another
scan, or the last session closed meanwhile, the credentials entered for one host go to
another. The comment on beginSession says that it opens a session for the scanned target
(store/index.ts:87), and the dialog names the host (CredentialsModal.tsx:29).

Met while modelling, listed under "hazards" and stated by no run:

* An aborted migration leaves the secrets moved so far unreadable from the backend in
  use; the comment on MigrateSecrets says that they remain readable (store.go:416). They
  are not lost: a retry completes the switch.
* The keepalive request does not detect half-open connections, as keepalive.go:4 says: the
  probe (keepalive.go:63) waits for its reply without a timeout, so that on a connection
  that stays silent none fails, and the session stays in the table for as long as the
  operating system keeps the connection. The tests replace the probe by a function that
  fails at once.
* A target that stops reading blocks the handler of a bridge in tcp.Write (bridge.go:203),
  where it sees neither its client leave nor Close: the slot and its goroutines stay.
* onClose can reach the caller of OpenShell before its result: the deferred unlock
  (sshx.go:179) lets readLoop go on first. No text denies it.
* The rewriter reads the negative length of an extended clipboard message as unsigned and
  forwards nothing any more, although it promises to fall back to pass-through
  (rewriter.go:28, :86). With "extended" in `Kinds`, `MessagesReachTarget` fails.
* secrets.key does not only exist "because the machine UUID was unavailable when the store
  was first used" (secrets_file.go:67): one failing lookup in any later process draws a key
  that wins from then on, and what was sealed before cannot be read again.
* A second Delete after a failed one reports success although the entry is still in the
  file; two concurrent SetSecretStorage calls migrate a backend onto itself.
* stderr data may follow onClose; a client between upgrade and slot survives Close; the
  paste listener is removed for the wrong phase.
* A 3.7 server that offers None sends no result and the client waits for one until its
  deadline.
* A close event handled before the answer of openShell leaves a dead shell shown as
  connected; a change of language reconnects the file manager.
* The end of one entry's save closes the edit dialog of another.

## 7. Plan

Order of work: the durable store first (what is lost there stays lost), then the SSH
manager and the bridge (goroutines and locks), the frontend's owners of backend
resources, the protocol code, the encrypted file, and the workbench with its saved
connections. Done: all modules of section 2. Worth doing next:

1. `VncSession` composed with `VncBridge` over one bridge, so that a bridge stopped while
   its client is served is seen from both ends.
2. `ConnectionStore` over two `SecretBackend`s instead of the plain function `vault`, so
   that orphaned entries are seen by a migration.
3. A lease on a desktop that `VncSession` implements; an atomic repository of bookmarks
   that `ConnectionStore` implements outside migrations.
4. `Scanner` - probes under the deadline of a scan.
5. Proofs: the theorems of whatever items 1-4 add, each from an inductive invariant that
   TLC has checked first.
