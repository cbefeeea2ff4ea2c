# U-Claw: a TLA+ model of its activation, its chat and its desktop

U-Claw is an assistant that runs from a USB drive. A launcher (Go) checks the
drive and starts an Electron desktop; the desktop supervises a local OpenClaw
gateway process and shows a web frontend; an activation server (Go, PostgreSQL)
binds an activation code to one drive, issues its licence and startup material,
and proxies model requests for it. The code lives under `src/product/`.

This directory holds TLA+ modules of the parts whose order of events matters,
the TLC configurations that check them on small instances, and proofs of the
main results for instances of every size. `PROJECT.json` maps each definition to
the lines it models.

## Inventory

Paths are below `src/product/`.

| Component | State it keeps | Operations | What is hard about it | What makes it correct | Module |
|---|---|---|---|---|---|
| Activation server, requests (`activation-server/internal/activation`, `persistence/activation_repository.go`) | inventory with the binding lease, devices, licences, attempts, mappings, tokens, status events | activate (validate, begin, sign, complete, respond), commit | requests race between two transactions and between an unlocked read and the locks; a lease can expire under a working request; any step can fail | a code, a drive and a key are bound once; all answers carry the same working material; a binding is never taken back | `ActivationServer` |
| Activation server, operators (`persistence/admin_repository.go`, `lifecycle_repository.go`) | the same tables | create, configure and map an inventory row; disable, enable, revoke, reissue a licence; expire | many tables in one transaction, two writers of one revision, replacement links both ways | tables agree; final statuses are final; one event per revision; a replacement is linked to exactly one of code and licence | `ActivationServer` |
| Device tokens and model proxy of the server (`internal/modelproxy`, `persistence/model_proxy_repository.go`, `cmd/admin`) | `device_access_tokens`, `model_proxy_admissions`, `admin_operations`; the output file of a reissue | authorise, admit, call, complete; disable, enable, revoke, reissue, recover | statuses read once and used for a minute; completions that fail, instances that die; a secret in a file and its digest in a database | limits hold, what is withdrawn stops working, no token comes into force whose secret is gone | `DeviceAccess` |
| Desktop activation (`desktop/src/activation`) | in memory: state, pending journal, operation; on the drive: journal, backup, four artifacts | preflight, submit, cancel, status | every disk operation and request is an await; lost answers; stopped anywhere; retries with the same key | the journal never claims more than the server did; artifacts are all old or all new; the way back to a binding is never lost; a submit ends | `ActivationClient` |
| Launcher, start (`launcher/state.go`, `activation.go`) | the mode it starts | detect, activate, start, monitor the drive | decides from files another process writes | an interrupted activation is continued | `ActivationClient` |
| Launcher, licence gate (`launcher/license_lifecycle.go`, the server's `lifecycle/service.go`) | the host's anchor of the licence, the drive's cache of the last receipt | status query, online and offline check, write of both | two files on two media, written one after the other; clocks of two machines; drives that move; several launchers before the instance lock | an ended licence starts the program no longer than the grace after the server's last confirmation; a host's record only grows | `LicenseGate` |
| Launcher, runtime cache and update (`cache.go`, `update_transaction.go`) | runtime caches, the update | prepare, lease, finalise | a crash between two files; two launchers on one host | a crash locks nobody out | none |
| Chat queue (`desktop/src/chat-queue`) | queue file; in memory: flights, waiting sessions, active sessions | add, update, remove, send, deliver, wake | a flight awaits between reads of the in-memory state; the gateway comes and goes; restarts while sending | one delivery at a time, in order, none lost, none forgotten | `ChatQueue` |
| Gateway process (`desktop/src/gateway`) | the owned process, its state | start, stop, wait for readiness, roll back | timeouts of two signals against two exit events, several callers of one stop | never two gateways; "stopped" means that nobody writes any more | `GatewayProcess` |
| Consistency coordinator (`desktop/src/data/production-consistency-coordinator.ts`) | counts of writes and leases, the tail of turns, the blocking flag, the terminal failure | tracked write; acquire, release; recover | writers sleep, leases queue, any of them may be aborted, a stop or a start may fail | leases exclude writes and each other; every waiter is woken | `ConsistencyCoordinator` |
| Data maintenance (`desktop/src/data/maintenance-service.ts`) | operations; backups, staging, rollback copies, journals, quarantines on the drive | backup, restore, cleanup, factory reset, cancel | many files, one awaited step each; cancelled, failed or cut off between two of them | a backup is a snapshot, a report is true, nothing is lost | `Maintenance` |
| Data service (`desktop/src/data/data-service.ts`) | the workspace and the memory, staging transactions | write, delete, rename, move, read | OpenClaw writes the same files; recovery of what was staged | a version check holds until the change; nothing is lost | `WorkspaceData` |
| Gateway link (`adapter/src/openclaw-client.ts`, `transport/`, `reconnect.ts`) | status, capabilities, negotiation, pending requests | negotiate, reconnect, answer a gap, close | several callers share one negotiation and close each other's sockets; the gateway is restarted under it | the status is true; gaps heal; a gateway that is there is reached | `GatewayLink` |
| Chat streams (`openclaw-client.ts`, `desktop/src/ipc/client-dispatcher.ts`) | buffers, tools, approvals, decisions | send, watch, cancel, abort, resolve, list | events before the answer that names their run; lost events; an end from three sources; decisions against frames | text without a hole, one true end, a denial stays | `ChatStream` |
| Plugin service, skill service (`desktop/src/plugins`, `skills`) | records, journals, directories; OpenClaw's registry | install, update, uninstall, switch; recover | commands and files that fail half way, crashes between them, recovery from what is found | records, files and OpenClaw agree; what was reported stays; the desktop comes up | `PluginService`, `SkillService` |
| Provisioning, administrator's local server, channels, MCP, sessions, providers, mapping, frontend, schemas, packaging, portable and bootable editions | files or remote state behind one call at a time | | data conversion and sequential I/O | | none |

They interact like this: the launcher starts the desktop in activation mode when
the drive has no licence; the desktop's coordinator sends the activation request
and writes the artifacts; its exit code 20 sends the launcher round its loop,
which then checks the licence, online or against what it knows, and starts the
normal application. That one recovers skills and plugins,
starts the gateway, negotiates with it and opens its window. Maintenance and the
doctor's repair stop the gateway under a consistency lease and start it again
when they release it; the data service, skills and plugins write as tracked
writes, which a lease drains and blocks. The chat queue and the chat streams
depend on the link's status, which follows the gateway through all that.

## Modules

| Module | What it is | Lines it follows |
|---|---|---|
| `ActivationService` | abstract: what the server promises about a code | derived from the requests and commands below |
| `ActivationServer`, `ActivationServerProofs` | requests and operator commands of the activation server; theorems | `internal/activation/service.go`, `internal/persistence/{activation,admin,lifecycle}_repository.go` |
| `ActivationClient`, `ActivationClientProofs` | one drive: coordinator, artifact writer, the launcher's choice of mode, and the server as an instance of `ActivationService`; theorems | `desktop/src/activation/{coordinator,artifact-writer}.ts`, `launcher/{activation,state}.go` |
| `LicenseGate`, `LicenseGateProofs` | the launcher's check of the licence on one or more hosts, and the server that signs its status; theorems | `launcher/license_lifecycle.go`, `license.go` 160-168, `state.go` 123-131, `license_status_http.go`, `internal/lifecycle/service.go` 151-192, `lifecycle_repository.go`, `admin_repository.go` 525-737 |
| `DeviceAccess`, `DeviceAccessProofs` | the tokens of one device, requests to the model proxy, the operator's reissue of a token; theorems | `internal/modelproxy/service.go`, `internal/transport/model_proxy_http.go`, `internal/persistence/{model_proxy,admin}_repository.go`, `internal/admin/management.go` 117-161, `cmd/admin/main.go` 164-194 |
| `ChatQueue`, `ChatQueueProofs` | queue file, dispatcher, direct sends, the gateway's watch loop, restarts; theorems | `desktop/src/chat-queue/{store,dispatcher}.ts`, `desktop/src/main.ts` |
| `GatewayProcess` | the supervisor of the gateway | `desktop/src/gateway/{gateway-process,startup,health-check}.ts` |
| `ConsistencyCoordinator` | tracked writes and leases | `production-consistency-coordinator.ts` |
| `Maintenance` | backup, restore, cleanup, factory reset | `maintenance-service.ts` |
| `WorkspaceData` | versioned mutations and their staging; extends `Maintenance`, with which it shares the files | `data-service.ts` |
| `DesktopData`, `DesktopDataProofs` | composes the four: `INSTANCE GatewayProcess` and `INSTANCE ConsistencyCoordinator` over `WorkspaceData`, with the application's start, end and crash, and OpenClaw's own writes; theorems about the coordinator and the composition | `main.ts` 487-599 |
| `GatewayLink` | the one connection to the gateway, over successive gateway processes | `openclaw-client.ts`, `transport/`, `reconnect.ts`, `create-desktop-main-options.ts` |
| `ChatStream` | one session's conversation over that connection | `openclaw-client.ts` 384-433, 829-1128, 1436-1596, `client-dispatcher.ts` |
| `ConnectionProofs` | theorems about `ChatStream` and `GatewayLink`, both of which it extends | |
| `Capability`, `PluginService`, `SkillService`, `Capabilities`, `CapabilitiesProofs` | what the two services share; each of them; both in one process that may crash; theorems | `plugin-service.ts`, `skill-service.ts`, `main.ts` 760-796 |
| `MC...` | instances for TLC: symmetry sets | |

In each component's module a definition whose comment begins with "Mistake" is a
wrong variant of the definition after it. No action uses it; `PROJECT.json`
("mutants") pairs each checked property with a variant that breaks it, so that a
property which no plausible mistake violates would be noticed.

### ActivationServer

Its state is the rows the requests and commands write: `inventory` (with the
binding lease), `device`, `license`, `attempt`, `binding`, `tokens`, `events`; `call` is
the Go routine of each request, `reply` what it answered. A request goes through the steps of
`Service.Activate`: `Validate`, `ReadAttempt` (the read without locks),
`BeginFresh` or `ResumeAttempt` (the first transaction), `ReadForCompletion`,
`CompleteBinding` (the second transaction) and `Respond`. A transaction runs from its
first row lock to its commit as one step, because the rows it decides on are locked
`FOR UPDATE`; what is read before the locks is a step of its own. The identifiers
the server generates (attempt, device, licence, secrets) are named by the member
of `Calls` that generated them, which makes "generated once" visible. A failure
between any two steps ends the request and leaves the tables as they are. Signing
is a function of its inputs, the clock is a free choice of "the lease expired",
"the licence expired".

`BondOf` maps the tables to the abstract `bond`, and `ImplementsService` states
that every step of the server is a step of `ActivationService` or changes nothing
there. `ActivationClient` uses the same module for its server, so what the client
relies on is what the server was shown to do. It adds the lease and the workers
of requests, because the client can see them: they decide between "in progress"
and "take over".

### ActivationClient

`preflight` and `submit` are coroutines in slots (`Runs`); `pc` is the await a
coroutine stands at, and what runs between two awaits is one step. The drive
(`journal`, `backup`, `files`) survives `Stop` and `Quit`, which may happen at
any await; the coordinator's memory (`state`, `pending`, `op`) does not. `Boot`
is the launcher's `DetectActivationState`: which files are there decides whether
the activation window opens at all. A file of the artifact writer is written
atomically (temporary file, fsync, rename), so it is old or new; a set of files
is not. `caller`, chosen from `Callers` once per behaviour, says whether `preflight`,
`submit` and `cancel` are called only when the shipped renderer calls them or
whenever the IPC accepts them; what holds for the renderer alone says so
(`BoundJournalIsKept`, and that the server refuses no commit, in `JournalNeverAhead`).

### LicenseGate

`time` is the server's clock, and `skew` what each host's clock shows beyond it;
`SetClock` sets it right or wrong at any moment. `anchor` is the file each host
keeps outside the drive, `cache` the one on the drive, which `Plug` moves to another
host. `gate` holds, per launcher, what it has read so far: its clock (`now`), the
receipt it judges by, and how far it is. The server reads the licence's row
(`Reads`) and then its own clock (`Signs`), strictly later than the launcher read
its own; between the two an operator may change the status (`Mutate`), and an active
licence past its end is expired under the row's lock. `JudgeOnline` and
`JudgeOffline` are the two halves of `VerifyLicenseLifecycle`, `WriteAnchor` and
`WriteCache` what follows in both; each write can fail, and `Stop` ends the
launcher anywhere, the drive pulled out included. `Together` says whether launchers
of one host are at the gate at once, as the code allows, since the instance lock is
taken after it. Receipts, anchors and caches are authentic; "revoked" stands for
"reissued" as well; an answer that is no retry-later error is `Stop`.

### DeviceAccess

`request` is what each request in the server has read and how far it is: it arrives with
its deadline, reads the statuses (`Authorize`), takes its admission in a transaction under
the token's advisory lock (`Admit`), goes upstream, ends and completes its admission
(`Finalize`), which may fail; the instance that serves it may be killed (`Killed`). `row`
is the request's row in `model_proxy_admissions`. `Tick` does not pass the deadline of a
request that runs: its context cancels whatever it waits for. `licence` stands for the
statuses of licence, device, mapping and inventory row, which `Mutate` changes together;
the licence's end is a time. `usable`, when each token was last in force, is history.

A reissue (`Prepare`, `Begin`, `SendCommit`, `Commits`) draws a token, stages its secret,
opens a transaction that locks the rows, links the secret into the output file as the last
thing before the COMMIT, and sends that. The transaction (`tx`) is the database's and goes
on without the command: it commits or is rolled back whatever becomes of the command,
which may see an error (`CommitFails`), read the outcome (`Resolve`) and remove the
file, or die at any step (`Dies`) and be run again with the file there (`Recover`, which
includes what the operator does then: he takes a confirmed token to the device, or removes
a file that belongs to no completed operation). An operator runs one command per key at a
time and gives each key an output file of its own.

### ChatQueue

The file (`queue`, `status`, `known`) survives `Restart`; `flight`, `waiting`
and `active` are the dispatcher's maps, `direct` the calls of `routeChatSend`,
`watch` and `awaited` the loop of `main.ts` that calls `gatewayAvailable`. A
step is what runs between two awaits that leave the process: a write of the file,
an event of a stream, a status of the gateway. `isGatewayAvailable` reads memory
only and taking a session without a flight awaits nothing, so neither is a step of
its own. A direct send that finds a flight waits for its end and takes the session in the
step that ends it. An error event and a thrown error that is no `UClawError` lead to
different continuations of `deliver` (`caught`), which matters when the next write
fails as well.

### DesktopData and its parts

`GatewayProcess` is the supervisor: `child` (owned and running, exited with its
"close" still to come, or nothing), `killer` (the one `stopOwned` all callers
share, after SIGTERM or after SIGKILL), and each caller's `stop()` and start. A
start that is not ready takes back what it spawned by a stop that asks for no
identity, as `startup.ts` does. "exit" and "close" are separate events, because
`stop()` returns only after the second and the child counts as owned until then.

`ConsistencyCoordinator` follows `runTrackedWrite`, `acquireConsistencyLease`,
`release` and `recover` between their awaits: `turns` is the chain of
`leaseTail`, the counters and the gate are the code's own variables, and a signal
aborted before the call leaves a lease counted for good (`lost`, below). The
lifecycle the coordinator calls has two outcomes here.

`Maintenance` has the four operations, one awaited file operation per step. The
version of a file stands for content and identity, 0 for absence. `live` is the
data root; `backups`, `staging`, `rollback`, `journal`, `quarantine` and
`resetJournal` are what the operations leave on the drive, which is what the
next precheck finds (`Damaged`). A restore that fails rolls back step by step: the files it
names go (`UndoRemoves`), the copies come back (`UndoRewrites`), then the copies, the journal
and the sync (`UndoUncopies`, `UndoUnjournals`, `UndoEnds`); each may fail (`UndoFails`), and a
`removeTree` may stop half way (`Remains`). `newest` is a history variable: the content the
last successful change gave a file.

`WorkspaceData` adds the versioned mutations of the data service: a target is
moved into a staging transaction (`staged`: payload and journal), its version
checked there, then the new content created, or the target deleted, or moved back
if nobody made it anew; a rename checks before and after; `RecoverStaged` is what
each `getRoot` does with transactions nobody works on: those of a stopped process, and
the one a mutation has just given up (`Stale`; `stageVersionedTarget`'s catch releases
its transaction before the tracked write ends, `data-service.ts:411`). It extends
`Maintenance` because both change `live`.

`DesktopData` composes them by `INSTANCE`: a lease that asks for a stop is
answered by `GatewayProcess`, an operation goes on when its lease is held, and
releases it when it is done; a mutation and a cleanup run inside tracked writes;
OpenClaw writes any file while the child is up (`OpenClawWrites`). The
application itself starts, quits (before-quit stops the gateway under whatever
lease is held) and crashes, which leaves only the disk.

### GatewayLink

Processes of the gateway are numbered in the order of their start; `ws.peer` and
`capabilities` say which of them a socket reached and which one negotiated. The
handshake, the shared `negotiation`, the start-up retries, `reconnect()` with the
wait of its policy, the sequence detector's own reconnect, and the readiness
check, which renegotiates (`ProbeAsks`, `ProbeEnds`), are steps; a step closes
the socket of another where the code's `transport.connect` does. A start of the gateway closes
nothing: the first one sets the port of a transport that has nothing yet
(`main.ts:512`), a managed restart sets only the supervisor's (`main.ts:527`). So the
socket, the handshake, the requests and the capabilities of a process that is gone stay
until its end is noticed (`PeerIsGone`), which may be after its successor is up and
announced, and what it had sent may still be read. The production
wiring gives no `onResyncRequired`, and nothing reconnects when a socket closes:
the user does, by a button, which is `UserReconnects`. One thing is wider than the
code: a first start that failed and is tried on another port sets the port again,
which would close what a reconnect in between has opened; the window with the button
comes only after it.

### ChatStream

The socket is one sequence of frames (`wire`), events and answers; the gateway
behind it is external and free to interleave runs, lose an event (`hole`: the
next frame carries the gap) and close. `stream` is `sendChat` of each send: events
buffered before the answer that names the run, what was shown, the recovery by
`agent.wait` and `chat.history`; `watch` is `watchChat` of the session; `traced`
are the client's maps of tool calls, approval requests and decisions. A handler
and the promises it settles are one step. A delta is its number, so a hole, a
repetition or a frame of another run in what is shown is visible. `Mixed` is a bound:
unless it is TRUE, sends that use a tool, and the watch, which shows tools, are in
behaviours of their own, apart from the sends without a tool.

### Capabilities

`PluginService` works through OpenClaw's command line: a command that is reported
as failed may have had its effect (`Attempt`), a journal names the phase, and an
operation that fails undoes itself by the same `applyJournalRuntime` that
recovery uses. `pluginTold` is what an operation has reported: done, or failed with all as it
was. It is told whether or not the journal could be removed, since the code swallows that
error both ways; an operation whose undoing failed has reported nothing about the outcome. `SkillService` moves directories: an operation is the sequence of
steps of its `Course`, each phase written to the journal before the next step; its
catch block (`Catch`) and a recovery (`Forwards`, `Backwards`) are sequences
likewise, chosen from what is found on the disk. `Capabilities` puts both into
one process as `main.ts` starts them: skills first, then plugins, and either one
that throws keeps the application from starting.

### Troubles

A constant `Troubles` (in `ChatQueue`, `DeviceAccess`, `Maintenance`, `ChatStream` and
`Capability`) selects which events of the surroundings may happen. A run leaves
one out for one of two reasons: it asks another question, and another run has it;
or the code does not withstand it. These are of the second kind. Each can be seen
by adding it to the run's `Troubles`:

| Trouble | Left out of | What then fails |
|---|---|---|
| `"early"` | `desktop_waits` | `NobodyWaitsForever`: an operation cancelled during its precheck passes an aborted signal to `acquireConsistencyLease`, which throws after it has taken a turn (`production-consistency-coordinator.ts:95`); the turn is never given back, and every later lease waits |
| `"finish"` | `desktop_data` | `NothingLost` and `RestoreReport`: all is written, and the removal of the rollback copies stops half way or that of the journal fails after it; the catch deletes what was restored and finds no copy (`maintenance-service.ts:595`) |
| `"read"` | `desktop_data` | `RestoreReport`, `NothingLost` and `BackupIsSnapshot`: a read opens the root outside any tracked write, which puts a staged file back under a restore or a backup (`data-service.ts:235`) |
| `"together"` | `desktop_data` (with two members of `Mutators`) | `NothingLost`: two mutations of one file at the same time; the one that gives an old version back puts it where the other has just staged the new one, whose transaction then removes it (`production-consistency-coordinator.ts:65`) |
| `"first"` | `chat_stream` | `TextHasNoHole`: the detector takes the first event it sees on a connection for the first one there is (`reconnect.ts:77`), so an event lost before it is not missed |
| `"bare"` | `chat_stream` | `EveryStreamEnds`: with a gateway that has no `agent.wait`, a lost last event leaves the stream open |
| `"again"` | `capabilities` | `OutcomeStays`: a journal whose removal failed (`plugin-service.ts:499`) is applied at the next start and takes back a later operation |
| `"undone"` | `capabilities` | `OutcomeStays`: an operation fails after its journal says `runtime-committed` or `committed`, is undone and reported as failed, and the removal of the journal fails, which nobody is told (`plugin-service.ts:505`, `579`, `626`); the next start does what was undone (`250`) |
| `"recovery"` | `capabilities` | `SkillsAreWhole`: a recovery stopped between the removal of the staging directory and that of the journal (`skill-service.ts:313`); the next one records the new version over the old files |
| `"sync"` | `capabilities` | `SkillsAreWhole`: a rename that took place and whose directory sync failed counts as not done, and the catch deletes the backup (`skill-service.ts:573`, `604`) |
| `"write"`, `"steer"`, `"cancel"`, `"lost"`, `"edit"` | `chat_queue_drains` | `QueueDrains`, see "Disagreements"; its last part, that a waiting direct send starts, holds with any of the first four |
| `"late"` | `device_access` | `SecretIsKept`: the connection is lost during a COMMIT, the outcome is read as "not completed" and the file removed (`cmd/admin/main.go:188`), and then the COMMIT takes effect |

`chat_stream` has `"long"`, a run that outlasts the twelve waits of its recovery: its
stream ends with an error, about which `EndIsTrue` makes no claim. With `"first"` added, a
single send with a tool and text (686,319 states) still keeps `DeniedStaysDenied`.

## Runs

| Run | Bounds | Distinct states | What it shows |
|---|---|---|---|
| `activation` | 2 codes, 2 drives, 2 keys, 2 requests, revisions up to 4 | 50,486 | requests racing with each other, with lease expiry, failures, commits and every operator command, and a licence through disable, enable, expiry, revocation and reissue: tables consistent, answers usable, bindings permanent, history gapless, and every step is one of `ActivationService` |
| `client` | 1 coroutine at a time, 3 keys, 3 files, 2 requests at the server, driven by the shipped renderer or by any call the IPC accepts; fair | 532,640 | the journal is never ahead of the server and is kept once bound, the commit is never refused and comes after complete files; a drive stopped anywhere still has what recovery needs; each submit gives the operation back |
| `license_gate` | 1 launcher, 2 hosts, clocks right, 1 or 3 ahead, grace 2, validity 4, time up to 4, 3 revisions | 811,287 | how long an ended licence starts the program, how far a wrong clock reaches, what a host remembers |
| `license_clock` | 1 launcher, 1 host, its clock right | | a finding, below |
| `device_access` | 2 requests, 2 reissues, 3 tokens, rate and concurrency 1, window and timeout 1, lease 2, the licence ends at 1, time up to 3 | 2,064,255 | a mapping's limits hold, what is withdrawn stops working, no token in force whose secret is gone |
| `chat_queue` | 1 session, 2 messages, 2 direct sends, 2 reconnections, 1 restart, all troubles | 387,764 | nothing answered twice or locked without cause, none lost, the queue never talks over a direct send |
| `chat_queue_drains` | 2 sessions, 2 messages, 1 direct send, 2 reconnections, 1 restart, removals; fair | 176,302 | the queue is served after each task and each reconnection; a waiting send starts |
| `desktop_data` | 2 files, 2 versions, 1 operation and 1 mutation at a time, backups and restores, 2 crashes | 2,100,969 | nothing is lost, a restore reports what it did, a backup is a snapshot |
| `desktop_waits` | 1 file, 1 operation, 1 mutation, the doctor's repair, quitting; stops and starts that fail; fair | 172,070 | whoever holds the lease has the data root alone; every wait and every operation ends |
| `gateway_link` | 2 users, 1 request, 3 gateway processes, 3 faults, 2 start-up retries; fair | 33,518 | the status shown is so, a gap is repaired, a gateway that stays is reached and stays reached once nothing goes wrong |
| `chat_stream` | 3 sends: one with 2 deltas, one without text, one with a tool and its approval in behaviours of its own; 1 fault, 2 frames on the wire, 2 connections; fair | 422,305 | text without a hole, one true end, and it comes; a tool the user denied is not shown running or waiting again |
| `capabilities` | 1 plugin, 1 skill, 2 journals, 2 versions, 2 faults, 2 crashes, 2 operations; fair | 689,880 | records, directories and OpenClaw agree, an outcome that was reported stays, the desktop comes up |

Why the bounds are enough for what they are to show:

- Server: two requests under different keys or drives for one code race, take a
  lease over, and repeat each other; a replacement needs two codes and three
  status changes between its two ends.
- Client: the first of the files is the startup credential and the second the
  licence, the ones the launcher looks at, and the third stands for the rest; two
  requests are enough for one still at work while its retry arrives; three
  keys let a key be forgotten twice.
- Licence gate: the grace ends before the licence does, and a clock may run ahead by
  more than the grace; three revisions disable a licence and enable it again; two
  hosts and one drive part an anchor from the cache that was written with it. By hand:
  two launchers on two hosts, clocks right or 1 ahead (16.7 million states),
  and two launchers at one gate together (3.9 million), where `AnchorOnlyGrows`, were it
  claimed there, would fail (below).
- Device access: two requests compete for the one place of a token; time 3 lets a request
  arrive, its token or licence be withdrawn, its admission's lease run out and its row be
  deleted by the next one; two keys are two reissues that overlap, three tokens let the
  second follow the first. The deletion after ten minutes lies beyond `MaxTime`; the
  proofs cover it, and any limits. The mapping's limits do not change, and a deletion takes
  all it finds, where the code takes a thousand rows at a time.
- Queue: the order of messages and the handing-over of a session need two of
  each; sessions share only the gateway, the watch loop and the waiting set.
- Data: a restore that stops half way needs two files; retention needs two
  backups; a second crash falls into what recovers from the first. A third
  version (8.6 million states), two mutations of
  different files with one crash (1.3 million states without backups; 8.6 million
  with three versions) were checked by hand and add nothing.
- Waits: one operation, the repair and the quitting application are three callers
  of one stop and two leases; a mutation and a cleanup are the writers. A proof
  covers any number of both for the coordinator alone.
- Link: three gateways give a socket to a process that is gone while the next
  one goes as well; two users and a gap close each other's sockets.
- Streams: two sends, so that events of another run arrive before an answer, and a
  third that uses a tool and is made alone (`Mixed` is FALSE); two deltas, so that a hole can be in the middle and at the beginning; one fault
  at any place, after which the connection is replaced. Two frames on the wire let
  an event overtake nothing but come before or after any answer.
- Capabilities: an operation, the failing of its undoing and a crash in the
  recovery that follows take two faults and two crashes; the second operation is
  the one that would be taken back.

`MaxRevision`, `MaxTime`, `MaxTokens`, `MaxRequests`, `MaxUps`, `MaxCrashes`, `MaxVersion`, `MaxBackups`,
`MaxGateways`, `MaxFaults`, `MaxRetries`, `MaxDeltas`, `MaxWire`, `MaxLinks` and
`MaxAsked` bound what the program does not.

Symmetry is used in runs without liveness only. Deadlock is checked in the
activation and licence runs. Elsewhere the system may stop: each message, send and
operation is used once, versions run out, and an application that has quit is
over; that nobody waits for ever is what the liveness properties are for.

### Fairness

- `ActivationClient`: each coroutine's step and the server's steps for a request.
  A coroutine waits for disk operations and for calls with a deadline of their
  own; the server gives a request five seconds.
- `ChatQueue`: each flight's step, the end of each stream, the terminal event of
  each direct send, the watch loop. A queue write ends, and the adapter waits at
  most twelve times ten seconds for the answer of a run.
- `DesktopData`: the event loop goes on (each lease, write, operation and start
  takes its next step), the timers of SIGTERM and SIGKILL fire, a killed child
  exits and its streams close. Strong fairness of a cleanup that finds the gate
  open again and again: a writer that is woken runs before anything a later request
  starts. Nothing is assumed of OpenClaw's writes, of users or of crashes, nor that
  a stop or a start succeeds.
- `GatewayLink`: timers fire, a peer that is up answers a handshake or closes, a peer
  that is gone is noticed, a callback that is due runs. Strong fairness of `AsksAgain`: the user who sees a
  lost connection presses the button again, since nothing in the code reconnects
  by itself. `GatewayIsReached` further assumes, in its own text, that the gateway stays.
- `ChatStream`: frames are read, a gap's reconnect is carried out, and the gateway
  ends its runs and answers (external).
- `Capabilities`: operations and recoveries go on, and the application is started
  again until it is up.

In none of them is it assumed that the user does anything else, that a write
succeeds, or that a lost thing comes back.

## Proofs

Each for any values of the constants that meet the named assumptions of the modules;
a theorem that needs more says so in its statement.

`ActivationServerProofs`: `TypeOK`, `StatusesAgree`, `MemoryIsTrue` (which no run
lists: it is what the others rest on), `BoundOnce`, `AnswersAreUsable` as invariants, `BindingIsPermanent` and
`RevisionsOrderStatuses` as action properties, for any sets of codes, drives, keys
and requests and any bound on revisions. The inductive invariant is

    Consistent == Typed /\ StatusesAgree /\ MemoryIsTrue /\ BoundOnce /\ AnswersAreUsable

`AnswersAreUsable` alone is not inductive: a request answers from the attempt it read,
so the step that answers needs `MemoryIsTrue` (a request past the first transaction
holds the material its attempt is bound with, and that material is pending or stored,
never both), which in turn needs that no other request can bind the
same code (`BoundOnce`) and that the tables of a code agree (`StatusesAgree`).
`Typed` adds to `TypeOK` what a request holds in each of its steps. There is one lemma per
action and conjunct.

On top of it, `HistoryIsGapless` and `ReissueLinked` (`HistoryAlwaysGapless`,
`ReissueAlwaysLinked`) by the inductive `Consistent /\ Recorded`, where `Recorded` says of
every licence what `HistoryIsGapless` (`Gapless`) and `ReissueLinked` (`Linked`) say of the
bound ones, and also what one that is only prepared, or has no commit yet, may not have
(`Issued`): the revision of a prepared licence is the one its code was entitled with, so
that the first event continues nothing, and a replacement that is named is bound.
`ServerImplementsService` is the refinement: initial states map to initial states, and
each step of the tables to a step of `ActivationService` or to none, action by action; it
rests on `Consistent`, because what a request completes is what its attempt was bound with.

`ChatQueueProofs`, from `QueueAssumption` (finitely many messages and sends):
`QueueWaitsItsTurn` and `ActiveIsCounted` as invariants and `NoneLost` as an action
property, whatever `Troubles` there are. The inductive invariant is

    Sound == Typed /\ ActiveIsCounted /\ QueueWaitsItsTurn /\ AcknowledgesAnswered

A direct send gives back the count it took, so `ActiveIsCounted` is what keeps the
count from going below zero, and a flight that relies on zero stays entitled to it;
`AcknowledgesAnswered` (a flight acknowledges only what was answered) is what
`NoneLost` rests on. The lemmas `EndFlightSound` and `ReleaseSound` carry the
counting; every other step changes flights only. `SentOnce` (`SentOnceAlways`) needs more:

    Sound /\ FlightsTyped /\ Placed /\ (~faulted => Followed)

`Placed` gives each message one place in one queue and makes the message of a flight the
one that is marked; `Followed` says of each message that it is in nobody's hands, or in
those of the flight that goes on with it. After a write that failed or a restart only
`Placed` holds, as `SentOnce` says itself.

`ActivationClientProofs`, from `ClientAssumption`: `DriveIsRecoverable` and
`JournalNeverAhead` as invariants, `BoundJournalIsKept` and `CommitMeansComplete` as action
properties, for any sets of files, keys and requests. The inductive invariant is

    Sound == Typed /\ Lives /\ DriveSound /\ ServerSound
               /\ (caller = "renderer" => RendererSound)

A coroutine goes on after an await with what it read or was told before it; `Lives` says
of each of its steps what it has in hand (`pc`, key, journal), `DriveSound` what is on the
drive at that step (which files are new, what the backup holds), `ServerSound` that what it
was answered is recorded, and `RendererSound` which key and which commit a caller that waits
for the state it shows can come with. The theorems are of the form
`Spec /\ []OneAtATime => ...`: one coroutine at a time is what the run has with one
member of `Runs`, and it is needed. With two slots and any caller TLC finds
`DriveIsRecoverable` and `CommitMeansComplete` violated (a cancelled `submit` whose disk
operations go on, "Disagreements"), with two slots and the renderer `JournalNeverAhead`.
TLC checked `Sound` by hand with one slot, 3 keys and both callers (97,867 states).

`ConnectionProofs`, its first part, from `StreamAssumption`: for any sends, deltas, faults,
connections and frames on their way, `EndIsTrue` (`EndIsAlwaysTrue`), `DeniedStaysDenied`, and `TextHasNoHole`
(`TextNeverHasAHole`) without the trouble `"first"`, with which TLC finds it violated. The inductive
invariants of the first and the last are

    Ending  == the types of the variables, FramesAreTrue, and for every send
                 Shaped(stream[s]) /\ Unbegun(s) /\ Fits(stream[s], s, run)
    Telling == Ending /\ GapsSeen, and for every send
                 TextKept(s) /\ TextComes(s)

A stream is told of an end by a frame, by a recovery or by a connection that closes, and by a
buffer that holds any of them from before the run was known. `FramesAreTrue` says that
what is on the wire is so of its run, `Fits` the same of what a stream has buffered,
recovered or shown, and `Shaped` that an end is the last thing shown, of a stream that is over.
The text is an argument about positions. `TextComes` counts: while the connection is up, the deltas a
stream has, in its buffer or shown, are the first so many of its run, and those on the wire up to the
first gap continue them, each the next; if no gap is to come, they reach what the run has emitted. `GapsSeen`
says that a lost event will be noticed: the detector has seen an event of the link, or
one without a gap comes first. That is what `"first"` breaks. `Replayed` takes up the
buffer by a recursive function over its positions; that this function is what it says, and what
it does to a buffer of any length, is proved by an induction of its own
(`ReplayExists`, `UpTo`), from the least-number principle (`LeastNumber`, by the theorem
`WFMin` of `WellFoundedInduction`, which has no operator for a parameter). TLC checked
the same facts, stated of pairs of positions, by hand in the setting of the run before they were proved.

`DeniedStaysDenied` (`DenialsAlwaysStay`) is an action property; it has an invariant of its own,
with every trouble:

    Denying == Ending, for every send Courses(s),
                 and while the connection is up for every send Denials(s), else no denial is known

`Courses` is the order in which the frames about one tool come (`MayFollow`: no approval and no second
decision after a decision, no decision after the end of the run) and what they say of the call, and that a
tool whose start is still ahead (`StartAhead`) is unknown to the client. `Denials` says what a denial on its way
will find: the request it answers, or a tool that is over or forgotten and will not start. After it
the tool is over or unknown, and a start still to come finds the decision that makes it a cancelled one (`Kept`);
and a buffer, once taken up, leaves the tool over (`Settles`), since until the end of the run its
last state of the tool is the client's own (`Followed`). TLC checked `Courses` and `Denials` by hand
with three sends (422,305 states).

Its second part, about `GatewayLink`, from `LinkAssumption`: `StatusIsTrue`, for any users, requests and bounds. The inductive invariant
(`CoherentAlways`) is

    Coherent == LinkTypeOK /\ Paired /\ StatusIsTrue

`Paired` ties the shared negotiation to the socket it waits for: a handshake is under way
exactly while the negotiation is at its socket, a ready socket has none, and each state of
the socket has its peer. Without it a close that comes between the answer of one caller and
the continuation of another could leave "ready" shown over a socket that is gone. A restart
of the gateway touches none of it, so the theorem covers the sockets and handshakes that
live across one: `StatusIsTrue` asks that the capabilities are those of the socket's own
process, which need not be the one that is up.

`DesktopDataProofs`. The module begins with the coordinator alone, from no assumption at all: for any sets of
writers and leases, while a lease has stopped the gateway, holds it or starts it
again, no write is in its operation (`LeasesAlwaysExcludeWrites`), and at most one
lease is past the front of the queue (`AlwaysOneLeaseAtATime`). The inductive
invariant (`CoordinatorInvariant`) is

    Coordinated == CoordinatorTypeOK /\ Counted /\ GateIsShut /\ TurnsAreKept /\ DrainedIsEmpty

`Counted` says that the two counters are the numbers of writes inside and of leases
that asked, and that both sets are finite: they start empty and change by one, so
the constants need not be finite. `GateIsShut` ties the blocking flag to the front
of the queue, `TurnsAreKept` makes that queue the leases that asked, each once,
and `DrainedIsEmpty` is the exclusion itself. TLC checked `Coordinated` by hand with two
writers and three leases (3,527 states), and with it that a writer sleeps only while a
lease is there to wake it; that last fact is not proved.

For the composition, from the assumptions of `DesktopData` and its parts, it proves for any files,
operations, mutations, versions and crashes:

- `GatewayQuiet` (`GatewayAlwaysQuiet`), whatever the `Troubles`;
- `BackupIsSnapshot` (`BackupIsAlwaysSnapshot`) without `"read"`;
- `RestoreReport` (`RestoreAlwaysReports`) without `"read"` and `"finish"`;
- `NothingLost` (`NothingIsEverLost`) without `"read"`, `"finish"` and `"together"`.

The troubles left out are needed: with each of them alone TLC finds the property violated
in a few steps (see "Troubles"). Everything else may happen: failing disk operations and
rollbacks, stops that time out, starts that fail, crashes at any step, quitting, OpenClaw's
writes. The argument has four layers, each an inductive invariant over the one before:

    Guarded   Coordinated, the invariant of the coordinator alone, and the gateway: while a lease is
              held nothing of the gateway is there (Shut)
    Desk      == Guarded /\ OpsTyped /\ DiskTyped /\ Clocked /\ Workspace /\ Control
    Reporting == Desk /\ \A o \in Ops : RestoreSound(o)
    Lasting   == Reporting /\ Staging /\ (\A f \in Files : Found(f))
                   /\ \A o \in Ops : RestoreNewest(o)

`Control` says which lease or which tracked write stands behind each operation and each
mutation, and that only one operation is busy. From it follow the two lemmas all else rests
on: an operation at work under its lease is alone (`LeasedAlone`: no gateway, no write, no
mutation, no other operation), and so until it moves itself or the process ends, the
files, backups and journals stand still (`StandsStill`). A backup needs no more
(`BackupSound`: what is copied so far is what is there). `RestoreSound` follows a restore
from file to file: what is written is the backup's, what is not yet written is what was
found, what is overwritten is in the rollback copies, which go only when every file is back
or written (`UndoneSound`). `NothingLost` is far from inductive.
`Staging` says which transaction belongs to which mutation, and at each of its steps whether
the newest content may be in it; `Found` makes `NothingLost` say that a file whose newest
content is staged is not there, so that nothing is overwritten when it is moved
back; `RestoreNewest` says that what a restore has overwritten is no older than what its
rollback copy holds. TLC checked the four invariants by hand with two files (2,100,969 states), with
one file and two mutations (520,820 states) and without the crash but with two operations and
the other troubles (stopped after 7.9 million states) before they were proved.

`LicenseGateProofs`, from `GateAssumption`: `RevocationSpreads` and `ClockDebtIsBounded`
as invariants, whether or not launchers are at the gate together, and
`AnchorOnlyGrows` as an action property, for any launchers, hosts, clocks, grace and
validity. The inductive invariant (`GateInvariant`) is

    Inv == TypeOK /\ NotAhead /\ GatesAreSound /\ CacheIsSound /\ ClockDebtIsBounded

What carries it is the time in each receipt that says "active": wherever it is, with a
launcher (`GatesAreSound`) or in the cache (`CacheIsSound`), the server signed it no later
than it last confirmed the licence, and a launcher that judged by it did so within
the grace of it. For the anchors one more invariant is needed: `InTurn` says that,
when launchers of a host come one at a time, what one has judged by is still what the
host holds when it writes. `WriteAnchor` rests on it, and without `~Together` it is false.

`DeviceAccessProofs`, from `AccessAssumption` (finitely many requests, a lease that
outlasts the timeout, as `config.go:154` demands, and is at most two windows, as
`service.go:80` does): `LimitsHold` and `WithdrawalTakesHold` as invariants, for any
requests, limits, windows and times, and `SecretIsKept` for any keys and tokens if `"late"`
is not among the `Troubles`. The inductive invariants are

    ProxyInv  == TypeOK /\ UsableIsPast /\ RequestsAreSound /\ Bounded
    SecretInv == TypeOK /\ CommandsAreSound /\ TransactionIsSound /\ SecretsAreKept

`LimitsHold` is not inductive, since it counts requests, where `Admit` counts rows. What joins the
two is the time a request carries: it was admitted no earlier than it arrived, runs no
longer than the timeout after that, and the lease is longer, so the row of a request at
work is open and held (`RequestsAreSound`, `Bounded`). The same time bounds
how long ago its token was in force (`UsableIsPast`). For the secrets, `CommandsAreSound` and
`TransactionIsSound` tie the open transaction to the one command that opened it and to the
file that command wrote, and say that an operation is completed at most once, so that
whoever removes a file removes one whose token never comes into force.

`CapabilitiesProofs`, from the assumptions of `Capability`, `PluginService` and
`SkillService` (that `None` is no record and no journal, that there is a version): for any
plugins, versions, crashes and failures of OpenClaw's commands,

- `RecordsAgree` (`RecordsAlwaysAgree`) without `"again"`, `OutcomeStays`
  (`OutcomeAlwaysStays`) without `"again"` and `"undone"`;
- `SkillsAreWhole` (`SkillsAreAlwaysWhole`) without `"sync"` and `"recovery"`.

With `"again"` alone, or `"undone"` alone, TLC finds `OutcomeStays` violated, with `"sync"` or `"recovery"` alone
`SkillsAreWhole`. `RecordsAgree` TLC finds to hold even with `"again"`, on the small instance; the proof
does not reach that far, since its invariant has one journal at most. The inductive invariants are

    PluginsSound == PluginsTyped /\ (\A s : BundledStays(s) /\ (Concerned(s) \/ Settled(s)))
                      /\ (at most one journal is left) /\ (\A id : LeftSound(id)) /\ TaskSound
    SkillsSound  == SkillTyped /\ FilesMatchRecord /\ DiskSound /\ SkillTaskSound

A plugin that no operation and no journal is about is `Settled`: OpenClaw and both records
name the same version. Of the other one `LeftSound` says what its journal leads to
(`Outcome`: forward once the runtime is committed, back before that) and, without `"undone"`, that nothing else has been told,
and `TaskSound` what each step of the operation has done so far. It must say so
of the recovery and of the undoing too, which end in the same steps from another start.

A skill's operation is what is left of one of nine courses of steps, chosen by the disk. So
`SkillTaskSound` gives, for each course and each step of it, where the three directories, the record,
the switch and the flags of the operation are (`GoodPlans` are the operations that may be
under way), and `DiskSound` says the same of a journal that a crash has left:
for each phase, where the directories may lie (`Lies`).

Only model-checked: that sleeping writers have a lease to wait for;
`RecordsAgree` with `"again"`; and every liveness property, since liveness under fairness
and ENABLED are out of this prover's reach. So is induction over data by the library's theorems,
whose parameter is an operator; where a proof needs one, it is made from `LeastNumber`
(`ConnectionProofs`).

## Findings

One run ends in a violation and is kept for it.

`license_clock`: the launcher reads its clock before it asks for the status
(`license_lifecycle.go:118`), the server reads its own while it answers, and the
launcher then refuses a receipt later than its reading as a clock set back
(125). A host whose clock is right, or not ahead by the time a request takes, is thus
refused its first online start, where
`docs/superpowers/specs/2026-08-10-P3-T04-license-lifecycle-design.md:62` says "allow".
The tests fix both clocks to one instant.

### Disagreements

Met while modelling; the models contain the behaviour, no run is kept for it.

Activation:

- A binding whose worker was lost, retried within the one-minute lease, costs the
  drive its key (`coordinator.ts:111`).
- A process stopped between two artifact files leaves a drive the launcher does
  not start in activation mode (`launcher/activation.go:43`).
- After a commit whose clean-up failed, the resubmission removes the committed
  journal (`artifact-writer.ts:483`) and then fails for want of one (389).
- `cancel` gives the operation back while the run's disk operations go on; a
  second submit then works on the same files, and `DriveIsRecoverable` fails
  with two slots in `Runs`. The shipped renderer does not call `cancel`.

Licence gate:

- A licence that was disabled and enabled again stays refused on every host that saw it
  disabled: an anchor takes no active receipt after "disabled"
  (`license_lifecycle.go:145`, `364`), where
  `docs/第一版启动激活授权方案.md:309` says that an administrator can restore it and
  `validAdminTransition` (`admin_repository.go:727`) allows it.
- Two launchers of one host at the gate together: the one with the older answer may
  write last, so the anchor goes back, an end included (`state.go:124`), where
  `docs/superpowers/reports/2026-08-10-P3-T04-license-lifecycle.md:15` has revisions grow.
- A crash between anchor and cache makes the next offline start refuse the licence, as
  the same report says (26).

Device access:

- The limits are a token's, not a device's: after a reissue the old token's requests go on
  to their end while the new one has the whole allowance (`model_proxy_repository.go:54`).
- A COMMIT that takes effect after its connection was lost: `"late"` above.
- An activation that is repeated answers with the stored artifact (`recoverBound` of
  `activation/service.go`), after a reissue thus with the old, revoked token.
- With a lease below a minute the rate is not kept: an admission whose completion failed
  is deleted when its lease is over and no longer counts (`model_proxy_repository.go:50`).
  The default lease is 75 seconds; `LimitsHold` claims the rate for leases of a minute or more.

Chat queue:

- A task that ends while a queued message sent by hand is being answered wakes
  nobody (`dispatcher.ts:128`): `QueueDrains` fails with `"steer"`.
- `gatewayAvailable` skips a session that is active and does not note it
  (`dispatcher.ts:156`); if the direct send is then cancelled, the queue is not
  served until something else happens. `QueueDrains` fails with `"cancel"`.
- A connection that closes under a delivery throws an error whose `UClawError` is
  in a field, so the message is marked failed rather than put back
  (`dispatcher.ts:68`), where the design says the queue is kept while offline
  (`docs/superpowers/specs/2026-08-13-对话队列与多模态附件设计.md:101`).
- A direct send waits for the whole flight, which goes on to further messages
  (`dispatcher.ts:183`); the same document says "immediately" (line 19).

Desktop:

- Mutations of one file are no longer serialised once the production coordinator
  has taken over from the file lock (`data-service.ts:182`;
  `docs/superpowers/specs/2026-08-10-P2-T10-data-closeout-design.md:28`):
  `"together"` above.
- `recover()` of the coordinator has no caller; after a failed restart of the
  gateway every lease is refused, the doctor's repair included.
- Quitting while a lease is held stops the gateway, and the release starts it
  again, an orphan of the application (`docs/第一阶段任务对齐表.md:52`).
- A completed operation is reported as failed when the release of its lease fails.
- A process stopped after the removal of a staging journal and before that of its
  payload leaves a transaction that every later access takes for damage
  (`data-service.ts:280`).
- A restore, a backup and a factory reset know nothing of staging transactions; a
  file that was staged when it began comes back after it, if its name is free.
- A stop that failed leaves the gateway stopped and the lease refused; a restore
  that fails before its journal leaves its rollback directory, which nobody
  removes; a factory reset cancelled half way blocks every other operation.
- A rollback that has put every file back and then fails to remove its copies, its
  journal, or to sync the directory reports that it failed and kept the restore journal
  (`maintenance-service.ts:616`); by then the copies may be gone, and after 611 the
  journal too. `RestoreReport` asks for what is left of the sentence: the files are what
  they were, or the journal and every copy are there.
- Writers sleep as long as leases overlap: a write is guaranteed its turn only
  when they end.

Link, streams and capabilities:

- `negotiate()` answers from a cache that only `reconnect()` clears
  (`openclaw-client.ts:1308`): after a restart of the managed gateway its readiness is
  announced on the capabilities of the process that is gone and without a connection to
  the new one, where `docs/Adapter契约草案.md:108` asks for a new negotiation on every
  connection. In `GatewayLink` it is `announced # 0` with `capabilities \notin {0, announced}`;
  `GatewayIsReached` says that it does not last, provided the user asks again.
- Nothing reconnects when a socket closes, and two reconnects at the same time can
  fail each other; the user asks again.
- A stream cancelled before its run is known aborts nothing when the call then
  fails or times out although the gateway took it (`openclaw-client.ts:964`).
- `listPending` stores a list it asked for earlier, also an approval resolved
  meanwhile (637); a reconnect forgets that a tool was denied.
- Disabling a skill, uninstalling it and installing it again fails in the readback each
  time: the new record is enabled, OpenClaw's switch is still off
  (`skill-service.ts:556`, `590`).
- A plugin operation that failed and was undone may be done by the next start: `"undone"`
  above, against "failed" in the operation's status.
- A recovery of skills or plugins that throws keeps the desktop from starting
  (`main.ts:760`, `789`).
- Those in the table of troubles.

## Plan

Done: what "Modules" lists. Left, in this order:

1. `LauncherUpdate`: the runtime cache and the update's transaction with their crashes.
2. `RowLocks`, the order in which each transaction of the server takes its row locks.
3. `CommitRemote` in two steps, so that the server may record a commit after the client
   has given up on it.
4. Proofs: that sleepers have a lease to wait for; `RecordsAgree` with `"again"`.

## Not modelled

- Server: `token_grants`, the audit log, configuration and keys. The order of row locks
  within a transaction. Of the model proxy the forms of requests and answers, the allowed
  models and the decryption of the key, which is one more step that may fail.
- Activation client: journals of schema 1; the reads of `recoverPendingArtifacts`
  are one step, and so is the snapshot's `Promise.all`; restores still under way
  after one of them failed; an input that differs between submits; `close`, which
  is `Stop`; artifacts lost after the commit. Sending the commit, recording it and its
  answer are one step (`CommitRemote`; `coordinator.ts:95`, `client.ts:220-229`): the
  answer may be lost, but a commit that the client has given up on is not recorded
  after the client has gone on.
- Launcher: the runtime cache and the update; of the licence gate the signatures, the
  encryption, the forms of its files and the local checks other than the licence's time.
- Queue: the count of attachment references; `setSessionActive`, which only tests
  call; the content of messages; the size limits of the queue.
- Data: directories, searches, sizes, the binding of paths to handles; the parts
  of a backup other than its files; a write that fails in the middle of one file.
- Link: the resynchronisation by a callback, which the product never passes; the
  signature of the device; the jitter of delays.
- Streams: attachments and skills of a message; `terminalRuns`, which drops a
  second end of a run for the watch; a `clientRequestId` used twice.
- Capabilities: catalogues, confirmations, bundle verification, name conflicts.
- `release/release-service.ts`, and `provisioning/coordinator.ts` with its
  artifact writer, a saga with compensation: nothing of the product constructs them.
- The administrator's local server, channels, MCP, sessions, providers, images:
  one call at a time to a gateway or a file. Frontend, schemas, packaging, the
  portable and bootable editions: data, layout and sequential I/O.

"components" in `PROJECT.json` has the reasons part by part.
