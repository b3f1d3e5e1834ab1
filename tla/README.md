# ArduDeck: a TLA+ verification project

ArduDeck is a ground control station for ArduPilot, PX4, Betaflight and iNav
vehicles: an Electron desktop application, a link daemon for a small "ArduDeck
OS" computer (`apps/os-linkd`), and the TypeScript packages both are built from.
This directory models the parts of it whose correctness depends on the *order*
of things: replies that come late, packets that do not come, API calls that
overlap, processes that die, a vehicle that arms in between. Paths below are
relative to the repository's root.

Contents: [the system](#1-the-system) · [the modules](#2-the-modules) ·
[the runs](#3-the-runs-bounds-and-fairness) · [the proofs](#4-what-is-proved) ·
[what the code does not do](#5-where-the-code-and-its-comments-disagree) ·
[not modelled](#6-what-is-not-modelled) · [the plan](#7-plan)

## 1. The system

### 1.1 Inventory

| component | state it keeps | operations | what makes it hard |
|---|---|---|---|
| **MAVFTP client** `packages/vehicle-core/src/ftp/ftp-client.ts` | 16-bit sequence number, the one pending request with its timer, the burst being collected, the buffer of a download | `downloadFile`, `uploadFile`, directory and file operations, `handleResponse` | late, lost, repeated and reordered replies; sizes that are only estimates; retries; fallbacks in the middle of a transfer |
| **Parameter pack parser** `ftp/param-pack-parser.ts` | none | parse `@PARAM/param.pck` | its `complete` verdict is the callers' guard against truncation |
| **MAVLink log download** `apps/desktop/src/main/mavlink-log/log-download-manager.ts`, its handlers in `main/ipc-handlers.ts` | the current manager; in each: the list's entries, received-chunk map, highest offset, failure counter, one pending resolver, `cancelled` | `requestLogList`, `downloadLog`, `cancel`, `handleMessage` | streamed data without acknowledgement, gaps, timers, cancellation, leftovers of an earlier stream, downloads whose manager is replaced or taken over |
| **os-linkd link service** `apps/os-linkd/src/link-service.ts`, `connections.ts` | saved connections, active and joined ids, master switch, extra links, the transport, the promise of the last `applyLink` run | `setEnabled`, `setActive`, `join`, `leave`, `upsertConnection`, `removeConnection`, `setExtraLinks`, `start`, `stop`, per-second tick | API calls that overlap while the engine restarts; the rule that an armed vehicle's link is not dropped |
| **os-linkd engine process** `engine/engine-process.ts` | links, child process, restart timer | `apply`, `stop`, exit handler | crashes, slow exits, restart timers racing with changes |
| os-linkd engine transport `engine/engine-transport.ts` | socket, wanted, reconnect timer | open, close, reconnect | reconnect timer racing with close and open |
| **os-linkd parameter fetcher and cache** `param-fetcher.ts`, `param-cache.ts` | status, list being filled, abort flag; parameters per vehicle, dirty set, flush timer | `fetch`, `abort`, `handlePacket`; `replaceAll`, `applyValue`, `flush` | abort during a download, vehicle changed meanwhile, flush at shutdown |
| os-linkd client router, vehicle state, discovery, health, API | client list with last-seen times; vehicle and fleet records | fan-out, eviction, heartbeat timeouts | limits and timeouts |
| **Desktop parameter session** `main/ipc-handlers.ts` | expected count, received map, stall timer, recovery flags, the focused vehicle | request via cache, FTP or list; gap recovery; set | stall timer, late values, overlapping requests, a focus that moves meanwhile |
| **Desktop missions** `main/ipc-handlers.ts` | one upload and one download state with their timers | upload (to the primary vehicle or one of the fleet), download, clear; the same for fences and rally points | packets that name no transfer, timers that outlive theirs, targets whose link is gone |
| **Desktop FTP slot and file browser handlers** `main/ipc-handlers.ts` | the one `ftpClient` slot replies are routed to | list, read, write, delete | handlers that overlap save and restore the slot |
| Desktop connections `main/connection/*`, `link-liveness.ts`, `heartbeat-watchdog.ts` | registry of connections, the active one, reconnect target | add, remove, select, reconnect | drop and reconnect races |
| **Desktop MSP** `main/msp/*`, `main/cli/cli-handlers.ts` | pending replies by command code, the mutex chain, config lock counter, settings cache, poll interval, CLI flag | send, lock, read and write settings, start, stop and poll telemetry, enter and leave CLI mode, clean up | replies matched by command only, callers of many kinds on one port, state reset under callers that go on |
| Desktop NTRIP `main/ntrip/*` | socket state, retry timer, RTCM buffer | connect, stop, retry | reconnect with backoff |
| Transports `packages/comms` | sockets, queues | open, write, close | metered UDP queue, otherwise I/O |
| Firmware flashing, calibration, signing, fleet repository, mission library, modules, SITL and simulators, renderer, log parsers, message packages, flight models | | | see [section 6](#6-what-is-not-modelled) |

### 1.2 How the parts interact

```
 renderer --IPC--> desktop main ----------------------+----> transport (serial/TCP/UDP/WS)
                    |  FTP slot -> MAVFTP client ------+            |
                    |  log download manager -----------+            v
                    |  parameter session, missions ----+     flight controller (external)
                    |  MSP requests, telemetry, CLI ---+            ^
 HTTP API --------> os-linkd LinkService                            |
                    |  applyLink -> EngineProcess --spawn--> engine -+
                    |            -> EngineTransport --WebSocket--^
                    |  ParamFetcher -> MAVFTP client -> ParamCache
```

Everything inside one process runs on one JavaScript thread, so the atomic step
of every module is what runs between two `await`s (or in one timer or event
callback). What interleaves with it: packets from the link, timers, exits of
child processes and calls from the UI or the API.

### 1.3 What should hold

* *MAVFTP client*: a download returns the file's bytes or nothing; never zeroes
  for a hole, never another chunk's bytes, never a file shorter than announced;
  it returns unless the packets of one burst never stop. An upload reported as done is on the flight controller.
* *Log download*: an undisturbed list is whole; a download that begins alone has no
  other log's data; what is missing in the data was lost on the link; an undisturbed
  download is whole; every list ends, and every call of `downloadLog` returns that no
  other call overtook.
* *Link service and engine*: at most one engine; once every call is answered the
  engine runs exactly the links of the settings; an armed vehicle's connection
  is not changed; an engine comes back unless its last start failed.
* *MSP*: one request at a time; what is cached under a setting's name is that
  setting's, of this board; stopped telemetry stays stopped; polls pause for config
  commands; every request ends.
* *Missions*: an upload reported complete is on its vehicle, a download shown is the
  vehicle's mission, no transfer hangs.
* *Parameters in os-linkd*: what is stored under a board's id was read from that
  board; a snapshot marked as fetched is whole; every download ends.
* *Parameter session*: the session holds parameters of the vehicles focused since it
  was reset; a list reported complete has all the focused vehicle's, though completion
  is judged by counts; every list download ends.

Where the code keeps such a promise only under a condition, the condition is part of
the property, as a history variable, and the promise without it stands in the module
as a definition of its own ([section 5](#5-where-the-code-and-its-comments-disagree)).

`PROJECT.json` lists the hazards behind these at their source lines, with the
properties that would catch them.

## 2. The modules

| module | models | state |
|---|---|---|
| `FileTransfer` | the abstract specification: what a download promises its caller | 3 variables |
| `FtpDownload` | `MavlinkFtpClient.downloadFile` and the request layer | 11 |
| `FtpDownloadProofs` | theorems about `FtpDownload` | |
| `MCFtpDownload` | the file used by TLC | |
| `FileStore` | the abstract specification: what an upload promises its caller | 2 |
| `FtpUpload` | `MavlinkFtpClient.uploadFile` together with the flight controller's file server | 10 |
| `FtpUploadProofs` | theorems about `FtpUpload` | |
| `LogDownload`, `MCLogDownload` | log lists and downloads, with their managers, together with the flight controller's log streaming | 10 |
| `LogDownloadProofs` | theorems about `LogDownload` | |
| `LinkService` | `LinkService`'s connection operations and `EngineProcess` | 12 |
| `LinkServiceProofs` | theorems about `LinkService` | |
| `MspTransport` | MSP requests and their callers, telemetry, CLI mode, the connection's end and return | 17 |
| `MspTransportProofs` | theorems about `MspTransport` | |
| `Mission` | mission upload, download and clear together with the vehicles' side of the protocol | 11 |
| `MissionProofs` | theorems about `Mission` | |
| `ParamFetch` | os-linkd's `ParamFetcher` and `ParamCache`, and what starts and aborts a fetch | 10 |
| `ParamFetchProofs` | theorems about `ParamFetch` | |
| `ParamSession`, `MCParamSession` | the desktop's parameter session composed with the FTP slot, the file browser and the moving focus; two vehicles for TLC | 19 |
| `ParamSessionProofs` | theorems about `ParamSession` | |

### 2.1 FtpDownload

*Correspondence.* `pc` is the `await` at which `downloadFile` is suspended:
`reset`, `open`, `reopen` (sessions reset inside `openFileRO`), `burst`
(`runBurst`), `patch` (gap reads of `burstDownload`), `read`
(`sequentialDownload`), `terminate`, `done`. Each action is the code from one
`await` to the next; the operators under "Continuations" are the tails such
actions share, down to the next request sent (`SweepNext`, `PatchRound`,
`PatchNext`, `Sequential`, `Terminate`). `buf` is the `DownloadBuffer`: mask and
array in one function from byte index to byte; `declared` is the size
`OpenFileRO` reported; `sweep` and `patch` are the locals of the two loops of
`burstDownload`.

*The link.* A request stays in `link` until `Window` younger requests have been
sent. While it is there it may be answered at any time, any number of times, or
never, which covers loss, duplication, delay and reordering. `Replies` says what
the flight controller may answer. It encodes the two facts the client's own
comments state as its premises: a packet that is short although it is neither at
or past the reported size nor the last of its burst may be anywhere, but a
short packet at or past the reported size, or closing a burst, is the end of the
file; and `Nak EOF` on a read comes only at the end. (A `Nak EOF` on a burst may
come at any time: the client does not trust it.)

*Abstractions.* The retry timer and a send that fails are the same outcome
(`NoReply`). The session id is left out, as the code never compares it. A
packet decoded in the same turn as the one that resolved the request is dropped
by the code; that is a loss. An empty burst packet stores nothing and marks no end, but
re-arms the idle timer like any other. `sweep.heard` says that a packet of the burst
has re-armed it and that the time it was armed for has not begun to pass undisturbed:
`BurstQuiet` is the beginning, `BurstIdle` the timer. A malformed `Open` reply, which
leads to the error exit of `downloadFile`, is left out. One download is modelled.

### 2.2 FileTransfer

Three variables: the bytes `got`, the length `announced`, the `result`. A step
learns more bytes of the source, starts over with nothing, or delivers, once: a
prefix of the source that is complete up to the announced length or the end of
the source. `FtpDownload` implements it with `got` mapped to the buffer's bytes,
`announced` to `declared` and `result` to the result.

### 2.3 FtpUpload

*Correspondence.* `pc` again names the awaited request: `open` and `create` are
the retry loops of `openFileWO` and `createFile`, `reopen` and `recreate` the
session reset inside them, `write` the loop of `writeFileChunk`. `chunk` is
`offset / FTP_WRITE_SIZE`. Unlike `FtpDownload` the other side has state: its
open session and the file, chunk by chunk (`none`, `old`, `zero` for a hole the
file system fills, `new`). `Serve` executes the request at the head of the link
and may or may not have its answer delivered; the flight controller may refuse,
run out of sessions and restart (`Reboot`).

*The link* is a FIFO per direction that loses packets. Order is an assumption;
with it a late request cannot be executed after a younger one. `SeqMod > 2 * MaxRetries`
(65536 against 3 retries) keeps the numbers of the requests that may still be about
apart: at most the retries of two loops.

*FileStore*, the abstract store, has the `file` and what the caller was `told`. A step
empties a file with nothing of the contents in it, writes the first missing chunk, or
tells the caller, once, of a success only when all is written; after a success nothing
changes. `FtpUpload` implements it with `file` mapped to `disk` and `told` to `verdict`.

### 2.4 LogDownload

*Correspondence.* `LOG_LIST_REQUEST` makes a new `LogDownloadManager`, so managers are
numbered: `manager` is the one in `logDownloadManager`, the only one that hears the
flight controller, and `down[m]` the download under way in manager `m`. Its fields are
`logId`, `fileData` and `received` (one function, `file`), `highestOffset`,
`lastAttemptHighest`, `consecutiveFailedBursts` and `burstEndOffset`, in chunks of 90
bytes; instead of its bytes, `file` keeps for each chunk the log it came from. `list`
is `logEntries` while `listResolve` is set, `available` the list the user sees.
`NextBurst` is the head of the outer loop, `AfterBurst` what follows the inner one,
`Chunk`, `Throw`, `ReceiveData` and `Timeout` the ways `waitForData` ends, `Cancel` the
`cancelled` flag with everything it falls through to. A list may be asked for whenever
none is loading, and a download of a listed log started at any time: the log panel's
buttons are disabled during its own downloads, the vibration card's are not. A download
has the number of its `call`. A second one in the same manager takes over the resolver of
the first: the first `call` joins the `forgotten`, which nothing resolves any more, and
its timer goes on as one of the second's. (When the first is at `await sendPacket` at that
moment, it is the one to take the resolver over; one of the two is forgotten either way,
and the model lets it be the earlier.) A download whose manager is replaced goes on with
its timers alone.

The end marker is the empty `LOG_DATA` the flight controller sends at the real end of a
log, which may be before the listed size.

*The link* is a lossy FIFO; the flight controller streams one thing at a time, the list
or a range, and a new request replaces the old. Chunks that the code drops because no
one awaits them (they were decoded in the same turn as the previous one) are losses.

*History variables.* `calm`, of a download, says how undisturbed it was: 0 if packets
or other downloads were about when it began, else 1 if packets were lost since or its
manager was replaced, else 2 if its timer fired, else 3. A list has one too. They only
appear in properties.

*Left out.* Erasing and formatting, which are one command each, the storage query, a
focus that moves to another vehicle, and the save dialog between the click and the
download.

### 2.5 LinkService

*Correspondence.* `settings` is `settingsState`, `known` what the tracker says
of the vehicle, `transport` whether `this.transport` is set, `listeners` the data
listeners on it, `engine` the fields of `EngineProcess`, `procs` the operating
system processes (`running`, or `stopping` after `SIGTERM`). `runs` are the
`applyLink` calls since the service was last idle: `queued` behind `prev`,
`ready` to start, `stopping` (awaiting the old engine's exit), `resumed`, `done`.
`applying` is the run whose promise is in `this.applying`. `Spawn` starts a process, or
finds the binary missing, or is refused by the system: then `engine.failed`, and the child
is none, or a child without a process (`Unborn`), whose exit never comes.

The only `await` of a run that waits for an event is the exit of the old engine.
All others are settled in the same turn, so `ready` and `resumed` runs go before
anything else (`Quiet` in the other actions' guards).

*Calls* that throw or have nothing to do leave the state alone and are no steps.
`UpsertJoin` is the exception: it replaces the connection first and is refused
after, and the model does the same, also when it edits a connection already in use, which
is then neither saved nor applied.

*History variables.* `forked`: a run began while another was at work, because the end of
an earlier one had wiped `this.applying`; from then on nothing is said of the engine.
`unplaced`: a connection in use was edited by such a join
since a run last read the settings.

*Abstractions.* A connection is an id and a revision (everything else in it); the
simulator's links are one link; restart delays have no length. No call is made while more than
`MaxEngines` engine processes are alive. `stop()`, which only the end of the
daemon calls, is left out, as is `onTick`'s reopen: it needs a closed transport with the link enabled for longer than an
engine takes to stop, and `EngineTransport.open` cannot fail.

`Array.prototype.filter` is `Picked`: the items at the positions asked for, in order, by
the `Rank` of each. It says what the recursive `SelectSeq` computes, in a form that can
be reasoned about. `Sorted` of `Mission` likewise states
what sorting by number returns.

### 2.6 MspTransport

*Correspondence.* `req[c]` is a caller's request inside `sendMspRequest` (and its
variants with a payload or for MSPv2): `queued` at `acquireMutex`, `writing`,
`awaiting` its reply, then `resolved` or `rejected` until `Return` releases the mutex
and the caller goes on. The mutex is a chain of promises: `queue` holds the requests
that wait, each with the number of the chain it was appended to, since
`cleanupMspConnection` starts a new chain while requests still wait on the old.
`pending` is `pendingResponses`, keyed by command alone. `op[c]` is the continuation of
the caller, of which there are four kinds: `Editors` (`setSetting`: metadata, then the
write), `Lockers` (`withConfigLock`), `Pollers` (a telemetry poll of `PollLen`
requests) and `Starters` (`startMspTelemetry`: the RX map, then up to `Attempts` times
the box names, then the interval). `op[c].fresh` is the comparison of
`telemetryGeneration`. `lock` is `configLockCount`, `info` the metadata in
`settingsCache`, `wanted` says that telemetry was started since it was last stopped.

Promise continuations run before any other event: `Quiet` guards all actions but
`Microtask`.

*The board* answers, rightly or with an error, or does not, and is silent in CLI mode;
replies arrive in order. A reply carries the setting and the board it is about.
`Cleanup` is the connection lost or closed, `Drop` the transport that closes for a
reboot the application asked for (nothing is cleaned up then), `Connect` the next
detection, of the same board or another.

A cleanup rejects the requests that have an entry (`Expecting`). One whose write is
still pending, or whose entry another request for the same command has replaced, it does
not reach: that one stays in flight on the old chain while the new chain is free.

*History variables.* `late`: a request for metadata was given up since the last cleanup,
so that its reply may still come. `torn`: the last cleanup left a request in flight.
`cut`: a config command was under way at the last cleanup, which sets its lock to 0.

*Left out.* The RC poll, raw RC and the GPS sender (more callers of the same requests),
the requests of the detection, the CLI sessions of servo and motor tuning, payloads.

### 2.7 Mission

*Correspondence.* `up` and `down` are `missionUploadState` and `missionDownloadState`,
`clearing` is `missionClearPending`. A call writes its first packet and awaits the
write (`writes`) before it arms the timer (`Written`), in whatever state is there by
then. A timer of a state that was replaced or emptied without being cleared stays in
`stray` and fires into the next state. `sent` is what the last step reported. Packets
of the primary vehicle are taken whichever vehicle the transfer is with, as its handler
does not compare; those of the fleet's links only when it is with their vehicle.
`Resolve` is `resolveVehicleTarget`, which falls back to the primary when the target's
link is gone.

*The vehicles* run the other side of the protocol (`Outcomes`): they ask for items one
by one, ask again, give up, refuse; a packet may be lost in either direction, `wire` is
a FIFO per vehicle.

*History variable.* `alone`: nothing was under way, or left on a link, when the last
call was made.

*Left out.* Fences and rally points, whose handlers repeat the protocol for the primary
vehicle with states of their own; `MISSION_CURRENT` and `MISSION_SET_CURRENT`.

### 2.8 ParamFetch

*Correspondence.* `job` is the fetch under way: `ftp` (awaiting the MAVFTP download),
`stream` (the list is being sent), `gaps` (rounds of `PARAM_REQUEST_READ`). `job.uid`
is `vehicle.uid` of the vehicle object the fetch was started with, which `Identity`
changes in place. `vehicle` is `tracker.current`, `session` what the service keeps of
it (`shouldFetch`), `cache` the snapshots by uid with, for each parameter, the board its
value was read from. All boards have one system id, so the provisional uid is shared, and
a message of one board is taken (`Taken`) for one of the vehicle the tracker follows,
also when that one is lost and the board was not heard of before (`BoardChanges`).
The MAVFTP download is the abstract one of `FileTransfer`'s kind: it reads, from
whatever board is on the link, and returns or fails. `FtpDownload` shows that it
always does.

*History variables.* `outlived`: a MAVFTP download was under way when its vehicle was
lost or the link was switched; `abort()` does not stop it. `mistaken`: a parameter value,
an identity or a MAVFTP reply was taken for another board's. `vehicle.of` is the board the
vehicle was made for.

*Left out.* Saving the cache and loading it; a board that takes another's place on the
same link before the other was given up as lost.

### 2.9 ParamSession

*Correspondence.* A vehicle has the parameters of its `Table`, so that the index of a
parameter, its name and how many there are differ from vehicle to vehicle. `s` is the
session of module variables: `receivedParams` (for each name the vehicle its value is of),
`receivedParamIndices`, the expected count, which is that of the last value, the
download's `active` flag and timer, the gap round, retries, stalled rounds. `told` is how
the last download was reported. `recoverParamDownload` is called by its timer, by
`setImmediate` (`immediate`) or by a timer whose handle was overwritten (`stray`), and
awaits writes (`resends`, `sending`). `busy` is `paramRequestInFlight`, `slot` is
`ftpClient`, `op` the requests at their awaits: `asked` (the ArduDeck OS cache), `ftp`,
`list` (the first `PARAM_REQUEST_LIST`). A browser operation saves what it finds in
the slot and restores it. Replies go to the client in the slot, whoever asked.

`Boards` are the vehicles that come one after another to the primary connection, with
their `SysId`; every other vehicle has a fleet link. `identity` is `lastFocusedIdentity`:
the registry's key of a vehicle, here the vehicle itself, or the primary's system id.
`Select` is the operator's. When a fleet link closes the focus falls to the primary or
to none at once (`LinkCloses`), and is synchronised only when the link is unregistered
(`Unregister`); the key is `Gone` then. `PrimaryCloses` and `Disconnect` end the primary
connection, whichever vehicle is focused, and only the latter clears the guard and the
slot. `Connect` is the first heartbeat over a new one: the focus is synchronised before
the system id is known, by the key, and not at all if the system id is still the same.

*History variables.* `heard`: the vehicles focused since the session was reset.
`outlived`: the requests that were under way when it was. `leaked`: what was loaded last
is what one of these was answered; a list asked for anew, or another load, ends it.
`unsent`: the list could not be asked for, after which no timer is armed.

*Left out.* `PARAM_SET` and `PARAM_READ_BATCH` (their `PARAM_VALUE` is an ordinary one
here), PX4 decoding, the metadata fetch that waits for an empty slot.

## 3. The runs, bounds and fairness

Passing runs:

| run | shows | bounds |
|---|---|---|
| `FtpDownload` | types; what is returned is the file and not truncated; bursts only sweep forward; `FileTransfer` is implemented; every download returns unless the packets of one burst never stop | a file of 5 distinct bytes read 2 at a time, so 3 packets: a first, an inner and a last, short one; size reports zero, too small, exact and too large; two attempts; 4 requests on the link; sequence numbers modulo 6, so that they wrap |
| `FtpUpload` | types; a reported success is on the controller; chunks land in order; `FileStore` is implemented; every upload returns | 3 chunks over a file of 2, 3 attempts, 3 packets per direction, numbers modulo 7 |
| `LogDownload` | types; undisturbed lists are whole; downloads that begin alone hold their own log; holes come from loss; undisturbed downloads are whole; every list ends, and every call of `downloadLog` that is not overtaken | logs of 5 chunks (three bursts of 2) and of 2 listed, 1 stored; two lists, so two managers; two downloads; two failed bursts; one packet per direction beside what is being streamed |
| `LinkService` | settings well formed; one engine; settings end up applied; an armed vehicle keeps its connection; an engine comes back unless its last start failed | two connections in two revisions, the simulator's link, three calls in flight, none made while two engines are alive |
| `MspTransport` | types; one request in flight, on each chain and in all; cached metadata are the name's and the board's; stopped telemetry stays stopped; config commands pause the polls; every request ends | one editor, two lockers, one poller, one starter; two names; polls and box names of one request; 3 calls; two boards; one reply on the wire |
| `Mission` | types; undisturbed uploads and downloads reported complete are; every transfer ends | the primary and a fleet vehicle; missions of 0 to 2 items; two calls; one packet per link; one repeated request |
| `ParamFetch` | types; snapshots are their board's; fetched ones are whole; every download ends | two boards, three parameters, MAVFTP downloads of one read; one attempt per vehicle, two stalled rounds; two sessions, one change of board, three values |
| `ParamSession` | types; the session's parameters are of vehicles focused since its reset; completed lists are the focused vehicle's, whole; every list download ends | a vehicle with two parameters that comes to the primary connection and a fleet vehicle with one of another name; two requests and a browser operation; one retry, two stalled rounds; two calls, two moves of the focus, two values |

Runs that TLC is expected to refute, one property each: `LogDownloadEverything`,
`LinkServiceOff`, `MissionAccepted`, `ParamSessionDropped`; see section 5.

*Why the bounds are enough.* Every safety property the passing runs check is also proved
for all values of the constants (section 4), so for these the bounds only had to be
large enough to find mistakes in the modules. The liveness properties rest on the runs
alone, and so do the bounds for them. A download distinguishes the first, an inner and the
last packet, sizes below, at and above the truth, and replies to the awaited
request and to older ones; the link window exceeds the number of requests one
phase leaves behind. Sequence numbers are small enough to wrap in every run. An upload needs two
chunks to mix and a third to see order; a log needs more bursts than the allowed
failures, to tell progress from stalling. Three calls in flight are what it takes in
`LinkService` to be forked off the chain; two connections are an active one and one that
is joined or in neither role. In `LogDownload` one chunk on its way and one about to be streamed
are the leftovers a later download meets. In `MspTransport` two lockers overlap on the
counter, a poll and a setting queue behind them, and three calls let a reply that comes
late meet another request for its command. In `Mission` two
calls are what one transfer can have beside it; two items have a first and a last. In
`ParamFetch` two boards take each other's place once, with a switch of the link or without
one (`MaxSwitches`); with three parameters a round of direct reads can bring something,
which starts the count of stalled rounds again, and leave gaps. In `ParamSession` two
requests and a browser operation are what the slot's save and restore need to go wrong;
the two vehicles' tables share no name and no length, so that counts can be reached with
the wrong names. Every counter is bounded by the
code itself (retries, failed bursts, stalled rounds) or by a named constant (`Window`,
`Lists`, `Downloads`, `MaxBatch`, `MaxEngines`, `MaxCalls`, `MaxBoards`, `MaxWire`, `MaxAsks`,
`MaxSessions`, `MaxSwitches`, `MaxValues`, `MaxMoves`).

*Fairness.* Only what the process does on its own is fair: timers that were armed
fire (`Timeout`, `BurstIdle`, `Restart`, `Timers`, `TimerFires`, `DelayOver`,
`Recover`), promise continuations run (`Microtask`), a write settles, well or not
(`WriteDone`, `Written`, `WriteFails`, `Writes`), the OS cache answers or its request
times out and a MAVFTP download returns, which is what `FtpDownload` shows (`Answers`,
`Fetching`), a process told to stop exits, since `SIGTERM` is followed by `SIGKILL`.
No packet, answer or call is fair: the liveness properties hold when every packet is lost.
What they do not cover is a peer that for ever keeps a timer from firing, where the code
arms it again with each packet. In `FtpDownload`, where packets of a burst are not
bounded, `BurstIdle` is enabled only once the time since the last packet has begun to pass
(`BurstQuiet`), so that its fairness demands nothing while they come, and `Returns` names
the exception (`KeptAlive`). In `Mission`, `ParamFetch` and `ParamSession` the packets
that arm a timer again (requests for a mission item, parameter values) are bounded by
`MaxAsks` and `MaxValues`: `Ends` and `Returns` there say what happens once these stop.
In `LogDownload` each chunk arms the wait for the next one, and the flight controller
streams what it was asked for once. In the other modules no packet arms a timer again.

Deadlock is checked in every run but those of `Mission` and `ParamSession`, which come
to rest when the calls the bounds allow are used up; `Finished` and `Rest` are the
steps of a program that has returned.

## 4. What is proved

Every invariant and every action property of the passing runs, and both refinements, are
theorems, for every value of the constants that satisfies the named assumptions of the
module. These give the constants their types, keep names apart, and state what the code or
the protocol fixes (a log stores no more than it lists; `Window <= SeqMod` and
`SeqMod > 2 * MaxRetries`, where `SeqMod` is 65536). No theorem has another hypothesis.
Where the code keeps a promise only as long as something has not happened, the history
variable that says it has is part of the property (section 2), and the modules let it
happen: the theorem then says that nothing else breaks the promise.

### 4.1 FtpDownload

`FtpDownloadProofs` proves, for every file, every set of size reports, every
read size, overrun limit, retry limit, window and sequence modulus that satisfy
`FileAssumption` and `ParameterAssumption`:

| theorem | statement |
|---|---|
| `Invariance` | `Spec => []IInv` |
| `TypeCorrect` | `Spec => []TypeOK` |
| `Faithful` | `Spec => []ResultFaithful` |
| `NotTruncated` | `Spec => []ResultNotTruncated` |
| `Forwards` | `Spec => SweepAdvances` |
| `Refinement` | `Spec => Implements`: `downloadFile` is a `FileTransfer` |

*The argument.* None of these is inductive alone: that the result is right depends
on the buffer being right, which depends on every accepted reply belonging to the
request that is awaited. `IInv` has four parts.

* `LinkInv`: the sequence number of a request on the link is the client's last one
  minus the request's age (`Back`), modulo `SeqMod`; ages are below `Window`, so
  with `Window <= SeqMod` no two numbers agree. The pending number, if any, is
  the last one.
* `AwaitInv`: the youngest request is the one the phase awaits: an open, the read at
  the hole's start, the read at the sequential offset. With `LinkInv` a matching
  reply answers that request and no older one (`MatchesYoungest`).
* `PhaseInv`: the buffer holds only bytes of the file at their own index; an end
  that was marked is not before the reported size or the end of the file,
  whichever comes first; the ranges of a
  round that probes start at or past it; sequential reading has every byte below
  its offset.
* `ResultInv`: what is returned is faithful and not truncated.

Each helper on buffers has a lemma saying it keeps a good buffer good
(`StoreGood`, `MarkEofGood`, `ResultGood`), each continuation one that it ends in a
state of `IInv` (`PatchRoundGood`, `SweepNextGood`, ...), and each action one that it
preserves `IInv`. `Refinement` then needs that a step only adds bytes, starts over, or
delivers, and that announced size and result change once (`StepKeeps`,
`AnnouncedOnce`, `ReturnedOnce`). For `Forwards`, each sweep starts at the first hole at
or past the cursor, which the end of a burst has put past the start of that burst
(`FinishAdvances`).

### 4.2 FtpUpload

`FtpUploadProofs` proves, for contents and an old file of any size, every retry limit,
window and sequence modulus that satisfy `UploadAssumption`:

| theorem | statement |
|---|---|
| `UploadInvariance` | `Spec => []IInv` |
| `UploadTypeCorrect` | `Spec => []TypeOK` |
| `SuccessIsWritten` | `Spec => []UploadFaithful` |
| `PrefixOnly` | `Spec => []WrittenInOrder` |
| `UploadRefinement` | `Spec => Implements`: `uploadFile` is a `FileStore` |

*The argument.* A late acknowledgement must not be taken for that of the next chunk, and
a late request must not spoil a file that is being written. The parts of `IInv`:

* `Types`.
* `Flight`: how many requests ago the packets on the links were sent (their `Age`). Ages
  decrease along each link, replies are older than the requests still on their way, and
  all are within the `Budget` of requests the client can have sent since a reply last
  matched: the attempts of at most two loops. With `SeqMod > 2 * MaxRetries` equal numbers
  then mean the same request, and when a reply matches there is nothing else on either
  link (`FlightMatch`).
* `ClientInv`: the number awaited is the last one, the offset is within the contents,
  there is a verdict only at the end.
* `Cargo`: a `WriteFile` on its way is of the chunk the client is at, and no `CreateFile`
  is about while chunks are written.
* `DownInv`, `DiskInv`: an `Ack` that would match says the truth about the chunk; the
  chunks before the current one are on the controller.

The refinement needs `FreshInv` besides: nothing of the contents is there before the
client writes, and no `CreateFile` is on the link together with a `WriteFile` or once a
chunk may have been written. That a step of the client sends at most one request, and
which, is `ClientStep`; `ServeStores` is the controller's part.

### 4.3 LogDownload

`LogDownloadProofs` proves, for any number of logs of any size, every burst length and
retry limit, links of any length and any number of lists and downloads that satisfy
`LogAssumption`:

| theorem | statement |
|---|---|
| `LogInvariance` | `Spec => []IInv` |
| `LogTypeCorrect` | `Spec => []TypeOK` |
| `OwnChunksOnly` | `Spec => []OwnLog` |
| `NoHoleWithoutLoss` | `Spec => []HolesOnlyFromLoss` |
| `WholeLog` | `Spec => []WholeWhenUndisturbed` |
| `ListComplete` | `Spec => ListWhole` |

*The argument.* What a download holds is right because of what is on the links while it
runs, more so the calmer it is.

* `Types`, `WorldInv`: the packets, requests and ranges being streamed are ones the
  protocol has.
* `Held` says by `calm` what a download's data are: its own log's or nothing (1), without
  a hole up to `highestOffset` (2), with no failed burst (3). `Waits` adds what is true
  while it awaits a chunk.
* `DownInv`: for a download with `calm >= 1`, all chunks about are of its log (`Own`) and
  no other download runs; with `calm >= 2`, the packets on the link, then the range being
  streamed, then the ranges asked for follow on each other and on what has arrived, so
  that none leaves a hole (`Joins`, `Flow`). This survives a range that is asked for again
  while the old one is still arriving.
* `ListInv`: the same for the entries of a calm list (`Listed`, `ListFlow`).
* `ResultGood`: what was returned.

### 4.4 LinkService

`LinkServiceProofs` proves, for every set of connections and revisions, any number of
overlapping changes and of engines:

| theorem | statement |
|---|---|
| `LinkTypeCorrect` | `Spec => []TypeOK` |
| `ArmedKeepsItsLink` | `Spec => ArmedKeepsActive` |
| `LinkInvariance` | `Spec => []IInv` |
| `OneEngineAtATime` | `Spec => []OneEngine` |
| `SettingsApplied` | `Spec => []Applied` |

From the third overlapping call on, one may come after the end of the first run has wiped
`this.applying` while the second is at work: it starts beside it, and both promises are
off. `OneEngine` and `Applied` except what follows (`forked`), and `Applied` an edit that
`join: true` has made and nobody has applied (`unplaced`). The run `LinkServiceOff` shows
what a forked run does; that an unplaced edit is not applied is by reading the code.

*The argument.* `SettingsInv` says that the settings are well formed: the active
connection and the joined ones are saved, no id twice, the active one not joined. That is
about `filter` and about nothing else, so the lemmas on `Picked` carry it: picked items
are those at the positions asked for, in order and once each (`PickedFacts`,
`PlacesCount`), and picking from what was picked is picking from the whole
(`PickedAgain`), so that an edit of a connection in no role changes no link
(`WithKeepsLinks`). For the engine, `RunsInv` says what the runs look like until one is
forked: those before the one at work are done, each of those after it is queued behind
the one before, and `this.applying` is the last of them until the first ends and null
from then on, which is when a call would be forked. `EngineInv` ties
the processes to them: the one alive is the current engine, and then no run has stopped
it, or it is the one a run waits for, or there is none, whether the last spawn failed or not.
`AppliedInv` says that a run in progress has closed the transport and has given the engine
the links it read, which are those of the settings unless another run is queued behind it
or an edit is unplaced.

### 4.5 MspTransport

`MspTransportProofs` proves, for any number of callers of each kind, names, boards,
calls, attempts, poll lengths and replies on the wire that satisfy `MspAssumption` and
`CallersAssumption` (each caller is of one kind, lockers are finitely many):

| theorem | statement |
|---|---|
| `MspInvariance` | `Spec => []IInv` |
| `MspTypeCorrect` | `Spec => []TypeOK` |
| `OneAtATime` | `Spec => []OneInFlight` |
| `NamedInTime` | `Spec => []SettingsNamed` |
| `StopsForGood` | `Spec => []StoppedStays` |
| `PausedForCommands` | `Spec => PollsPause` |

*The argument.* That one request is in flight depends on who may be ahead of whom in the
queue, which depends on what a cleanup leaves there. The parts of `IInv`:

* `Types`, and `CallerInv`: a caller with a request is at that request.
* `QueueInv`, `ChainInv`: a request queues once, and one in flight is before all others of
  its chain, whatever cleanups do.
* `MutexInv`: while there is a connection all queued requests are on the current chain,
  and only the first is in flight; unless the last cleanup left a request in flight
  (`torn`), on a chain no later request waits on. `GoneInv`: without a connection nothing is
  answered, no metadata are cached, and but for such a request none is in flight.
* `PendingInv`: an entry of `pendingResponses` belongs to a request that awaits its
  command, and, unless `torn`, every awaiting request has one. With `MutexInv` the pending caller is
  the first in the queue, so a reply can only reach that one.
* `WireInv`, `InfoInv`: replies are of this board; while no request for metadata was
  given up or left in flight, a metadata reply on the wire or in a resolved request is about the name its
  caller asked for.
* `LockInv`: unless a command was cut off, `lock` is the number of lockers under way,
  stated with `Cardinality`; the polls' guard `lock <= 0` then means there is none.
* `StartInv`: a start-up is fresh only if telemetry is still wanted.

Each action has a lemma that it preserves `IInv`, with one step per part it can disturb;
facts shared by actions that leave the callers or the requests alone are `RequestsKeep`
and its like.

### 4.6 Mission

`MissionProofs` proves, for any fleet, missions of any lengths, any number of calls and
links of any length that satisfy `MissionAssumption`:

| theorem | statement |
|---|---|
| `MissionInvariance` | `Spec => []IInv` |
| `MissionTypeCorrect` | `Spec => []TypeOK` |
| `UploadAsTold` | `Spec => []UploadTold` |
| `DownloadAsTold` | `Spec => []DownloadTold` |

*The argument.* While a transfer is `alone`, nothing goes on at the other vehicles
(`Others`). An upload's vehicle is `Taking` the mission: it has a prefix of it, and the
whole when a positive `MISSION_ACK` is on the wire. A download's vehicle is `Giving`:
counts on the wire are the length of its mission, items on the wire or already gathered
are items of it. Every vehicle is `Sound`, its items numbered from 0; as many items as
the mission has, with different numbers, are then the mission, in the order `Sorted` puts
them (`SortedGood`). `SentInv` is what was just reported.

### 4.7 ParamFetch

`ParamFetchProofs` proves, for any set of boards and any number of parameters, reads,
attempts, rounds, sessions, switches and values that satisfy `FetchAssumption`
and whoever the messages on the link are from:

| theorem | statement |
|---|---|
| `FetchInvariance` | `Spec => []IInv` |
| `FetchTypeCorrect` | `Spec => []TypeOK` |
| `SnapshotsOwn` | `Spec => []CachedOwn` |
| `SnapshotsWhole` | `Spec => []FetchedWhole` |

*The argument.* `LinkInv` says that the connected vehicle is that of the board on the
link, and that a vehicle is known under its own uid or the provisional one until a message
of another board was taken for its; `JobInv`, that a fetch that may still be stored is `OfBoard`: of
the vehicle that is connected, under its uid, with nothing read from another board. It
holds of the streamed list until the fetch is aborted, and of a MAVFTP download, which
`abort()` does not stop, unless it has outlived its vehicle; and of neither once such a
message was taken (`mistaken`).

### 4.8 ParamSession

`ParamSessionProofs` proves, for any sets of vehicles, boards, requests and browsers, any
system ids and tables of parameters, and any number of retries, rounds, calls, moves and
values that satisfy `ParamAssumption`:

| theorem | statement |
|---|---|
| `SessionInvariance` | `Spec => []IInv` |
| `SessionTypeCorrect` | `Spec => []TypeOK` |
| `OwnUnlessOutlived` | `Spec => []SessionOwn` |
| `CompleteIsWhole` | `Spec => Whole` |

*The argument.* The code takes a list for complete when as many names have a value as the
last value said there are, or when no index below the expected count is missing; neither
asks whose names or indices these are. `Held` says when it may: if only one vehicle was
focused since the reset, all indices seen are that vehicle's (`Indexed`), and unless older
values leaked in, so are the names, the count, and there is a value for each index seen
(`Own`). As many of its names as it has parameters are then all of them (`AllNames`), and
so are the names of all its indices. `Sound` of the session: a gap round asks for unseen
indices only. `HeardInv`: the vehicles that requests were sent to or have read from were
all focused since the reset, but for requests under way then. Each action keeps `IInv`,
and only a parameter value or the recovery can report a list as complete (`Complete`).

### 4.9 What is only model-checked

* Liveness under fairness (`Returns`, `Ends`, `Recovers`), which is out of the prover's
  reach, as is `ENABLED`.
* That the four statements of section 5 are false.
* Of the engine once a run was forked, and of the mutex as a whole once a cleanup left a
  request in flight, nothing is claimed: there the promises fail.

Induction over data is out of reach as well, and with it what a recursive operator
computes. The modules avoid it: `filter` is `Picked` and sorting is `Sorted`,
stated by what they return.

## 5. Where the code and its comments disagree

Four statements the repository makes about itself are refuted by what the code
does; `PROJECT.json` has the quotations.

* `GotEverything` (`LogDownloadEverything`): `downloadLog` takes the furthest byte seen
  for the amount of data received, and returns zeroes for a packet lost before it.
* `OffIsOff` (`LinkServiceOff`): the end of any `applyLink` run clears the chain the
  later ones are queued on. With three changes in flight two runs overlap, and
  switching the link off can leave an engine running and the transport open.
* `Accepted` (`MissionAccepted`): the primary vehicle's `MISSION_ACK`, to a clear for
  instance, completes an upload to another vehicle.
* `Dropped` (`ParamSessionDropped`): a parameter request that is answered after the focus
  moved fills the new vehicle's session with the old one's parameters.

The modules state more that a reader might expect and the code does not do. No run
checks these; each is a definition at the end of its module, next to the conditional
property that does hold.

* `FtpUpload`: `UploadReplaces`, an upload replaces a longer file. `uploadFile` tries
  `OpenFileWO`, which does not truncate, before `CreateFile`, which does.
* `LogDownload`: `OneLog`, data never come from another log (`OwnLog` holds);
  `AllReturn`, every call of `downloadLog` returns (`Ends` holds: all but one that another
  call has overtaken in its manager).
* `LinkService`: `ArmedKeepsEngine`, no change stops an armed vehicle's engine
  (`ArmedKeepsActive` holds); and `Applied` without its exception for `unplaced` edits, as
  `upsertConnection` with `join` of a connection in use changes the settings without saving
  or applying them.
* `MspTransport`: `WritesNamed` and `Paused`, which are `SettingsNamed` and `PollsPause`
  without their conditions; `CliExclusive`, nothing is written in CLI mode: a request
  that queued before is; `OneInFlight` without its exception for `torn`.
* `Mission`: `AllIn`, the items shown are 0, 1, 2 and so on, also when downloads
  overlap; `ClearTold`, a mission reported as cleared is.
* `ParamFetch`: `KeyedByBoard`, which is `CachedOwn` without its condition.
* `ParamSession`: `Released`, an unused slot is empty. The doc of `syncVehicleFocus` also
  says that a reconnect of the same vehicle keeps its parameters. After a connection made by
  the user the identity is the registry's key (`Connect`; the focus is synchronised, 5752,
  before the system id is set, 5773), and the next synchronisation, of the same vehicle by
  its system id, finds another identity and resets the session. And `SessionOwn` and `Whole`
  speak of the vehicles `heard`, not of the focused one, as the session is not reset when
  the focus returns from a fleet vehicle to a primary one that is connected again by
  itself, or to a vehicle with the system id of the one before.

## 6. What is not modelled

* *Pure data*: message packages and frame parsers, log parsers, the parameter pack
  parser, signing hash chains, flight models. Their correctness is about bytes and
  numbers, and their tests cover it better than a model would.
* *Pure I/O and process wiring*: transports, firmware flashing, SITL and simulator
  launchers, the companion agent, windows, files, downloads.
* *User interface*: renderer stores and components.
* *Single-request operations* of the FTP client: they add nothing to the request layer.
* *Parts of modelled components*: what sections 2.1 to 2.9 list as left out.
* *os-linkd's engine transport and router, the connection registry, NTRIP and the UDP
  send queue*: they have control state of their own; see the plan.

## 7. Plan

In this order; each step is a module, its run, its properties and their proofs
where they are worth it.

1. `FtpDownload` with `FileTransfer`, checked and proved (done).
2. `FtpUpload`, `LogDownload` with the log list and its managers, `LinkService`, checked
   (done).
3. `MspTransport`, checked and proved (done).
4. `Mission`, `ParamFetch`, `ParamSession` with the FTP slot, checked (done).
5. Proofs of every invariant and action property of the passing runs, and of the
   refinement of `FileStore` by `FtpUpload` (done).
6. The connection registry and reconnect, os-linkd's engine transport and client router,
   fences and rally points, the cache's persistence, NTRIP, the UDP send queue.

Abstract specifications worth stating next to `FileTransfer` and `FileStore`: "the engine
runs the links of the last change" for `LinkService`, a mutex for `MspTransport`, and a
store of whole missions for `Mission`.
