# HubPlay in TLA+

HubPlay is a self-hosted media server written in Go: it serves a library of
films and series, transcoding on demand with ffmpeg, live TV from IPTV
playlists, torrents as streams, uploads, and federates with other HubPlay
servers.  This directory holds TLA+ models of the parts where things happen
concurrently, TLC configurations that check them on small instances, and proofs
that TLAPS checks for every instance.

    tlasany M.tla                                parse a module
    tlc -config X.cfg M                          check a model
    tlapm M.tla                                  check the proofs of a module

Paths are relative to `src/internal/` unless they start with `src/`.

## 1. Inventory

State, operations, interactions and what is hard, for each component.
"Correct when" is what its model shows.

### Live TV (`iptv/`)

**Circuit breaker** (`circuit_breaker.go`).  State: channel -> entry (state,
failures, cooldown, opening time, last change, trial in flight), under one
mutex.  Operations: Allow, RecordSuccess, RecordFailure, Prune.  Called by the
stream proxy and the transmux manager, which share one breaker.  Hard: outcomes
arrive at any time after Allow, out of order, or never.  Correct when: trials
are spaced, failures are not forgotten, late outcomes do not stretch a cooldown,
no channel is locked out.  *Modelled: `ChannelBreaker`.*

**Stream proxy** (`proxy.go`).  State: relays, upstream pins.  Operations:
ProxyStream with retries, ProxyURL.  Reports one failure for each request and a
success for each connection.  *Partly: as a caller of the breaker.*

**Transmux manager** (`transmux.go`).  State: channel -> session (one ffmpeg),
channel -> decode mode; each session has a work directory, viewers, a last touch
and the channels `ready` and `done`.  Operations: GetOrStart, Touch, JoinViewer,
LeaveViewer, Stop, Shutdown; goroutines: processWatcher and readyWatcher of each
session, reapLoop.  Calls the breaker; called by the HLS handlers.  Hard: five
parties may end a session, its replacement may start meanwhile, three clocks run
for a spawn, viewers' messages are lost or overtake each other.  Correct when:
nobody is handed a dying session, no process is forgotten, caps hold, a spawn
charged as a failure serves nobody, unused and stuck sessions end. *Modelled:
`TransmuxManager`.*

**Refresh and scheduler** (`service_m3u.go`, `service_epg.go`, `scheduler.go`,
`service.go`).  State: a slot for each library, channels and programmes in the
database.  Operations: RefreshM3U, RefreshEPG, SpawnBackground, Shutdown.  Hard:
the database is read minutes before it is written; three kinds of caller meet;
background work meets Shutdown.  Correct when: one refresh for each library, no
programmes of replaced channels, nothing written after Shutdown.  *Partly:
`IptvRefresh`.*

**Prober worker** (`prober_worker.go`, `health_ops.go`): one loop, and counters
that are single statements.  **Playlist and guide parsers** (`m3u.go`,
`xmltv.go`, `matcher.go`): pure text processing.  *Not modelled.*

### On-demand streaming

**Stream manager** (`stream/manager.go`, `transcode.go`).  State: key -> session
(ffmpeg, position, last access), starts in flight.  Operations: StartSession
(collapsed by key), RestartSessionAt (seek), StopSession, StopSessionsByItem,
idle clean-up, Shutdown; an early-exit watcher for each start.  Hard: a seek
replaces the process of a session that may leave the map meanwhile; the watcher
stops by key; starts register long after Shutdown's sweep.  Correct when: one
process writes for a session, none is forgotten, requests return, unused
sessions end.  *Modelled: `StreamManager`.*

**Torrent manager** (`torrentstream/manager.go`, `download.go`).  State: torrents
with a count of holders, sessions, aliases by source, downloads.  Hard: the last
release drops the torrent outside the lock while it is acquired again.  Correct
when: the count is exact, aliases lead to sessions in the map, scratch data goes
with the last holder unless its removal fails.
*Partly: `TorrentManager`.*

**VOD transmux of torrents** (`torrentstream/vodtransmux.go`).  State: info hash
-> session or placeholder, readers.  Hard: Stop knows only the info hash; a
placeholder is stopped during its probe.  Correct when: no ffmpeg is forgotten
but by that path, a failed start leaves no session, waiters get an answer.
*Modelled: `VODTransmux`.*

**Trickplay previews** (`api/handlers/media/item_trickplay_handler.go`,
`imaging/trickplay.go`).  State: files of an item, a lock for each item, slots.
Hard: ffmpeg writes in place, restarts and upgrades keep the files.  Correct
when: what counts as fresh is whole, one generation for each item.  *Modelled:
`Trickplay`.*

### Accounts (`auth/`)

**Sessions** (`login_service.go`, `issuer.go`, `session_service.go`,
`account_service.go`).  State: session rows with the current and the previous
refresh hash.  Operations: login, refresh with rotation and reuse detection,
logout, revocation, password reset, cleaner.  Hard: each statement is a
transaction of its own, and the failure of some is only logged.  Correct when: the
cap is exceeded only by logins that overlap and by evictions that failed, a revoked
session stays revoked, a replayed token ends its session unless a statement of its
own request fails.
*Modelled: `AuthSessions`.*

**Device-code login** (`device.go`), **key store** (`keystore.go`), **login rate
limiter** (`ratelimit.go`).  Hard: polls and approvals race expiry and each
other; rotations work on a cache that others replace; the failure window and the
lockout are two clocks.  Correct when: a code logs one user in; there is always
a key to sign with; a locked key stays locked and guesses are bounded.
*Modelled: `DeviceCode`, `KeyStore`, `RateLimiter`.*

### Uploads (`upload/`)

**Service, staging, garbage collector.** State: bytes reserved for each user,
staged files, library files.  Operations: PreCreate, rollback, Finish, Aborted,
sweep.  Hard: exactly one of several calls may release a reservation, a restart
leaves none to do it, a release may fail; the target is looked at long before
the move.  Correct when: the account is exact up to the known leaks, no file is
overwritten. *Modelled: `UploadService`.*

### Library (`library/`, `scanner/`)

**Watcher, service, scanner, scheduler.**  State: watched directories, timers,
items, files.  Hard: directories appear faster than they are watched, events are
dropped, watches are refused, files change during the walk, a request during a scan
is refused.  Correct when: every directory of a watched library has a watch, or an
event or a walk that will give it one, or is below one that was refused; and a scan
leaves the catalogue as the disk was, but for the files it failed on.  *Watcher:
`LibraryWatcher`; scan: partly, `LibraryScan`.*

### Federation (`federation/`)

**Pairing** (`manager_pairing.go`).  Two servers agree over unreliable HTTP.
Hard: answers and callbacks are lost or overtake each other, both admins act at
once, requests expire.  Correct when: one decision for a request, an acceptance
is one on both servers, the sender is never paired alone.  *Partly:
`FederationPairing`; pairing by invite code is not modelled.*

**Streams and audit** (`stream.go`, `audit.go`).  Hard: admission long before
registration; Close against a queue.  Correct when: the excess over the cap is
bounded, nothing queued is lost by Close.  *Partly: `PeerStreams`.*

**Nonce cache and rate limit of peers** (`nonce.go`, `ratelimit.go`): structures
under one mutex each.  *Not modelled.*

### The rest

**Event bus** (`event/bus.go`): one goroutine for each handler and event; it
promises no order.  **Process lifecycle** (`src/cmd/hubplay`): workers, HTTP
server, services, database, in that order; an assumption of the models.  HTTP
routing, database queries, users, providers, images, notifications, audit,
retention, set-up, configuration, observability and segment detection keep no
concurrent state of their own, or only the database's.  The web client is the
environment of the models.  *Not modelled.*

## 2. Plan

| Step | Modules | State |
| --- | --- | --- |
| 1 | `BreakerEntry`, `FastFailGate` (abstract), `ChannelBreaker`, proofs | done |
| 2 | `TransmuxManager` over `BreakerEntry`, proofs of types and safety | done |
| 3 | `StreamManager`, proofs of types and all its safety properties | done |
| 4 | `AuthSessions`, `DeviceCode`, `KeyStore`, `RateLimiter` | done |
| 5 | `TorrentManager`, `VODTransmux`, `Trickplay` with proofs | done |
| 6 | `UploadService` with restarts | done |
| 7 | `FederationPairing`, `PeerStreams` with proofs | done |
| 8 | `LibraryWatcher`, `LibraryScan`, `IptvRefresh` with proofs | done |
| 9 | action properties of the breaker, proved | done |
| 10 | theorems about every safety property of `control`: accounts, pairing, streams | done |
| 11 | theorems about every safety property of `services`: torrents, uploads, library | done |
| 12 | the statements, removals, releases and watches that may fail, in accounts, torrents, uploads and library, with the proofs carried over | done |
| 13 | `OneTranscoder` and `NeverOverwritten` restated so that they hold, and proved | next |

## 3. Modules

| Module | Contents |
| --- | --- |
| `BreakerEntry` | what each method of the breaker does to one entry, as operators without state; used by both state machines |
| `FastFailGate` | abstract gate: passing, cooling, leased |
| `ChannelBreaker` | the breaker under concurrent callers |
| `TransmuxManager` | the transmux manager with its breaker |
| `StreamManager` | the on-demand stream manager |
| `AuthSessions`, `KeyStore`, `RateLimiter`, `DeviceCode` | the four parts of `auth/` with state |
| `FederationPairing`, `PeerStreams` | two servers that pair; a peer's streams and the audit queue |
| `TorrentManager`, `VODTransmux` | torrents and their holders; the transcoder of one torrent |
| `UploadService` | uploads of one user, from reservation to library |
| `LibraryWatcher`, `LibraryScan` | one library: the watcher over its directory tree; the scan over its files |
| `IptvRefresh`, `Trickplay` | refreshes of live TV libraries; previews |
| `BreakerEntryProofs`, `ChannelBreakerProofs` | entry lemmas; types, spacing of trials, refinement |
| `TransmuxManagerProofs`, `TransmuxSafetyProofs` | types; the inductive invariant and the safety theorems |
| `StreamManagerProofs` | the inductive invariant and every safety property of the stream manager |
| `AuthProofs` | the four parts of `auth/`: inductive invariants and everything `control` checks of them |
| `FederationProofs` | pairing and streams of a peer; then `control` as a whole |
| `Services` | the seven services next to each other, with their constants and what is assumed of them |
| `ServicesProofs` | refreshes, previews, watcher, scan, uploads, torrents and their transcoder; then the seven together |
| `MCChannelBreaker`, `MCTransmuxManager`, `MCStreamManager`, `MCServices` | constants, symmetry and scenarios for TLC |
| `MCControl` | the parts of `auth/` and of the federation next to each other (section 4), with their constants |

In every module an action is one critical section, one SQL statement or
transaction, one call to another machine or the file system, or one step of a
goroutine between two of them.  A definition called "Variant with a bug" is used
by no action: it is what a plausible mistake in the definition below it would
be, and the property of section 4 that it breaks shows that the property looks
at that code.

### 3.1 The breaker

An entry is a record of the fields of `breakerEntry`; "absent" is a missing map
key.  Instants are ages in ticks that saturate above the largest value any guard
compares them with.  Every method runs under `channelBreaker.mu`, so it is one
step.  A caller is one upstream attempt of either plane:

| Action | Code (`iptv/`) |
| --- | --- |
| `Admit` | Allow returning true: `circuit_breaker.go` 103-147, called at `proxy.go` 309, 760, `transmux.go` 495 |
| `Succeed` | RecordSuccess, from reportOutcome (`proxy.go` 215), ProxyURL (815) or recordSuccess; a stream may go on and report again |
| `Fail` | RecordFailure, once for a request after its retries (`proxy.go` 367, 377, 798) |
| `Leave` | the attempt ends without a report: client gone (`proxy.go` 222-226), refused after Allow |
| `Prune` | 263-273 |
| `Tick` | the injected clock |

An empty channel id, which every method ignores, is not a channel.

### 3.2 The transmux manager

A session is a slot of a finite pool.  A slot is taken again when both goroutines
of its session have ended and no request points to it, so slots stand for an
unbounded sequence of sessions.

| Model | Code |
| --- | --- |
| `current`, `decode` | `m.sessions`, `m.decodeMode` |
| `sess[s].watcher` | where processWatcher is: waiting for ffmpeg, recording a failure (and a codec error), evicting, finishing |
| `sess[s].poll` | where readyWatcher is |
| `sess[s].ready`, `outcome`, `stopped`, `cancelled` | `ready` closed, `outcomeOnce` used, `stopped`, the context cancelled |
| `sess[s].ending` | the party that took the session out of the map and terminates it |
| `sess[s].disk` | the work directory: empty, with a segment, removed |
| `sess[s].age`, `idle` | now - StartedAt, now - lastTouch, saturated |
| `client[v]` | one mount of a player: the handler it has running and what it watches |
| `down` | progress of Shutdown |

A step is one critical section of `m.mu`, or one step of a goroutine outside of
it.  The lock is held from GetOrStart's check through startLocked: `BeginSpawn`
and `Spawn` are separate steps because the file system is shared with clean-ups
that run without the lock, and `Unlocked` keeps every other critical section out
in between.

| Actions | Code (`transmux.go`) |
| --- | --- |
| `Mount`, `Reload` -> `UseExisting`, `GateDenied`, `Busy`, `BeginSpawn` | GetOrStart 484-511 |
| `Spawn`, `ReencodeDenied`, `SpawnError`, `RecordSpawnFailure` | startLocked 580-724, error path 513-527 |
| `Serve`, `ServeFailed`, `StopWaiting` | the three branches of waitReady 843-865 |
| `JoinViewer`, `Register` | JoinViewer: the look-up under the lock (905-907), the registration after it (911-916) |
| `Segment`, `LeaveViewer`, `Stop` | 871-880, 923-951, 884-895 |
| `Vanish` | a player that goes away and whose DELETE is lost |
| `WriteSegment`, `Exit` | ffmpeg; cmd.Wait returns, `isReady` is read (738-760) |
| `RecordExit`, `Evict`, `Finish` | 761-787, the locked half of evict, the rest with the deferred close |
| `SeeSegment`, `ReportReady`, `StopPolling` | readyWatcher 809-830 |
| `Reap` | the locked half of reapOnce |
| `BeginTerminate`, `EndTerminate` | recordFailure and terminate of one victim, before and after its wait |
| `ShutdownBegin`, `ShutdownTakeAll`, `ShutdownReturn` | Shutdown 1026-1047 |
| `Tick`, `ExpireFallback` | the clock; the hour of decodeModeFallbackTTL |

Abstractions worth knowing:

- ffmpeg writes a segment, exits with or without an error, or does neither for
  ever.  Once a segment is there it stays until the directory is removed.
- The wait of a request times out at any moment (`StopWaiting`), and so may the
  five seconds of terminate (`EndTerminate`); only the two deadlines that the
  code compares with each other, readyWatcher's and the reaper's, are in ticks.
  `WatchExtra` is the five seconds readyWatcher waits on top of ReadyTimeout.
- A registration with a session that left the map meanwhile changes nothing
  anybody reads, so `Register` leaves such a session alone.
- The HTTP server is drained before Shutdown is called, but within a budget and
  with its error ignored (`src/cmd/hubplay/main.go` 680-696), and GetOrStart does
  not look at whether the manager was shut down.  A handler may therefore come at
  any time, and start a session in the map that Shutdown has taken.  `late` marks
  these sessions: nothing ends them but the exit of their ffmpeg or a leave.
- MkdirAll makes `<CacheDir>/<channel>` and then the spawn's own directory.
  Between the two, a clean-up of an earlier spawn of that channel may find the
  parent empty (`ClientsAfterCleanup`).

Not part of the model: the stderr ring, ffmpeg's arguments, metrics, the health
reporter's UPDATE, the SSRF check before the lock, and the empty directory that
`ReencodeDenied` leaves behind (610).  The last one keeps the parent directory
from being empty, so it makes one race less likely and none more.

### 3.3 The stream manager

| Model | Code (`stream/`) |
| --- | --- |
| `sessions`, `sess` | `m.sessions`; ManagedSession, as a slot of a finite pool |
| `sess[s].stage`, `owner` | in the map, or taken out by `owner`, whose Session.Stop is about to cancel or is waiting |
| `sess[s].lock`, `watch`, `idle` | `restartMu`; where watchEarlyExit is; now - LastAccessed > IdleTimeout |
| `proc` | an ffmpeg: running, dead, its context cancelled |
| `dir` | the directory of a key: none, without a segment, with one |
| `flight` | `startGroup`: who leads the start of a key |
| `down` | progress of Shutdown |

| Actions | Code |
| --- | --- |
| `Start`, `Admit`, `StopNext`, `StopsDone`, `Spawn`, `Register` | StartSession 294-312, startSessionSlow, stopSiblingSessions, checkSessionCaps, Transcoder.Start, spawnTranscodeSession |
| `Seek`, `Lock`, `Respawn`, `Reattach`, `Kill` | RestartSessionAt 686-754, reattachRestartedSession |
| `StopItem`, `BeginStop`, `EndStop` | StopSessionsByItem, StopSession, Session.Stop |
| `WatchExit`, `WatchLook`, `WatchStop`, `StopWatching` | watchEarlyExit, reapDeadStart |
| `Idle`, `Reap` | the clock, cleanupIdle |
| `ShutdownBegin`, `ShutdownSweep`, `ShutdownReturn` | Shutdown |
| `Write`, `Exit` | ffmpeg |

- Clocks are choices: a wait may time out, a seek may be coalesced or refused by
  its rate limit, the window of the watcher may be over, at any moment.
- Direct play and errors of a leader return at once; requests that follow such a
  flight would only return with it, so the model leaves no flight behind.
- A freed slot whose `restartMu` a request still waits for is a session without a
  process: the request takes the lock, spawns, and finds the session gone.
- The watcher is "off" from when it can only find that the session has changed.

### 3.4 Accounts

Every SQL statement is a step.  `AuthSessions`: `rows` is the table, a set of
rows; tokens are numbers in the order in which they are minted, so that "comes
back" can be told from "is new", and a row's token orders it by last activity
too: the two statements that write one are the two that set `last_active_at`.
`Count`, `DeleteOldest`, `Create` are the three statements of `issue`; `Find`,
`FindReused`, `DeleteFound`, `Rotate` those of RefreshToken.  Any of them may
fail, or the request end before it: `Abandon`, which of a refresh that was
looking for a reused session, or deleting it, leaves that session alive
(`unrevoked` counts these); an eviction that fails does not keep `issue` from
inserting (`EvictionFails`, counted by `unevicted`).  Logout, revocation,
password reset and the cleaner are one statement each, whose failure is no step.
`KeyStore`: the cache is replaced by `Store` with what `ListActive` and
`ListAll` read before, so two calls may leave a stale one; `Restart` loses the
callers.  `RateLimiter`: one key, with the attempts that are past the look at
the lock.  `DeviceCode`: one code; `Read` decides what a poll does, `Touch`,
`Issue`, `Consume` are its later statements.  A touch may fail unnoticed, and so
may the consumption, or the process end before it (`NotConsumed`, counted by
`unconsumed`): the code then stays approved.

### 3.5 Federation

`FederationPairing`: two servers, a set of calls between them that are lost by
never being received, and `Handlers` handlers of each server at a time.  `Send`,
`Persist`, `Answer` are the sender's half of SendPairingRequest and the answer
to it; `ReceiveRequest`, `Store` the receiver's; `Decide`, `ReceiveOther` begin
a decision or a callback, and `Mark`, `InsertPeer`, `SetCache` are the
statements that follow; what refreshPeerCache read (`ListPeers`) may be old when
it is kept.  The partial unique index over pending requests is in `Taken`.
`PeerStreams`: one peer, its requests between AdmitPeerStream and
RegisterPeerStreamSession, and the auditor's queue (an entry is recorded,
dropped, taken into a batch, written).

### 3.6 Torrents and previews

`TorrentManager`: a torrent is an object of the client library, alive until
somebody drops it; a task that holds a dead one goes on with it.  GetOrStart is
`Lookup` and `Touch` where the source has a session (the lock is given up in
between, so that a session may be handed out that the reaper has just taken), else
`Begin`, `Add`, `Acquire`, `Stream` or `NoInfo`.  `Release` is the locked half of
release, `DropLast` the drop, `RemoveLast` the removal of the scratch directory;
`ReleaseReaped`, `DropReaped`, `RemoveReaped` are the same for the reaper.  `Fetch`
is the client writing to that directory, for anybody who has the live object.  A
removal may fail, or be skipped because the name was read before there was one
(275): `leaked` has the torrents whose last removal did not happen.
`VODTransmux`: one info hash; Prepare is `Prepare`,
`Probe`, `Mkdir`, `StartFFmpeg`, `Fill`, `FirstSegment` or `NoSegment`, `Publish`,
and Stop is `Take`, `Kill`, `Clean` for each of its callers.  The reaper only
takes decided sessions: the default idle timeout of five minutes is longer than
a probe and a first segment can take.  `Trickplay`: `Look`, `Try`, `Recheck` are
ensureTrickplay up to its goroutine (`Recheck` with its three ways out: fresh by
now, nothing to generate, generate), the others the goroutine and GenerateTrickplay;
`Restart` and `Upgrade` keep the files.  A sprite carries no version: what is whole
but was made by another version counts as whole.

### 3.7 Uploads

`UploadService`: an upload goes from `PreCreate` over `Complete` through the
phases of Finish (`Validate`, `Look`, `Check`, then `Rename` or `Copy` and
`CopyEnd`), each of which may fail.  `Terminate` is the tus library deleting the
blob, at any time the blob is there, after a failure of the pipeline too; `Aborted`
the reaction of the service; `Sweep` the garbage collector; `Crash` a restart.  Each
release, of the pipeline and of `Aborted`, may fail, and the reservation is
"leaked" then.  `crossed` remembers that an upload was terminated whose pipeline
releases it too, `xdev` says that staging and library are different file systems.

### 3.8 Library

`LibraryWatcher`: `dirs` is the truth, `kernel` the watches that exist,
`watched` the map of the watcher, which are not the same: a directory that is
removed loses its watch, its path stays in the map.  A walk (`tree`), of
reconcile or of an event, goes directory by directory while others appear and
go: `Subscribe` asks for the watch, which may be refused, `Entries` reads the
directory, if it can.  `spared` collects what the watcher then does not promise
to cover: directories whose watch or entries were refused, whose creation the
kernel's queue dropped or that could not be looked at when its event came, and
those that were removed while they were watched.  Left out: reconcile when the
library cannot be listed, which changes nothing until the next tick; and
watch.Remove, which fails only for a watch that is gone already.  The timer's
request is `Fire`; what becomes of it belongs to the scan.

`LibraryScan`: `disk` is the truth.  A scan lists the known items, walks the files
one by one, and marks those it did not meet; it is asked for at any time, by whom
does not matter.  The listing may fail, which ends the scan, and so may each file's
probing and writing or its marking, after which the scan goes on.  `moved` collects
the files that changed, or failed, since it began.

### 3.9 Refreshes

`IptvRefresh`: a channel is its library's generation, since an import gives every
channel a new id.  A run is `Read`, `Fetch`, then `Replace` (and
`KeepDiscovered`) of an import, or `ReplaceGuide` for one library after the other
of a guide.  "tx", "found" and "write" are the places where a transaction may be
open when the context is cancelled.  The address of a library's guide is not kept:
an admin edits it at any time, so `Read` and `Replace` find any value there.

## 4. What TLC checks

| Run | Instance | Shows |
| --- | --- | --- |
| `breaker` | 1 channel, 3 callers, threshold 2, cooldowns 2, 4, 5 | spacing of trials, no failure forgotten, the abstract gate, no lock-out |
| `transmux_sessions` | 2 channels, 2 slots, 1 registered viewer, cap 1, no gate | live map, no orphan, charged spawns are over, complete shutdown |
| `transmux_viewers` | 1 channel, 1 slot, 2 registered viewers, Stop called | exclusive spawn, liveness of sessions and Shutdown |
| `transmux_gate` | 2 channels, 1 slot, 1 client without an id, gate | no lock-out |
| `transmux_capacity` | 3 channels, 3 slots, 2 clients without an id, caps 2 and 1, both decode modes | both caps |
| `stream` | 2 variants of an item, 2 requests, 2 sessions, 2 processes, cap 1 | the map, no orphan, one writer, Shutdown |
| `stream_live` | the same, without Shutdown, segments and deaths found by the watcher | requests return, idle sessions end |
| `control` | one of six parts: 2 logins or refreshes, cap 1, 4 tokens, 1 failed eviction and 1 failed revocation; 2 admin calls, 4 keys; 3 attempts; 2 polls, 2 users, 1 failed consumption; 2 servers with 2 handlers, 2 requests; 3 items, 2 requests, queue of 2 | each part's safety |
| `services` | one of seven parts: 2 torrents, 3 sources, 2 tasks; 2 plays, 2 sessions; 3 uploads of one name, quota 2; 3 nested directories, queue of 2; 2 files with 2 contents; 2 libraries, 2 tasks, 1 import each; 2 items, 2 requests | each part's safety |

`control` and `services` put components that share no state next to each other.
A behaviour chooses one of them (`focus`) and only that one moves, so the states
add up instead of multiplying, and nothing is lost: steps of different components
commute and no property relates two of them (`ControlCorrect` and
`ServicesCorrect` prove it: every behaviour of the whole is one of each part).
`MCControl` extends `PeerStreams` and `Services` extends `IptvRefresh` and
`Trickplay` (whose `PreviewsInit`, `PreviewsNext`, `PreviewsSpec` and
`PreviewsTypeOK` are prefixed for that reason); the other parts are instances,
and `TorrentsSafe` is `Torrent!TorrentsSafe`.  The components' properties are
conjunctions of named parts, defined and explained in their modules:

| Property | Parts |
| --- | --- |
| `SessionsSafe` | the excess over the session cap is bounded by the overlapping logins and the failed evictions; revoked sessions stay so; a reused token ends its session unless a statement of that refresh failed |
| `CanSign` | table and cache always have an active key |
| `LimiterSafe` | failures that count together are bounded; a locked key stays locked until its lockout or its window is over, or a success |
| `DeviceSafe` | one approver; at most as many tokens as overlapping polls and failed consumptions |
| `PairingSafe` | accepted here means accepted there; the sender is never the only one paired; one decision for a request |
| `PeerStreamsSafe` | streams bounded by the cap and overlapping requests; Close loses nothing queued |
| `TorrentsSafe` | exact count of holders; aliases lead to sessions; the cap; no scratch data without a holder unless its removal failed |
| `PlaysSafe` | an ffmpeg outside the map was stopped; a session in the map is decided or being decided; waiters get an answer |
| `QuotaExact` | the account is the uploads in progress, the accepted and the known leaks; it is too low at most, and only after a termination that crossed a pipeline or followed its failure |
| `CopyNeverOverwrites` | an accepted upload stays, where the library is another file system |
| `DirsCovered` | a directory of a watched library has a watch, or an event or a walk that leads to one, but below a spared directory |
| `ScanCatchesUp` | what did not change, and did not fail, during a scan is in the catalogue as on disk |
| `RefreshSafe` | one refresh for each library; no programmes of replaced channels; nothing written after Shutdown |
| `PreviewsSafe` | fresh means whole; one owner of an item's lock |

The bounds.  Entries of different channels never interact, so one channel is
enough for the breaker; three callers are the least for a late failure, a late
success and a trial at once; the cooldowns 2, 4, 5 are the initial, the doubled
and the clamped one.  In the transmux manager two slots are the least for a
session to be replaced while it is ending, two channels for the cap to refuse
one of them, two viewers for one to leave while the other watches.  One tick for
ReadyTimeout and zero ticks for IdleTimeout keep the order of all deadlines
(request, watcher, reaper) and nothing else.  Two clients, three channels and
caps of two and one let spawns overlap that would together exceed either cap;
`transmux_capacity` leaves out segments, the clock, the reaper and Shutdown
(`CapacitySpec`): it is about spawns and exits.

In the stream manager two sessions are the least for an old one and its
successor, two requests for a seek to meet a start or a stop, besides the
watcher, the clean-up and Shutdown.  A behaviour is in one of two scenarios:
everything on one variant, or starts and stops of both without seeks.  Two
logins with cap 1 are the least that overlap; two admin calls let a rotation
meet another or a prune; four tokens are a session that is rotated twice next to
another one.  Two handlers of each server let an admin's decision meet the
callback or cancel of the other; two requests let one be repeated after a lost
answer.  Three uploads of one name, with the sizes 1, 1, 2 and quota 2, do not all
fit; one suffix is one collision.  Three nested directories are "mkdir -p"; a
queue of two overflows.  Two libraries are one that imports while the guide of
the other covers its channels.

`MaxFaults` is 1: one failure of each kind that the accounts count.  Failures that
nobody counts (a release, a removal, a watch, an entry) may happen at every step.

Symmetry is used in runs without liveness only, over channels, slots, clients of one
kind, requests, processes, handlers, servers, tasks, sources of one torrent and
uploads of one size, none of which a definition tells apart.
In `control` and `services`, whose parts never meet, one permutation swaps the values
of several parts at once.

Deadlock is checked except in `control` and `services`: uploads, imports and
tokens run out there, and the parts have nothing else to do.

Liveness holds under these assumptions:

- The clock advances (`WF(Tick)`).
- A goroutine that can go on does: a spawn under way, the watcher after ffmpeg
  has exited, terminate, Session.Stop, Shutdown.
- A goroutine that waits for a mutex gets it: strong fairness of `Evict`, of
  `Reap` and of `ShutdownTakeAll` in the transmux manager, of a handler's steps
  in the stream manager (where a handler may wait for `restartMu`, and for a
  free element of the model's pools, which the code does not have).  Go's mutex
  is handed to a waiter that has starved for a millisecond, and the tickers fire
  for ever.
- A session is reaped only while there is a reaper: `UnwatchedSessionsEnd` and
  `StuckSpawnsEnd` say nothing once Shutdown has begun.
- In the stream manager a process that was cancelled dies (`Exit` of a cancelled
  one): its context kills it.
- Nothing else is assumed of players, of ffmpeg (it need not exit, nor write) or
  of callers of the breaker: none has to report.

## 5. Where comments and code differ

Each of these is a run that TLC ends with a counterexample.

| Run | What the repository says | What happens |
| --- | --- | --- |
| `stream_seek` | a seek cancels the old process; "eso no es una muerte" (`stream/manager.go` 637-639) | the watcher that wakes up before the new process is attached stops the session |
| `vod_single` | the placeholder guarantees a single ffmpeg for an info hash (`torrentstream/vodtransmux.go` 226-228) | stopped during its probe, it starts its ffmpeg next to its successor's |
| `upload_overwrite` | without the client's word a file is never overwritten, not by a race (`upload/service.go` 266-269) | two uploads look for a free name, then both rename |

Others were met while modelling.  The models contain these behaviours, and the
properties of section 4 hold with them.

Live TV.
- Nobody calls Prune, so idle closed entries stay (`circuit_breaker.go` 54-57).
- A segment after readyWatcher's deadline is never noticed: the session is reaped
  as stuck and charged to the breaker (`transmux.go` 818, 858, 1067).
- A clean-up may remove the parent directory between the two mkdirs of a new
  spawn's MkdirAll (581-584, 1200).
- A refusal for lack of a re-encode slot counts as an upstream failure (525); an
  ffmpeg that ends with status 0 before its first segment counts as nothing (793).
- The leave of the last registered viewer ends the session of a client without an
  id (944; `api/handlers/iptv/iptv_channels.go` 394-396).
- Any late failure re-opens a half-open breaker, and may meet an open one
  (`circuit_breaker.go` 175-177, 224-226); Shutdown waits five seconds for each
  process (`transmux.go` 1025).
- A handler that outlives the drain of the HTTP server spawns an ffmpeg after
  Shutdown took the map, and nobody stops it (`transmux.go` 484-511, 1037;
  `src/cmd/hubplay/main.go` 680-696).

Streaming.
- Starts of different keys that overlap all pass the session cap
  (`stream/manager.go` 378); a start that overlaps Shutdown leaves its process
  running (933).
- The loser of a seek removes the directory that a newer session of the key is
  writing to (782).
- A torrent that is dropped while it is acquired again leaves its new holder with
  a dead object; a download of it ends only with Close
  (`torrentstream/manager.go` 274, `download.go` 204).
- A session that the reaper takes between GetActive and touch is handed out
  (`torrentstream/manager.go` 178-181); a last release that read the name before
  the metadata came removes nothing (261, 275).

Accounts and federation.
- Two refreshes with one token both rotate; the loser's token is the current one,
  and the winner's is unknown at its next use (`auth/login_service.go` 250).
- Rotate retires one key, the primary of its cache, where its comment says "every
  previously-active key" (`auth/keystore.go` 182).
- The second of two users who approve a code at the same time is told that it
  worked (`auth/device.go` 186).
- AdmitPeerStream's "one extra session" is one for each overlapping request but
  one (`federation/stream.go` 24-27).
- What is only logged: an eviction that fails (`auth/issuer.go` 71), so that the
  sessions beyond the cap add up; the deletion of a reused token's session, or the
  look-up for it (`auth/login_service.go` 172-178), so that it lives on; the
  consumption of a device code (`auth/device.go` 306), so that its next poll gets
  another token.
- A callback that arrives before the sender has stored its request is refused and
  not sent again (`federation/manager_pairing.go` 181).

Uploads and library.
- PreCreateRollback is said to be idempotent, but releases at every call; a
  termination during the pipeline, or after it failed, releases twice
  (`upload/service.go` 242-245, 477).  A release that fails is not repeated (341).
- A directory whose watch is refused is tried again only when it is created anew or
  its library changes (`library/watcher.go` 289, 337, 429); a mark that fails is made by the next
  scan (`scanner/scanner.go` 211-228).
- A path that was removed and created again is in `watchedRoots` already and gets
  no watch (`library/watcher.go` 426).

## 6. What is proved

For every value of the constants that satisfies the assumptions named here (TLC
evaluates those that are ASSUMEd).  The code's values satisfy them.

**Breaker.**  `TypeCorrect`, `SpacedTrials`, `FailuresMatter`, `ImplementsGate`.
`BreakerEntryProofs` has one lemma for each entry operator: it keeps `EntryOK`,
the well-formed entries.  The inductive invariant of `ChannelBreakerProofs` is
`TypeOK`, `EntriesOK` and `ProbeAgeOK`.  The last part is what makes the spacing
inductive: a half-open entry's last trial is at least as old as its reservation,
an open entry's at least as old as its opening, and a cooldown is no shorter than
a trial's lease (`TrialTimeout <= InitialCooldown`, 30 s each in the code, and
the theorem needs it).  The refinement maps state and RetryAfter to the abstract
gate's mode and wait; each method is one abstract step or none.  `FailuresMatter`
rests on `CountKept`: no method but RecordSuccess lowers the count of a well-formed
entry.

**Transmux manager.** `TransmuxManagerProofs!TypeCorrect`: types and the shape
of a client in each of its phases.  `TransmuxSafetyProofs`: `LiveMap`, `NoLeak`,
`OneSpawn`, `Capped`, `ShutdownComplete`, `ChargedAreOver`.  The inductive
invariant `IInv` consists of

- `TypeInv`, the types;
- `Core`: the map holds live sessions, no orphans, one spawn whose checks still
  hold, both caps, charged spawns that are over, and `StopsCancel`: a session
  that somebody stopped while its process runs was cancelled.  The last one is
  why terminate may return early when `stopped` is set: without it, a session
  marked by one party could be skipped by the party that was to cancel it;
- `PhasesOK`: what the progress of Shutdown means: once the map was taken, what
  is in it was started by late handlers, and no sweep is under way; when
  Shutdown has returned it has nothing left to end.

Most actions touch one session, and most of those keep what others rely on of
it.  `Keeps(s, r, inMap)` says that, and three lemmas (`KeptOne`, `KeptAll`,
`KeptRemoved`) turn it into the invariant; the proof of each action shows that
its session is kept.  `SpawnInv` is the exception, the one step that makes
something live: it rests on `SpawnExclusive`, which rests on the lock.

**Stream manager** (`StreamAssumption`; nothing about the sizes of the pools).
`TypeCorrect`, `MapIsExact`, `NothingOrphaned`, `WritersExclusive`,
`LateStartsOnly`: all that the run `stream` checks.  The inductive invariant
`IInv` of `StreamManagerProofs` adds to types and locks:

- `MapOK` and `LeadsOK`: what the map names is live, and the key of a flight is
  not in the map, because only the leader of that flight may register there;
- `RequestsOK` and `SeeksOK`: a seek holds its session's lock, and until it
  attaches its process the one that it cancelled is the session's.  With the lock
  this is why attaching a process never orphans another;
- `Unique`: no process is in two hands;
- `SweptOK`: what is live after Shutdown's sweep was registered after it.

Most steps start no process and change of a session only what nobody relies on.
`CalmStep` proves the invariant once for all of them, with the set of sessions
that leave the map as its parameter; the steps that start, attach or stop a
process have lemmas of their own.  `OneWriter` follows because a process that
writes a directory and is not leaving is the map's, or being attached to what the
map names (whose process is then cancelled), or the flight leader's (and then the
map names none).

**Accounts** (`AuthProofs`; `ControlAssumption`: finite sets of concurrent
requests, limits that are numbers and at least 1 where the code's are).

- `LimiterCorrect`.  A record without a lock has fewer failures than lock it
  (`LimiterInv`), so each attempt that is past the look adds at most one.  That
  a lock ends only with its lockout, its window or a success is an action
  property.
- `DeviceCorrect`.  A token is issued before the code is consumed: until it is,
  each token belongs to a poll that is about to consume it or failed to,
  afterwards only the polls that read the code before can get one (`DeviceInv`).
- `SigningCorrect`.  `Rotate` inserts its key before it retires one: the table
  has more active keys than there are rotations about to retire one
  (`SigningInv`); whatever a reload reads of this, it reads an active key.
- `SessionsCorrect`.  `RowsInv`: a token belongs to one row, as its current or
  its previous token.  `CallersInv`: a refresh that found a session of its token
  found the only one there is, so that the deletion of a reused token's session
  leaves none.  `Room`: rows and logins about to insert one are fewer than the
  limit, the number of concurrent callers and the failed evictions together,
  because a login evicts before it inserts and reads its count in a statement of
  its own.  `RevokedStaysRevoked` and `ReuseEndsSession` are action properties,
  proved from them step by step.

**Pairing** (`FederationProofs!PairingCorrect`; two servers, and
`NoneAssumption`: no row is the absent one).  The invariant follows an
acceptance: `CallOK` says that the callback of one, while it travels, tells of a
row that the other server's admin accepted and whose peer is stored there;
`TaskOK` says the same of each handler between its statements, and `FreshIds`
that an identifier is not used before it is sent.  An accepted row of a sender is
therefore `Agreed`.  One decision for a request is an action property.

**Streams of a peer** (finite sets, numbers in `Nat`, at least one request).
`StreamsStayBounded`, `CloseFlushes`, `PeerStreamsSafety`.  `ClaimsBounded`
counts a stream from its admission on: `Claimed` is what is registered or about
to be, and an admission adds at most one to less than the cap and the other
requests.  `Accounted` says where an entry is that was queued before Close: in
the queue, in the batch, or written.

`ControlTyped` and `ControlCorrect` are about `ControlSpec` itself: a step of it
is a step or a stutter of each part (`ControlParts`), so the parts' theorems apply.

**Services** (`ServicesAssumption`: finite sets, limits in `Nat`, agents that are
not confused with each other, a root that is its own parent, and directories at
most two deep below it, which is a bound of the model; `AbsentAssumption`: `None`
is neither a session nor an item).

- Refreshes: `RefreshTyped`, `OneRefreshPerLibrary`, `GuideStaysLive`,
  `BackgroundEnds`, and `RefreshSafety`, which is `RefreshSafe`.  `SlotExact` is
  proved as `SlotsHeld`, the same without set builders.  `GuideOfLiveChannels`
  is inductive because a guide is written only for channels that exist when it
  is written.  For the last one `Stillborn` says more: once Shutdown has
  returned, background work that is still spawned is at its first read, where it
  finds its context cancelled.
- Previews: `PreviewsTyped`, with the bound on running ffmpegs, `FreshIsWhole`,
  `OneGeneration`, `PreviewsSafety`.  `WholeBeforeCurrent` is the strengthening:
  while the files of an item are written its manifest is not current, and it
  becomes so over a whole sprite only.  That is where the second look under the
  lock is needed.
- Watcher: `WatchesCover` (`DirsCovered`).  `TreeInv` says where a watch can be
  missing: every directory is `Reached`, by a watch of its own, by an event
  about it or a directory above it that comes from a directory in
  `watchedRoots`, which handleEvent therefore will not ignore, by the walk,
  which has it or a directory above it still to visit or to read, or it is at or
  below a spared one; and a path in `watchedRoots` without a watch is spared,
  for it was removed since.
- Scan: `ScanIsFaithful` (`ScanCatchesUp`).  `ScanInv` is the loop invariant of
  a scan that other actors interrupt: what it has met of the files that did not
  change or fail is up to date, what it has not met does not exist, and only
  known paths can still be marked.
- Uploads: `AccountIsExact` (`QuotaExact`) and `CopiesKeep`
  (`CopyNeverOverwrites`).  A sum over a set is a recursive function, about
  which these provers cannot reason by induction, so the account is the
  cardinality of the disjoint union of the charged uploads' bytes, which is the
  same number; `Reserves` and `Releases` are its two lemmas.  `GoodUpload` says
  that a termination on its way finds a reservation that nobody else will
  release unless one crossed a pipeline: this is why no exit of the pipeline and
  no abort release twice; and that a release never takes off more than is there
  is why the account stays below the charged bytes even then.  `CopiesStay`
  extends the guarantee of an accepted file to the time from the exclusive
  creation on.
- Torrents: `TorrentsCorrect` (`TorrentsSafe`).  The scratch directory is
  written while somebody has the live object, and whoever drops that object goes
  on to remove the directory.  `TorrentInv` adds to its four parts that the
  reaper has one session of a torrent to release at most, and that a task under
  way has a source.  A count is at most `MaxHolders`, the tasks and two, one for the
  session of the map and one for the reaper's.
- Transcoder of a torrent: `PlaysCorrect` (`PlaysSafe`).  `VodInv` says who
  refers to what.  `OneDecider`: one request decides a slot.  `RequestGood`:
  while it starts its ffmpeg, its slot has no watcher and the watcher's Stop has
  not begun.  `StopsInv`: a Stop has a slot from its take to its end, and has
  marked it `stopping` before it cleans up.  `LeftInv`: a slot that left the map
  before its ffmpeg was started is being stopped or was, and a slot that is
  still in the map when its request drops it runs nothing.

`ServicesTyped` and `ServicesCorrect` put them together as for `ControlSpec`.

**Only model-checked**, and why:

- liveness (`NeverLockedOut`, `StuckSpawnsEnd`, `UnwatchedSessionsEnd`,
  `ShutdownReturns`, `RequestsReturn`, `IdleSessionsEnd`): fairness needs ENABLED,
  which the prover does not support;
- the properties of section 5, which do not hold.

Every other property of a passing run is stated by a theorem of this section.
