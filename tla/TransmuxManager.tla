-------------------------- MODULE TransmuxManager --------------------------
(***************************************************************************)
(* The live-TV transmux manager (internal/iptv/transmux.go): one ffmpeg    *)
(* process per watched channel, shared by all its viewers, with            *)
(*   - the requests that find or spawn a session and wait for its first    *)
(*     segment (GetOrStart, waitReady), keep it alive (Touch) and register *)
(*     or withdraw a viewer (JoinViewer, LeaveViewer), as the handlers of  *)
(*     internal/api/handlers/iptv/iptv_channels.go call them;              *)
(*   - the two goroutines of each session (processWatcher, readyWatcher);  *)
(*   - the idle reaper and Shutdown, which end sessions from outside;      *)
(*   - the circuit breaker all of them report to, as module BreakerEntry.  *)
(*                                                                         *)
(* An action is a critical section of TransmuxManager.mu or a step that    *)
(* runs outside of it.  A session is a slot of a finite pool; a slot is    *)
(* used again when its goroutines have ended and no request points to it.  *)
(* A client is one mount of a player: it sticks to one channel.            *)
(***************************************************************************)
EXTENDS BreakerEntry, FiniteSets

CONSTANTS
    Channels,          \* channel identifiers
    Slots,             \* sessions that may exist at a time, ended ones too
    Clients,           \* players
    LegacyClients,     \* players that send no viewer id
    None,              \* no session
    MaxSessions,       \* cfg.MaxSessions
    MaxReencode,       \* cfg.MaxReencodeSessions
    ReadyTimeout,      \* cfg.ReadyTimeout, in ticks
    WatchExtra,        \* what readyWatcher waits on top of ReadyTimeout
    IdleTimeout,       \* cfg.IdleTimeout
    GateWired,         \* cfg.Gate is not nil
    ReencodeFallback,  \* reencodeFallbackEnabled()
    StopCalled         \* whether somebody calls Stop: only tests do today

ASSUME TransmuxAssumption ==
    /\ LegacyClients \subseteq Clients
    /\ IsFiniteSet(Channels) /\ Channels # {}
    /\ None \notin Slots \cup Channels
    /\ MaxSessions \in Nat \ {0}
    /\ MaxReencode \in Nat \ {0}
    /\ ReadyTimeout \in Nat \ {0}
    /\ WatchExtra \in Nat
    /\ IdleTimeout \in Nat
    /\ GateWired \in BOOLEAN
    /\ ReencodeFallback \in BOOLEAN
    /\ StopCalled \in BOOLEAN

VARIABLES
    current,   \* m.sessions: channel -> slot, or None
    sess,      \* slot -> session
    decode,    \* m.decodeMode: channel -> the mode the next spawn uses
    gate,      \* the breaker's entries: channel -> entry
    client,    \* client -> the handler it has running, and what it watches
    down       \* progress of Shutdown

vars == <<current, sess, decode, gate, client, down>>

StartupDeadline == 2 * ReadyTimeout      \* startupGraceMultiplier
WatchDeadline == ReadyTimeout + WatchExtra

Modes == {"direct", "reencode"}

Session ==
    [ channel   : Channels \cup {None},
      mode      : Modes,
      \* processWatcher; "wait" exactly while ffmpeg runs
      watcher   : {"wait", "failed", "codec", "evict", "finish", "done"},
      \* readyWatcher
      poll      : {"poll", "report", "done"},
      disk      : {"empty", "segment", "gone"},      \* the work directory
      ready     : BOOLEAN,                           \* ready is closed
      outcome   : {"none", "success", "failure"},    \* outcomeOnce
      stopped   : BOOLEAN,
      cancelled : BOOLEAN,                           \* ctx of the process
      \* the call that took the session out of the map and terminates it,
      \* until it is done with it
      ending    : {"no", "startup", "idle", "leave", "shutdown"},
      late      : BOOLEAN,          \* history: started after Shutdown took the map
      viewers   : SUBSET Clients,
      age       : 0..(StartupDeadline + 1),          \* since StartedAt
      idle      : 0..(IdleTimeout + 1) ]             \* since lastTouch

NewSession(c, m, late) ==
    [ channel |-> c, mode |-> m, watcher |-> "wait", poll |-> "poll",
      disk |-> "empty", ready |-> FALSE, outcome |-> "none",
      stopped |-> FALSE, cancelled |-> FALSE, ending |-> "no",
      late |-> late, viewers |-> {}, age |-> 0, idle |-> 0 ]

(* What is left of a session when all that worked on it is done; also a    *)
(* slot that has not been used.                                            *)
EndedSession ==
    [NewSession(None, "direct", FALSE) EXCEPT
        !.watcher = "done", !.poll = "done",
        !.disk = "gone", !.ready = TRUE, !.stopped = TRUE]

Over(r) == r.watcher = "done" /\ r.poll = "done" /\ r.ending = "no"

Settled(r) == IF Over(r) THEN EndedSession ELSE r

(* A session leaves the map, to be ended by the caller or by its watcher.  *)
(* What is read through the map only is reset.                             *)
Removed(r, ending) ==
    [r EXCEPT !.ending = ending, !.age = 0, !.idle = 0, !.viewers = {}]

ClientState ==
    [ \* "mounted": its last manifest request failed; "watching": it
      \* was answered
      pc      : {"idle", "mounted", "mkdir", "lostdir", "capacity", "spawnerr", "wait",
                 "join", "register", "watching"},
      channel : Channels \cup {None},
      slot    : Slots \cup {None},
      left    : BOOLEAN ]              \* its DELETE has been handled

IdleClient == [pc |-> "idle", channel |-> None, slot |-> None, left |-> FALSE]

(* Where a player is when its request is over: gone if it left meanwhile.  *)
Answered(k, pc) ==
    IF k.left THEN IdleClient ELSE [k EXCEPT !.pc = pc, !.slot = None]

TypeOK ==
    /\ current \in [Channels -> Slots \cup {None}]
    /\ sess \in [Slots -> Session]
    /\ decode \in [Channels -> Modes]
    /\ gate \in [Channels -> Entry]
    /\ client \in [Clients -> ClientState]
    /\ down \in {"up", "stopping", "terminating", "down"}

Init ==
    /\ current = [c \in Channels |-> None]
    /\ sess = [s \in Slots |-> EndedSession]
    /\ decode = [c \in Channels |-> "direct"]
    /\ gate = [c \in Channels |-> Absent]
    /\ client = [v \in Clients |-> IdleClient]
    /\ down = "up"

-----------------------------------------------------------------------------
(* m.mu is held across the steps of a spawn only.                          *)
Spawning(v) == client[v].pc \in {"mkdir", "lostdir"}

(* Variant with a bug: the lock is released while ffmpeg is started.       *)
NeverLocked == TRUE

Unlocked == \A v \in Clients : ~Spawning(v)

Active == {c \in Channels : current[c] # None}
Reencoding == {c \in Active : sess[current[c]].mode = "reencode"}

Full == Cardinality(Active) >= MaxSessions
ReencodeFull == Cardinality(Reencoding) >= MaxReencode

InMap(s) == \E c \in Channels : current[c] = s
Live(c) == current[c] # None /\ ~sess[current[c]].stopped
Running(s) == sess[s].watcher = "wait"

(* Nothing refers to the slot any more.                                    *)
Free(s) ==
    /\ Over(sess[s])
    /\ \A v \in Clients : client[v].slot # s

GateAllows(c) == GateWired => Allowed(gate[c])
GateTaken(c) == IF GateWired THEN [gate EXCEPT ![c] = AfterAllow(@)] ELSE gate
GateFailed(c) == IF GateWired THEN [gate EXCEPT ![c] = AfterFailure(@)] ELSE gate
GateSucceeded(c) ==
    IF GateWired THEN [gate EXCEPT ![c] = AfterSuccess(@)] ELSE gate

(* recordFailure and recordSuccess: at most one outcome per session.       *)
Undecided(s) == sess[s].outcome = "none"
FailureOnce(s) == IF Undecided(s) THEN "failure" ELSE sess[s].outcome
GateFailedOnce(s) == IF Undecided(s) THEN GateFailed(sess[s].channel) ELSE gate
SuccessOnce(s) == IF Undecided(s) THEN "success" ELSE sess[s].outcome
GateSucceededOnce(s) ==
    IF Undecided(s) THEN GateSucceeded(sess[s].channel) ELSE gate

(* cleanupWorkDir removes the directory of one spawn, and its parent       *)
(* <CacheDir>/<channel> if that is empty now: also when MkdirAll of a new  *)
(* spawn has just made it and is about to make its own directory in it.    *)
OtherDirs(s) ==
    \E t \in Slots \ {s} : /\ sess[t].channel = sess[s].channel
                           /\ sess[t].disk # "gone"
ClientsAfterCleanup(s) ==
    [v \in Clients |->
        IF client[v].pc = "mkdir" /\ client[v].channel = sess[s].channel
              /\ ~OtherDirs(s)
        THEN [client[v] EXCEPT !.pc = "lostdir"]
        ELSE client[v]]

-----------------------------------------------------------------------------
(* Requests.                                                               *)

(* GetOrStart up to the spawn: one critical section, which goes on into    *)
(* Spawn with the lock held when there is a session to start.              *)
Requesting(pc, c, s) == [pc |-> pc, channel |-> c, slot |-> s, left |-> FALSE]

UseExisting(v, c) ==
    /\ Live(c)
    /\ sess' = [sess EXCEPT ![current[c]].idle = 0]
    /\ client' = [client EXCEPT ![v] = Requesting("wait", c, current[c])]
    /\ UNCHANGED <<gate>>

GateDenied(v, c) ==
    /\ ~Live(c) /\ ~GateAllows(c)
    /\ client' = [client EXCEPT ![v] = Requesting("mounted", c, None)]
    /\ UNCHANGED <<sess, gate>>

Busy(v, c) ==
    /\ ~Live(c) /\ GateAllows(c) /\ Full
    /\ gate' = GateTaken(c)
    /\ client' = [client EXCEPT ![v] = Requesting("mounted", c, None)]
    /\ UNCHANGED <<sess>>

BeginSpawn(v, c) ==
    /\ ~Live(c) /\ GateAllows(c) /\ ~Full
    /\ gate' = GateTaken(c)
    /\ client' = [client EXCEPT ![v] = Requesting("mkdir", c, None)]
    /\ UNCHANGED sess

(* The manager has no closed flag, and cmd/hubplay drains the HTTP server  *)
(* within a budget and goes on when it is used up: a handler may get here  *)
(* whatever Shutdown has done.                                             *)
GetOrStart(v, c) ==
    /\ Unlocked
    /\ UseExisting(v, c) \/ GateDenied(v, c) \/ Busy(v, c) \/ BeginSpawn(v, c)
    /\ UNCHANGED <<current, decode, down>>

(* A player is mounted, with a viewer id nobody has seen; a mounted player *)
(* reloads the manifest.                                                   *)
Mount(v, c) ==
    /\ client[v].pc = "idle"
    /\ \A s \in Slots : InMap(s) => v \notin sess[s].viewers
    /\ GetOrStart(v, c)

Reload(v) ==
    /\ client[v].pc \in {"mounted", "watching"}
    /\ GetOrStart(v, client[v].channel)

(* startLocked.  The re-encode cap is checked after the directory was made. *)
ModeFor(c) == IF ReencodeFallback THEN decode[c] ELSE "direct"

MapTaken == down \in {"terminating", "down"}

Spawn(v) ==
    LET c == client[v].channel
    IN  /\ client[v].pc = "mkdir"
        /\ ModeFor(c) = "reencode" => ~ReencodeFull
        /\ \E s \in Slots :
              /\ Free(s)
              /\ current' = [current EXCEPT ![c] = s]
              /\ sess' = [sess EXCEPT ![s] = NewSession(c, ModeFor(c), MapTaken)]
              /\ client' = [client EXCEPT ![v].pc = "wait", ![v].slot = s]
        /\ UNCHANGED <<decode, gate, down>>

ReencodeDenied(v) ==
    LET c == client[v].channel
    IN  /\ client[v].pc = "mkdir"
        /\ ModeFor(c) = "reencode" /\ ReencodeFull
        /\ client' = [client EXCEPT ![v].pc = "capacity"]
        /\ UNCHANGED <<current, sess, decode, gate, down>>

(* mkdir, pipe or fork failed; the work directory is gone again.           *)
SpawnError(v) ==
    /\ client[v].pc \in {"mkdir", "lostdir"}
    /\ client' = [client EXCEPT ![v].pc = "spawnerr"]
    /\ UNCHANGED <<current, sess, decode, gate, down>>

(* GetOrStart's error path: every failure of startLocked is recorded.      *)
RecordSpawnFailure(v) ==
    /\ client[v].pc \in {"capacity", "spawnerr"}
    /\ gate' = GateFailed(client[v].channel)
    /\ client' = [client EXCEPT ![v] = Answered(@, "mounted")]
    /\ UNCHANGED <<current, sess, decode, down>>

(* waitReady: the three ways out of its select.                            *)
AfterServing(v) ==
    IF v \in LegacyClients THEN Answered(client[v], "watching")
    ELSE [client[v] EXCEPT !.pc = "join", !.slot = None]

Serve(v) ==
    LET s == client[v].slot
    IN  /\ client[v].pc = "wait"
        /\ sess[s].ready /\ sess[s].disk = "segment"
        /\ sess' = [sess EXCEPT ![s].idle = 0]     \* lastTouch
        /\ client' = [client EXCEPT ![v] = AfterServing(v)]
        /\ UNCHANGED <<current, decode, gate, down>>

ServeFailed(v) ==
    LET s == client[v].slot
    IN  /\ client[v].pc = "wait"
        /\ sess[s].ready /\ sess[s].disk # "segment"
        /\ client' = [client EXCEPT ![v] = Answered(@, "mounted")]
        /\ UNCHANGED <<current, sess, decode, gate, down>>

(* The wait timed out or the client went away.                             *)
StopWaiting(v) ==
    /\ client[v].pc = "wait"
    /\ client' = [client EXCEPT ![v] = Answered(@, "mounted")]
    /\ UNCHANGED <<current, sess, decode, gate, down>>

(* JoinViewer looks the session up with m.mu, and registers in it with the *)
(* session's own lock: it may have left the map, or lost its place in it   *)
(* to another one, and who is registered then is never read.               *)
JoinViewer(v) ==
    LET s == current[client[v].channel]
    IN  /\ client[v].pc = "join"
        /\ Unlocked
        /\ client' = [client EXCEPT
                        ![v] = IF s = None THEN Answered(@, "watching")
                               ELSE [@ EXCEPT !.pc = "register", !.slot = s]]
        /\ UNCHANGED <<current, sess, decode, gate, down>>

Register(v) ==
    LET s == client[v].slot
    IN  /\ client[v].pc = "register"
        /\ sess' = IF InMap(s) THEN [sess EXCEPT ![s].viewers = @ \cup {v}]
                   ELSE sess
        /\ client' = [client EXCEPT ![v] = Answered(@, "watching")]
        /\ UNCHANGED <<current, decode, gate, down>>

(* HLSSegment: Touch.                                                      *)
Segment(v) ==
    LET c == client[v].channel
    IN  /\ client[v].pc = "watching"
        /\ Unlocked
        /\ Live(c)
        /\ sess' = [sess EXCEPT ![current[c]].idle = 0]
        /\ UNCHANGED <<current, decode, gate, client, down>>

(* LeaveViewer.  The DELETE of a player may be handled while its last      *)
(* manifest request is still running.  A registration between the count of *)
(* the viewers and the removal from the map is one after the removal.      *)
LastViewer(s, v) == sess[s].viewers = {v}

ClientAfterLeave(v) ==
    IF client[v].pc \in {"mounted", "watching"} THEN IdleClient
    ELSE [client[v] EXCEPT !.left = TRUE]

LeaveViewer(v) ==
    LET c == client[v].channel
        s == current[c]
    IN  /\ client[v].pc \in {"mounted", "wait", "join", "register", "watching"}
        /\ v \notin LegacyClients /\ ~client[v].left
        /\ Unlocked
        /\ client' = [client EXCEPT ![v] = ClientAfterLeave(v)]
        /\ IF s # None /\ v \in sess[s].viewers
           THEN IF LastViewer(s, v)
                THEN /\ current' = [current EXCEPT ![c] = None]
                     /\ sess' = [sess EXCEPT ![s] = Removed(@, "leave")]
                ELSE /\ sess' = [sess EXCEPT ![s].viewers = @ \ {v}]
                     /\ UNCHANGED current
           ELSE UNCHANGED <<current, sess>>
        /\ UNCHANGED <<decode, gate, down>>

(* Stop, which goes on like the leave of a last viewer.                    *)
Stop(c) ==
    /\ StopCalled
    /\ current[c] # None
    /\ Unlocked
    /\ current' = [current EXCEPT ![c] = None]
    /\ sess' = [sess EXCEPT ![current[c]] = Removed(@, "leave")]
    /\ UNCHANGED <<decode, gate, client, down>>

(* A player goes away and its DELETE is lost, or it never had an id.       *)
Vanish(v) ==
    /\ client[v].pc \in {"mounted", "watching"}
    /\ client' = [client EXCEPT ![v] = IdleClient]
    /\ UNCHANGED <<current, sess, decode, gate, down>>

-----------------------------------------------------------------------------
(* ffmpeg and the two goroutines of its session.                           *)
WriteSegment(s) ==
    /\ Running(s) /\ sess[s].disk = "empty"
    /\ sess' = [sess EXCEPT ![s].disk = "segment"]
    /\ UNCHANGED <<current, decode, gate, client, down>>

(* The process ends, by itself or killed by its context, and               *)
(* processWatcher reads whether the session was ready.                     *)
Exit(s) ==
    /\ Running(s)
    /\ \E next \in {"failed", "codec", "evict"} :
          /\ next = "evict" => sess[s].ready \/ ~sess[s].cancelled
          /\ next # "evict" => ~sess[s].ready
          /\ next = "codec" => sess[s].mode = "direct" /\ ReencodeFallback
          /\ sess' = [sess EXCEPT ![s].watcher = next]
    /\ UNCHANGED <<current, decode, gate, client, down>>

(* Exit before the first segment: a failure, and a codec error in direct   *)
(* mode makes the next spawn re-encode.                                    *)
RecordExit(s) ==
    LET c == sess[s].channel
    IN  /\ sess[s].watcher \in {"failed", "codec"}
        /\ gate' = GateFailedOnce(s)
        /\ sess' = [sess EXCEPT ![s].outcome = FailureOnce(s),
                                ![s].watcher = "evict"]
        /\ decode' = IF sess[s].watcher = "codec"
                     THEN [decode EXCEPT ![c] = "reencode"] ELSE decode
        /\ UNCHANGED <<current, client, down>>

(* evict: the session leaves the map, unless a later one took its place.   *)
(* Variants with a bug: the session that took its place is removed; the    *)
(* session stays in the map.                                               *)
EvictedWhoever(s, c) == current[c] # None
EvictedNever(s, c) == FALSE

Evicted(s, c) == current[c] = s

Evict(s) ==
    LET c == sess[s].channel
        ended == [sess[s] EXCEPT !.watcher = "finish"]
    IN  /\ sess[s].watcher = "evict"
        /\ Unlocked
        /\ IF Evicted(s, c)
           THEN /\ current' = [current EXCEPT ![c] = None]
                /\ sess' = [sess EXCEPT ![s] = Removed(ended, "no")]
           ELSE /\ sess' = [sess EXCEPT ![s] = ended]
                /\ UNCHANGED current
        /\ UNCHANGED <<decode, gate, client, down>>

(* Closing done also makes readyWatcher return, unless it has just seen a  *)
(* segment.                                                                *)
Finish(s) ==
    LET polled == IF sess[s].poll = "report" THEN "report" ELSE "done"
    IN  /\ sess[s].watcher = "finish"
        /\ sess' = [sess EXCEPT ![s] =
                       Settled([@ EXCEPT !.stopped = TRUE, !.disk = "gone",
                                         !.ready = TRUE, !.watcher = "done",
                                         !.poll = polled])]
        /\ client' = ClientsAfterCleanup(s)
        /\ UNCHANGED <<current, decode, gate, down>>

(* readyWatcher notices the first segment.                                 *)
SeeSegment(s) ==
    /\ sess[s].poll = "poll" /\ sess[s].disk = "segment"
    /\ sess[s].age <= WatchDeadline
    /\ sess' = [sess EXCEPT ![s].ready = TRUE, ![s].poll = "report",
                            ![s].age = 0]
    /\ UNCHANGED <<current, decode, gate, client, down>>

ReportReady(s) ==
    /\ sess[s].poll = "report"
    /\ gate' = GateSucceededOnce(s)
    /\ sess' = [sess EXCEPT ![s] =
                   Settled([@ EXCEPT !.outcome = SuccessOnce(s), !.poll = "done"])]
    /\ UNCHANGED <<current, decode, client, down>>

(* It gives up when its deadline fires.                                    *)
StopPolling(s) ==
    /\ sess[s].poll = "poll" /\ sess[s].age >= WatchDeadline
    /\ sess' = [sess EXCEPT ![s] = Settled([@ EXCEPT !.poll = "done"])]
    /\ UNCHANGED <<current, decode, gate, client, down>>

-----------------------------------------------------------------------------
(* The reaper.  One sweep takes its victims out of the map and then ends   *)
(* them one after the other; there is no other sweep before it is done.    *)
Reaped == {"startup", "idle"}
(* Variant with a bug: nobody waits for a sweep under way.                 *)
ReaperNeverBusy == FALSE

ReaperBusy == \E s \in Slots : sess[s].ending \in Reaped

(* Variants with a bug: the sweep skips sessions that are not ready; it    *)
(* trusts the registered viewers to leave.                                 *)
NeverStuck(s) == FALSE
IdleAndEmpty(s) ==
    sess[s].ready /\ sess[s].idle > IdleTimeout /\ sess[s].viewers = {}

StuckInStartup(s) == ~sess[s].ready /\ sess[s].age > StartupDeadline
IdleTooLong(s) == sess[s].ready /\ sess[s].idle > IdleTimeout

Reap ==
    LET stuck == {s \in Slots : InMap(s) /\ StuckInStartup(s)}
        unused == {s \in Slots : InMap(s) /\ IdleTooLong(s)}
    IN  /\ down = "up" /\ ~ReaperBusy
        /\ Unlocked
        /\ stuck \cup unused # {}
        /\ current' = [c \in Channels |-> IF current[c] \in stuck \cup unused
                                          THEN None ELSE current[c]]
        /\ sess' = [s \in Slots |->
                       CASE s \in stuck  -> Removed(sess[s], "startup")
                         [] s \in unused -> Removed(sess[s], "idle")
                         [] OTHER        -> sess[s]]
        /\ UNCHANGED <<decode, gate, client, down>>

(* Sessions that one goroutine ends, one after the other.                  *)
Together(s, t) ==
    \/ sess[s].ending \in Reaped /\ sess[t].ending \in Reaped
    \/ sess[s].ending = "shutdown" /\ sess[t].ending = "shutdown"

(* terminate, first half: whoever flips stopped cancels the process; if    *)
(* the watcher was faster there is nothing to do.  A session stuck in      *)
(* startup is recorded as a failure just before.                           *)
BeginTerminate(s) ==
    LET startup == sess[s].ending = "startup"
        decided == [sess[s] EXCEPT !.outcome = IF startup THEN FailureOnce(s)
                                               ELSE @]
    IN  /\ sess[s].ending # "no" /\ ~sess[s].cancelled
        /\ \A t \in Slots : Together(s, t) => ~sess[t].cancelled
        /\ gate' = IF startup THEN GateFailedOnce(s) ELSE gate
        /\ sess' = [sess EXCEPT ![s] =
                       IF @.stopped
                       THEN Settled([decided EXCEPT !.ending = "no"])
                       ELSE [decided EXCEPT !.stopped = TRUE,
                                            !.cancelled = TRUE]]
        /\ UNCHANGED <<current, decode, client, down>>

(* Variant with a bug of the second half: no bound on the wait.            *)
EndTerminateAfterExit(s) ==
    /\ sess[s].ending # "no" /\ sess[s].cancelled
    /\ sess[s].watcher = "done"
    /\ sess' = [sess EXCEPT ![s] =
                   Settled([@ EXCEPT !.ending = "no", !.disk = "gone"])]
    /\ UNCHANGED <<current, decode, gate, client, down>>

(* Second half: done is closed, or five seconds have passed.               *)
EndTerminate(s) ==
    /\ sess[s].ending # "no" /\ sess[s].cancelled
    /\ sess' = [sess EXCEPT ![s] =
                   Settled([@ EXCEPT !.ending = "no", !.disk = "gone"])]
    /\ client' = ClientsAfterCleanup(s)
    /\ UNCHANGED <<current, decode, gate, down>>

(* Shutdown: stop the reaper and wait for its sweep, take every session    *)
(* out of the map, end them one after the other.                           *)
ShutdownBegin ==
    /\ down = "up"
    /\ down' = "stopping"
    /\ UNCHANGED <<current, sess, decode, gate, client>>

ShutdownTakeAll ==
    /\ down = "stopping" /\ ~ReaperBusy
    /\ Unlocked
    /\ current' = [c \in Channels |-> None]
    /\ sess' = [s \in Slots |-> IF InMap(s)
                                THEN Removed(sess[s], "shutdown")
                                ELSE sess[s]]
    /\ down' = "terminating"
    /\ UNCHANGED <<decode, gate, client>>

ShutdownReturn ==
    /\ down = "terminating"
    /\ \A s \in Slots : sess[s].ending # "shutdown"
    /\ down' = "down"
    /\ UNCHANGED <<current, sess, decode, gate, client>>

-----------------------------------------------------------------------------
(* The clock.  Only the ages of sessions in the map matter.                *)
(* Variant with a bug: the age of a stuck session grows past any bound.    *)
AgedUncapped(s) ==
    LET r == sess[s]
    IN  [r EXCEPT !.age  = IF ~r.ready THEN r.age + 1 ELSE r.age,
                  !.idle = IF r.idle <= IdleTimeout THEN r.idle + 1 ELSE r.idle]

Aged(s) ==
    LET r == sess[s]
        starting == ~r.ready /\ r.age <= StartupDeadline
    IN  [r EXCEPT !.age  = IF starting THEN r.age + 1 ELSE r.age,
                  !.idle = IF r.idle <= IdleTimeout THEN r.idle + 1 ELSE r.idle]

Tick ==
    /\ sess' = [s \in Slots |-> IF InMap(s) THEN Aged(s) ELSE sess[s]]
    /\ gate' = [c \in Channels |-> Older(gate[c])]
    /\ UNCHANGED <<current, decode, client, down>>

(* decodeModeFallbackTTL, an hour, runs out at some moment.                *)
ExpireFallback(c) ==
    /\ decode[c] = "reencode"
    /\ decode' = [decode EXCEPT ![c] = "direct"]
    /\ UNCHANGED <<current, sess, gate, client, down>>

-----------------------------------------------------------------------------
Request(v) ==
    \/ \E c \in Channels : Mount(v, c)
    \/ Reload(v)
    \/ Segment(v)
    \/ LeaveViewer(v)
    \/ Vanish(v)

(* What a handler goes on to do once it was called.                        *)
SpawnSteps(v) ==
    Spawn(v) \/ ReencodeDenied(v) \/ SpawnError(v) \/ RecordSpawnFailure(v)

Handler(v) ==
    SpawnSteps(v) \/ Serve(v) \/ ServeFailed(v) \/ StopWaiting(v)
    \/ JoinViewer(v) \/ Register(v)

Watchers(s) ==
    \/ RecordExit(s) \/ Evict(s) \/ Finish(s)
    \/ SeeSegment(s) \/ ReportReady(s) \/ StopPolling(s)

Terminate(s) == BeginTerminate(s) \/ EndTerminate(s)

ShutdownSteps == ShutdownTakeAll \/ ShutdownReturn

Next ==
    \/ \E v \in Clients : Request(v) \/ Handler(v)
    \/ \E s \in Slots : WriteSegment(s) \/ Exit(s) \/ Watchers(s) \/ Terminate(s)
    \/ Reap
    \/ ShutdownBegin \/ ShutdownSteps
    \/ Tick
    \/ \E c \in Channels : ExpireFallback(c) \/ Stop(c)

Spec == Init /\ [][Next]_vars

(* Goroutines go on, and the clock.  Players, ffmpeg and the shutdown      *)
(* signal owe nothing.  A goroutine that waits for m.mu gets it: the mutex *)
(* is handed to a waiter that has starved for a millisecond.               *)
Fairness ==
    /\ WF_vars(Tick)
    /\ SF_vars(Reap)
    /\ SF_vars(ShutdownTakeAll) /\ WF_vars(ShutdownReturn)
    /\ \A v \in Clients : WF_vars(SpawnSteps(v))
    /\ \A s \in Slots : /\ WF_vars(RecordExit(s) \/ Finish(s))
                        /\ SF_vars(Evict(s))
                        /\ WF_vars(Terminate(s))

FairSpec == Spec /\ Fairness

-----------------------------------------------------------------------------
(* Properties.                                                             *)

(* A channel's entry in m.sessions is a session of that channel that       *)
(* nobody is ending: GetOrStart and Touch never hand out a session whose   *)
(* process is being killed or whose directory is gone.                     *)
MapHoldsLiveSessions ==
    \A c \in Channels : current[c] # None =>
        LET r == sess[current[c]]
        IN  /\ r.channel = c
            /\ ~r.stopped /\ ~r.cancelled /\ r.ending = "no"
            /\ r.watcher \notin {"finish", "done"}
            /\ r.disk # "gone"

(* An ffmpeg that runs can be found and stopped: it is in the map, or      *)
(* somebody who took it out is about to cancel it, or it was cancelled.    *)
(* That is what the identity check of evict and spawning with the lock     *)
(* held are for.                                                           *)
NoOrphanProcess ==
    \A s \in Slots : Running(s) =>
        InMap(s) \/ sess[s].ending # "no" \/ sess[s].cancelled

(* What the checks of GetOrStart found still holds when the process has    *)
(* started: the channel has no session, there is a slot for one, and no    *)
(* other request is starting one.                                          *)
SpawnExclusive ==
    \A v \in Clients : Spawning(v) =>
        /\ current[client[v].channel] = None
        /\ Cardinality(Active) < MaxSessions
        /\ \A w \in Clients : Spawning(w) => w = v

(* MaxSessions and MaxReencodeSessions, counted as GetOrStart and          *)
(* startLocked count them: sessions in the map.                            *)
CapsRespected ==
    /\ Cardinality(Active) <= MaxSessions
    /\ Cardinality(Reencoding) <= MaxReencode

(* When Shutdown has returned, every process was told to stop, but for one *)
(* that a leaving viewer's request still has to terminate and those that   *)
(* late handlers started after it took the map; and there is nothing else  *)
(* in the map.                                                             *)
ShutdownStopsAll ==
    down = "down" =>
        /\ \A c \in Active : sess[current[c]].late
        /\ \A s \in Slots : Running(s) =>
              sess[s].cancelled \/ sess[s].ending = "leave" \/ sess[s].late

(* A spawn that the breaker was told is a failure serves nobody: its       *)
(* process has ended or was cancelled, and it is out of the map or about   *)
(* to be evicted.  The reaper decides that a spawn is stuck, the watcher   *)
(* that it died, while readyWatcher may be seeing its first segment.       *)
ChargedSpawnsEnd ==
    \A s \in Slots : sess[s].outcome = "failure" =>
        /\ Running(s) => sess[s].cancelled
        /\ InMap(s) => sess[s].watcher = "evict"

(* A channel nobody has mounted any more loses its session, whatever       *)
(* became of the viewers' DELETEs: the slot is not kept for ever, unless   *)
(* Shutdown has stopped the reaper.                                        *)
UnwatchedSessionsEnd ==
    \A c \in Channels :
        []<>(\/ current[c] = None \/ \E v \in Clients : client[v].channel = c
             \/ down # "up")

(* A spawn that produces no segment loses its slot, though the process     *)
(* stays alive (startupGraceMultiplier), as long as the reaper runs.       *)
StuckSpawnsEnd ==
    \A c \in Channels :
        []<>(current[c] = None \/ sess[current[c]].ready \/ down # "up")

(* Shutdown returns, though an ffmpeg may not die.                         *)
ShutdownReturns == (down = "stopping") ~> (down = "down")

(* Whatever becomes of the spawns it let through, the breaker lets a       *)
(* channel be tried again: a trial that a full manager refused or whose    *)
(* ffmpeg left without an error is never reported, and is forfeited.       *)
NeverLockedOut == \A c \in Channels : []<>GateAllows(c)
=============================================================================
