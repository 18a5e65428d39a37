--------------------------- MODULE StreamManager ---------------------------
(***************************************************************************)
(* The on-demand stream manager (internal/stream/manager.go with the       *)
(* processes of transcode.go): one ffmpeg per session key, where a key is  *)
(* a user, an item and a variant (quality, audio, burnt-in subtitle).      *)
(*   - StartSession, whose slow path is collapsed by singleflight: fetch   *)
(*     and decide, stop the sibling variants, check the caps, spawn,       *)
(*     register;                                                           *)
(*   - RestartSessionAt, the seek: serialised for each session, it cancels *)
(*     the process, spawns one at the offset and attaches it to the        *)
(*     session, unless the session has left the map meanwhile;             *)
(*   - StopSession and StopSessionsByItem, the idle clean-up, Shutdown;    *)
(*   - watchEarlyExit, a goroutine of each start, which takes away a       *)
(*     session whose first process died without a segment.                 *)
(*                                                                         *)
(* An action is a critical section of Manager.mu or a step of a goroutine  *)
(* outside of it.  A session is a slot of a finite pool and a process is   *)
(* an element of another; both are used again when nothing points to them. *)
(* All sessions of a key share one directory, which is named by the key.   *)
(***************************************************************************)
EXTENDS Naturals, FiniteSets

CONSTANTS
    Keys,          \* session keys
    ShowOf,        \* key -> the user and item it belongs to
    UserOf,        \* key -> the user
    Requests,      \* HTTP handlers that may run at a time
    Slots,         \* managed sessions that may exist at a time
    Procs,         \* ffmpeg processes that may exist at a time
    None,
    Copies,        \* what decidePlayback may say: TRUE for a remux
    MaxSessions,   \* cfg.MaxTranscodeSessions; 0 means no limit
    MaxPerUser     \* cfg.MaxTranscodeSessionsPerUser; 0 means no limit

ASSUME StreamAssumption ==
    /\ Keys # {} /\ IsFiniteSet(Keys) /\ IsFiniteSet(Slots)
    /\ Procs # {}
    /\ None \notin Keys \cup Requests \cup Slots \cup Procs
    /\ Copies \subseteq BOOLEAN
    /\ MaxSessions \in Nat /\ MaxPerUser \in Nat

VARIABLES
    sessions,   \* m.sessions: key -> slot, or None
    sess,       \* slot -> managed session
    proc,       \* process -> what it is doing
    dir,        \* key -> the session directory on disk
    flight,     \* startGroup: key -> the request that leads the start, or None
    req,        \* request -> the handler it runs
    down        \* progress of Shutdown

vars == <<sessions, sess, proc, dir, flight, req, down>>

Owners == Requests \cup {"watcher", "reaper", "shutdown"}

Process == [ run : {"none", "running", "dead"}, cancelled : BOOLEAN ]

NoProcess == [run |-> "none", cancelled |-> FALSE]
Running == [run |-> "running", cancelled |-> FALSE]

Session ==
    [ \* "live": in the map; "cancel", "wait": taken out by owner, whose
      \* Session.Stop is about to cancel the process, or waits for it
      stage    : {"free", "live", "cancel", "wait"},
      key      : Keys \cup {None},
      copy     : BOOLEAN,                        \* Decision.CopyVideo
      proc     : Procs \cup {None},              \* ms.Session
      owner    : Owners \cup {None},
      idle     : BOOLEAN,                        \* LastAccessed is too old
      lock     : Requests \cup {None},           \* restartMu
      \* watchEarlyExit: waiting for the first process, which is dead
      \* and the session the same, about to stop the session of the key;
      \* "off" from when it can only find that the session has changed
      watch    : {"off", "wait", "look", "stop"},
      late     : BOOLEAN ]                       \* registered after Shutdown's sweep

FreeSession ==
    [ stage |-> "free", key |-> None, copy |-> FALSE, proc |-> None,
      owner |-> None, idle |-> FALSE, lock |-> None,
      watch |-> "off", late |-> FALSE ]

(* A session that nothing works on any more is forgotten.                  *)
Settled(s) ==
    IF s.stage = "free" /\ s.watch = "off" /\ s.lock = None
    THEN FreeSession ELSE s

WatchOver(s) == Settled([s EXCEPT !.watch = "off"])
Changed(s) == IF s.watch = "wait" THEN WatchOver(s) ELSE s

(* Variant with a bug: restartMu is not released on the way out.           *)
LockKept(s) == s
Unlocked(s) == Settled([s EXCEPT !.lock = None])

Taken(s, o) ==
    [Changed(s) EXCEPT !.stage = "cancel", !.owner = o,
                       !.copy = FALSE, !.idle = FALSE, !.late = FALSE]
Touched(s) == [s EXCEPT !.idle = FALSE]

Request ==
    [ pc   : {"idle", "admit", "follow", "siblings", "spawn", "register",
              "stop", "lock", "drain", "reattach", "kill"},
      key  : Keys \cup {None},
      copy : BOOLEAN,
      todo : SUBSET Keys,                  \* keys whose session is to be stopped
      slot : Slots \cup {None},            \* the session a seek works on
      proc : Procs \cup {None} ]           \* a process that is not attached yet

IdleRequest ==
    [pc |-> "idle", key |-> None, copy |-> FALSE, todo |-> {}, slot |-> None, proc |-> None]

Dirs == {"none", "empty", "segment"}

TypeOK ==
    /\ sessions \in [Keys -> Slots \cup {None}]
    /\ sess \in [Slots -> Session]
    /\ proc \in [Procs -> Process]
    /\ dir \in [Keys -> Dirs]
    /\ flight \in [Keys -> Requests \cup {None}]
    /\ req \in [Requests -> Request]
    /\ down \in {"up", "closing", "stopping", "down"}
    \* restartMu is held by a seek of the session
    /\ \A s \in Slots : sess[s].lock # None =>
          /\ req[sess[s].lock].slot = s
          /\ req[sess[s].lock].pc \in {"drain", "reattach", "kill"}

Init ==
    /\ sessions = [k \in Keys |-> None]
    /\ sess = [s \in Slots |-> FreeSession]
    /\ proc = [p \in Procs |-> NoProcess]
    /\ dir = [k \in Keys |-> "none"]
    /\ flight = [k \in Keys |-> None]
    /\ req = [r \in Requests |-> IdleRequest]
    /\ down = "up"

-----------------------------------------------------------------------------
(* Bounds of the model: a spawn waits for a free process, a registration   *)
(* and a spawn for a free slot.                                            *)
FreshSlots == {s \in Slots : sess[s] = FreeSession /\ \A r \in Requests : req[r].slot # s}

Referenced(p) ==
    \/ \E s \in Slots : sess[s].proc = p
    \/ \E r \in Requests : req[r].proc = p

FreshProcs == {p \in Procs : proc[p].run # "running" /\ ~Referenced(p)}

Mkdir(k) == dir' = [dir EXCEPT ![k] = IF @ = "none" THEN "empty" ELSE @]
RemoveAll(k) == dir' = [dir EXCEPT ![k] = "none"]

Goto(r, pc) == req' = [req EXCEPT ![r].pc = pc]
Return(r) == req' = [req EXCEPT ![r] = IdleRequest]

-----------------------------------------------------------------------------
(* StopSession: whatever session the key names leaves the map, and the     *)
(* caller o goes on to stop it.                                            *)
StopSession(k, o) ==
    IF sessions[k] = None
    THEN UNCHANGED <<sessions, sess>>
    ELSE /\ sessions' = [sessions EXCEPT ![k] = None]
         /\ sess' = [sess EXCEPT ![sessions[k]] = Taken(@, o)]

Stopping(o) == {s \in Slots : sess[s].owner = o}

(* Session.Stop of a session that its owner took out of the map: cancel,   *)
(* wait for the process or for five seconds, remove the directory.  An     *)
(* owner stops its sessions one after the other.                           *)
BeginStop(s) ==
    /\ sess[s].stage = "cancel"
    /\ \A t \in Stopping(sess[s].owner) : sess[t].stage # "wait"
    /\ proc' = [proc EXCEPT ![sess[s].proc].cancelled = TRUE]
    /\ sess' = [sess EXCEPT ![s].stage = "wait"]
    /\ UNCHANGED <<sessions, dir, flight, req, down>>

EndStop(s) ==
    /\ sess[s].stage = "wait"
    /\ RemoveAll(sess[s].key)
    /\ sess' = [sess EXCEPT ![s] =
                    Settled([@ EXCEPT !.stage = "free", !.owner = None, !.proc = None])]
    /\ UNCHANGED <<sessions, proc, flight, req, down>>

-----------------------------------------------------------------------------
(* StartSession.  The fast path finds the session.                         *)
Start(r, k) ==
    /\ down = "up" /\ req[r].pc = "idle"
    /\ IF sessions[k] # None
       THEN /\ sess' = [sess EXCEPT ![sessions[k]] = Touched(@)]
            /\ UNCHANGED req
       ELSE /\ req' = [req EXCEPT ![r].pc = "admit", ![r].key = k]
            /\ UNCHANGED sess
    /\ UNCHANGED <<sessions, proc, dir, flight, down>>

(* Variant with a bug: the leader relies on the look before the flight.    *)
NoRecheck(k) == None

(* What the leader of a flight finds in the map once it is admitted.       *)
Recheck(k) == sessions[k]

Siblings(k) == {j \in Keys \ {k} : ShowOf[j] = ShowOf[k] /\ sessions[j] # None}

(* singleflight: the first request of a key leads, and looks again.  It     *)
(* fetches the item, validates and decides: an error, direct play (no      *)
(* session), or a transcode or remux, for which the sibling variants that  *)
(* are in the map are to be stopped.                                       *)
Admit(r) ==
    LET k == req[r].key IN
    /\ req[r].pc = "admit"
    /\ \/ /\ flight[k] # None
          /\ Goto(r, "follow")
          /\ UNCHANGED <<sess, flight>>
       \/ /\ flight[k] = None /\ Recheck(k) # None
          /\ sess' = [sess EXCEPT ![Recheck(k)] = Touched(@)]
          /\ Return(r)
          /\ UNCHANGED flight
       \/ /\ flight[k] = None /\ Recheck(k) = None
          /\ Return(r)
          /\ UNCHANGED <<sess, flight>>
       \/ /\ flight[k] = None /\ Recheck(k) = None
          /\ flight' = [flight EXCEPT ![k] = r]
          /\ \E copy \in Copies :
                req' = [req EXCEPT ![r].pc = "siblings", ![r].copy = copy,
                                   ![r].todo = Siblings(k)]
          /\ UNCHANGED sess
    /\ UNCHANGED <<sessions, proc, dir, down>>

(* Variant with a bug: a follower is not told the outcome.                 *)
Nobody(r) == {}
Followers(r) == {q \in Requests : req[q].pc = "follow" /\ req[q].key = req[r].key}

(* The flight ends, with a session or an error: its followers return, too. *)
Land(r) ==
    /\ flight' = [flight EXCEPT ![req[r].key] = None]
    /\ req' = [q \in Requests |-> IF q \in {r} \cup Followers(r) THEN IdleRequest ELSE req[q]]

(* The next of the sessions that a start or a DELETE stops; the one before *)
(* has been stopped.                                                       *)
StopNext(r) ==
    /\ req[r].pc \in {"siblings", "stop"} /\ Stopping(r) = {}
    /\ \E k \in req[r].todo :
          /\ StopSession(k, r)
          /\ req' = [req EXCEPT ![r].todo = @ \ {k}]
    /\ UNCHANGED <<proc, dir, flight, down>>

Encoding == {k \in Keys : sessions[k] # None /\ ~sess[sessions[k]].copy}

Busy(k) ==
    \/ MaxSessions > 0 /\ Cardinality(Encoding) >= MaxSessions
    \/ /\ MaxPerUser > 0
       /\ Cardinality({j \in Encoding : UserOf[j] = UserOf[k]}) >= MaxPerUser

(* All are stopped: a DELETE returns, a start checks the caps, which a      *)
(* remux is exempt from.                                                   *)
StopsDone(r) ==
    /\ req[r].todo = {} /\ Stopping(r) = {}
    /\ \/ req[r].pc = "stop" /\ Return(r) /\ UNCHANGED flight
       \/ req[r].pc = "siblings" /\ ~req[r].copy /\ Busy(req[r].key) /\ Land(r)
       \/ /\ req[r].pc = "siblings" /\ (req[r].copy \/ ~Busy(req[r].key))
          /\ Goto(r, "spawn")
          /\ UNCHANGED flight
    /\ UNCHANGED <<sessions, sess, proc, dir, down>>

(* Transcoder.Start: the directory is made, the process started; if that   *)
(* fails, the directory is removed.                                        *)
Spawn(r) ==
    /\ req[r].pc = "spawn"
    /\ \/ /\ RemoveAll(req[r].key)
          /\ Land(r)
          /\ UNCHANGED proc
       \/ /\ FreshSlots # {}
          /\ \E p \in FreshProcs :
             /\ proc' = [proc EXCEPT ![p] = Running]
             /\ req' = [req EXCEPT ![r].pc = "register", ![r].proc = p]
          /\ Mkdir(req[r].key)
          /\ UNCHANGED flight
    /\ UNCHANGED <<sessions, sess, down>>

Register(r) ==
    LET k == req[r].key IN
    /\ req[r].pc = "register"
    /\ \E s \in FreshSlots :
          /\ sessions' = [sessions EXCEPT ![k] = s]
          /\ sess' = [sess EXCEPT ![s] =
                          [FreeSession EXCEPT
                              !.stage = "live", !.key = k, !.copy = req[r].copy,
                              !.proc = req[r].proc, !.watch = "wait",
                              !.late = down \notin {"up", "closing"}]]
    /\ Land(r)
    /\ UNCHANGED <<proc, dir, down>>

-----------------------------------------------------------------------------
(* The handler of a segment asks for the session, and serves the segment   *)
(* or seeks.                                                               *)
GetSession(k) ==
    /\ down = "up" /\ sessions[k] # None
    /\ sess' = [sess EXCEPT ![sessions[k]] = Touched(@)]
    /\ UNCHANGED <<sessions, proc, dir, flight, req, down>>

(* RestartSessionAt of a session that is found.                            *)
Seek(r, k) ==
    /\ down = "up" /\ req[r].pc = "idle" /\ sessions[k] # None
    /\ req' = [req EXCEPT ![r].pc = "lock", ![r].key = k, ![r].slot = sessions[k]]
    /\ UNCHANGED <<sessions, sess, proc, dir, flight, down>>

(* Variant with a bug: the lock of the session is not taken.               *)
LockIgnored(s) == TRUE

LockFree(s) == sess[s].lock = None

(* restartMu is taken.  The seek is coalesced with a recent one, or        *)
(* refused as one too many in its window; or the process is cancelled.     *)
Lock(r) ==
    LET s == req[r].slot IN
    /\ req[r].pc = "lock" /\ LockFree(s)
    /\ \/ Return(r) /\ UNCHANGED <<sess, proc>>
       \/ /\ sess' = [sess EXCEPT ![s].lock = r]
          /\ proc' = [p \in Procs |-> IF p = sess[s].proc
                                      THEN [proc[p] EXCEPT !.cancelled = TRUE] ELSE proc[p]]
          /\ Goto(r, "drain")
    /\ UNCHANGED <<sessions, dir, flight, down>>

(* The wait for the old process, at most two seconds, and RestartAt.       *)
Respawn(r) ==
    /\ req[r].pc = "drain"
    /\ \/ /\ sess' = [sess EXCEPT ![req[r].slot] = Unlocked(@)]
          /\ Return(r)
          /\ UNCHANGED <<proc, dir>>
       \/ /\ \E p \in FreshProcs :
             /\ proc' = [proc EXCEPT ![p] = Running]
             /\ req' = [req EXCEPT ![r].pc = "reattach", ![r].proc = p]
          /\ Mkdir(req[r].key)
          /\ UNCHANGED sess
    /\ UNCHANGED <<sessions, flight, down>>

(* Variant with a bug: the process is attached whatever became of the      *)
(* session.                                                                *)
AssumedRegistered(r) == TRUE

StillRegistered(r) == sessions[req[r].key] = req[r].slot

(* reattachRestartedSession: the process becomes the session's, or it is   *)
(* stopped because the session is no longer in the map.                    *)
Reattach(r) ==
    LET p == req[r].proc IN
    /\ req[r].pc = "reattach"
    /\ IF StillRegistered(r)
       THEN /\ sess' = [sess EXCEPT ![req[r].slot] =
                            Unlocked([Changed(@) EXCEPT !.proc = p, !.idle = FALSE])]
            /\ Return(r)
            /\ UNCHANGED proc
       ELSE /\ proc' = [proc EXCEPT ![p].cancelled = TRUE]
            /\ Goto(r, "kill")
            /\ UNCHANGED sess
    /\ UNCHANGED <<sessions, dir, flight, down>>

Kill(r) ==
    /\ req[r].pc = "kill"
    /\ RemoveAll(req[r].key)
    /\ sess' = [sess EXCEPT ![req[r].slot] = Unlocked(@)]
    /\ Return(r)
    /\ UNCHANGED <<sessions, proc, flight, down>>

-----------------------------------------------------------------------------
(* DELETE of an item, and an administrator's stop of one session.          *)
StopItem(r, k) ==
    /\ down = "up" /\ req[r].pc = "idle"
    /\ \E todo \in {{k}, {j \in Keys : ShowOf[j] = ShowOf[k]}} :
          req' = [req EXCEPT ![r].pc = "stop",
                             ![r].todo = {j \in todo : sessions[j] # None}]
    /\ UNCHANGED <<sessions, sess, proc, dir, flight, down>>

-----------------------------------------------------------------------------
WorksOn(p, k) ==
    \/ \E s \in Slots : sess[s].key = k /\ sess[s].proc = p
    \/ \E r \in Requests : req[r].key = k /\ req[r].proc = p

(* A process writes a segment, or ends: by itself, killed, or after the    *)
(* transcode timeout.                                                      *)
Write(k) ==
    /\ dir[k] = "empty"
    /\ \E p \in Procs : proc[p].run = "running" /\ WorksOn(p, k)
    /\ dir' = [dir EXCEPT ![k] = "segment"]
    /\ UNCHANGED <<sessions, sess, proc, flight, req, down>>

Exit(p) ==
    /\ proc[p].run = "running"
    /\ proc' = [proc EXCEPT ![p] = IF Referenced(p) THEN [@ EXCEPT !.run = "dead"]
                                   ELSE NoProcess]
    /\ UNCHANGED <<sessions, sess, dir, flight, req, down>>

(* watchEarlyExit: its window ends, or the manager is shut down.           *)
StopWatching(s) ==
    /\ sess[s].watch = "wait"
    /\ sess' = [sess EXCEPT ![s] = WatchOver(@)]
    /\ UNCHANGED <<sessions, proc, dir, flight, req, down>>

(* reapDeadStart: the process is dead and the session the same; look for a *)
(* segment in the directory, then stop the session of the key.             *)
WatchExit(s) ==
    /\ sess[s].watch = "wait" /\ proc[sess[s].proc].run = "dead"
    /\ sess' = [sess EXCEPT ![s].watch = "look"]
    /\ UNCHANGED <<sessions, proc, dir, flight, req, down>>

WatchLook(s) ==
    /\ sess[s].watch = "look"
    /\ sess' = [sess EXCEPT ![s] =
                    IF dir[sess[s].key] = "segment" THEN WatchOver(@)
                    ELSE [@ EXCEPT !.watch = "stop"]]
    /\ UNCHANGED <<sessions, proc, dir, flight, req, down>>

WatchStop(s) ==
    LET t == sessions[sess[s].key] IN
    /\ sess[s].watch = "stop"
    /\ sessions' = [sessions EXCEPT ![sess[s].key] = None]
    /\ sess' = [u \in Slots |->
                   LET v == IF u = t THEN Taken(sess[u], "watcher") ELSE sess[u]
                   IN IF u = s THEN WatchOver(v) ELSE v]
    /\ UNCHANGED <<proc, dir, flight, req, down>>

-----------------------------------------------------------------------------
(* Time: nobody has accessed a session for IdleTimeout.                    *)
Idle(s) ==
    /\ sess[s].stage = "live" /\ ~sess[s].idle
    /\ sess' = [sess EXCEPT ![s].idle = TRUE]
    /\ UNCHANGED <<sessions, proc, dir, flight, req, down>>

TakeAll(S, o) ==
    /\ sessions' = [k \in Keys |-> IF sessions[k] \in S THEN None ELSE sessions[k]]
    /\ sess' = [s \in Slots |-> IF s \in S THEN Taken(sess[s], o) ELSE sess[s]]

Live == {s \in Slots : sess[s].stage = "live"}

(* Variant with a bug: only sessions whose transcode is over are idle.     *)
IdleAndOver == {s \in Live : sess[s].idle /\ proc[sess[s].proc].run # "running"}

IdleSessions == {s \in Live : sess[s].idle}

(* cleanupIdle takes all idle sessions, then stops them one by one.        *)
Reap ==
    /\ down = "up" /\ Stopping("reaper") = {} /\ IdleSessions # {}
    /\ TakeAll(IdleSessions, "reaper")
    /\ UNCHANGED <<proc, dir, flight, req, down>>

(* Variant with a bug: the sweep forgets the sessions that are idle.       *)
InUse == {s \in Live : ~sess[s].idle}
Swept == Live

(* Shutdown closes stopClean, waits for the clean-up loop, takes all that  *)
(* is in the map and stops it.  No request is accepted by then; the ones   *)
(* that are still running when the drain of the server times out go on.    *)
ShutdownBegin ==
    /\ down = "up"
    /\ down' = "closing"
    /\ UNCHANGED <<sessions, sess, proc, dir, flight, req>>

ShutdownSweep ==
    /\ down = "closing" /\ Stopping("reaper") = {}
    /\ TakeAll(Swept, "shutdown")
    /\ down' = "stopping"
    /\ UNCHANGED <<proc, dir, flight, req>>

ShutdownReturn ==
    /\ down = "stopping" /\ Stopping("shutdown") = {}
    /\ down' = "down"
    /\ UNCHANGED <<sessions, sess, proc, dir, flight, req>>

-----------------------------------------------------------------------------
Arrive(r) == \E k \in Keys : Start(r, k) \/ Seek(r, k) \/ StopItem(r, k)

Handle(r) ==
    \/ Admit(r) \/ StopNext(r) \/ StopsDone(r) \/ Spawn(r) \/ Register(r)
    \/ Lock(r) \/ Respawn(r) \/ Reattach(r) \/ Kill(r)

Watch(s) == StopWatching(s) \/ WatchExit(s) \/ WatchLook(s) \/ WatchStop(s)

Shutdown == ShutdownBegin \/ ShutdownSweep \/ ShutdownReturn

(* After Shutdown, when all is over, the process ends.                     *)
Terminated ==
    /\ down = "down" /\ \A r \in Requests : req[r].pc = "idle"
    /\ UNCHANGED vars

Next ==
    \/ \E r \in Requests : Arrive(r) \/ Handle(r)
    \/ \E s \in Slots : Watch(s) \/ BeginStop(s) \/ EndStop(s) \/ Idle(s)
    \/ \E k \in Keys : GetSession(k) \/ Write(k)
    \/ \E p \in Procs : Exit(p)
    \/ Reap \/ Shutdown \/ Terminated

Spec == Init /\ [][Next]_vars

(* What goes on by itself: handlers, which wait for no player; a waiter    *)
(* for a session's lock gets it in the end; the ticker of the clean-up;    *)
(* a killed process dies.  The bounded pools of the model are not a reason *)
(* for a handler to wait for ever.                                         *)
Fairness ==
    /\ \A r \in Requests : SF_vars(Handle(r))
    /\ \A s \in Slots : WF_vars(BeginStop(s)) /\ WF_vars(EndStop(s)) /\ WF_vars(Watch(s))
    /\ \A p \in Procs : WF_vars(Exit(p) /\ proc[p].cancelled)
    /\ WF_vars(Reap) /\ WF_vars(ShutdownSweep) /\ WF_vars(ShutdownReturn)

FairSpec == Spec /\ Fairness

-----------------------------------------------------------------------------
(* PROPERTIES *)

(* A session is live exactly while it is the one of its key in the map: no *)
(* registration hides another session, which nobody could stop any more    *)
(* (StartSession's flight and its second look).                            *)
RegisteredIffLive ==
    \A s \in Slots : sess[s].stage = "live" <=> \E k \in Keys : sessions[k] = s /\ sess[s].key = k

Loose(p) == proc[p].run = "running" /\ ~proc[p].cancelled

InHand(p) == \E r \in Requests : req[r].pc \in {"register", "reattach"} /\ req[r].proc = p

(* Every process that runs and was not cancelled belongs to a session in   *)
(* the map, to one that is about to be stopped, or to a request that is    *)
(* about to register or attach it: there is no transcode that nobody       *)
(* stops, however seeks, stops, clean-ups and starts overlap.              *)
NoOrphan ==
    \A p \in Procs : Loose(p) =>
        \/ \E s \in Slots : sess[s].stage \in {"live", "cancel"} /\ sess[s].proc = p
        \/ InHand(p)

(* Of the processes that write the directory of a key, at most one is      *)
(* neither cancelled nor certain to be: a second one belongs to a session  *)
(* that left the map, or to the seek that was about to attach it there     *)
(* (Start's comment leaves this to singleflight, which seeks bypass).      *)
OneWriter ==
    \A p, q \in Procs : \A k \in Keys :
        (p # q /\ Loose(p) /\ Loose(q) /\ WorksOn(p, k) /\ WorksOn(q, k)) =>
            \E x \in {p, q} :
                \/ \E s \in Slots : sess[s].stage = "cancel" /\ sess[s].proc = x
                \/ \E r \in Requests :
                      req[r].pc = "reattach" /\ req[r].proc = x /\ ~StillRegistered(r)

(* After Shutdown, a process that runs on is one that somebody is about to *)
(* stop, or it was started by a request that the drain of the server did   *)
(* not wait for.                                                           *)
OnlyLateStartsSurvive ==
    down = "down" =>
        \A p \in Procs : Loose(p) =>
            \/ InHand(p)
            \/ \E s \in Slots : sess[s].proc = p /\ (sess[s].stage = "live" => sess[s].late)

(* A handler returns, whatever it waits for: another request's flight, the *)
(* sessions it stops, the lock of a session.                               *)
RequestsReturn == \A r \in Requests : req[r].pc # "idle" ~> req[r].pc = "idle"

(* A session that nobody accesses is taken away (cleanupIdle), unless it   *)
(* is accessed again or the server stops.                                  *)
IdleSessionsEnd ==
    \A s \in Slots :
        (sess[s].stage = "live" /\ sess[s].idle)
            ~> (sess[s].stage # "live" \/ ~sess[s].idle \/ down # "up")

(* reapDeadStart: a seek, which cancels the process, is not a death.  The  *)
(* session that a watcher takes away died by itself.                       *)
SeekIsNotDeath ==
    [][\A s \in Slots :
          (sess[s].watch = "wait" /\ sess'[s].watch = "look")
              => ~proc[sess[s].proc].cancelled]_vars
=============================================================================
