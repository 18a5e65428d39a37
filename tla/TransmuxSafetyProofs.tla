------------------------ MODULE TransmuxSafetyProofs ------------------------
(***************************************************************************)
(* The transmux manager keeps its map and its processes in step: proofs of *)
(* the safety invariants of TransmuxManager from one inductive invariant.  *)
(***************************************************************************)
EXTENDS TransmuxManagerProofs

(* Who stops a session other than its watcher cancels its process.         *)
StopsCancel ==
    \A s \in Slots :
        sess[s].stopped => sess[s].cancelled \/ sess[s].watcher = "done"

Core ==
    /\ MapHoldsLiveSessions
    /\ NoOrphanProcess
    /\ StopsCancel
    /\ SpawnExclusive
    /\ CapsRespected
    /\ ChargedSpawnsEnd

(* Once Shutdown has emptied the map only late handlers put something into *)
(* it, and no sweep is left that would end it.                             *)
PhasesOK ==
    /\ MapTaken =>
         /\ \A c \in Channels : current[c] # None => sess[current[c]].late
         /\ \A s \in Slots : sess[s].ending \notin Reaped
    /\ down = "down" => \A s \in Slots : sess[s].ending # "shutdown"

IInv == TypeInv /\ Core /\ PhasesOK

-----------------------------------------------------------------------------
(* A session that may be in the map.                                       *)
Alive(r) ==
    /\ ~r.stopped /\ ~r.cancelled /\ r.ending = "no"
    /\ r.watcher \notin {"finish", "done"}
    /\ r.disk # "gone"

(* What an update of slot s to r must respect, where mapped says whether   *)
(* the slot is in the map afterwards.                                      *)
Keeps(s, r, mapped) ==
    /\ mapped => /\ r.channel = sess[s].channel /\ r.mode = sess[s].mode
                 /\ r.late = sess[s].late /\ Alive(r)
    /\ r.watcher = "wait" => mapped \/ r.ending # "no" \/ r.cancelled
    /\ r.stopped => r.cancelled \/ r.watcher = "done"
    /\ MapTaken => r.ending \in {sess[s].ending, "no", "leave"}
    /\ r.outcome = "failure" => /\ r.watcher = "wait" => r.cancelled
                                /\ mapped => r.watcher = "evict"

(* No request begins to spawn.                                             *)
NoNewSpawn ==
    \A v \in Clients : Spawning(v)' =>
        Spawning(v) /\ client'[v].channel = client[v].channel

(* It holds initially.                                                    *)
LEMMA InitInv == Init => IInv
<1> SUFFICES ASSUME Init PROVE IInv
  OBVIOUS
<1>1. TypeInv
  BY InitTypes
<1>2. \A s \in Slots : sess[s] = EndedSession
  BY DEF Init
<1>3. Active = {} /\ Reencoding = {}
  BY DEF Init, Active, Reencoding
<1>4. \A v \in Clients : ~Spawning(v)
  BY DEF Init, Spawning, IdleClient
<1>5. CapsRespected
  BY <1>3, FS_EmptySet, TransmuxAssumption DEF CapsRespected
<1>6. MapHoldsLiveSessions
  BY DEF Init, MapHoldsLiveSessions
<1>7. NoOrphanProcess /\ StopsCancel /\ ChargedSpawnsEnd
  <2>1. EndedSession.watcher = "done" /\ EndedSession.outcome = "none"
    BY DEF EndedSession, NewSession
  <2>2. QED
    BY <1>2, <2>1 DEF NoOrphanProcess, StopsCancel, ChargedSpawnsEnd, Running
<1>8. SpawnExclusive
  BY <1>4 DEF SpawnExclusive
<1>9. PhasesOK
  BY DEF Init, PhasesOK, MapTaken
<1>10. QED
  BY <1>1, <1>5, <1>6, <1>7, <1>8, <1>9 DEF IInv, Core

(* In the map a slot stands for one channel, its session's.                *)
LEMMA MapFacts ==
  ASSUME IInv, NEW s \in Slots, InMap(s)
  PROVE  /\ sess[s].channel \in Channels /\ current[sess[s].channel] = s
         /\ \A c \in Channels : current[c] = s => c = sess[s].channel
         /\ Alive(sess[s])
  BY TransmuxAssumption DEF IInv, Core, MapHoldsLiveSessions, InMap, Alive

(* A session that does not change respects all this.                       *)
LEMMA SameKeeps ==
  ASSUME IInv, NEW s \in Slots
  PROVE  Keeps(s, sess[s], InMap(s))
<1>1. InMap(s) => Alive(sess[s])
  BY MapFacts
<1>2. sess[s].watcher = "wait" =>
        InMap(s) \/ sess[s].ending # "no" \/ sess[s].cancelled
  BY DEF IInv, Core, NoOrphanProcess, Running
<1>3. sess[s].stopped => sess[s].cancelled \/ sess[s].watcher = "done"
  BY DEF IInv, Core, StopsCancel
<1>4. sess[s].outcome = "failure" =>
        /\ sess[s].watcher = "wait" => sess[s].cancelled
        /\ InMap(s) => sess[s].watcher = "evict"
  BY DEF IInv, Core, ChargedSpawnsEnd, Running
<1>5. QED
  BY <1>1, <1>2, <1>3, <1>4 DEF Keeps

(* Forgetting a session that is over does no harm.                         *)
LEMMA SettledKeeps ==
  ASSUME NEW s, NEW r, NEW mapped \in BOOLEAN, Keeps(s, r, mapped)
  PROVE  Keeps(s, Settled(r), mapped)
<1>1. CASE Over(r)
  <2>1. ~mapped
    BY <1>1 DEF Over, Keeps, Alive
  <2>2. QED
    BY <1>1, <2>1 DEF Settled, Keeps, EndedSession, NewSession
<1>2. CASE ~Over(r)
  BY <1>2 DEF Settled
<1>3. QED
  BY <1>1, <1>2

(* A step that puts nothing into the map, begins no spawn and updates      *)
(* sessions with respect keeps the invariant.                              *)
LEMMA Kept ==
  ASSUME IInv, TypeInv', NoNewSpawn,
         \A c \in Channels : current'[c] \in {current[c], None},
         \A s \in Slots : Keeps(s, sess'[s], InMap(s)')
  PROVE  Core' /\ (down' = down => PhasesOK')
<1> USE Known DEF IInv
<1>1. MapHoldsLiveSessions'
  <2> SUFFICES ASSUME NEW c \in Channels, current'[c] # None
               PROVE  sess'[current'[c]].channel = c /\ Alive(sess'[current'[c]])
    BY DEF MapHoldsLiveSessions, Alive
  <2>1. current'[c] = current[c] /\ current[c] \in Slots
    OBVIOUS
  <2>2. InMap(current[c])'
    BY <2>1 DEF InMap
  <2>3. sess[current[c]].channel = c
    BY <2>1 DEF Core, MapHoldsLiveSessions
  <2>4. QED
    BY <2>1, <2>2, <2>3 DEF Keeps
<1>2. NoOrphanProcess'
  BY DEF NoOrphanProcess, Running, Keeps
<1>3. StopsCancel' /\ ChargedSpawnsEnd'
  BY DEF StopsCancel, ChargedSpawnsEnd, Running, Keeps
<1>4. Active' \subseteq Active
  BY DEF Active
<1>5. Reencoding' \subseteq Reencoding
  <2> SUFFICES ASSUME NEW c \in Reencoding' PROVE c \in Reencoding
    OBVIOUS
  <2>1. c \in Channels /\ current'[c] # None
        /\ sess'[current'[c]].mode = "reencode"
    BY DEF Reencoding, Active
  <2>2. current'[c] = current[c] /\ current[c] \in Slots
    BY <2>1
  <2>3. InMap(current[c])'
    BY <2>1, <2>2 DEF InMap
  <2>4. sess[current[c]].mode = "reencode"
    BY <2>1, <2>2, <2>3 DEF Keeps
  <2>5. QED
    BY <2>1, <2>2, <2>4 DEF Reencoding, Active
<1>6. IsFiniteSet(Active) /\ IsFiniteSet(Reencoding)
  <2>1. Active \in SUBSET Channels /\ Reencoding \in SUBSET Channels
    BY DEF Active, Reencoding
  <2>2. QED
    BY <2>1, TransmuxAssumption, FS_Subset
<1>7. /\ IsFiniteSet(Active') /\ Cardinality(Active') <= Cardinality(Active)
      /\ IsFiniteSet(Reencoding')
      /\ Cardinality(Reencoding') <= Cardinality(Reencoding)
  <2>1. Active' \in SUBSET Active /\ Reencoding' \in SUBSET Reencoding
    BY <1>4, <1>5
  <2>2. QED
    BY <1>6, <2>1, FS_Subset
<1>8. /\ Cardinality(Active) \in Nat /\ Cardinality(Active') \in Nat
      /\ Cardinality(Reencoding) \in Nat /\ Cardinality(Reencoding') \in Nat
  BY <1>6, <1>7, FS_CardinalityType
<1>9. CapsRespected'
  <2>1. /\ Cardinality(Active) <= MaxSessions
        /\ Cardinality(Reencoding) <= MaxReencode
    BY DEF Core, CapsRespected
  <2>2. /\ Cardinality(Active') <= MaxSessions
        /\ Cardinality(Reencoding') <= MaxReencode
    BY <1>7, <1>8, <2>1, TransmuxAssumption
  <2>3. QED
    BY <2>2 DEF CapsRespected
<1>10. SpawnExclusive'
  <2> SUFFICES ASSUME NEW v \in Clients, Spawning(v)'
               PROVE  /\ current'[client'[v].channel] = None
                      /\ Cardinality(Active') < MaxSessions
                      /\ \A w \in Clients : Spawning(w)' => w = v
    BY DEF SpawnExclusive
  <2>1. Spawning(v) /\ client'[v].channel = client[v].channel
    BY DEF NoNewSpawn
  <2>2. /\ current[client[v].channel] = None
        /\ Cardinality(Active) < MaxSessions
        /\ \A w \in Clients : Spawning(w) => w = v
    BY <2>1 DEF Core, SpawnExclusive
  <2>3. client[v].channel \in Channels
    BY <2>1 DEF Spawning, ClientOK
  <2>4. current'[client'[v].channel] = None
    BY <2>1, <2>2, <2>3
  <2>5. Cardinality(Active') < MaxSessions
    BY <1>7, <1>8, <2>2, TransmuxAssumption
  <2>6. QED
    BY <2>2, <2>4, <2>5 DEF NoNewSpawn
<1>11. ASSUME down' = down PROVE PhasesOK'
  <2>1. ASSUME MapTaken, NEW c \in Channels, current'[c] # None
        PROVE  sess'[current'[c]].late
    <3>1. current'[c] = current[c] /\ current[c] \in Slots
      BY <2>1
    <3>2. sess[current[c]].late /\ InMap(current[c])'
      BY <2>1, <3>1 DEF PhasesOK, InMap
    <3>3. QED
      BY <3>1, <3>2 DEF Keeps
  <2>4. ASSUME MapTaken, NEW s \in Slots PROVE sess'[s].ending \notin Reaped
    BY <2>4 DEF PhasesOK, Keeps, Reaped
  <2>2. ASSUME down = "down"
        PROVE  \A s \in Slots : sess'[s].ending # "shutdown"
    BY <2>2 DEF PhasesOK, Keeps, MapTaken
  <2>3. MapTaken' = MapTaken
    BY <1>11 DEF MapTaken
  <2>5. QED
    BY <1>11, <2>1, <2>2, <2>3, <2>4 DEF PhasesOK
<1>12. QED
  BY <1>1, <1>2, <1>3, <1>9, <1>10, <1>11 DEF Core

(* The same when at most one session changes, in place.                    *)
LEMMA KeptOne ==
  ASSUME IInv, TypeInv', NoNewSpawn, current' = current,
         NEW s \in Slots, NEW r, sess' = [sess EXCEPT ![s] = r],
         Keeps(s, r, InMap(s))
  PROVE  Core' /\ (down' = down => PhasesOK')
<1>1. \A c \in Channels : current'[c] \in {current[c], None}
  OBVIOUS
<1>2. ASSUME NEW t \in Slots PROVE Keeps(t, sess'[t], InMap(t)')
  <2>1. InMap(t)' <=> InMap(t)
    BY DEF InMap
  <2>2. sess'[t] = IF t = s THEN r ELSE sess[t]
    BY DEF IInv, TypeInv, TypeOK
  <2>3. CASE t = s
    BY <2>1, <2>2, <2>3 DEF Keeps
  <2>4. CASE t # s
    <3>1. Keeps(t, sess[t], InMap(t))
      BY SameKeeps
    <3>2. QED
      BY <2>1, <2>2, <2>4, <3>1 DEF Keeps
  <2>5. QED
    BY <2>3, <2>4
<1>3. QED
  BY <1>1, <1>2, Kept

(* The same when no session changes.                                       *)
LEMMA KeptAll ==
  ASSUME IInv, TypeInv', NoNewSpawn, current' = current, sess' = sess
  PROVE  Core' /\ (down' = down => PhasesOK')
<1>1. \A c \in Channels : current'[c] \in {current[c], None}
  OBVIOUS
<1>2. ASSUME NEW t \in Slots PROVE Keeps(t, sess'[t], InMap(t)')
  <2>1. InMap(t)' <=> InMap(t)
    BY DEF InMap
  <2>2. Keeps(t, sess[t], InMap(t))
    BY SameKeeps
  <2>3. QED
    BY <2>1, <2>2 DEF Keeps
<1>3. QED
  BY <1>1, <1>2, Kept

(* The same when the sessions of a set R leave the map.                    *)
LEMMA KeptRemoved ==
  ASSUME IInv, TypeInv', NoNewSpawn, NEW R \in SUBSET Slots,
         \A c \in Channels :
            current'[c] = IF current[c] \in R THEN None ELSE current[c],
         \A s \in R : Keeps(s, sess'[s], FALSE),
         \A s \in Slots \ R : sess'[s] = sess[s]
  PROVE  Core' /\ (down' = down => PhasesOK')
<1>1. \A c \in Channels : current'[c] \in {current[c], None}
  OBVIOUS
<1>2. ASSUME NEW t \in Slots PROVE Keeps(t, sess'[t], InMap(t)')
  <2>1. CASE t \in R
    <3>1. t # None
      BY TransmuxAssumption
    <3>2. InMap(t)' = FALSE
      BY <2>1, <3>1 DEF InMap
    <3>3. Keeps(t, sess'[t], FALSE)
      BY <2>1
    <3>4. QED
      BY <3>2, <3>3 DEF Keeps
  <2>2. CASE t \notin R
    <3>1. InMap(t)' <=> InMap(t)
      BY <2>2, TransmuxAssumption DEF InMap
    <3>2. sess'[t] = sess[t]
      BY <2>2
    <3>3. Keeps(t, sess[t], InMap(t))
      BY SameKeeps
    <3>4. QED
      BY <3>1, <3>2, <3>3 DEF Keeps
  <2>3. QED
    BY <2>1, <2>2
<1>3. QED
  BY <1>1, <1>2, Kept

(* A session taken out of the map by a call that will end it.              *)
LEMMA RemovedKeeps ==
  ASSUME IInv, NEW s \in Slots, InMap(s),
         NEW e \in {"startup", "idle", "leave", "shutdown"},
         MapTaken => e = "leave"
  PROVE  Keeps(s, Removed(sess[s], e), FALSE)
<1>1. sess[s] \in Session
  BY Known DEF IInv
<1>2. Keeps(s, sess[s], InMap(s))
  BY SameKeeps
<1> DEFINE r == Removed(sess[s], e)
<1>3. r.ending = e /\ r.stopped = sess[s].stopped
      /\ r.cancelled = sess[s].cancelled /\ r.watcher = sess[s].watcher
      /\ r.outcome = sess[s].outcome
  BY <1>1 DEF Removed, Session
<1> HIDE DEF r
<1>4. Keeps(s, r, FALSE)
  BY <1>2, <1>3 DEF Keeps
<1>5. QED
  BY <1>4 DEF r

(* Updates of what the invariant does not read.                            *)
LEMMA TouchedKeeps ==
  ASSUME IInv, NEW s \in Slots, NEW r,
         r.channel = sess[s].channel, r.mode = sess[s].mode,
         r.watcher = sess[s].watcher, r.ending = sess[s].ending,
         r.stopped = sess[s].stopped, r.cancelled = sess[s].cancelled,
         r.late = sess[s].late, r.disk = "gone" => sess[s].disk = "gone",
         r.outcome = "failure" => sess[s].outcome = "failure"
  PROVE  Keeps(s, r, InMap(s))
  BY SameKeeps DEF Keeps, Alive

(* The requests that a step of a client may leave behind.                  *)
LEMMA ClientKept ==
  ASSUME TypeInv, NEW v \in Clients, NEW k, k.pc \notin {"mkdir", "lostdir"},
         client' = [client EXCEPT ![v] = k]
  PROVE  NoNewSpawn
<1> SUFFICES ASSUME NEW w \in Clients, Spawning(w)'
             PROVE  Spawning(w) /\ client'[w].channel = client[w].channel
  BY DEF NoNewSpawn
<1>1. client'[w] = IF w = v THEN k ELSE client[w]
  BY DEF TypeInv, TypeOK
<1>2. QED
  BY <1>1 DEF Spawning

(* Removing a directory fails spawns under way, and begins none.           *)
LEMMA CleanupKept ==
  ASSUME TypeInv, NEW s, client' = ClientsAfterCleanup(s)
  PROVE  NoNewSpawn
<1> SUFFICES ASSUME NEW w \in Clients, Spawning(w)'
             PROVE  Spawning(w) /\ client'[w].channel = client[w].channel
  BY DEF NoNewSpawn
<1>1. client[w] \in ClientState
  BY Known
<1>2. \/ client'[w] = client[w]
      \/ client[w].pc = "mkdir" /\ client'[w] = [client[w] EXCEPT !.pc = "lostdir"]
  BY DEF ClientsAfterCleanup
<1>3. QED
  BY <1>1, <1>2 DEF Spawning, ClientState

-----------------------------------------------------------------------------
(* The requests.  BeginSpawn is the one step that begins a spawn: it has   *)
(* found no session and room for one, and m.mu is held from then on.       *)
LEMMA BeginSpawnInv ==
  ASSUME IInv, TypeInv', NEW v \in Clients, NEW c \in Channels,
         BeginSpawn(v, c), Unlocked,
         UNCHANGED <<current, sess, decode, down>>
  PROVE  Core' /\ PhasesOK'
<1> USE Known DEF IInv
<1>1. /\ MapHoldsLiveSessions' /\ NoOrphanProcess' /\ StopsCancel'
      /\ ChargedSpawnsEnd'
  BY DEF Core, MapHoldsLiveSessions, NoOrphanProcess, StopsCancel, Running,
         ChargedSpawnsEnd, InMap
<1>2. Active' = Active /\ Reencoding' = Reencoding
  BY DEF Active, Reencoding
<1>3. CapsRespected'
  BY <1>2 DEF Core, CapsRespected
<1>4. current[c] = None
  BY DEF BeginSpawn, Live, Core, MapHoldsLiveSessions
<1>5. Cardinality(Active) < MaxSessions
  <2>1. Active \in SUBSET Channels
    BY DEF Active
  <2>2. Cardinality(Active) \in Nat
    BY <2>1, TransmuxAssumption, FS_Subset, FS_CardinalityType
  <2>3. QED
    BY <2>2, TransmuxAssumption DEF BeginSpawn, Full
<1>6. \A w \in Clients : Spawning(w)' => w = v /\ client'[w].channel = c
  BY DEF BeginSpawn, Unlocked, Spawning, Requesting
<1>7. SpawnExclusive'
  BY <1>2, <1>4, <1>5, <1>6 DEF SpawnExclusive
<1>8. PhasesOK'
  BY DEF PhasesOK, MapTaken
<1>9. QED
  BY <1>1, <1>3, <1>7, <1>8 DEF Core

(* GetOrStart, whichever way it goes.                                      *)
LEMMA GetOrStartInv ==
  ASSUME IInv, TypeInv', NEW v \in Clients, NEW c \in Channels,
         GetOrStart(v, c)
  PROVE  Core' /\ PhasesOK'
<1> USE Known DEF IInv
<1>1. Unlocked /\ UNCHANGED <<current, decode, down>>
  BY DEF GetOrStart
<1>2. CASE UseExisting(v, c)
  <2> DEFINE s == current[c]
             r == [sess[s] EXCEPT !.idle = 0]
  <2>1. s \in Slots
    BY <1>2 DEF UseExisting, Live
  <2>2. sess' = [sess EXCEPT ![s] = r]
    BY <1>2, <2>1 DEF UseExisting
  <2>3. sess[s] \in Session
    BY <2>1
  <2>4. Keeps(s, r, InMap(s))
    BY <2>1, <2>3, TouchedKeeps DEF Session
  <2>5. NoNewSpawn
    BY <1>2, ClientKept DEF UseExisting, Requesting
  <2> HIDE DEF r, s
  <2>6. QED
    BY <1>1, <2>1, <2>2, <2>4, <2>5, KeptOne
<1>3. CASE GateDenied(v, c) \/ Busy(v, c)
  <2>1. NoNewSpawn
    BY <1>3, ClientKept DEF GateDenied, Busy, Requesting
  <2>2. QED
    BY <1>1, <1>3, <2>1, KeptAll DEF GateDenied, Busy
<1>4. CASE BeginSpawn(v, c)
  BY <1>1, <1>4, BeginSpawnInv DEF BeginSpawn
<1>5. QED
  BY <1>2, <1>3, <1>4 DEF GetOrStart

(* A leaving viewer takes at most its own channel's session out.           *)
LEMMA LeaveInv ==
  ASSUME IInv, TypeInv', NEW v \in Clients, LeaveViewer(v)
  PROVE  Core' /\ PhasesOK'
<1> USE Known DEF IInv
<1> DEFINE c == client[v].channel
           s == current[c]
<1>1. c \in Channels
  BY DEF LeaveViewer, ClientOK
<1>2. NoNewSpawn
  <2>1. client[v] \in ClientState
    OBVIOUS
  <2>2. ClientAfterLeave(v).pc \notin {"mkdir", "lostdir"}
    BY <2>1 DEF LeaveViewer, ClientAfterLeave, IdleClient, ClientState
  <2>3. client' = [client EXCEPT ![v] = ClientAfterLeave(v)]
    BY DEF LeaveViewer
  <2>4. QED
    BY <2>2, <2>3, ClientKept
<1>3. down' = down
  BY DEF LeaveViewer
<1>4. CASE s # None /\ LastViewer(s, v) /\ v \in sess[s].viewers
  <2> DEFINE r == Removed(sess[s], "leave")
  <2>1. s \in Slots /\ sess[s] \in Session
    BY <1>1, <1>4
  <2>2. /\ current' = [current EXCEPT ![c] = None]
        /\ sess' = [sess EXCEPT ![s] = r]
    BY <1>4, <2>1 DEF LeaveViewer
  <2>3. InMap(s)
    BY <1>1 DEF InMap
  <2>4. \A d \in Channels : current[d] = s => d = c
    BY <1>1, <2>1, <2>3, MapFacts
  <2>5. \A d \in Channels :
           current'[d] = IF current[d] \in {s} THEN None ELSE current[d]
    BY <1>1, <2>2, <2>4
  <2>6. Keeps(s, r, FALSE)
    BY <2>1, <2>3, RemovedKeeps
  <2>7. sess'[s] = r /\ \A t \in Slots \ {s} : sess'[t] = sess[t]
    BY <2>1, <2>2
  <2>8. {s} \in SUBSET Slots /\ \A t \in {s} : Keeps(t, sess'[t], FALSE)
    BY <2>1, <2>6, <2>7
  <2> HIDE DEF r, s
  <2>9. QED
    BY <1>2, <1>3, <2>5, <2>7, <2>8, KeptRemoved
<1>5. CASE s # None /\ ~LastViewer(s, v) /\ v \in sess[s].viewers
  <2> DEFINE r == [sess[s] EXCEPT !.viewers = sess[s].viewers \ {v}]
  <2>1. s \in Slots /\ sess[s] \in Session
    BY <1>1, <1>5
  <2>2. current' = current /\ sess' = [sess EXCEPT ![s] = r]
    BY <1>5, <2>1 DEF LeaveViewer
  <2>3. Keeps(s, r, InMap(s))
    BY <2>1, TouchedKeeps DEF Session
  <2> HIDE DEF r, s
  <2>4. QED
    BY <1>2, <1>3, <2>1, <2>2, <2>3, KeptOne
<1>6. CASE ~(s # None /\ v \in sess[s].viewers)
  <2>1. current' = current /\ sess' = sess
    BY <1>6 DEF LeaveViewer
  <2>2. QED
    BY <1>2, <1>3, <2>1, KeptAll
<1>7. QED
  BY <1>4, <1>5, <1>6

(* The requests of a player.                                               *)
LEMMA RequestInv ==
  ASSUME IInv, TypeInv', NEW v \in Clients, Request(v)
  PROVE  Core' /\ PhasesOK'
<1> USE Known DEF IInv
<1>1. ASSUME NEW c \in Channels, Mount(v, c) PROVE Core' /\ PhasesOK'
  BY <1>1, GetOrStartInv DEF Mount
<1>2. CASE Reload(v)
  BY <1>2, GetOrStartInv DEF Reload, ClientOK
<1>3. CASE Segment(v)
  <2> DEFINE s == current[client[v].channel]
             r == [sess[s] EXCEPT !.idle = 0]
  <2>1. s \in Slots
    BY <1>3 DEF Segment, Live, ClientOK
  <2>2. sess' = [sess EXCEPT ![s] = r]
    BY <1>3, <2>1 DEF Segment
  <2>3. sess[s] \in Session
    BY <2>1
  <2>4. Keeps(s, r, InMap(s))
    BY <2>1, <2>3, TouchedKeeps DEF Session
  <2>5. NoNewSpawn
    BY <1>3 DEF NoNewSpawn, Segment, Spawning
  <2>6. current' = current /\ down' = down
    BY <1>3 DEF Segment
  <2> HIDE DEF r, s
  <2>7. QED
    BY <2>1, <2>2, <2>4, <2>5, <2>6, KeptOne
<1>4. CASE LeaveViewer(v)
  BY <1>4, LeaveInv
<1>5. CASE Vanish(v)
  <2>1. NoNewSpawn
    BY <1>5, ClientKept DEF Vanish, IdleClient
  <2>2. QED
    BY <1>5, <2>1, KeptAll DEF Vanish
<1>6. QED
  BY <1>1, <1>2, <1>3, <1>4, <1>5 DEF Request

-----------------------------------------------------------------------------
(* The handlers' next steps.  Spawn alone puts a session into the map: its *)
(* request was the only spawn, and had found the channel and a slot free.  *)
LEMMA SpawnInv ==
  ASSUME IInv, TypeInv', NEW v \in Clients, Spawn(v)
  PROVE  Core' /\ PhasesOK'
<1> USE Known DEF IInv
<1> DEFINE c == client[v].channel
           m == ModeFor(c)
<1>1. Spawning(v) /\ c \in Channels /\ client[v] \in ClientState
  BY DEF Spawn, Spawning, ClientOK
<1>2. /\ current[c] = None
      /\ Cardinality(Active) < MaxSessions
      /\ \A w \in Clients : Spawning(w) => w = v
  BY <1>1 DEF Core, SpawnExclusive
<1>3. PICK s \in Slots :
         /\ Free(s)
         /\ current' = [current EXCEPT ![c] = s]
         /\ sess' = [sess EXCEPT ![s] = NewSession(c, m, MapTaken)]
         /\ client' = [client EXCEPT ![v] =
                          [client[v] EXCEPT !.pc = "wait", !.slot = s]]
  BY DEF Spawn
<1>4. m = "reencode" => ~ReencodeFull
  BY DEF Spawn
<1>5. ~InMap(s)
  BY <1>3, MapFacts DEF Free, Over, Alive
<1> DEFINE new == NewSession(c, m, MapTaken)
<1>6. /\ new.channel = c /\ new.mode = m /\ Alive(new)
      /\ ~new.stopped /\ new.watcher = "wait" /\ new.late = MapTaken
      /\ new.outcome = "none"
  BY DEF NewSession, Alive
<1> HIDE DEF new, m, c
<1>7. /\ sess'[s] = new
      /\ \A t \in Slots \ {s} : sess'[t] = sess[t]
      /\ current'[c] = s
      /\ \A d \in Channels \ {c} : current'[d] = current[d] /\ current[d] # s
  BY <1>1, <1>3, <1>5 DEF new, InMap
<1>8. MapHoldsLiveSessions'
  <2> SUFFICES ASSUME NEW d \in Channels, current'[d] # None
               PROVE  sess'[current'[d]].channel = d /\ Alive(sess'[current'[d]])
    BY DEF MapHoldsLiveSessions, Alive
  <2>1. CASE d = c
    BY <1>6, <1>7, <2>1
  <2>2. CASE d # c
    <3>1. /\ current'[d] = current[d] /\ current[d] \in Slots
          /\ sess'[current[d]] = sess[current[d]]
      BY <1>7, <2>2
    <3>2. sess[current[d]].channel = d /\ Alive(sess[current[d]])
      BY <3>1 DEF Core, MapHoldsLiveSessions, Alive
    <3>3. QED
      BY <3>1, <3>2
  <2>3. QED
    BY <2>1, <2>2
<1>9. NoOrphanProcess'
  <2> SUFFICES ASSUME NEW t \in Slots, Running(t)'
               PROVE  InMap(t)' \/ sess'[t].ending # "no" \/ sess'[t].cancelled
    BY DEF NoOrphanProcess
  <2>1. CASE t = s
    BY <1>1, <1>7, <2>1 DEF InMap
  <2>2. CASE t # s
    <3>1. sess'[t] = sess[t]
      BY <1>7, <2>2
    <3>2. InMap(t) \/ sess[t].ending # "no" \/ sess[t].cancelled
      BY <3>1 DEF Core, NoOrphanProcess, Running
    <3>3. InMap(t) => InMap(t)'
      BY <1>2, <1>7, TransmuxAssumption DEF InMap
    <3>4. QED
      BY <3>1, <3>2, <3>3
  <2>3. QED
    BY <2>1, <2>2
<1>10. StopsCancel' /\ ChargedSpawnsEnd'
  <2>1. StopsCancel'
    BY <1>6, <1>7 DEF Core, StopsCancel
  <2>2. ASSUME NEW t \in Slots, t # s, InMap(t)' PROVE InMap(t)
    BY <1>7, <2>2, TransmuxAssumption DEF InMap
  <2>3. ChargedSpawnsEnd'
    BY <1>6, <1>7, <2>2 DEF Core, ChargedSpawnsEnd, Running
  <2>4. QED
    BY <2>1, <2>3
<1>11. \A w \in Clients : ~Spawning(w)'
  BY <1>1, <1>2, <1>3 DEF Spawning, ClientState
<1>12. SpawnExclusive'
  BY <1>11 DEF SpawnExclusive
<1>13. Active' = Active \cup {c}
  BY <1>1, <1>7, TransmuxAssumption DEF Active
<1>14. Reencoding' = IF m = "reencode" THEN Reencoding \cup {c} ELSE Reencoding
  <2>1. ASSUME NEW d \in Channels
        PROVE  d \in Reencoding' <=> IF d = c THEN m = "reencode"
                                     ELSE d \in Reencoding
    <3>1. CASE d = c
      BY <1>1, <1>6, <1>7, <1>13, <3>1 DEF Reencoding
    <3>2. CASE d # c
      <4>1. current'[d] = current[d]
            /\ (current[d] # None => sess'[current[d]] = sess[current[d]])
        BY <1>7, <3>2
      <4>2. QED
        BY <3>2, <4>1 DEF Reencoding, Active
    <3>3. QED
      BY <3>1, <3>2
  <2>2. c \notin Reencoding
    BY <1>2 DEF Reencoding, Active, c
  <2>3. Reencoding \subseteq Channels /\ Reencoding' \subseteq Channels
    BY DEF Reencoding, Active
  <2>4. QED
    BY <1>1, <2>1, <2>2, <2>3
<1>15. IsFiniteSet(Active) /\ IsFiniteSet(Reencoding)
  <2>1. Active \in SUBSET Channels /\ Reencoding \in SUBSET Channels
    BY DEF Active, Reencoding
  <2>2. QED
    BY <2>1, TransmuxAssumption, FS_Subset
<1>16. Cardinality(Active) \in Nat /\ Cardinality(Reencoding) \in Nat
  BY <1>15, FS_CardinalityType
<1>17. Cardinality(Active') <= MaxSessions
  <2>1. Cardinality(Active \cup {c}) \in {Cardinality(Active), Cardinality(Active) + 1}
    BY <1>15, FS_AddElement
  <2>2. QED
    BY <1>2, <1>13, <1>16, <2>1, TransmuxAssumption
<1>18. Cardinality(Reencoding') <= MaxReencode
  <2>1. CASE m = "reencode"
    <3>1. Cardinality(Reencoding) < MaxReencode
      BY <1>4, <1>16, <2>1, TransmuxAssumption DEF ReencodeFull
    <3>2. Cardinality(Reencoding \cup {c})
            \in {Cardinality(Reencoding), Cardinality(Reencoding) + 1}
      BY <1>15, FS_AddElement
    <3>3. QED
      BY <1>14, <1>16, <2>1, <3>1, <3>2, TransmuxAssumption
  <2>2. CASE m # "reencode"
    BY <1>14, <2>2 DEF Core, CapsRespected
  <2>3. QED
    BY <2>1, <2>2
<1>19. PhasesOK'
  <2>1. down' = down /\ MapTaken' = MapTaken
    BY DEF Spawn, MapTaken
  <2>2. ASSUME MapTaken, NEW d \in Channels, current'[d] # None
        PROVE  sess'[current'[d]].late
    <3>1. CASE d = c
      BY <1>6, <1>7, <2>2, <3>1
    <3>2. CASE d # c
      <4>1. current'[d] = current[d] /\ current[d] \in Slots \ {s}
        BY <1>7, <2>2, <3>2
      <4>2. sess[current[d]].late
        BY <2>2, <4>1 DEF PhasesOK
      <4>3. QED
        BY <1>7, <4>1, <4>2
    <3>3. QED
      BY <3>1, <3>2
  <2>3. new.ending = "no"
    BY <1>6 DEF Alive
  <2>4. \A t \in Slots : sess'[t].ending \in {sess[t].ending, "no"}
    BY <1>7, <2>3
  <2>5. QED
    BY <2>1, <2>2, <2>4 DEF PhasesOK, Reaped
<1>20. QED
  BY <1>8, <1>9, <1>10, <1>12, <1>17, <1>18, <1>19 DEF Core, CapsRespected

(* The other steps of the handlers.                                        *)
LEMMA HandlerInv ==
  ASSUME IInv, TypeInv', NEW v \in Clients, Handler(v)
  PROVE  Core' /\ PhasesOK'
<1> USE Known DEF IInv
<1>1. client[v] \in ClientState
  OBVIOUS
<1>2. ASSUME NEW k, k.pc \notin {"mkdir", "lostdir"},
             client' = [client EXCEPT ![v] = k]
      PROVE  NoNewSpawn
  BY <1>2, ClientKept
<1>3. ASSUME NEW pc \in {"mounted", "watching"}
      PROVE  Answered(client[v], pc).pc \notin {"mkdir", "lostdir"}
  BY <1>1 DEF Answered, IdleClient, ClientState
<1>4. CASE Spawn(v)
  BY <1>4, SpawnInv
<1>5. CASE ReencodeDenied(v)
  <2>1. NoNewSpawn
    BY <1>1, <1>2, <1>5 DEF ReencodeDenied, ClientState
  <2>2. QED
    BY <1>5, <2>1, KeptAll DEF ReencodeDenied
<1>6. CASE SpawnError(v)
  <2>1. NoNewSpawn
    BY <1>1, <1>2, <1>6 DEF SpawnError, ClientState
  <2>2. QED
    BY <1>6, <2>1, KeptAll DEF SpawnError
<1>7. CASE RecordSpawnFailure(v)
  <2>1. NoNewSpawn
    BY <1>2, <1>3, <1>7 DEF RecordSpawnFailure
  <2>2. QED
    BY <1>7, <2>1, KeptAll DEF RecordSpawnFailure
<1>8. CASE Serve(v)
  <2> DEFINE s == client[v].slot
             r == [sess[s] EXCEPT !.idle = 0]
  <2>1. s \in Slots
    BY <1>8 DEF Serve, ClientOK
  <2>2. sess' = [sess EXCEPT ![s] = r]
    BY <1>8, <2>1 DEF Serve
  <2>3. sess[s] \in Session
    BY <2>1
  <2>4. Keeps(s, r, InMap(s))
    BY <2>1, <2>3, TouchedKeeps DEF Session
  <2>5. AfterServing(v).pc \notin {"mkdir", "lostdir"}
    BY <1>1, <1>3 DEF AfterServing, ClientState
  <2>6. NoNewSpawn
    BY <1>2, <1>8, <2>5 DEF Serve
  <2>7. current' = current /\ down' = down
    BY <1>8 DEF Serve
  <2> HIDE DEF r, s
  <2>8. QED
    BY <2>1, <2>2, <2>4, <2>6, <2>7, KeptOne
<1>9. CASE ServeFailed(v)
  <2>1. NoNewSpawn
    BY <1>2, <1>3, <1>9 DEF ServeFailed
  <2>2. QED
    BY <1>9, <2>1, KeptAll DEF ServeFailed
<1>10. CASE StopWaiting(v)
  <2>1. NoNewSpawn
    BY <1>2, <1>3, <1>10 DEF StopWaiting
  <2>2. QED
    BY <1>10, <2>1, KeptAll DEF StopWaiting
<1>11. CASE JoinViewer(v)
  <2> DEFINE s == current[client[v].channel]
             k == [client[v] EXCEPT !.pc = "register", !.slot = s]
  <2>1. k.pc \notin {"mkdir", "lostdir"}
    BY <1>1 DEF ClientState
  <2>2. \/ client' = [client EXCEPT ![v] = Answered(client[v], "watching")]
        \/ client' = [client EXCEPT ![v] = k]
    BY <1>11 DEF JoinViewer
  <2> HIDE DEF k
  <2>3. NoNewSpawn
    BY <1>2, <1>3, <2>1, <2>2
  <2>4. QED
    BY <1>11, <2>3, KeptAll DEF JoinViewer
<1>12. CASE Register(v)
  <2> DEFINE s == client[v].slot
             r == [sess[s] EXCEPT !.viewers = sess[s].viewers \cup {v}]
  <2>1. NoNewSpawn
    BY <1>2, <1>3, <1>12 DEF Register
  <2>2. current' = current /\ down' = down /\ s \in Slots
    BY <1>12 DEF Register, ClientOK
  <2>3. sess' = sess \/ sess' = [sess EXCEPT ![s] = r]
    BY <1>12, <2>2 DEF Register
  <2>4. sess[s] \in Session
    BY <2>2
  <2>5. Keeps(s, r, InMap(s))
    BY <2>2, <2>4, TouchedKeeps DEF Session
  <2> HIDE DEF r, s
  <2>6. QED
    BY <2>1, <2>2, <2>3, <2>5, KeptAll, KeptOne
<1>13. QED
  BY <1>4, <1>5, <1>6, <1>7, <1>8, <1>9, <1>10, <1>11, <1>12 DEF Handler, SpawnSteps

-----------------------------------------------------------------------------
(* What the goroutines of a session and terminate make of it.              *)
LEMMA WatcherKeeps ==
  ASSUME IInv, NEW s \in Slots, NEW r,
         sess[s].watcher \in {"wait", "failed", "codec"},
         r.watcher \in {"failed", "codec", "evict"},
         r.channel = sess[s].channel, r.mode = sess[s].mode,
         r.ending = sess[s].ending, r.stopped = sess[s].stopped,
         r.cancelled = sess[s].cancelled, r.disk = sess[s].disk,
         r.late = sess[s].late,
         r.outcome = "failure" => sess[s].outcome = "failure" \/ r.watcher = "evict"
  PROVE  Keeps(s, r, InMap(s))
  BY SameKeeps DEF Keeps, Alive

(* A session that nobody finds in the map any more may be wound up.        *)
LEMMA GoneKeeps ==
  ASSUME IInv, NEW s \in Slots, NEW r, ~InMap(s),
         r.watcher = "wait" => r.cancelled,
         r.stopped => r.cancelled \/ r.watcher = "done",
         r.ending \in {sess[s].ending, "no"}
  PROVE  Keeps(s, Settled(r), InMap(s))
<1>1. Keeps(s, r, FALSE)
  BY DEF Keeps
<1>2. Keeps(s, Settled(r), FALSE)
  BY <1>1, SettledKeeps
<1>3. QED
  BY <1>2 DEF Keeps

(* evict removes the session it was called for and no other.               *)
LEMMA EvictInv ==
  ASSUME IInv, TypeInv', NEW s \in Slots, Evict(s)
  PROVE  Core' /\ PhasesOK'
<1> USE Known DEF IInv
<1> DEFINE c == sess[s].channel
           ended == [sess[s] EXCEPT !.watcher = "finish"]
<1>1. sess[s] \in Session /\ sess[s].watcher = "evict"
  BY DEF Evict
<1>2. /\ ended.watcher = "finish" /\ ended.ending = sess[s].ending
      /\ ended.stopped = sess[s].stopped /\ ended.cancelled = sess[s].cancelled
      /\ ended \in Session
  <2>1. ended \in Session
    BY <1>1, WatcherGood
  <2>2. QED
    BY <1>1, <2>1 DEF Session
<1>3. down' = down /\ NoNewSpawn
  BY DEF Evict, NoNewSpawn, Spawning
<1>4. sess[s].stopped => sess[s].cancelled
  BY <1>1 DEF Core, StopsCancel
<1> HIDE DEF ended
<1>5. CASE Evicted(s, c)
  <2> DEFINE r == Removed(ended, "no")
  <2>1. current' = [current EXCEPT ![c] = None] /\ sess' = [sess EXCEPT ![s] = r]
    BY <1>5 DEF Evict, ended
  <2>2. /\ r.watcher = "finish" /\ r.ending = "no"
        /\ r.stopped = sess[s].stopped /\ r.cancelled = sess[s].cancelled
    BY <1>2 DEF Removed, Session
  <2> HIDE DEF r
  <2>3. Keeps(s, r, FALSE)
    BY <1>4, <2>2 DEF Keeps
  <2>4. \A d \in Channels : current[d] = s => d = c
    BY MapFacts DEF InMap
  <2>5. \A d \in Channels :
           current'[d] = IF current[d] \in {s} THEN None ELSE current[d]
    BY <1>5, <2>1, <2>4 DEF Evicted
  <2>6. sess'[s] = r /\ \A t \in Slots \ {s} : sess'[t] = sess[t]
    BY <2>1
  <2>7. {s} \in SUBSET Slots /\ \A t \in {s} : Keeps(t, sess'[t], FALSE)
    BY <2>3, <2>6
  <2>8. QED
    BY <1>3, <2>5, <2>6, <2>7, KeptRemoved
<1>6. CASE ~Evicted(s, c)
  <2>1. current' = current /\ sess' = [sess EXCEPT ![s] = ended]
    BY <1>6 DEF Evict, ended
  <2>2. ~InMap(s)
    BY <1>6, MapFacts DEF Evicted
  <2>3. Keeps(s, ended, InMap(s))
    BY <1>2, <1>4, <2>2 DEF Keeps
  <2>4. QED
    BY <1>3, <2>1, <2>3, KeptOne
<1>7. QED
  BY <1>5, <1>6

(* ffmpeg, the goroutines of a session and terminate.                      *)
LEMMA SessionInv ==
  ASSUME IInv, TypeInv', NEW s \in Slots,
         WriteSegment(s) \/ Exit(s) \/ Watchers(s) \/ Terminate(s)
  PROVE  Core' /\ PhasesOK'
<1> USE Known DEF IInv
<1>1. sess[s] \in Session
  OBVIOUS
<1>2. client' = client => NoNewSpawn
  BY DEF NoNewSpawn, Spawning
<1>3. ASSUME NEW r, sess' = [sess EXCEPT ![s] = r], Keeps(s, r, InMap(s)),
             UNCHANGED <<current, client, down>>
      PROVE  Core' /\ PhasesOK'
  BY <1>2, <1>3, KeptOne
<1>4. CASE WriteSegment(s)
  <2> DEFINE r == [sess[s] EXCEPT !.disk = "segment"]
  <2>1. sess' = [sess EXCEPT ![s] = r] /\ UNCHANGED <<current, client, down>>
    BY <1>4 DEF WriteSegment
  <2>2. Keeps(s, r, InMap(s))
    BY <1>1, TouchedKeeps DEF Session
  <2>3. QED
    BY <1>3, <2>1, <2>2
<1>5. CASE Exit(s)
  <2>1. PICK next \in {"failed", "codec", "evict"} :
           sess' = [sess EXCEPT ![s] = [sess[s] EXCEPT !.watcher = next]]
    BY <1>5 DEF Exit
  <2> DEFINE r == [sess[s] EXCEPT !.watcher = next]
  <2>2. Keeps(s, r, InMap(s))
    BY <1>1, <1>5, WatcherKeeps DEF Session, Exit, Running
  <2>3. UNCHANGED <<current, client, down>>
    BY <1>5 DEF Exit
  <2>4. QED
    BY <1>3, <2>1, <2>2, <2>3
<1>6. CASE RecordExit(s)
  <2> DEFINE r == [sess[s] EXCEPT !.outcome = FailureOnce(s), !.watcher = "evict"]
  <2>1. sess' = [sess EXCEPT ![s] = r] /\ UNCHANGED <<current, client, down>>
    BY <1>6 DEF RecordExit
  <2>2. Keeps(s, r, InMap(s))
    BY <1>1, <1>6, WatcherKeeps DEF Session, RecordExit
  <2>3. QED
    BY <1>3, <2>1, <2>2
<1>7. CASE Evict(s)
  BY <1>7, EvictInv
<1>8. CASE Finish(s)
  <2> DEFINE polled == IF sess[s].poll = "report" THEN "report" ELSE "done"
             r == [sess[s] EXCEPT !.stopped = TRUE, !.disk = "gone",
                                  !.ready = TRUE, !.watcher = "done",
                                  !.poll = polled]
  <2>1. sess' = [sess EXCEPT ![s] = Settled(r)]
        /\ client' = ClientsAfterCleanup(s) /\ UNCHANGED <<current, down>>
    BY <1>8 DEF Finish
  <2>2. ~InMap(s)
    BY <1>8, MapFacts DEF Finish, Alive
  <2>3. r.watcher = "done" /\ r.ending = sess[s].ending
    BY <1>1 DEF Session
  <2> HIDE DEF r
  <2>4. Keeps(s, Settled(r), InMap(s))
    BY <2>2, <2>3, GoneKeeps
  <2>5. NoNewSpawn
    BY <2>1, CleanupKept
  <2>6. QED
    BY <2>1, <2>4, <2>5, KeptOne
<1>9. CASE SeeSegment(s)
  <2> DEFINE r == [sess[s] EXCEPT !.ready = TRUE, !.poll = "report", !.age = 0]
  <2>1. sess' = [sess EXCEPT ![s] = r] /\ UNCHANGED <<current, client, down>>
    BY <1>9 DEF SeeSegment
  <2>2. Keeps(s, r, InMap(s))
    BY <1>1, TouchedKeeps DEF Session
  <2>3. QED
    BY <1>3, <2>1, <2>2
<1>10. CASE ReportReady(s)
  <2> DEFINE r == [sess[s] EXCEPT !.outcome = SuccessOnce(s), !.poll = "done"]
  <2>1. sess' = [sess EXCEPT ![s] = Settled(r)]
        /\ UNCHANGED <<current, client, down>>
    BY <1>10 DEF ReportReady
  <2>2. Keeps(s, r, InMap(s))
    <3>1. /\ r.channel = sess[s].channel /\ r.mode = sess[s].mode
          /\ r.watcher = sess[s].watcher /\ r.ending = sess[s].ending
          /\ r.stopped = sess[s].stopped /\ r.cancelled = sess[s].cancelled
          /\ r.late = sess[s].late /\ r.disk = sess[s].disk
          /\ r.outcome = SuccessOnce(s)
      BY <1>1 DEF Session
    <3>2. SuccessOnce(s) = "failure" => sess[s].outcome = "failure"
      BY DEF SuccessOnce
    <3> HIDE DEF r
    <3>3. QED
      BY <3>1, <3>2, TouchedKeeps
  <2>3. Keeps(s, Settled(r), InMap(s))
    BY <2>2, SettledKeeps DEF InMap
  <2>4. QED
    BY <1>3, <2>1, <2>3
<1>11. CASE StopPolling(s)
  <2> DEFINE r == [sess[s] EXCEPT !.poll = "done"]
  <2>1. sess' = [sess EXCEPT ![s] = Settled(r)]
        /\ UNCHANGED <<current, client, down>>
    BY <1>11 DEF StopPolling
  <2>2. Keeps(s, r, InMap(s))
    BY <1>1, TouchedKeeps DEF Session
  <2>3. Keeps(s, Settled(r), InMap(s))
    BY <2>2, SettledKeeps DEF InMap
  <2>4. QED
    BY <1>3, <2>1, <2>3
<1>12. CASE BeginTerminate(s)
  <2> DEFINE o == IF sess[s].ending = "startup" THEN FailureOnce(s)
                  ELSE sess[s].outcome
             d == [sess[s] EXCEPT !.outcome = o]
             over == [d EXCEPT !.ending = "no"]
             killed == [d EXCEPT !.stopped = TRUE, !.cancelled = TRUE]
  <2>1. ~InMap(s) /\ ~sess[s].cancelled
    BY <1>12, MapFacts DEF BeginTerminate, Alive
  <2>2. UNCHANGED <<current, client, down>>
        /\ sess' = [sess EXCEPT ![s] = IF sess[s].stopped THEN Settled(over)
                                       ELSE killed]
    BY <1>12 DEF BeginTerminate
  <2>3. /\ over.watcher = sess[s].watcher /\ over.stopped = sess[s].stopped
        /\ over.ending = "no" /\ killed.cancelled
        /\ killed.ending = sess[s].ending
    BY <1>1 DEF Session
  <2>4. sess[s].stopped => sess[s].watcher = "done"
    BY <2>1 DEF Core, StopsCancel
  <2> HIDE DEF o, d, over, killed
  <2>5. CASE sess[s].stopped
    <3>1. Keeps(s, Settled(over), InMap(s))
      BY <2>1, <2>3, <2>4, <2>5, GoneKeeps
    <3>2. QED
      BY <1>3, <2>2, <2>5, <3>1
  <2>6. CASE ~sess[s].stopped
    <3>1. Keeps(s, killed, InMap(s))
      BY <2>1, <2>3 DEF Keeps
    <3>2. QED
      BY <1>3, <2>2, <2>6, <3>1
  <2>7. QED
    BY <2>5, <2>6
<1>13. CASE EndTerminate(s)
  <2> DEFINE r == [sess[s] EXCEPT !.ending = "no", !.disk = "gone"]
  <2>1. sess' = [sess EXCEPT ![s] = Settled(r)]
        /\ client' = ClientsAfterCleanup(s) /\ UNCHANGED <<current, down>>
    BY <1>13 DEF EndTerminate
  <2>2. ~InMap(s)
    BY <1>13, MapFacts DEF EndTerminate, Alive
  <2>3. r.cancelled /\ r.ending = "no"
    BY <1>1, <1>13 DEF Session, EndTerminate
  <2> HIDE DEF r
  <2>4. Keeps(s, Settled(r), InMap(s))
    BY <2>2, <2>3, GoneKeeps
  <2>5. NoNewSpawn
    BY <2>1, CleanupKept
  <2>6. QED
    BY <2>1, <2>4, <2>5, KeptOne
<1>14. QED
  BY <1>4, <1>5, <1>6, <1>7, <1>8, <1>9, <1>10, <1>11, <1>12, <1>13
     DEF Watchers, Terminate

(* The reaper, Shutdown and the clock.                                     *)
LEMMA SystemInv ==
  ASSUME IInv, TypeInv',
         \/ Reap \/ ShutdownBegin \/ ShutdownSteps \/ Tick
         \/ \E c \in Channels : ExpireFallback(c) \/ Stop(c)
  PROVE  Core' /\ PhasesOK'
<1> USE Known DEF IInv
<1>1. client' = client => NoNewSpawn
  BY DEF NoNewSpawn, Spawning
<1>2. CASE Reap
  <2> DEFINE stuck == {s \in Slots : InMap(s) /\ StuckInStartup(s)}
             unused == {s \in Slots : InMap(s) /\ IdleTooLong(s)}
             R == stuck \cup unused
  <2>1. /\ down = "up" /\ UNCHANGED <<client, down>>
        /\ current' = [c \in Channels |-> IF current[c] \in R
                                          THEN None ELSE current[c]]
        /\ sess' = [s \in Slots |->
                       CASE s \in stuck  -> Removed(sess[s], "startup")
                         [] s \in unused -> Removed(sess[s], "idle")
                         [] OTHER        -> sess[s]]
    BY <1>2 DEF Reap
  <2>2. ASSUME NEW s \in R PROVE Keeps(s, sess'[s], FALSE)
    <3>1. s \in Slots /\ InMap(s)
      OBVIOUS
    <3>2. /\ Keeps(s, Removed(sess[s], "startup"), FALSE)
          /\ Keeps(s, Removed(sess[s], "idle"), FALSE)
      BY <2>1, <3>1, RemovedKeeps DEF MapTaken
    <3> HIDE DEF stuck, unused
    <3>3. \/ sess'[s] = Removed(sess[s], "startup")
          \/ sess'[s] = Removed(sess[s], "idle")
      BY <2>1, <3>1
    <3>4. QED
      BY <3>2, <3>3
  <2>3. R \in SUBSET Slots
    OBVIOUS
  <2> HIDE DEF stuck, unused
  <2>4. \A s \in Slots \ R : sess'[s] = sess[s]
    BY <2>1
  <2> HIDE DEF R
  <2>5. \A c \in Channels :
           current'[c] = IF current[c] \in R THEN None ELSE current[c]
    BY <2>1
  <2>6. QED
    BY <1>1, <2>1, <2>2, <2>3, <2>4, <2>5, KeptRemoved
<1>3. CASE ShutdownBegin
  <2>1. UNCHANGED <<current, sess, client>> /\ down' = "stopping"
    BY <1>3 DEF ShutdownBegin
  <2>2. QED
    BY <1>1, <2>1, KeptAll DEF PhasesOK, MapTaken
<1>4. CASE ShutdownTakeAll
  <2> DEFINE R == {s \in Slots : InMap(s)}
  <2>1. /\ down = "stopping" /\ ~ReaperBusy /\ Unlocked /\ client' = client
        /\ down' = "terminating"
        /\ current' = [c \in Channels |-> None]
        /\ sess' = [s \in Slots |-> IF InMap(s)
                                    THEN Removed(sess[s], "shutdown")
                                    ELSE sess[s]]
    BY <1>4 DEF ShutdownTakeAll
  <2>2. \A s \in R : sess'[s] = Removed(sess[s], "shutdown")
    BY <2>1
  <2>3. ASSUME NEW s \in R PROVE Keeps(s, sess'[s], FALSE)
    BY <2>1, <2>2, RemovedKeeps DEF MapTaken
  <2>4. \A s \in Slots \ R : sess'[s] = sess[s]
    BY <2>1
  <2>5. \A c \in Channels :
           current'[c] = IF current[c] \in R THEN None ELSE current[c]
    BY <2>1 DEF InMap
  <2>6. \A s \in Slots : sess'[s].ending \notin Reaped
    <3> SUFFICES ASSUME NEW s \in Slots PROVE sess'[s].ending \notin Reaped
      OBVIOUS
    <3>1. sess[s] \in Session /\ sess[s].ending \notin Reaped
      BY <2>1 DEF ReaperBusy
    <3>2. Removed(sess[s], "shutdown").ending = "shutdown"
      BY <3>1 DEF Removed, Session
    <3>3. QED
      BY <2>2, <2>4, <3>1, <3>2 DEF Reaped
  <2>7. PhasesOK'
    BY <2>1, <2>6 DEF PhasesOK, MapTaken
  <2>8. R \in SUBSET Slots
    OBVIOUS
  <2> HIDE DEF R
  <2>9. Core'
    BY <1>1, <2>1, <2>3, <2>4, <2>5, <2>8, KeptRemoved
  <2>10. QED
    BY <2>7, <2>9
<1>5. CASE ShutdownReturn
  <2>1. /\ UNCHANGED <<current, sess, client>>
        /\ down = "terminating" /\ down' = "down"
        /\ \A s \in Slots : sess[s].ending # "shutdown"
    BY <1>5 DEF ShutdownReturn
  <2>2. Core'
    BY <1>1, <2>1, KeptAll
  <2>3. PhasesOK'
    BY <2>1 DEF PhasesOK, MapTaken
  <2>4. QED
    BY <2>2, <2>3
<1>6. CASE Tick
  <2>1. /\ UNCHANGED <<current, client, down>>
        /\ sess' = [s \in Slots |-> IF InMap(s) THEN Aged(s) ELSE sess[s]]
    BY <1>6 DEF Tick
  <2>2. ASSUME NEW s \in Slots PROVE Keeps(s, sess'[s], InMap(s)')
    <3>1. InMap(s)' <=> InMap(s)
      BY <2>1 DEF InMap
    <3>2. sess[s] \in Session
      OBVIOUS
    <3>3. Keeps(s, Aged(s), InMap(s))
      <4> DEFINE r == Aged(s)
      <4>1. /\ r.late = sess[s].late /\ r.outcome = sess[s].outcome
            /\ r.channel = sess[s].channel /\ r.mode = sess[s].mode
            /\ r.watcher = sess[s].watcher /\ r.ending = sess[s].ending
            /\ r.stopped = sess[s].stopped /\ r.cancelled = sess[s].cancelled
            /\ r.disk = sess[s].disk
        BY <3>2 DEF Aged, Session
      <4> HIDE DEF r
      <4>2. Keeps(s, r, InMap(s))
        BY <4>1, TouchedKeeps
      <4>3. QED
        BY <4>2 DEF r
    <3>4. Keeps(s, sess[s], InMap(s))
      BY SameKeeps
    <3>5. Keeps(s, sess'[s], InMap(s))
      BY <2>1, <3>3, <3>4
    <3>6. QED
      BY <3>1, <3>5 DEF Keeps
  <2>3. \A c \in Channels : current'[c] \in {current[c], None}
    BY <2>1
  <2>4. QED
    BY <1>1, <2>1, <2>2, <2>3, Kept
<1>7. ASSUME NEW c \in Channels, ExpireFallback(c) PROVE Core' /\ PhasesOK'
  BY <1>1, <1>7, KeptAll DEF ExpireFallback
<1>8. ASSUME NEW c \in Channels, Stop(c) PROVE Core' /\ PhasesOK'
  <2> DEFINE s == current[c]
             r == Removed(sess[s], "leave")
  <2>1. s \in Slots /\ InMap(s)
    BY <1>8 DEF Stop, InMap
  <2>2. /\ UNCHANGED <<client, down>>
        /\ current' = [current EXCEPT ![c] = None]
        /\ sess' = [sess EXCEPT ![s] = r]
    BY <1>8 DEF Stop
  <2>3. \A d \in Channels : current[d] = s => d = c
    BY <1>8, <2>1, MapFacts
  <2>4. \A d \in Channels :
           current'[d] = IF current[d] \in {s} THEN None ELSE current[d]
    BY <1>8, <2>2, <2>3
  <2>5. Keeps(s, r, FALSE)
    BY <2>1, RemovedKeeps
  <2>6. sess'[s] = r /\ \A t \in Slots \ {s} : sess'[t] = sess[t]
    BY <2>1, <2>2
  <2>7. {s} \in SUBSET Slots /\ \A t \in {s} : Keeps(t, sess'[t], FALSE)
    BY <2>1, <2>5, <2>6
  <2> HIDE DEF r, s
  <2>8. QED
    BY <1>1, <2>2, <2>4, <2>6, <2>7, KeptRemoved
<1>9. QED
  BY <1>2, <1>3, <1>4, <1>5, <1>6, <1>7, <1>8 DEF ShutdownSteps

(* No step leaves the invariant.                                           *)
LEMMA StepInv == IInv /\ [Next]_vars => IInv'
<1> SUFFICES ASSUME IInv, [Next]_vars PROVE IInv'
  OBVIOUS
<1>1. TypeInv'
  BY StepTypes DEF IInv
<1>2. CASE UNCHANGED vars
  <2>1. UNCHANGED <<current, sess, client, down>>
    BY <1>2 DEF vars
  <2>2. NoNewSpawn
    BY <2>1 DEF NoNewSpawn, Spawning
  <2>3. QED
    BY <1>1, <2>1, <2>2, KeptAll DEF IInv
<1>3. CASE Next
  <2>1. Core' /\ PhasesOK'
    BY <1>1, <1>3, RequestInv, HandlerInv, SessionInv, SystemInv DEF Next
  <2>2. QED
    BY <1>1, <2>1 DEF IInv
<1>4. QED
  BY <1>2, <1>3

(* The inductive invariant holds throughout.                               *)
LEMMA Invariance == Spec => []IInv
  BY InitInv, StepInv, PTL DEF Spec

-----------------------------------------------------------------------------
(* GetOrStart and Touch never hand out a session that is being ended: what *)
(* m.sessions holds for a channel is that channel's, and alive.            *)
THEOREM LiveMap == Spec => []MapHoldsLiveSessions
<1>1. IInv => MapHoldsLiveSessions
  BY DEF IInv, Core
<1>2. QED
  BY <1>1, Invariance, PTL

(* A running ffmpeg is in the map, about to be cancelled by the call that  *)
(* took it out, or cancelled: processes do not leak.                       *)
THEOREM NoLeak == Spec => []NoOrphanProcess
<1>1. IInv => NoOrphanProcess
  BY DEF IInv, Core
<1>2. QED
  BY <1>1, Invariance, PTL

(* One spawn at a time, of a channel without a session, with room for it.  *)
THEOREM OneSpawn == Spec => []SpawnExclusive
<1>1. IInv => SpawnExclusive
  BY DEF IInv, Core
<1>2. QED
  BY <1>1, Invariance, PTL

(* MaxSessions and MaxReencodeSessions bound the sessions in the map.      *)
THEOREM Capped == Spec => []CapsRespected
<1>1. IInv => CapsRespected
  BY DEF IInv, Core
<1>2. QED
  BY <1>1, Invariance, PTL

(* When Shutdown has returned, what is in the map and what runs without    *)
(* having been told to stop, or being about to be by a leaving viewer's    *)
(* request, was started after it took the map.                             *)
THEOREM ShutdownComplete == Spec => []ShutdownStopsAll
<1>1. IInv => ShutdownStopsAll
  <2> SUFFICES ASSUME IInv, down = "down" PROVE ShutdownStopsAll
    BY DEF ShutdownStopsAll
  <2>1. \A c \in Channels : current[c] # None => sess[current[c]].late
    BY DEF IInv, PhasesOK, MapTaken
  <2>2. \A c \in Active : sess[current[c]].late
    BY <2>1 DEF Active
  <2>3. ASSUME NEW s \in Slots, Running(s)
        PROVE  sess[s].cancelled \/ sess[s].ending = "leave" \/ sess[s].late
    <3>1. InMap(s) => sess[s].late
      BY <2>1, TransmuxAssumption DEF InMap
    <3>2. InMap(s) \/ sess[s].ending # "no" \/ sess[s].cancelled
      BY <2>3 DEF IInv, Core, NoOrphanProcess
    <3>3. sess[s].ending \notin Reaped \cup {"shutdown"}
      BY DEF IInv, PhasesOK, MapTaken
    <3>4. sess[s].ending \in {"no", "startup", "idle", "leave", "shutdown"}
      BY Known DEF IInv, Session
    <3>5. QED
      BY <3>1, <3>2, <3>3, <3>4 DEF Reaped
  <2>4. QED
    BY <2>2, <2>3 DEF ShutdownStopsAll
<1>2. QED
  BY <1>1, Invariance, PTL

(* A spawn that was charged to the breaker as a failure serves nobody.     *)
THEOREM ChargedAreOver == Spec => []ChargedSpawnsEnd
<1>1. IInv => ChargedSpawnsEnd
  BY DEF IInv, Core
<1>2. QED
  BY <1>1, Invariance, PTL
=============================================================================
