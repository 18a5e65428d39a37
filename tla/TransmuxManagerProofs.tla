----------------------- MODULE TransmuxManagerProofs -----------------------
(***************************************************************************)
(* Every variable of TransmuxManager keeps its type: proofs.               *)
(***************************************************************************)
EXTENDS TransmuxManager, BreakerEntryProofs, FiniteSetTheorems

-----------------------------------------------------------------------------
(* One session: every update an action makes gives a session.              *)

(* Values that actions assign to the counters of a session.                *)
LEMMA CounterValues ==
  /\ StartupDeadline \in Nat
  /\ 0 \in 0..(StartupDeadline + 1) /\ 0 \in 0..(IdleTimeout + 1)
  BY TransmuxAssumption DEF StartupDeadline

(* What a slot holds before and after its use is a session.                *)
LEMMA EndedGood == EndedSession \in Session
  BY CounterValues DEF EndedSession, NewSession, Session, Modes

(* startLocked makes a session.                                            *)
LEMMA NewGood ==
  ASSUME NEW c \in Channels, NEW m \in Modes, NEW late \in BOOLEAN
  PROVE  NewSession(c, m, late) \in Session
  BY CounterValues DEF NewSession, Session

(* Forgetting a session that is over leaves a session.                     *)
LEMMA SettledGood ==
  ASSUME NEW r \in Session
  PROVE  Settled(r) \in Session
  BY EndedGood DEF Settled

(* Taking a session out of the map leaves a session.                       *)
LEMMA RemovedGood ==
  ASSUME NEW r \in Session,
         NEW e \in {"no", "startup", "idle", "leave", "shutdown"}
  PROVE  Removed(r, e) \in Session
  BY CounterValues DEF Removed, Session

(* The updates of the requests.                                            *)
LEMMA RequestGood ==
  ASSUME NEW r \in Session, NEW vs \in SUBSET Clients
  PROVE  /\ [r EXCEPT !.idle = 0] \in Session
         /\ [r EXCEPT !.viewers = vs] \in Session
<1>1. [r EXCEPT !.idle = 0] \in Session
  BY CounterValues DEF Session
<1>2. [r EXCEPT !.viewers = vs] \in Session
  BY DEF Session
<1>3. QED
  BY <1>1, <1>2

(* The updates of ffmpeg and of the two goroutines of a session.           *)
LEMMA WatcherGood ==
  ASSUME NEW r \in Session,
         NEW w \in {"wait", "failed", "codec", "evict", "finish", "done"},
         NEW x \in {"poll", "report", "done"},
         NEW o \in {"none", "success", "failure"}
  PROVE  /\ [r EXCEPT !.watcher = w] \in Session
         /\ [r EXCEPT !.disk = "segment"] \in Session
         /\ [r EXCEPT !.outcome = o, !.watcher = w] \in Session
         /\ [r EXCEPT !.stopped = TRUE, !.disk = "gone", !.ready = TRUE,
                      !.watcher = w, !.poll = x] \in Session
         /\ [r EXCEPT !.ready = TRUE, !.poll = x, !.age = 0] \in Session
         /\ [r EXCEPT !.outcome = o, !.poll = x] \in Session
         /\ [r EXCEPT !.poll = x] \in Session
<1>1. [r EXCEPT !.watcher = w] \in Session
  BY DEF Session
<1>2. [r EXCEPT !.disk = "segment"] \in Session
  BY DEF Session
<1>3. [r EXCEPT !.outcome = o, !.watcher = w] \in Session
  BY DEF Session
<1>4. [r EXCEPT !.stopped = TRUE, !.disk = "gone", !.ready = TRUE,
                !.watcher = w, !.poll = x] \in Session
  BY DEF Session
<1>5. [r EXCEPT !.ready = TRUE, !.poll = x, !.age = 0] \in Session
  BY CounterValues DEF Session
<1>6. [r EXCEPT !.outcome = o, !.poll = x] \in Session
  BY DEF Session
<1>7. [r EXCEPT !.poll = x] \in Session
  BY DEF Session
<1>8. QED
  BY <1>1, <1>2, <1>3, <1>4, <1>5, <1>6, <1>7

(* The updates of terminate.                                               *)
LEMMA EndingGood ==
  ASSUME NEW r \in Session,
         NEW e \in {"no", "startup", "idle", "leave", "shutdown"},
         NEW o \in {"none", "success", "failure"}
  PROVE  /\ [r EXCEPT !.outcome = o] \in Session
         /\ [r EXCEPT !.ending = e] \in Session
         /\ [r EXCEPT !.stopped = TRUE, !.cancelled = TRUE] \in Session
         /\ [r EXCEPT !.ending = e, !.disk = "gone"] \in Session
<1>1. [r EXCEPT !.outcome = o] \in Session
  BY DEF Session
<1>2. [r EXCEPT !.ending = e] \in Session
  BY DEF Session
<1>3. [r EXCEPT !.stopped = TRUE, !.cancelled = TRUE] \in Session
  BY DEF Session
<1>4. [r EXCEPT !.ending = e, !.disk = "gone"] \in Session
  BY DEF Session
<1>5. QED
  BY <1>1, <1>2, <1>3, <1>4

(* One client.  While it has a request it sticks to a channel, and while   *)
(* it waits or registers to a session.                                     *)
ClientOK(k) ==
    /\ k.pc # "idle" => k.channel \in Channels
    /\ k.pc \in {"wait", "register"} => k.slot \in Slots

(* A new request.                                                          *)
LEMMA RequestingGood ==
  ASSUME NEW c \in Channels, NEW s \in Slots
  PROVE  /\ IdleClient \in ClientState /\ ClientOK(IdleClient)
         /\ Requesting("mounted", c, None) \in ClientState
         /\ ClientOK(Requesting("mounted", c, None))
         /\ Requesting("mkdir", c, None) \in ClientState
         /\ ClientOK(Requesting("mkdir", c, None))
         /\ Requesting("wait", c, s) \in ClientState
         /\ ClientOK(Requesting("wait", c, s))
  BY DEF IdleClient, Requesting, ClientState, ClientOK

(* The updates of a request under way.                                     *)
LEMMA ClientGood ==
  ASSUME NEW k \in ClientState, ClientOK(k), k.pc # "idle",
         NEW pc \in {"mounted", "lostdir", "capacity", "spawnerr", "join",
                     "watching"}
  PROVE  /\ Answered(k, pc) \in ClientState /\ ClientOK(Answered(k, pc))
         /\ [k EXCEPT !.pc = pc] \in ClientState
         /\ ClientOK([k EXCEPT !.pc = pc])
         /\ [k EXCEPT !.pc = pc, !.slot = None] \in ClientState
         /\ ClientOK([k EXCEPT !.pc = pc, !.slot = None])
<1>1. [k EXCEPT !.pc = pc, !.slot = None] \in ClientState
      /\ ClientOK([k EXCEPT !.pc = pc, !.slot = None])
  BY DEF ClientState, ClientOK
<1>2. Answered(k, pc) \in ClientState /\ ClientOK(Answered(k, pc))
  BY <1>1 DEF Answered, IdleClient, ClientState, ClientOK
<1>3. [k EXCEPT !.pc = pc] \in ClientState /\ ClientOK([k EXCEPT !.pc = pc])
  BY DEF ClientState, ClientOK
<1>4. QED
  BY <1>1, <1>2, <1>3

(* The gate of one channel.                                                *)
GateOK(g) ==
    /\ g \in [Channels -> Entry]
    /\ \A c \in Channels : EntryOK(g[c])

(* Whatever a handler or goroutine reports, entries stay well formed.      *)
LEMMA GateGood ==
  ASSUME GateOK(gate), NEW c, NEW s
  PROVE  /\ GateOK(GateTaken(c))
         /\ GateOK(GateFailed(c)) /\ GateOK(GateSucceeded(c))
         /\ GateOK(GateFailedOnce(s)) /\ GateOK(GateSucceededOnce(s))
<1>1. ASSUME NEW x PROVE GateOK(GateTaken(x))
  BY AllowGood DEF GateOK, GateTaken
<1>2. ASSUME NEW x PROVE GateOK(GateFailed(x))
  BY FailureGood DEF GateOK, GateFailed
<1>3. ASSUME NEW x PROVE GateOK(GateSucceeded(x))
  BY SuccessGood DEF GateOK, GateSucceeded
<1>4. QED
  BY <1>1, <1>2, <1>3 DEF GateFailedOnce, GateSucceededOnce

-----------------------------------------------------------------------------
(* Types.  The gate needs entries that are well formed for AfterFailure to *)
(* stay within Entry, and a request needs its channel and session.         *)
TypeInv ==
    /\ TypeOK
    /\ \A v \in Clients : ClientOK(client[v])
    /\ GateOK(gate)

(* The initial state has the types.                                        *)
LEMMA InitTypes == Init => TypeInv
<1>1. EndedSession \in Session /\ IdleClient \in ClientState
  BY EndedGood DEF IdleClient, ClientState
<1>2. ClientOK(IdleClient)
  BY DEF ClientOK, IdleClient
<1>3. QED
  BY <1>1, <1>2, AbsentGood DEF Init, TypeInv, TypeOK, GateOK, Modes

(* A step that replaces one client.                                        *)
LEMMA SetClient ==
  ASSUME TypeInv, NEW v \in Clients, NEW k \in ClientState, ClientOK(k),
         client' = [client EXCEPT ![v] = k]
  PROVE  /\ client' \in [Clients -> ClientState]
         /\ \A w \in Clients : ClientOK(client'[w])
<1>1. client' \in [Clients -> ClientState]
  BY DEF TypeInv, TypeOK
<1>2. ASSUME NEW w \in Clients PROVE ClientOK(client'[w])
  <2>1. client'[w] = IF w = v THEN k ELSE client[w]
    BY DEF TypeInv, TypeOK
  <2>2. QED
    BY <2>1 DEF TypeInv
<1>3. QED
  BY <1>1, <1>2

(* A step that replaces one session.                                       *)
LEMMA SetSession ==
  ASSUME TypeInv, NEW s \in Slots, NEW r \in Session,
         sess' = [sess EXCEPT ![s] = r]
  PROVE  sess' \in [Slots -> Session]
  BY DEF TypeInv, TypeOK

(* What the steps use of TypeInv.                                          *)
LEMMA Known ==
  ASSUME TypeInv
  PROVE  /\ current \in [Channels -> Slots \cup {None}]
         /\ sess \in [Slots -> Session]
         /\ client \in [Clients -> ClientState]
         /\ \A v \in Clients : client[v] \in ClientState /\ ClientOK(client[v])
         /\ \A s \in Slots : sess[s] \in Session
         /\ \A c \in Channels : current[c] # None => current[c] \in Slots
  BY DEF TypeInv, TypeOK

(* GetOrStart: one of its four ways through the critical section.          *)
LEMMA GetOrStartTypes ==
  ASSUME TypeInv, NEW v \in Clients, NEW c \in Channels, GetOrStart(v, c)
  PROVE  TypeInv'
<1>1. UNCHANGED <<current, decode, down>>
  BY DEF GetOrStart
<1>2. CASE UseExisting(v, c)
  <2>1. current[c] \in Slots
    BY <1>2, Known DEF UseExisting, Live
  <2>2. /\ sess' \in [Slots -> Session]
        /\ client' = [client EXCEPT ![v] = Requesting("wait", c, current[c])]
    BY <1>2, <2>1, Known, RequestGood DEF UseExisting
  <2>3. /\ client' \in [Clients -> ClientState]
        /\ \A w \in Clients : ClientOK(client'[w])
    BY <2>1, <2>2, RequestingGood, SetClient
  <2>4. QED
    BY <1>1, <1>2, <2>2, <2>3 DEF UseExisting, TypeInv, TypeOK
<1>3. ASSUME NEW pc \in {"mounted", "mkdir"},
             client' = [client EXCEPT ![v] = Requesting(pc, c, None)],
             gate' = gate \/ gate' = GateTaken(c), sess' = sess
      PROVE  TypeInv'
  <2>2. /\ Requesting(pc, c, None) \in ClientState
        /\ ClientOK(Requesting(pc, c, None))
    BY DEF Requesting, ClientState, ClientOK
  <2>3. /\ client' \in [Clients -> ClientState]
        /\ \A w \in Clients : ClientOK(client'[w])
    BY <1>3, <2>2, SetClient
  <2>4. GateOK(gate')
    BY <1>3, GateGood DEF TypeInv
  <2>5. QED
    BY <1>1, <1>3, <2>3, <2>4 DEF TypeInv, TypeOK, GateOK
<1>4. QED
  BY <1>2, <1>3 DEF GetOrStart, GateDenied, Busy, BeginSpawn

(* The other requests of a player.                                         *)
LEMMA RequestTypes ==
  ASSUME TypeInv, NEW v \in Clients, Request(v)
  PROVE  TypeInv'
<1> USE Known
<1>1. ASSUME NEW c \in Channels, Mount(v, c) PROVE TypeInv'
  BY <1>1, GetOrStartTypes DEF Mount
<1>2. CASE Reload(v)
  BY <1>2, GetOrStartTypes DEF Reload, ClientOK
<1>3. CASE Segment(v)
  <2>1. client[v].channel \in Channels
    BY <1>3 DEF Segment, ClientOK
  <2>2. current[client[v].channel] \in Slots
    BY <1>3, <2>1 DEF Segment, Live
  <2>3. sess' \in [Slots -> Session]
    BY <1>3, <2>2, RequestGood DEF Segment
  <2>4. QED
    BY <1>3, <2>3 DEF Segment, TypeInv, TypeOK
<1>4. CASE LeaveViewer(v)
  <2> DEFINE c == client[v].channel
             s == current[c]
  <2>1. c \in Channels /\ client[v].pc # "idle"
    BY <1>4 DEF LeaveViewer, ClientOK
  <2>2. ClientAfterLeave(v) \in ClientState /\ ClientOK(ClientAfterLeave(v))
    <3>1. [client[v] EXCEPT !.left = TRUE] \in ClientState
          /\ ClientOK([client[v] EXCEPT !.left = TRUE])
      BY <2>1 DEF ClientState, ClientOK
    <3>2. IdleClient \in ClientState /\ ClientOK(IdleClient)
      BY DEF IdleClient, ClientState, ClientOK
    <3>3. QED
      BY <3>1, <3>2 DEF ClientAfterLeave
  <2>3. /\ client' \in [Clients -> ClientState]
        /\ \A w \in Clients : ClientOK(client'[w])
    BY <1>4, <2>2, SetClient DEF LeaveViewer
  <2>4. CASE s # None /\ LastViewer(s, v) /\ v \in sess[s].viewers
    <3>1. s \in Slots
      BY <2>1, <2>4
    <3>2. Removed(sess[s], "leave") \in Session
      BY <3>1, RemovedGood
    <3>3. /\ current' = [current EXCEPT ![c] = None]
          /\ sess' = [sess EXCEPT ![s] = Removed(@, "leave")]
      BY <1>4, <2>4 DEF LeaveViewer
    <3>4. current' \in [Channels -> Slots \cup {None}]
      BY <3>3
    <3>5. sess' \in [Slots -> Session]
      BY <3>1, <3>2, <3>3
    <3>6. QED
      BY <1>4, <2>3, <3>4, <3>5 DEF LeaveViewer, TypeInv, TypeOK
  <2>5. CASE s # None /\ ~LastViewer(s, v) /\ v \in sess[s].viewers
    <3>1. s \in Slots
      BY <2>1, <2>5
    <3>2. sess[s].viewers \ {v} \in SUBSET Clients
      BY <3>1 DEF Session
    <3>3. [sess[s] EXCEPT !.viewers = sess[s].viewers \ {v}] \in Session
      BY <3>1, <3>2, RequestGood
    <3>4. sess' = [sess EXCEPT ![s] =
                     [sess[s] EXCEPT !.viewers = sess[s].viewers \ {v}]]
          /\ UNCHANGED current
      BY <1>4, <2>5, <3>1 DEF LeaveViewer
    <3>5. sess' \in [Slots -> Session]
      BY <3>1, <3>3, <3>4, SetSession
    <3>6. QED
      BY <1>4, <2>3, <3>4, <3>5 DEF LeaveViewer, TypeInv, TypeOK
  <2>6. CASE ~(s # None /\ v \in sess[s].viewers)
    <3>1. UNCHANGED <<current, sess>>
      BY <1>4, <2>6 DEF LeaveViewer
    <3>2. QED
      BY <1>4, <2>3, <3>1 DEF LeaveViewer, TypeInv, TypeOK
  <2>7. QED
    BY <2>4, <2>5, <2>6
<1>5. CASE Vanish(v)
  <2>1. IdleClient \in ClientState /\ ClientOK(IdleClient)
    BY DEF IdleClient, ClientState, ClientOK
  <2>2. /\ client' \in [Clients -> ClientState]
        /\ \A w \in Clients : ClientOK(client'[w])
    BY <1>5, <2>1, SetClient DEF Vanish
  <2>3. QED
    BY <1>5, <2>2 DEF Vanish, TypeInv, TypeOK
<1>6. QED
  BY <1>1, <1>2, <1>3, <1>4, <1>5 DEF Request

(* The handlers' next steps.                                               *)
LEMMA HandlerTypes ==
  ASSUME TypeInv, NEW v \in Clients, Handler(v)
  PROVE  TypeInv'
<1> USE Known
<1> DEFINE c == client[v].channel
           Replaced(k) == client' = [client EXCEPT ![v] = k]
<1>1. ASSUME NEW k \in ClientState, ClientOK(k), Replaced(k)
      PROVE  /\ client' \in [Clients -> ClientState]
             /\ \A w \in Clients : ClientOK(client'[w])
  BY <1>1, SetClient
<1>2. CASE Spawn(v)
  <2>1. c \in Channels /\ ModeFor(c) \in Modes /\ MapTaken \in BOOLEAN
    BY <1>2 DEF Spawn, ClientOK, ModeFor, Modes, TypeInv, TypeOK, MapTaken
  <2>2. PICK s \in Slots :
           /\ current' = [current EXCEPT ![c] = s]
           /\ sess' = [sess EXCEPT ![s] = NewSession(c, ModeFor(c), MapTaken)]
           /\ Replaced([client[v] EXCEPT !.pc = "wait", !.slot = s])
    BY <1>2 DEF Spawn
  <2>3. sess' \in [Slots -> Session]
    BY <2>1, <2>2, NewGood, SetSession
  <2>4. current' \in [Channels -> Slots \cup {None}]
    BY <2>2
  <2>5. client[v].pc # "idle"
    BY <1>2 DEF Spawn
  <2>6. [client[v] EXCEPT !.pc = "wait", !.slot = s] \in ClientState
        /\ ClientOK([client[v] EXCEPT !.pc = "wait", !.slot = s])
    BY <2>5 DEF ClientState, ClientOK
  <2>7. /\ client' \in [Clients -> ClientState]
        /\ \A w \in Clients : ClientOK(client'[w])
    BY <1>1, <2>2, <2>6
  <2>8. QED
    BY <1>2, <2>3, <2>4, <2>7 DEF Spawn, TypeInv, TypeOK
<1>3. CASE ReencodeDenied(v)
  <2>1. /\ client' \in [Clients -> ClientState]
        /\ \A w \in Clients : ClientOK(client'[w])
    BY <1>1, ClientGood, <1>3 DEF ReencodeDenied
  <2>2. QED
    BY <1>3, <2>1 DEF ReencodeDenied, TypeInv, TypeOK
<1>4. CASE SpawnError(v)
  <2>1. /\ client' \in [Clients -> ClientState]
        /\ \A w \in Clients : ClientOK(client'[w])
    BY <1>1, ClientGood, <1>4 DEF SpawnError
  <2>2. QED
    BY <1>4, <2>1 DEF SpawnError, TypeInv, TypeOK
<1>5. CASE RecordSpawnFailure(v)
  <2>1. /\ client' \in [Clients -> ClientState]
        /\ \A w \in Clients : ClientOK(client'[w])
    BY <1>1, ClientGood, <1>5 DEF RecordSpawnFailure
  <2>2. GateOK(gate')
    BY <1>5, GateGood DEF RecordSpawnFailure, TypeInv
  <2>3. QED
    BY <1>5, <2>1, <2>2 DEF RecordSpawnFailure, TypeInv, TypeOK, GateOK
<1>6. CASE Serve(v)
  <2>1. client[v].slot \in Slots
    BY <1>6 DEF Serve, ClientOK
  <2>2. sess' \in [Slots -> Session]
    BY <1>6, <2>1, RequestGood DEF Serve
  <2>3. AfterServing(v) \in ClientState /\ ClientOK(AfterServing(v))
    BY <1>6, ClientGood DEF Serve, AfterServing
  <2>4. /\ client' \in [Clients -> ClientState]
        /\ \A w \in Clients : ClientOK(client'[w])
    BY <1>1, <1>6, <2>3 DEF Serve
  <2>5. QED
    BY <1>6, <2>2, <2>4 DEF Serve, TypeInv, TypeOK
<1>7. CASE ServeFailed(v)
  <2>1. /\ client' \in [Clients -> ClientState]
        /\ \A w \in Clients : ClientOK(client'[w])
    BY <1>1, ClientGood, <1>7 DEF ServeFailed
  <2>2. QED
    BY <1>7, <2>1 DEF ServeFailed, TypeInv, TypeOK
<1>8. CASE StopWaiting(v)
  <2>1. /\ client' \in [Clients -> ClientState]
        /\ \A w \in Clients : ClientOK(client'[w])
    BY <1>1, ClientGood, <1>8 DEF StopWaiting
  <2>2. QED
    BY <1>8, <2>1 DEF StopWaiting, TypeInv, TypeOK
<1>9. CASE JoinViewer(v)
  <2> DEFINE s == current[c]
             k == [client[v] EXCEPT !.pc = "register", !.slot = s]
  <2>1. c \in Channels /\ client[v].pc = "join"
    BY <1>9 DEF JoinViewer, ClientOK
  <2>2. s # None => k \in ClientState /\ ClientOK(k)
    BY <2>1 DEF ClientState, ClientOK
  <2>3. Answered(client[v], "watching") \in ClientState
        /\ ClientOK(Answered(client[v], "watching"))
    BY <2>1, ClientGood
  <2>4. /\ s = None => Replaced(Answered(client[v], "watching"))
        /\ s # None => Replaced(k)
    BY <1>9 DEF JoinViewer
  <2> HIDE DEF k
  <2>5. /\ client' \in [Clients -> ClientState]
        /\ \A w \in Clients : ClientOK(client'[w])
    BY <1>1, <2>2, <2>3, <2>4
  <2>6. QED
    BY <1>9, <2>5 DEF JoinViewer, TypeInv, TypeOK
<1>10. CASE Register(v)
  <2> DEFINE s == client[v].slot
  <2>1. s \in Slots
    BY <1>10 DEF Register, ClientOK
  <2>2. sess[s].viewers \cup {v} \in SUBSET Clients
    BY <2>1 DEF Session
  <2>3. [sess[s] EXCEPT !.viewers = sess[s].viewers \cup {v}] \in Session
    BY <2>1, <2>2, RequestGood
  <2>4. \/ sess' = sess
        \/ sess' = [sess EXCEPT ![s] =
                      [sess[s] EXCEPT !.viewers = sess[s].viewers \cup {v}]]
    BY <1>10, <2>1 DEF Register
  <2>5. sess' \in [Slots -> Session]
    BY <2>1, <2>3, <2>4, SetSession
  <2>6. /\ client' \in [Clients -> ClientState]
        /\ \A w \in Clients : ClientOK(client'[w])
    BY <1>1, ClientGood, <1>10 DEF Register
  <2>7. QED
    BY <1>10, <2>5, <2>6 DEF Register, TypeInv, TypeOK
<1>11. QED
  BY <1>2, <1>3, <1>4, <1>5, <1>6, <1>7, <1>8, <1>9, <1>10 DEF Handler, SpawnSteps

(* ffmpeg, the goroutines of a session and terminate.                      *)
LEMMA SessionTypes ==
  ASSUME TypeInv, NEW s \in Slots,
         WriteSegment(s) \/ Exit(s) \/ Watchers(s) \/ Terminate(s)
  PROVE  TypeInv'
<1> USE Known
<1> DEFINE Replaced(r) == sess' = [sess EXCEPT ![s] = r]
<1>1. ASSUME NEW r \in Session, Replaced(r) PROVE sess' \in [Slots -> Session]
  BY <1>1, SetSession
<1>2. FailureOnce(s) \in {"none", "success", "failure"}
      /\ SuccessOnce(s) \in {"none", "success", "failure"}
  BY DEF FailureOnce, SuccessOnce, Session
<1>3. GateOK(GateFailedOnce(s)) /\ GateOK(GateSucceededOnce(s))
  BY GateGood DEF TypeInv
<1>4. /\ ClientsAfterCleanup(s) \in [Clients -> ClientState]
      /\ \A v \in Clients : ClientOK(ClientsAfterCleanup(s)[v])
  <2>1. ASSUME NEW v \in Clients
        PROVE  /\ ClientsAfterCleanup(s)[v] \in ClientState
               /\ ClientOK(ClientsAfterCleanup(s)[v])
    <3>1. client[v].pc = "mkdir" =>
             /\ [client[v] EXCEPT !.pc = "lostdir"] \in ClientState
             /\ ClientOK([client[v] EXCEPT !.pc = "lostdir"])
      BY ClientGood
    <3>2. QED
      BY <3>1 DEF ClientsAfterCleanup
  <2>2. QED
    BY <2>1 DEF ClientsAfterCleanup
<1>5. CASE WriteSegment(s)
  <2>1. sess' \in [Slots -> Session]
    BY <1>1, <1>5, WatcherGood DEF WriteSegment
  <2>2. QED
    BY <1>5, <2>1 DEF WriteSegment, TypeInv, TypeOK
<1>6. CASE Exit(s)
  <2>1. sess' \in [Slots -> Session]
    BY <1>1, <1>6, WatcherGood DEF Exit
  <2>2. QED
    BY <1>6, <2>1 DEF Exit, TypeInv, TypeOK
<1>7. CASE RecordExit(s)
  <2>1. sess' \in [Slots -> Session]
    BY <1>1, <1>2, <1>7, WatcherGood DEF RecordExit
  <2>2. decode' \in [Channels -> Modes]
    BY <1>7 DEF RecordExit, TypeInv, TypeOK, Modes
  <2>3. QED
    BY <1>3, <1>7, <2>1, <2>2 DEF RecordExit, TypeInv, TypeOK, GateOK
<1>8. CASE Evict(s)
  <2> DEFINE ended == [sess[s] EXCEPT !.watcher = "finish"]
  <2>1. ended \in Session
    BY WatcherGood
  <2>2. Removed(ended, "no") \in Session
    BY <2>1, RemovedGood
  <2> HIDE DEF ended
  <2>3. sess' = [sess EXCEPT ![s] = Removed(ended, "no")]
        \/ sess' = [sess EXCEPT ![s] = ended]
    BY <1>8 DEF Evict, ended
  <2>4. sess' \in [Slots -> Session]
    BY <1>1, <2>1, <2>2, <2>3
  <2>5. current' \in [Channels -> Slots \cup {None}]
    BY <1>8 DEF Evict
  <2>6. QED
    BY <1>8, <2>4, <2>5 DEF Evict, TypeInv, TypeOK
<1>9. CASE Finish(s)
  <2> DEFINE x == IF sess[s].poll = "report" THEN "report" ELSE "done"
             r == [sess[s] EXCEPT !.stopped = TRUE, !.disk = "gone",
                                  !.ready = TRUE, !.watcher = "done",
                                  !.poll = x]
  <2>1. x \in {"poll", "report", "done"}
    BY DEF Session
  <2>2. Replaced(Settled(r))
    BY <1>9 DEF Finish
  <2> HIDE DEF x
  <2>3. r \in Session
    BY <2>1, WatcherGood
  <2> HIDE DEF r
  <2>4. sess' \in [Slots -> Session]
    BY <1>1, <2>2, <2>3, SettledGood
  <2>5. client' = ClientsAfterCleanup(s)
    BY <1>9 DEF Finish
  <2>6. QED
    BY <1>4, <1>9, <2>4, <2>5 DEF Finish, TypeInv, TypeOK
<1>10. CASE SeeSegment(s)
  <2>1. sess' \in [Slots -> Session]
    BY <1>1, <1>10, WatcherGood DEF SeeSegment
  <2>2. QED
    BY <1>10, <2>1 DEF SeeSegment, TypeInv, TypeOK
<1>11. CASE ReportReady(s)
  <2>1. [sess[s] EXCEPT !.outcome = SuccessOnce(s), !.poll = "done"] \in Session
    BY <1>2, WatcherGood
  <2>2. sess' \in [Slots -> Session]
    BY <1>1, <1>11, <2>1, SettledGood DEF ReportReady
  <2>3. QED
    BY <1>3, <1>11, <2>2 DEF ReportReady, TypeInv, TypeOK, GateOK
<1>12. CASE StopPolling(s)
  <2>1. [sess[s] EXCEPT !.poll = "done"] \in Session
    BY WatcherGood
  <2>2. sess' \in [Slots -> Session]
    BY <1>1, <1>12, <2>1, SettledGood DEF StopPolling
  <2>3. QED
    BY <1>12, <2>2 DEF StopPolling, TypeInv, TypeOK
<1>13. CASE BeginTerminate(s)
  <2> DEFINE o == IF sess[s].ending = "startup" THEN FailureOnce(s)
                  ELSE sess[s].outcome
             d == [sess[s] EXCEPT !.outcome = o]
             r == IF sess[s].stopped THEN Settled([d EXCEPT !.ending = "no"])
                  ELSE [d EXCEPT !.stopped = TRUE, !.cancelled = TRUE]
  <2>1. o \in {"none", "success", "failure"}
    BY <1>2 DEF Session
  <2>2. Replaced(r)
    BY <1>13 DEF BeginTerminate
  <2> HIDE DEF o
  <2>3. d \in Session
    BY <2>1, EndingGood
  <2> HIDE DEF d
  <2>4. r \in Session
    BY <2>3, EndingGood, SettledGood
  <2>5. sess' \in [Slots -> Session]
    BY <1>1, <2>2, <2>4
  <2>6. GateOK(gate')
    BY <1>3, <1>13 DEF BeginTerminate, TypeInv
  <2>7. QED
    BY <1>13, <2>5, <2>6 DEF BeginTerminate, TypeInv, TypeOK, GateOK
<1>14. CASE EndTerminate(s)
  <2>1. [sess[s] EXCEPT !.ending = "no", !.disk = "gone"] \in Session
    BY EndingGood
  <2>2. sess' \in [Slots -> Session]
    BY <1>1, <1>14, <2>1, SettledGood DEF EndTerminate
  <2>3. client' = ClientsAfterCleanup(s)
    BY <1>14 DEF EndTerminate
  <2>4. QED
    BY <1>4, <1>14, <2>2, <2>3 DEF EndTerminate, TypeInv, TypeOK
<1>15. QED
  BY <1>5, <1>6, <1>7, <1>8, <1>9, <1>10, <1>11, <1>12, <1>13, <1>14
     DEF Watchers, Terminate

(* The reaper, Shutdown and the clock.                                     *)
LEMMA SystemTypes ==
  ASSUME TypeInv,
         \/ Reap \/ ShutdownBegin \/ ShutdownSteps \/ Tick
         \/ \E c \in Channels : ExpireFallback(c) \/ Stop(c)
  PROVE  TypeInv'
<1> USE Known
<1>1. \A s \in Slots : /\ Removed(sess[s], "startup") \in Session
                       /\ Removed(sess[s], "idle") \in Session
                       /\ Removed(sess[s], "shutdown") \in Session
  BY RemovedGood
<1>2. CASE Reap
  <2>1. sess' \in [Slots -> Session]
    BY <1>1, <1>2 DEF Reap
  <2>2. current' \in [Channels -> Slots \cup {None}]
    BY <1>2 DEF Reap
  <2>3. QED
    BY <1>2, <2>1, <2>2 DEF Reap, TypeInv, TypeOK
<1>3. CASE ShutdownBegin
  BY <1>3 DEF ShutdownBegin, TypeInv, TypeOK
<1>4. CASE ShutdownTakeAll
  <2>1. sess' \in [Slots -> Session]
    BY <1>1, <1>4 DEF ShutdownTakeAll
  <2>2. current' \in [Channels -> Slots \cup {None}]
    BY <1>4 DEF ShutdownTakeAll
  <2>3. QED
    BY <1>4, <2>1, <2>2 DEF ShutdownTakeAll, TypeInv, TypeOK
<1>5. CASE ShutdownReturn
  BY <1>5 DEF ShutdownReturn, TypeInv, TypeOK
<1>6. CASE Tick
  <2>1. ASSUME NEW s \in Slots PROVE Aged(s) \in Session
    <3> DEFINE r == sess[s]
               a == IF ~r.ready /\ r.age <= StartupDeadline
                    THEN r.age + 1 ELSE r.age
               i == IF r.idle <= IdleTimeout THEN r.idle + 1 ELSE r.idle
    <3>1. a \in 0..(StartupDeadline + 1) /\ i \in 0..(IdleTimeout + 1)
      BY CounterValues, TransmuxAssumption DEF Session
    <3>2. Aged(s) = [r EXCEPT !.age = a, !.idle = i]
      BY DEF Aged
    <3>3. r \in Session
      OBVIOUS
    <3> HIDE DEF a, i, r
    <3>4. QED
      BY <3>1, <3>2, <3>3 DEF Session
  <2>2. sess' \in [Slots -> Session]
    BY <1>6, <2>1 DEF Tick
  <2>3. GateOK(gate')
    BY <1>6, OlderGood DEF Tick, TypeInv, GateOK
  <2>4. QED
    BY <1>6, <2>2, <2>3 DEF Tick, TypeInv, TypeOK, GateOK
<1>7. ASSUME NEW c \in Channels, ExpireFallback(c) PROVE TypeInv'
  BY <1>7 DEF ExpireFallback, TypeInv, TypeOK, Modes
<1>8. ASSUME NEW c \in Channels, Stop(c) PROVE TypeInv'
  <2>1. current[c] \in Slots
    BY <1>8 DEF Stop
  <2>2. Removed(sess[current[c]], "leave") \in Session
    BY <2>1, RemovedGood
  <2>3. /\ current' \in [Channels -> Slots \cup {None}]
        /\ sess' \in [Slots -> Session]
    BY <1>8, <2>1, <2>2 DEF Stop
  <2>4. QED
    BY <1>8, <2>3 DEF Stop, TypeInv, TypeOK
<1>9. QED
  BY <1>2, <1>3, <1>4, <1>5, <1>6, <1>7, <1>8 DEF ShutdownSteps

(* No step leaves the types.                                               *)
LEMMA StepTypes == TypeInv /\ [Next]_vars => TypeInv'
<1> SUFFICES ASSUME TypeInv, [Next]_vars PROVE TypeInv'
  OBVIOUS
<1>1. CASE UNCHANGED vars
  BY <1>1 DEF vars, TypeInv, TypeOK
<1>2. CASE Next
  BY <1>2, RequestTypes, HandlerTypes, SessionTypes, SystemTypes DEF Next
<1>3. QED
  BY <1>1, <1>2

(* Every variable of the manager keeps its type, and every entry of the    *)
(* breaker is one its methods produce.                                     *)
THEOREM TypeCorrect == Spec => []TypeOK
<1>1. Spec => []TypeInv
  BY InitTypes, StepTypes, PTL DEF Spec
<1>2. TypeInv => TypeOK
  BY DEF TypeInv
<1>3. QED
  BY <1>1, <1>2, PTL
=============================================================================
