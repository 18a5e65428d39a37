------------------------ MODULE StreamManagerProofs ------------------------
(***************************************************************************)
(* The stream manager keeps its types, its map and its processes in step:  *)
(* proofs of the safety invariants of StreamManager for any numbers of     *)
(* keys, requests, sessions and processes.                                 *)
(***************************************************************************)
EXTENDS StreamManager, TLAPS

Leads(r) == req[r].pc \in {"siblings", "spawn", "register"}
Seeks(r) == req[r].pc \in {"drain", "reattach", "kill"}

(* What the operators on sessions leave as it is: everything that the map, *)
(* the processes and the locks rely on.                                    *)
Same(a, b) ==
    /\ a \in Session
    /\ a.stage = b.stage /\ a.lock = b.lock
    /\ b.stage # "free" => a.key = b.key /\ a.proc = b.proc /\ a.late = b.late
    /\ b.stage = "free" /\ b.proc = None => a.proc = None
    /\ a.watch # "off" => b.watch # "off" /\ a.key = b.key

LEMMA FreeTypes == FreeSession \in Session
BY DEF FreeSession, Session

LEMMA SettledSame == ASSUME NEW s \in Session PROVE Same(Settled(s), s)
<1>1. CASE Settled(s) = s
  BY <1>1 DEF Same
<1>2. CASE Settled(s) = FreeSession /\ s.stage = "free" /\ s.watch = "off" /\ s.lock = None
  BY <1>2, FreeTypes DEF Same, FreeSession
<1>. QED
  BY <1>1, <1>2 DEF Settled

LEMMA WatchOverSame == ASSUME NEW s \in Session PROVE Same(WatchOver(s), s) /\ WatchOver(s).watch = "off"
<1> DEFINE t == [s EXCEPT !.watch = "off"]
<1>1. t \in Session /\ t.stage = s.stage /\ t.lock = s.lock /\ t.key = s.key /\ t.proc = s.proc
      /\ t.late = s.late /\ t.watch = "off"
  BY DEF Session
<1>2. WatchOver(s) = Settled(t)
  BY DEF WatchOver
<1>. HIDE DEF t
<1>3. Same(Settled(t), t)
  BY <1>1, SettledSame
<1>. QED
  BY <1>1, <1>2, <1>3 DEF Same, Session

LEMMA ChangedSame == ASSUME NEW s \in Session PROVE Same(Changed(s), s)
<1>1. Same(s, s)
  BY DEF Same
<1>. QED
  BY <1>1, WatchOverSame DEF Changed

LEMMA TouchedSame == ASSUME NEW s \in Session PROVE Same(Touched(s), s)
BY DEF Touched, Same, Session

(* A session that somebody takes out of the map.                           *)
LEMMA TakenTypes ==
    ASSUME NEW s \in Session, NEW o \in Owners
    PROVE  /\ Taken(s, o) \in Session
           /\ Taken(s, o).stage = "cancel" /\ Taken(s, o).lock = s.lock
           /\ s.stage # "free" => Taken(s, o).key = s.key /\ Taken(s, o).proc = s.proc
           /\ Taken(s, o).watch # "off" => s.watch # "off"
<1> DEFINE t == Changed(s)
<1>1. Same(t, s)
  BY ChangedSame
<1>2. Taken(s, o) = [t EXCEPT !.stage = "cancel", !.owner = o, !.copy = FALSE, !.idle = FALSE,
                              !.late = FALSE]
  BY DEF Taken
<1>. HIDE DEF t
<1>. QED
  BY <1>1, <1>2 DEF Same, Session, Owners

(* The lock is given back, and the session may be forgotten.               *)
LEMMA UnlockedTypes ==
    ASSUME NEW s \in Session
    PROVE  /\ Unlocked(s) \in Session
           /\ Unlocked(s).stage = s.stage /\ Unlocked(s).lock = None
           /\ s.stage # "free" =>
                Unlocked(s).key = s.key /\ Unlocked(s).proc = s.proc /\ Unlocked(s).late = s.late
           /\ s.stage = "free" /\ s.proc = None => Unlocked(s).proc = None
           /\ Unlocked(s).watch # "off" => s.watch # "off" /\ Unlocked(s).key = s.key
<1> DEFINE t == [s EXCEPT !.lock = None]
<1>1. t \in Session /\ t.stage = s.stage /\ t.lock = None /\ t.key = s.key /\ t.proc = s.proc
      /\ t.late = s.late /\ t.watch = s.watch
  BY DEF Session
<1>2. Unlocked(s) = Settled(t)
  BY DEF Unlocked
<1>. HIDE DEF t
<1>3. Same(Settled(t), t)
  BY <1>1, SettledSame
<1>. QED
  BY <1>1, <1>2, <1>3 DEF Same

-----------------------------------------------------------------------------
(* TYPES *)

Types ==
    /\ sessions \in [Keys -> Slots \cup {None}]
    /\ sess \in [Slots -> Session]
    /\ proc \in [Procs -> Process]
    /\ dir \in [Keys -> Dirs]
    /\ flight \in [Keys -> Requests \cup {None}]
    /\ req \in [Requests -> Request]
    /\ down \in {"up", "closing", "stopping", "down"}

Locks ==
    \A s \in Slots : sess[s].lock # None =>
        req[sess[s].lock].slot = s /\ Seeks(sess[s].lock)

LEMMA TypeParts == TypeOK <=> Types /\ Locks
BY DEF TypeOK, Types, Locks, Seeks

LEMMA IdleTypes == IdleRequest \in Request
BY DEF IdleRequest, Request

LEMMA TypeInit == Init => TypeOK
BY FreeTypes, IdleTypes
   DEF Init, TypeOK, FreeSession, NoProcess, Process, Dirs

(* Locks are taken by Lock only, and given back before a seek ends.        *)
LEMMA LocksKept ==
    ASSUME Types, Locks,
           \A s \in Slots : sess'[s].lock \in {sess[s].lock, None},
           \A r \in Requests : Seeks(r) =>
               \/ req'[r].slot = req[r].slot /\ Seeks(r)'
               \/ \A s \in Slots : sess'[s].lock # r
    PROVE  Locks'
<1>. SUFFICES ASSUME NEW s \in Slots, sess'[s].lock # None
              PROVE  req'[sess'[s].lock].slot = s /\ Seeks(sess[s].lock)'
  BY DEF Locks
<1>1. sess'[s].lock = sess[s].lock /\ sess[s].lock \in Requests
  BY DEF Types, Session
<1>2. req[sess[s].lock].slot = s /\ Seeks(sess[s].lock)
  BY <1>1 DEF Locks
<1>. QED
  BY <1>1, <1>2 DEF Seeks

(* Nothing of a session changes that others rely on.                       *)
AllSame == sess' \in [Slots -> Session] /\ \A s \in Slots : Same(sess'[s], sess[s])

LEMMA UnchangedSame == ASSUME Types, UNCHANGED sess PROVE AllSame
BY DEF Types, AllSame, Same

LEMMA OneSame ==
    ASSUME Types, NEW s, NEW t, s \in Slots => Same(t, sess[s]), sess' = [sess EXCEPT ![s] = t]
    PROVE  AllSame
BY DEF Types, AllSame, Same

(* The steps that only touch a session, or look at it.                     *)
Glances ==
    \/ \E k \in Keys : GetSession(k)
    \/ \E s \in Slots : StopWatching(s) \/ WatchExit(s) \/ WatchLook(s) \/ Idle(s)

LEMMA TouchSame ==
    ASSUME Types, NEW k, sess' = [sess EXCEPT ![k] = Touched(@)]
    PROVE  AllSame
<1>1. k \in Slots => Same(Touched(sess[k]), sess[k])
  BY TouchedSame DEF Types
<1>2. CASE k \in Slots
  BY <1>1, <1>2 DEF Types, AllSame, Same
<1>3. CASE k \notin Slots
  BY <1>3 DEF Types, AllSame, Same
<1>. QED
  BY <1>2, <1>3

LEMMA GlancesSame == ASSUME Types, Glances PROVE AllSame /\ UNCHANGED <<sessions, proc, dir, flight, req, down>>
<1>1. ASSUME NEW k \in Keys, GetSession(k) PROVE AllSame
  BY <1>1, TouchSame DEF GetSession
<1>2. ASSUME NEW s \in Slots, StopWatching(s) \/ WatchExit(s) \/ WatchLook(s) \/ Idle(s) PROVE AllSame
  <2>0. sess[s] \in Session
    BY DEF Types
  <2>1. /\ Same(WatchOver(sess[s]), sess[s])
        /\ sess[s].watch # "off" => Same([sess[s] EXCEPT !.watch = "look"], sess[s])
        /\ sess[s].watch # "off" => Same([sess[s] EXCEPT !.watch = "stop"], sess[s])
        /\ Same([sess[s] EXCEPT !.idle = TRUE], sess[s])
    BY <2>0, WatchOverSame DEF Same, Session
  <2>2. \E t : Same(t, sess[s]) /\ sess' = [sess EXCEPT ![s] = t]
    BY <1>2, <2>1 DEF StopWatching, WatchExit, WatchLook, Idle
  <2>. QED
    BY <2>2, OneSame
<1>. QED
  BY <1>1, <1>2 DEF Glances, GetSession, StopWatching, WatchExit, WatchLook, Idle

-----------------------------------------------------------------------------
(* THE INVARIANT *)

(* A session works with a process until it has been stopped.               *)
SessionsOK ==
    \A s \in Slots :
        /\ sess[s].stage # "free" => sess[s].proc \in Procs /\ sess[s].key \in Keys
        /\ sess[s].stage = "free" => sess[s].proc = None
        /\ sess[s].watch # "off" => sess[s].key \in Keys

MapOK ==
    /\ \A k \in Keys : sessions[k] # None =>
          sess[sessions[k]].stage = "live" /\ sess[sessions[k]].key = k
    /\ \A s \in Slots : sess[s].stage = "live" => sessions[sess[s].key] = s

(* Who leads a flight is the only one who may register a session there.    *)
LeadsOK ==
    \A r \in Requests : Leads(r) => flight[req[r].key] = r /\ sessions[req[r].key] = None

RequestsOK ==
    \A r \in Requests :
        /\ req[r].pc \notin {"idle", "stop"} => req[r].key \in Keys
        /\ req[r].pc = "lock" \/ Seeks(r) => req[r].slot \in Slots
        /\ Seeks(r) => sess[req[r].slot].lock = r
        /\ req[r].pc \in {"register", "reattach"} => req[r].proc \in Procs

(* Until a seek attaches its process, the one it cancelled is the          *)
(* session's.                                                              *)
SeeksOK ==
    \A r \in Requests :
        req[r].pc \in {"drain", "reattach"} /\ sess[req[r].slot].stage = "live"
            => ~Loose(sess[req[r].slot].proc)

(* No two sessions or requests work with one process.                      *)
Unique ==
    \A p \in Procs :
        /\ \A s, t \in Slots : sess[s].proc = p /\ sess[t].proc = p => s = t
        /\ \A q, r \in Requests : req[q].proc = p /\ req[r].proc = p => q = r
        /\ \A s \in Slots, r \in Requests : ~(sess[s].proc = p /\ req[r].proc = p)

SweptOK ==
    down \in {"stopping", "down"} => \A s \in Slots : sess[s].stage = "live" => sess[s].late

IInv ==
    /\ Types /\ Locks
    /\ SessionsOK /\ MapOK /\ LeadsOK /\ RequestsOK /\ SeeksOK /\ Unique
    /\ NoOrphan /\ SweptOK

LEMMA InitInv == Init => IInv
<1>. SUFFICES ASSUME Init PROVE IInv
  OBVIOUS
<1>1. \A s \in Slots : /\ sess[s].stage = "free" /\ sess[s].proc = None
                       /\ sess[s].watch = "off" /\ sess[s].lock = None
  BY DEF Init, FreeSession
<1>2. \A r \in Requests : req[r].pc = "idle" /\ req[r].proc = None
  BY DEF Init, IdleRequest
<1>3. \A p \in Procs : ~Loose(p)
  BY DEF Init, Loose, NoProcess
<1>4. Types /\ Locks
  BY TypeInit, TypeParts
<1>5. SessionsOK /\ MapOK
  BY <1>1 DEF Init, SessionsOK, MapOK
<1>6. LeadsOK /\ RequestsOK /\ SeeksOK
  BY <1>2 DEF LeadsOK, RequestsOK, SeeksOK, Leads, Seeks
<1>7. Unique
  BY <1>1, <1>2, StreamAssumption DEF Unique
<1>8. NoOrphan /\ SweptOK
  BY <1>3, <1>1 DEF NoOrphan, SweptOK
<1>. QED
  BY <1>4, <1>5, <1>6, <1>7, <1>8 DEF IInv

-----------------------------------------------------------------------------
(* STEPS THAT START NO PROCESS *)

(* The sessions S leave the map, the others stay as they are.              *)
Takes(S) ==
    /\ sessions' = [k \in Keys |-> IF sessions[k] \in S THEN None ELSE sessions[k]]
    /\ sess' \in [Slots -> Session]
    /\ \A s \in S : /\ sess[s].stage = "live" /\ sess'[s].stage = "cancel"
                    /\ sess'[s].lock = sess[s].lock
                    /\ sess'[s].key = sess[s].key /\ sess'[s].proc = sess[s].proc
    /\ \A s \in Slots \ S : Same(sess'[s], sess[s])

(* A request that neither starts, attaches nor stops a process.            *)
Calm(r) ==
    /\ req'[r].pc \notin {"idle", "stop"} => req'[r].key \in Keys
    /\ req'[r].pc = "lock" => req'[r].slot \in Slots
    /\ Seeks(r) \/ Seeks(r)' => req'[r] = req[r]
    /\ req[r].pc = "register" \/ req'[r].pc = "register" => req'[r] = req[r]
    /\ req'[r].proc \in {req[r].proc, None}

(* No process is started.                                                  *)
Quiet == proc' \in [Procs -> Process] /\ \A p \in Procs : Loose(p)' => Loose(p)

LEMMA CalmStep ==
    ASSUME IInv, NEW S \in SUBSET Slots, Takes(S), Quiet,
           \A r \in Requests : Calm(r),
           req' \in [Requests -> Request], flight' \in [Keys -> Requests \cup {None}],
           dir' \in [Keys -> Dirs], down' \in {"up", "closing", "stopping", "down"},
           LeadsOK',
           down' \in {"stopping", "down"} => down \in {"stopping", "down"} \/ S = Live
    PROVE  IInv'
<1>0. Types /\ Locks /\ SessionsOK /\ MapOK /\ RequestsOK /\ SeeksOK /\ Unique /\ NoOrphan /\ SweptOK
  BY DEF IInv
<1>a. \A k \in Keys : sessions[k] \in Slots \cup {None}
  BY <1>0 DEF Types
<1>b. None \notin Slots \cup Procs
  BY StreamAssumption
<1>c. \A k \in Keys : sessions'[k] = IF sessions[k] \in S THEN None ELSE sessions[k]
  BY DEF Takes
<1>d. \A s \in Slots : /\ sess'[s].lock = sess[s].lock
                       /\ sess'[s].stage # "free" => sess'[s].key = sess[s].key /\ sess'[s].proc = sess[s].proc
                       /\ sess'[s].stage = IF s \in S THEN "cancel" ELSE sess[s].stage
                       /\ s \in S => sess[s].stage = "live"
  BY DEF Takes, Same
<1>1. Types'
  <2>1. sessions' \in [Keys -> Slots \cup {None}]
    BY <1>a DEF Takes
  <2>. QED
    BY <2>1 DEF Takes, Quiet, Types
<1>2. Locks'
  <2>1. \A r \in Requests : Seeks(r) => req'[r].slot = req[r].slot /\ Seeks(r)'
    BY DEF Calm, Seeks
  <2>. QED
    BY <1>0, <1>d, <2>1, LocksKept
<1>3. \A s \in Slots : sess'[s].stage = "free" => sess'[s].proc = None
  BY <1>0 DEF Takes, Same, SessionsOK
<1>4. SessionsOK'
  <2>1. \A s \in Slots : sess'[s].watch # "off" => sess'[s].key \in Keys
    BY <1>0 DEF Takes, Same, SessionsOK
  <2>. QED
    BY <1>0, <1>d, <1>3, <2>1 DEF SessionsOK
<1>5. MapOK'
  <2>1. ASSUME NEW k \in Keys, sessions'[k] # None
        PROVE  sess'[sessions'[k]].stage = "live" /\ sess'[sessions'[k]].key = k
    BY <1>0, <1>a, <1>c, <1>d, <2>1 DEF MapOK
  <2>2. ASSUME NEW s \in Slots, sess'[s].stage = "live"
        PROVE  sessions'[sess'[s].key] = s
    BY <1>0, <1>a, <1>c, <1>d, <2>2 DEF MapOK, SessionsOK
  <2>. QED
    BY <2>1, <2>2 DEF MapOK
<1>6. RequestsOK'
  BY <1>0, <1>d DEF RequestsOK, Calm, Seeks
<1>7. SeeksOK'
  <2>. SUFFICES ASSUME NEW r \in Requests, req'[r].pc \in {"drain", "reattach"},
                       sess'[req'[r].slot].stage = "live"
                PROVE  ~Loose(sess[req[r].slot].proc)'
    BY DEF SeeksOK
  <2>1. Seeks(r) /\ req'[r] = req[r]
    BY DEF Calm, Seeks
  <2>2. req[r].slot \in Slots
    BY <1>0, <2>1 DEF RequestsOK
  <2>3. sess[req[r].slot].stage = "live" /\ sess'[req[r].slot].proc = sess[req[r].slot].proc
    BY <1>d, <2>1, <2>2
  <2>4. sess[req[r].slot].proc \in Procs /\ ~Loose(sess[req[r].slot].proc)
    BY <1>0, <2>1, <2>2, <2>3 DEF SessionsOK, SeeksOK
  <2>5. ~Loose(sess[req[r].slot].proc)' <=>
            ~(proc'[sess[req[r].slot].proc].run = "running" /\ ~proc'[sess[req[r].slot].proc].cancelled)
    BY <2>1, <2>3 DEF Loose
  <2>. QED
    BY <2>4, <2>5 DEF Quiet, Loose
<1>8. Unique'
  <2>1. \A s \in Slots : sess'[s].proc \in {sess[s].proc, None}
    BY <1>d, <1>3
  <2>2. \A r \in Requests : req'[r].proc \in {req[r].proc, None}
    BY DEF Calm
  <2>. QED
    BY <1>0, <1>b, <2>1, <2>2 DEF Unique
<1>9. NoOrphan'
  <2>. SUFFICES ASSUME NEW p \in Procs, Loose(p)'
                PROVE  \/ \E s \in Slots : sess'[s].stage \in {"live", "cancel"} /\ sess'[s].proc = p
                       \/ InHand(p)'
    BY DEF NoOrphan
  <2>1. Loose(p)
    BY DEF Quiet
  <2>2. CASE \E s \in Slots : sess[s].stage \in {"live", "cancel"} /\ sess[s].proc = p
    BY <1>d, <2>2
  <2>3. CASE InHand(p)
    BY <2>3 DEF InHand, Calm, Seeks
  <2>. QED
    BY <1>0, <2>1, <2>2, <2>3 DEF NoOrphan
<1>10. SweptOK'
  <2>1. \A s \in Slots \ S : sess'[s].stage = "live" => sess[s].stage = "live" /\ sess'[s].late = sess[s].late
    BY DEF Takes, Same
  <2>. QED
    BY <1>0, <1>d, <2>1 DEF SweptOK, Live
<1>. QED
  BY <1>1, <1>2, <1>4, <1>5, <1>6, <1>7, <1>8, <1>9, <1>10 DEF IInv

LEMMA Stays == ASSUME IInv, NEW r \in Requests, req'[r] = req[r] PROVE Calm(r)
BY DEF IInv, RequestsOK, Calm, Seeks

LEMMA Ends ==
    ASSUME NEW r \in Requests, req'[r] = IdleRequest, ~Seeks(r), req[r].pc # "register"
    PROVE  Calm(r)
BY DEF Calm, Seeks, IdleRequest

(* A flight stays with the request that leads it.                          *)
LEMMA LeadsKept ==
    ASSUME IInv,
           \A k \in Keys : sessions'[k] \in {sessions[k], None},
           \A r \in Requests : Leads(r)' =>
               \/ /\ Leads(r) /\ req'[r].key = req[r].key
                  /\ flight'[req[r].key] = flight[req[r].key]
               \/ flight'[req'[r].key] = r /\ sessions'[req'[r].key] = None
    PROVE  LeadsOK'
<1>1. \A r \in Requests : Leads(r) => req[r].key \in Keys
  BY DEF IInv, RequestsOK, Leads
<1>. QED
  BY <1>1 DEF IInv, LeadsOK

(* Nothing of the sessions changes.                                        *)
LEMMA CalmSame ==
    ASSUME IInv, AllSame, UNCHANGED sessions, Quiet,
           \A r \in Requests : Calm(r),
           req' \in [Requests -> Request], flight' \in [Keys -> Requests \cup {None}],
           dir' \in [Keys -> Dirs], down' \in {"up", "closing", "stopping", "down"},
           LeadsOK',
           down' \in {"stopping", "down"} => down \in {"stopping", "down"}
    PROVE  IInv'
<1>1. Takes({})
  BY DEF Takes, AllSame, IInv, Types
<1>. QED
  BY <1>1, CalmStep

LEMMA UnchangedQuiet == ASSUME IInv, UNCHANGED proc PROVE Quiet
BY DEF IInv, Types, Quiet, Loose

LEMMA Background ==
    ASSUME IInv, AllSame, UNCHANGED <<sessions, flight, req>>, Quiet,
           dir' \in [Keys -> Dirs], down' \in {"up", "closing", "stopping", "down"},
           down' \in {"stopping", "down"} => down \in {"stopping", "down"}
    PROVE  IInv'
<1>1. \A r \in Requests : Calm(r)
  BY Stays
<1>2. LeadsOK'
  BY DEF IInv, LeadsOK, Leads
<1>3. req' \in [Requests -> Request] /\ flight' \in [Keys -> Requests \cup {None}]
  BY DEF IInv, Types
<1>. QED
  BY <1>1, <1>2, <1>3, CalmSame

LEMMA GlanceStep == ASSUME IInv, Glances PROVE IInv'
<1>1. Types
  BY DEF IInv
<1>2. AllSame /\ UNCHANGED <<sessions, proc, dir, flight, req, down>>
  BY <1>1, GlancesSame
<1>3. Quiet
  BY <1>2, UnchangedQuiet
<1>4. dir' \in [Keys -> Dirs] /\ down' \in {"up", "closing", "stopping", "down"}
  BY <1>1, <1>2 DEF Types
<1>. QED
  BY <1>2, <1>3, <1>4, Background

LEMMA ExitStep == ASSUME IInv, NEW p \in Procs, Exit(p) PROVE IInv'
<1>1. Types
  BY DEF IInv
<1>2. Quiet
  BY <1>1 DEF Exit, Types, Process, NoProcess, Quiet, Loose
<1>3. AllSame
  BY <1>1, UnchangedSame DEF Exit
<1>4. /\ dir' \in [Keys -> Dirs] /\ down' \in {"up", "closing", "stopping", "down"}
      /\ UNCHANGED <<sessions, flight, req, down>>
  BY <1>1 DEF Types, Exit
<1>. QED
  BY <1>2, <1>3, <1>4, Background

LEMMA WriteStep == ASSUME IInv, NEW k \in Keys, Write(k) PROVE IInv'
<1>1. Types
  BY DEF IInv
<1>2. AllSame /\ Quiet
  BY <1>1, UnchangedSame, UnchangedQuiet DEF Write
<1>3. /\ dir' \in [Keys -> Dirs] /\ down' \in {"up", "closing", "stopping", "down"}
      /\ UNCHANGED <<sessions, flight, req, down>>
  BY <1>1 DEF Types, Write, Dirs
<1>. QED
  BY <1>2, <1>3, Background

LEMMA DownStep == ASSUME IInv, ShutdownBegin \/ ShutdownReturn \/ UNCHANGED vars PROVE IInv'
<1>1. Types
  BY DEF IInv
<1>2. AllSame /\ Quiet
  BY <1>1, UnchangedSame, UnchangedQuiet DEF ShutdownBegin, ShutdownReturn, vars
<1>3. /\ dir' \in [Keys -> Dirs] /\ down' \in {"up", "closing", "stopping", "down"}
      /\ down' \in {"stopping", "down"} => down \in {"stopping", "down"}
      /\ UNCHANGED <<sessions, flight, req>>
  BY <1>1 DEF Types, ShutdownBegin, ShutdownReturn, vars
<1>. QED
  BY <1>2, <1>3, Background

-----------------------------------------------------------------------------
(* Sessions that are taken out of the map.                                 *)
LEMMA Sweeps ==
    ASSUME IInv, NEW S \in SUBSET Live, NEW o \in Owners, TakeAll(S, o),
           UNCHANGED <<proc, dir, flight, req>>,
           down' \in {"up", "closing", "stopping", "down"},
           down' \in {"stopping", "down"} => down \in {"stopping", "down"} \/ S = Live
    PROVE  IInv'
<1>0. Types /\ S \in SUBSET Slots
  BY DEF IInv, Live
<1>1. Takes(S)
  <2>1. \A s \in S : /\ sess[s].stage = "live" /\ sess'[s] = Taken(sess[s], o)
                     /\ sess[s] \in Session
    BY <1>0 DEF TakeAll, Live, Types
  <2>2. \A s \in Slots \ S : sess'[s] = sess[s] /\ Same(sess[s], sess[s])
    BY <1>0 DEF TakeAll, Types, Same
  <2>3. \A s \in S : /\ Taken(sess[s], o) \in Session
                     /\ sess'[s].stage = "cancel" /\ sess'[s].lock = sess[s].lock
                     /\ sess'[s].key = sess[s].key /\ sess'[s].proc = sess[s].proc
    BY <2>1, TakenTypes
  <2>4. sess' \in [Slots -> Session]
    BY <1>0, <2>3 DEF TakeAll, Types
  <2>. QED
    BY <2>1, <2>2, <2>3, <2>4 DEF TakeAll, Takes
<1>2. Quiet /\ \A r \in Requests : Calm(r)
  BY UnchangedQuiet, Stays
<1>3. \A k \in Keys : sessions'[k] \in {sessions[k], None}
  BY DEF TakeAll
<1>4. LeadsOK'
  BY <1>3, LeadsKept DEF Leads
<1>5. /\ req' \in [Requests -> Request] /\ flight' \in [Keys -> Requests \cup {None}]
      /\ dir' \in [Keys -> Dirs]
  BY <1>0 DEF Types
<1>. QED
  BY <1>0, <1>1, <1>2, <1>4, <1>5, CalmStep

LEMMA ReapStep == ASSUME IInv, Reap \/ ShutdownSweep PROVE IInv'
<1>1. CASE Reap
  <2>1. IdleSessions \in SUBSET Live /\ "reaper" \in Owners
    BY DEF IdleSessions, Owners
  <2>2. TakeAll(IdleSessions, "reaper") /\ UNCHANGED <<proc, dir, flight, req>> /\ down = "up" /\ down' = "up"
    BY <1>1 DEF Reap
  <2>. QED
    BY <2>1, <2>2, Sweeps
<1>2. CASE ShutdownSweep
  <2>1. Live \in SUBSET Live /\ "shutdown" \in Owners
    BY DEF Owners
  <2>2. TakeAll(Live, "shutdown") /\ UNCHANGED <<proc, dir, flight, req>> /\ down' = "stopping"
    BY <1>2 DEF ShutdownSweep, Swept
  <2>. QED
    BY <2>1, <2>2, Sweeps
<1>. QED
  BY <1>1, <1>2

(* The session of one key leaves the map.                                  *)
LEMMA TakesOne ==
    ASSUME IInv, NEW k \in Keys, sessions[k] # None, NEW t, t = sessions[k],
           sessions' = [sessions EXCEPT ![k] = None],
           sess' \in [Slots -> Session],
           sess'[t].stage = "cancel", sess'[t].lock = sess[t].lock,
           sess'[t].key = sess[t].key, sess'[t].proc = sess[t].proc,
           \A s \in Slots \ {t} : Same(sess'[s], sess[s])
    PROVE  t \in Slots /\ Takes({t})
<1>1. t \in Slots /\ sess[t].stage = "live"
  BY DEF IInv, Types, MapOK
<1>2. \A j \in Keys : sessions[j] = t => j = k
  BY DEF IInv, MapOK
<1>3. sessions' = [j \in Keys |-> IF sessions[j] \in {t} THEN None ELSE sessions[j]]
  BY <1>2 DEF IInv, Types
<1>. QED
  BY <1>1, <1>3 DEF Takes

LEMMA WatchStopStep == ASSUME IInv, NEW s \in Slots, WatchStop(s) PROVE IInv'
<1> DEFINE k == sess[s].key
           t == sessions[k]
<1>0. Types /\ k \in Keys /\ sess[s] \in Session
  BY DEF IInv, Types, SessionsOK, WatchStop
<1>1. \A u \in Slots : sess'[u] = LET v == IF u = t THEN Taken(sess[u], "watcher") ELSE sess[u]
                                  IN IF u = s THEN WatchOver(v) ELSE v
  BY DEF WatchStop
<1>2. sessions' = [sessions EXCEPT ![k] = None]
  BY DEF WatchStop
<1>3. \A u \in Slots : sess[u] \in Session /\ Same(sess[u], sess[u]) /\ Same(WatchOver(sess[u]), sess[u])
  BY <1>0, WatchOverSame DEF Types, Same
<1>4. \A u \in Slots \ {t} : Same(sess'[u], sess[u])
  BY <1>1, <1>3
<1>5. Quiet /\ \A r \in Requests : Calm(r)
  BY UnchangedQuiet, Stays DEF WatchStop
<1>6. \A j \in Keys : sessions'[j] \in {sessions[j], None}
  BY <1>0, <1>2 DEF Types
<1>7. LeadsOK'
  BY <1>6, LeadsKept DEF Leads, WatchStop
<1>8. /\ req' \in [Requests -> Request] /\ flight' \in [Keys -> Requests \cup {None}]
      /\ dir' \in [Keys -> Dirs] /\ down' = down /\ down \in {"up", "closing", "stopping", "down"}
  BY <1>0 DEF Types, WatchStop
<1>9. DOMAIN sess' = Slots /\ sess' = [u \in Slots |-> sess'[u]]
  BY DEF WatchStop
<1>10. CASE t = None
  <2>1. AllSame
    BY <1>4, <1>9, <1>10, StreamAssumption DEF AllSame, Same
  <2>2. UNCHANGED sessions
    BY <1>0, <1>2, <1>10 DEF Types
  <2>. QED
    BY <1>5, <1>7, <1>8, <2>1, <2>2, CalmSame
<1>11. CASE t # None
  <2>1. t \in Slots /\ sess[t].stage = "live" /\ sess[t] \in Session
    BY <1>0, <1>11 DEF IInv, MapOK, Types
  <2> DEFINE x == Taken(sess[t], "watcher")
  <2>2. /\ x \in Session /\ x.stage = "cancel" /\ x.lock = sess[t].lock
        /\ x.key = sess[t].key /\ x.proc = sess[t].proc
    BY <2>1, TakenTypes DEF Owners
  <2>. HIDE DEF x
  <2>3. Same(WatchOver(x), x)
    BY <2>2, WatchOverSame
  <2>4. sess'[t] \in {x, WatchOver(x)}
    BY <1>1, <2>1 DEF x
  <2>5. /\ sess'[t] \in Session /\ sess'[t].stage = "cancel" /\ sess'[t].lock = sess[t].lock
        /\ sess'[t].key = sess[t].key /\ sess'[t].proc = sess[t].proc
    BY <2>2, <2>3, <2>4 DEF Same
  <2>6. sess' \in [Slots -> Session]
    BY <1>4, <1>9, <2>5 DEF Same
  <2>. HIDE DEF t, k
  <2>7. Takes({t})
    BY <1>0, <1>2, <1>4, <1>11, <2>5, <2>6, TakesOne DEF t
  <2>. QED
    BY <1>5, <1>7, <1>8, <2>1, <2>7, CalmStep
<1>. QED
  BY <1>10, <1>11

-----------------------------------------------------------------------------
(* What a request does before it spawns.                                   *)
(* A request r takes a step, the others stay as they are or end.           *)
LEMMA Turn ==
    ASSUME IInv, NEW r \in Requests, NEW q \in Request,
           req' = [req EXCEPT ![r] = q],
           ~Seeks(r), req[r].pc # "register",
           q.pc \notin {"register", "drain", "reattach", "kill"},
           q.pc \notin {"idle", "stop"} => q.key \in Keys,
           q.pc = "lock" => q.slot \in Slots,
           q.proc \in {req[r].proc, None}
    PROVE  \A p \in Requests : Calm(p)
<1>1. req'[r] = q /\ \A p \in Requests \ {r} : req'[p] = req[p]
  BY DEF IInv, Types
<1>2. Calm(r)
  BY <1>1 DEF Calm, Seeks
<1>. QED
  BY <1>1, <1>2, Stays

LEMMA StartStep == ASSUME IInv, NEW r \in Requests, NEW k \in Keys, Start(r, k) PROVE IInv'
<1>0. Types
  BY DEF IInv
<1>1. CASE sessions[k] # None
  <2>1. AllSame
    BY <1>0, <1>1, TouchSame DEF Start
  <2>2. Quiet
    BY UnchangedQuiet DEF Start
  <2>3. /\ dir' \in [Keys -> Dirs] /\ down' \in {"up", "closing", "stopping", "down"}
        /\ UNCHANGED <<sessions, flight, req, down>>
    BY <1>0, <1>1 DEF Types, Start
  <2>. QED
    BY <2>1, <2>2, <2>3, Background
<1>2. CASE sessions[k] = None
  <2> DEFINE q == [req[r] EXCEPT !.pc = "admit", !.key = k]
  <2>0. req[r] \in Request /\ req[r].pc = "idle" /\ ~Seeks(r)
    BY <1>0 DEF Types, Start, Seeks
  <2>a. q \in Request /\ q.pc = "admit" /\ q.key = k /\ q.proc = req[r].proc
    BY <2>0 DEF Request
  <2>b. req' = [req EXCEPT ![r] = q]
    BY <1>0, <1>2, <2>0 DEF Types, Start
  <2>1. req' = [req EXCEPT ![r] = q] /\ q \in Request /\ q.pc = "admit" /\ q.key = k /\ q.proc = req[r].proc
        /\ ~Seeks(r) /\ req[r].pc = "idle"
    BY <2>0, <2>a, <2>b
  <2>. HIDE DEF q
  <2>2. \A p \in Requests : Calm(p)
    BY <2>1, Turn
  <2>3. AllSame /\ Quiet
    BY <1>0, <1>2, UnchangedSame, UnchangedQuiet DEF Start
  <2>4. LeadsOK'
    BY <1>0, <2>1, LeadsKept DEF Leads, Start, Types
  <2>5. req' \in [Requests -> Request]
    BY <1>0, <2>1 DEF Types
  <2>. QED
    BY <1>0, <2>2, <2>3, <2>4, <2>5, CalmSame DEF Start, Types
<1>. QED
  BY <1>1, <1>2

LEMMA SeekStep == ASSUME IInv, NEW r \in Requests, NEW k \in Keys, Seek(r, k) PROVE IInv'
<1>0. Types
  BY DEF IInv
<1> DEFINE q == [req[r] EXCEPT !.pc = "lock", !.key = k, !.slot = sessions[k]]
<1>1. req' = [req EXCEPT ![r] = q] /\ q \in Request /\ q.pc = "lock" /\ q.key = k /\ q.proc = req[r].proc
      /\ q.slot \in Slots /\ ~Seeks(r) /\ req[r].pc = "idle"
  BY <1>0 DEF Types, Seek, Request, Seeks
<1>. HIDE DEF q
<1>2. \A p \in Requests : Calm(p)
  BY <1>1, Turn
<1>3. AllSame /\ Quiet
  BY <1>0, UnchangedSame, UnchangedQuiet DEF Seek
<1>4. LeadsOK'
  BY <1>0, <1>1, LeadsKept DEF Leads, Seek, Types
<1>5. req' \in [Requests -> Request]
  BY <1>0, <1>1 DEF Types
<1>. QED
  BY <1>0, <1>2, <1>3, <1>4, <1>5, CalmSame DEF Seek, Types

LEMMA StopItemStep == ASSUME IInv, NEW r \in Requests, NEW k \in Keys, StopItem(r, k) PROVE IInv'
<1>0. Types
  BY DEF IInv
<1>1. PICK T \in SUBSET Keys : req' = [req EXCEPT ![r].pc = "stop", ![r].todo = T]
  <2>1. PICK todo \in {{k}, {j \in Keys : ShowOf[j] = ShowOf[k]}} :
            req' = [req EXCEPT ![r].pc = "stop", ![r].todo = {j \in todo : sessions[j] # None}]
    BY DEF StopItem
  <2>2. {j \in todo : sessions[j] # None} \in SUBSET Keys
    BY <2>1
  <2>. QED
    BY <2>1, <2>2
<1> DEFINE q == [req[r] EXCEPT !.pc = "stop", !.todo = T]
<1>a. req[r] \in Request /\ req[r].pc = "idle" /\ ~Seeks(r)
  BY <1>0 DEF Types, StopItem, Seeks
<1>b. q \in Request /\ q.pc = "stop" /\ q.proc = req[r].proc
  BY <1>a DEF Request
<1>c. req' = [req EXCEPT ![r] = q]
  BY <1>0, <1>1, <1>a DEF Types
<1>2. req' = [req EXCEPT ![r] = q] /\ q \in Request /\ q.pc = "stop" /\ q.proc = req[r].proc
      /\ ~Seeks(r) /\ req[r].pc = "idle"
  BY <1>a, <1>b, <1>c
<1>. HIDE DEF q
<1>3. \A p \in Requests : Calm(p)
  BY <1>2, Turn
<1>4. AllSame /\ Quiet
  BY <1>0, UnchangedSame, UnchangedQuiet DEF StopItem
<1>5. LeadsOK'
  BY <1>0, <1>2, LeadsKept DEF Leads, StopItem, Types
<1>6. req' \in [Requests -> Request]
  BY <1>0, <1>2 DEF Types
<1>. QED
  BY <1>0, <1>3, <1>4, <1>5, <1>6, CalmSame DEF StopItem, Types

(* The end of a flight: its leader and its followers return.               *)
LEMMA Lands ==
    ASSUME IInv, NEW r \in Requests, Leads(r), Land(r)
    PROVE  /\ req' \in [Requests -> Request] /\ flight' \in [Keys -> Requests \cup {None}]
           /\ req'[r] = IdleRequest
           /\ \A q \in Requests : \/ req'[q] = IdleRequest /\ (q = r \/ req[q].pc = "follow")
                                  \/ req'[q] = req[q] /\ q # r
           /\ \A q \in Requests : Leads(q)' =>
                 /\ q # r /\ Leads(q) /\ req'[q] = req[q] /\ req[q].key # req[r].key
                 /\ flight'[req[q].key] = flight[req[q].key]
<1>0. Types /\ LeadsOK /\ RequestsOK
  BY DEF IInv
<1>1. \A q \in Requests : req'[q] = IF q \in {r} \cup Followers(r) THEN IdleRequest ELSE req[q]
  BY DEF Land
<1>2. \A q \in Followers(r) : req[q].pc = "follow"
  BY DEF Followers
<1>3. req' \in [Requests -> Request]
  BY <1>0, IdleTypes DEF Types, Land
<1>4. flight' \in [Keys -> Requests \cup {None}]
  BY <1>0 DEF Types, Land
<1>5. \A q \in Requests : \/ req'[q] = IdleRequest /\ (q = r \/ req[q].pc = "follow")
                          \/ req'[q] = req[q] /\ q # r
  BY <1>1, <1>2
<1>6. ASSUME NEW q \in Requests, Leads(q)'
      PROVE  /\ q # r /\ Leads(q) /\ req'[q] = req[q] /\ req[q].key # req[r].key
             /\ flight'[req[q].key] = flight[req[q].key]
  <2>1. req'[q] # IdleRequest
    BY <1>6 DEF Leads, IdleRequest
  <2>2. req'[q] = req[q] /\ q # r
    BY <1>5, <2>1
  <2>3. Leads(q) /\ req[q].key \in Keys
    BY <1>0, <1>6, <2>2 DEF Leads, RequestsOK
  <2>4. flight[req[q].key] = q /\ flight[req[r].key] = r
    BY <1>0, <2>3 DEF LeadsOK
  <2>5. req[q].key # req[r].key
    BY <2>2, <2>4
  <2>. QED
    BY <1>0, <2>2, <2>3, <2>5 DEF Land, Types
<1>7. req'[r] = IdleRequest
  BY <1>1
<1>. QED
  BY <1>3, <1>4, <1>5, <1>6, <1>7

(* A flight that ends without a session.                                   *)
LEMMA Fails ==
    ASSUME IInv, NEW r \in Requests, req[r].pc \in {"siblings", "spawn"}, Land(r),
           UNCHANGED <<sessions, sess, proc, down>>, dir' \in [Keys -> Dirs]
    PROVE  IInv'
<1>0. Types /\ Leads(r) /\ ~Seeks(r)
  BY DEF IInv, Leads, Seeks
<1>1. /\ req' \in [Requests -> Request] /\ flight' \in [Keys -> Requests \cup {None}]
      /\ \A q \in Requests : \/ req'[q] = IdleRequest /\ (q = r \/ req[q].pc = "follow")
                             \/ req'[q] = req[q]
      /\ \A q \in Requests : Leads(q)' => /\ Leads(q) /\ req'[q] = req[q]
                                          /\ flight'[req[q].key] = flight[req[q].key]
  BY <1>0, Lands
<1>2. ASSUME NEW q \in Requests PROVE Calm(q)
  <2>1. CASE req'[q] = req[q]
    BY <2>1, Stays
  <2>2. CASE req'[q] = IdleRequest /\ (q = r \/ req[q].pc = "follow")
    <3>1. ~Seeks(q) /\ req[q].pc # "register"
      BY <2>2 DEF Seeks
    <3>. QED
      BY <2>2, <3>1, Ends
  <2>. QED
    BY <1>1, <2>1, <2>2
<1>3. LeadsOK'
  <2>1. \A k \in Keys : sessions'[k] \in {sessions[k], None}
    OBVIOUS
  <2>. QED
    BY <1>1, <2>1, LeadsKept
<1>4. AllSame /\ Quiet
  BY <1>0, UnchangedSame, UnchangedQuiet
<1>. QED
  BY <1>0, <1>1, <1>2, <1>3, <1>4, CalmSame DEF Types

(* A request moves on, or returns, and leaves the sessions alone.          *)
LEMMA Moves ==
    ASSUME IInv, NEW r \in Requests, NEW q \in Request,
           req' = [req EXCEPT ![r] = q], ~Seeks(r), req[r].pc # "register",
           q.pc \notin {"register", "drain", "reattach", "kill"},
           q.pc \notin {"idle", "stop"} => q.key \in Keys,
           q.pc = "lock" => q.slot \in Slots,
           q.proc \in {req[r].proc, None},
           q.pc \in {"siblings", "spawn"} =>
              \/ Leads(r) /\ q.key = req[r].key /\ UNCHANGED flight
              \/ flight[q.key] = None /\ flight' = [flight EXCEPT ![q.key] = r] /\ sessions[q.key] = None,
           q.pc \notin {"siblings", "spawn"} => UNCHANGED flight,
           AllSame, UNCHANGED <<sessions, proc, dir, down>>
    PROVE  IInv'
<1>0. Types
  BY DEF IInv
<1>1. \A p \in Requests : Calm(p)
  BY Turn
<1>2. Quiet
  BY UnchangedQuiet
<1>3. req' \in [Requests -> Request] /\ req'[r] = q /\ \A p \in Requests \ {r} : req'[p] = req[p]
  BY <1>0 DEF Types
<1>4. flight' \in [Keys -> Requests \cup {None}]
  BY <1>0 DEF Types
<1>5. LeadsOK'
  <2>1. ASSUME NEW p \in Requests, Leads(p)'
        PROVE \/ Leads(p) /\ req'[p].key = req[p].key /\ flight'[req[p].key] = flight[req[p].key]
              \/ flight'[req'[p].key] = p /\ sessions'[req'[p].key] = None
    <3>1. CASE p = r
      <4>1. q.pc \in {"siblings", "spawn"} /\ q.key \in Keys
        BY <1>3, <2>1, <3>1 DEF Leads
      <4>. QED
        BY <1>0, <1>3, <3>1, <4>1 DEF Types
    <3>2. CASE p # r
      <4>1. req'[p] = req[p] /\ Leads(p)
        BY <1>3, <2>1, <3>2 DEF Leads
      <4>2. flight[req[p].key] = p /\ req[p].key \in Keys
        BY <4>1 DEF IInv, LeadsOK, RequestsOK, Leads
      <4>3. p # None
        BY StreamAssumption
      <4>4. flight'[req[p].key] = flight[req[p].key]
        BY <1>0, <4>2, <4>3 DEF Types
      <4>. QED
        BY <4>1, <4>4
    <3>. QED
      BY <3>1, <3>2
  <2>2. \A k \in Keys : sessions'[k] \in {sessions[k], None}
    OBVIOUS
  <2>. QED
    BY <2>1, <2>2, LeadsKept
<1>. QED
  BY <1>0, <1>1, <1>2, <1>3, <1>4, <1>5, CalmSame DEF Types

LEMMA IdleMove == IdleRequest.pc = "idle" /\ IdleRequest.proc = None
BY DEF IdleRequest

LEMMA AdmitStep == ASSUME IInv, NEW r \in Requests, Admit(r) PROVE IInv'
<1> DEFINE k == req[r].key
<1>0. /\ Types /\ req[r] \in Request /\ k \in Keys /\ ~Seeks(r) /\ req[r].pc = "admit"
      /\ UNCHANGED <<sessions, proc, dir, down>>
  BY DEF IInv, Types, RequestsOK, Admit, Seeks
<1>1. CASE Goto(r, "follow") /\ UNCHANGED <<sess, flight>>
  <2> DEFINE q == [req[r] EXCEPT !.pc = "follow"]
  <2>1. q \in Request /\ q.pc = "follow" /\ q.key = k /\ q.proc = req[r].proc
    BY <1>0 DEF Request
  <2>2. req' = [req EXCEPT ![r] = q]
    BY <1>0, <1>1 DEF Types, Goto
  <2>3. AllSame
    BY <1>0, <1>1, UnchangedSame
  <2>. HIDE DEF q
  <2>. QED
    BY <1>0, <1>1, <2>1, <2>2, <2>3, Moves
<1>2. CASE Return(r) /\ AllSame /\ UNCHANGED flight
  BY <1>0, <1>2, IdleTypes, IdleMove, Moves DEF Return
<1>3. CASE /\ flight[k] = None /\ sessions[k] = None /\ flight' = [flight EXCEPT ![k] = r] /\ UNCHANGED sess
           /\ \E copy \in Copies :
                req' = [req EXCEPT ![r].pc = "siblings", ![r].copy = copy, ![r].todo = Siblings(k)]
  <2>1. PICK copy \in Copies :
            req' = [req EXCEPT ![r].pc = "siblings", ![r].copy = copy, ![r].todo = Siblings(k)]
    BY <1>3
  <2> DEFINE q == [req[r] EXCEPT !.pc = "siblings", !.copy = copy, !.todo = Siblings(k)]
  <2>2. copy \in BOOLEAN /\ Siblings(k) \in SUBSET Keys
    BY StreamAssumption DEF Siblings
  <2>3. q \in Request /\ q.pc = "siblings" /\ q.key = k /\ q.proc = req[r].proc
    BY <1>0, <2>2 DEF Request
  <2>4. req' = [req EXCEPT ![r] = q]
    BY <1>0, <2>1 DEF Types
  <2>5. AllSame
    BY <1>0, <1>3, UnchangedSame
  <2>. HIDE DEF q
  <2>. QED
    BY <1>0, <1>3, <2>3, <2>4, <2>5, Moves
<1>4. \/ Goto(r, "follow") /\ UNCHANGED <<sess, flight>>
      \/ Return(r) /\ AllSame /\ UNCHANGED flight
      \/ /\ flight[k] = None /\ sessions[k] = None /\ flight' = [flight EXCEPT ![k] = r] /\ UNCHANGED sess
         /\ \E copy \in Copies :
                req' = [req EXCEPT ![r].pc = "siblings", ![r].copy = copy, ![r].todo = Siblings(k)]
  BY <1>0, TouchSame, UnchangedSame DEF Admit, Recheck
<1>. QED
  BY <1>1, <1>2, <1>3, <1>4

LEMMA StopsDoneStep == ASSUME IInv, NEW r \in Requests, StopsDone(r) PROVE IInv'
<1>0. /\ Types /\ req[r] \in Request /\ ~Seeks(r) /\ req[r].pc \in {"siblings", "stop"}
      /\ UNCHANGED <<sessions, sess, proc, dir, down>> /\ dir' \in [Keys -> Dirs]
  BY DEF IInv, Types, StopsDone, Seeks
<1>1. AllSame
  BY <1>0, UnchangedSame
<1>2. CASE Return(r) /\ UNCHANGED flight
  BY <1>0, <1>1, <1>2, IdleTypes, IdleMove, Moves DEF Return
<1>3. CASE req[r].pc = "siblings" /\ Land(r)
  BY <1>0, <1>3, Fails
<1>4. CASE req[r].pc = "siblings" /\ Goto(r, "spawn") /\ UNCHANGED flight
  <2> DEFINE q == [req[r] EXCEPT !.pc = "spawn"]
  <2>1. q \in Request /\ q.pc = "spawn" /\ q.key = req[r].key /\ q.proc = req[r].proc
    BY <1>0 DEF Request
  <2>2. req' = [req EXCEPT ![r] = q]
    BY <1>0, <1>4 DEF Types, Goto
  <2>3. Leads(r) /\ req[r].key \in Keys
    BY <1>4 DEF Leads, IInv, RequestsOK
  <2>. HIDE DEF q
  <2>. QED
    BY <1>0, <1>1, <1>4, <2>1, <2>2, <2>3, Moves
<1>. QED
  BY <1>2, <1>3, <1>4 DEF StopsDone

LEMMA StopNextStep == ASSUME IInv, NEW r \in Requests, StopNext(r) PROVE IInv'
<1>0. /\ Types /\ req[r] \in Request /\ ~Seeks(r) /\ req[r].pc \in {"siblings", "stop"}
      /\ UNCHANGED <<proc, dir, flight, down>>
  BY DEF IInv, Types, StopNext, Seeks
<1>1. PICK k \in req[r].todo : /\ StopSession(k, r)
                               /\ req' = [req EXCEPT ![r].todo = @ \ {k}]
  BY DEF StopNext
<1>2. k \in Keys
  BY <1>0 DEF Request
<1> DEFINE q == [req[r] EXCEPT !.todo = @ \ {k}]
           t == sessions[k]
<1>3. /\ q \in Request /\ q.pc = req[r].pc /\ q.key = req[r].key /\ q.proc = req[r].proc
  BY <1>0 DEF Request
<1>4. req' = [req EXCEPT ![r] = q]
  BY <1>0, <1>1 DEF Types
<1>. HIDE DEF q
<1>5. q.pc # "stop" => Leads(r) /\ q.key \in Keys
  BY <1>0, <1>3 DEF Leads, IInv, RequestsOK
<1>6. CASE t = None
  <2>1. AllSame /\ UNCHANGED sessions
    BY <1>0, <1>1, <1>6, UnchangedSame DEF StopSession
  <2>. QED
    BY <1>0, <1>3, <1>4, <1>5, <2>1, Moves
<1>7. CASE t # None
  <2>1. t \in Slots /\ sess[t].stage = "live" /\ sess[t] \in Session
    BY <1>0, <1>2, <1>7 DEF IInv, MapOK, Types
  <2>2. sessions' = [sessions EXCEPT ![k] = None] /\ sess' = [sess EXCEPT ![t] = Taken(sess[t], r)]
    BY <1>1, <1>7 DEF StopSession
  <2>3. r \in Owners
    BY DEF Owners
  <2>4. /\ Taken(sess[t], r) \in Session /\ Taken(sess[t], r).stage = "cancel"
        /\ Taken(sess[t], r).lock = sess[t].lock
        /\ Taken(sess[t], r).key = sess[t].key /\ Taken(sess[t], r).proc = sess[t].proc
    BY <2>1, <2>3, TakenTypes
  <2>5. /\ sess' \in [Slots -> Session] /\ sess'[t] = Taken(sess[t], r)
        /\ \A s \in Slots \ {t} : Same(sess'[s], sess[s])
    BY <1>0, <2>1, <2>2, <2>4 DEF Types, Same
  <2>. HIDE DEF t
  <2>6. Takes({t})
    BY <1>2, <1>7, <2>2, <2>4, <2>5, TakesOne DEF t
  <2>7. Quiet /\ \A p \in Requests : Calm(p)
    <3>1. q.pc \notin {"idle", "stop"} => q.key \in Keys
      BY <1>5
    <3>. QED
      BY <1>0, <1>3, <1>4, <3>1, Turn, UnchangedQuiet
  <2>8. LeadsOK'
    <3>1. \A j \in Keys : sessions'[j] \in {sessions[j], None}
      BY <1>0, <2>2 DEF Types
    <3>2. \A p \in Requests : req'[p].pc = req[p].pc /\ req'[p].key = req[p].key
      BY <1>0, <1>3, <1>4 DEF Types
    <3>. QED
      BY <1>0, <3>1, <3>2, LeadsKept DEF Leads
  <2>9. req' \in [Requests -> Request] /\ flight' \in [Keys -> Requests \cup {None}]
        /\ dir' \in [Keys -> Dirs] /\ down' = down /\ down \in {"up", "closing", "stopping", "down"}
    BY <1>0, <1>3, <1>4 DEF Types
  <2>. QED
    BY <2>1, <2>6, <2>7, <2>8, <2>9, CalmStep
<1>. QED
  BY <1>6, <1>7

-----------------------------------------------------------------------------
(* A SESSION IS STOPPED *)

LEMMA BeginStopStep == ASSUME IInv, NEW s \in Slots, BeginStop(s) PROVE IInv'
<1>0. /\ Types /\ Locks /\ SessionsOK /\ MapOK /\ LeadsOK /\ RequestsOK /\ SeeksOK /\ Unique
      /\ NoOrphan /\ SweptOK /\ sess[s].stage = "cancel" /\ sess[s].proc \in Procs
      /\ sess[s] \in Session
  BY DEF IInv, BeginStop, SessionsOK, Types
<1>a. PICK p \in Procs : p = sess[s].proc
  BY <1>0
<1>1. UNCHANGED <<sessions, dir, flight, req, down>>
  BY DEF BeginStop
<1>2. /\ [sess[s] EXCEPT !.stage = "wait"] \in Session
      /\ sess' = [sess EXCEPT ![s] = [sess[s] EXCEPT !.stage = "wait"]]
  BY <1>0 DEF BeginStop, Session, Types
<1>3. /\ proc' \in [Procs -> Process] /\ ~Loose(p)'
      /\ \A q \in Procs : Loose(q)' => Loose(q)
  BY <1>0, <1>a DEF BeginStop, Types, Process, Loose
<1>4. Types'
  BY <1>0, <1>1, <1>2, <1>3 DEF Types
<1>5. \A t \in Slots :
        /\ sess'[t].lock = sess[t].lock /\ sess'[t].key = sess[t].key /\ sess'[t].proc = sess[t].proc
        /\ sess'[t].watch = sess[t].watch /\ sess'[t].late = sess[t].late
        /\ sess'[t].stage = IF t = s THEN "wait" ELSE sess[t].stage
  BY <1>0, <1>2 DEF Types, Session
<1>6. Locks'
  BY <1>0, <1>1, <1>5, LocksKept DEF Seeks
<1>7. SessionsOK' /\ RequestsOK'
  BY <1>0, <1>1, <1>5 DEF SessionsOK, RequestsOK, Seeks
<1>8. MapOK'
  BY <1>0, <1>1, <1>5, StreamAssumption DEF MapOK, Types, SessionsOK
<1>9. LeadsOK'
  BY <1>0, <1>1 DEF LeadsOK, Leads
<1>10. SeeksOK'
  <2>. SUFFICES ASSUME NEW r \in Requests, req[r].pc \in {"drain", "reattach"},
                       sess'[req[r].slot].stage = "live"
                PROVE  ~Loose(sess[req[r].slot].proc)'
    BY <1>1 DEF SeeksOK
  <2>1. req[r].slot \in Slots
    BY <1>0 DEF RequestsOK, Seeks
  <2>2. /\ sess[req[r].slot].proc \in Procs /\ ~Loose(sess[req[r].slot].proc)
        /\ sess'[req[r].slot].proc = sess[req[r].slot].proc
    BY <1>0, <1>5, <2>1 DEF SeeksOK, SessionsOK
  <2>3. PICK q \in Procs : q = sess[req[r].slot].proc
    BY <2>2
  <2>. QED
    BY <1>1, <1>3, <2>2, <2>3 DEF Loose
<1>11. Unique'
  BY <1>0, <1>1, <1>5 DEF Unique
<1>12. NoOrphan'
  <2>. SUFFICES ASSUME NEW q \in Procs, Loose(q)'
                PROVE  \/ \E t \in Slots : sess'[t].stage \in {"live", "cancel"} /\ sess'[t].proc = q
                       \/ InHand(q)'
    BY DEF NoOrphan
  <2>1. Loose(q) /\ q # p
    BY <1>3 DEF Loose
  <2>2. CASE InHand(q)
    BY <1>1, <2>2 DEF InHand
  <2>3. CASE \E t \in Slots : sess[t].stage \in {"live", "cancel"} /\ sess[t].proc = q
    BY <1>5, <1>a, <2>1, <2>3
  <2>. QED
    BY <1>0, <2>1, <2>2, <2>3 DEF NoOrphan
<1>13. SweptOK'
  BY <1>0, <1>1, <1>5 DEF SweptOK
<1>. QED
  BY <1>4, <1>6, <1>7, <1>8, <1>9, <1>10, <1>11, <1>12, <1>13 DEF IInv

LEMMA EndStopStep == ASSUME IInv, NEW s \in Slots, EndStop(s) PROVE IInv'
<1>0. /\ Types /\ Locks /\ SessionsOK /\ MapOK /\ LeadsOK /\ RequestsOK /\ SeeksOK /\ Unique
      /\ NoOrphan /\ SweptOK /\ sess[s].stage = "wait" /\ sess[s] \in Session
  BY DEF IInv, EndStop, Types
<1> DEFINE f == [sess[s] EXCEPT !.stage = "free", !.owner = None, !.proc = None]
<1>1. f \in Session /\ f.stage = "free" /\ f.proc = None /\ f.lock = sess[s].lock
      /\ f.key = sess[s].key /\ f.watch = sess[s].watch
  BY <1>0 DEF Session
<1>2. UNCHANGED <<sessions, proc, flight, req, down>> /\ sess' = [sess EXCEPT ![s] = Settled(f)]
  BY DEF EndStop
<1>. HIDE DEF f
<1>3. Same(Settled(f), f)
  BY <1>1, SettledSame
<1>4. Types'
  BY <1>0, <1>2, <1>3 DEF Types, EndStop, RemoveAll, Dirs, Same
<1>5. /\ \A t \in Slots \ {s} : sess'[t] = sess[t]
      /\ sess'[s].stage = "free" /\ sess'[s].lock = sess[s].lock /\ sess'[s].proc = None
      /\ sess'[s].watch # "off" => sess[s].watch # "off" /\ sess'[s].key = sess[s].key
  BY <1>0, <1>1, <1>2, <1>3 DEF Types, Same
<1>6. Locks'
  BY <1>0, <1>2, <1>5, LocksKept DEF Seeks
<1>7. SessionsOK'
  BY <1>0, <1>5 DEF SessionsOK
<1>8. RequestsOK'
  BY <1>0, <1>2, <1>5 DEF RequestsOK, Seeks
<1>9. MapOK'
  BY <1>0, <1>2, <1>5, StreamAssumption DEF MapOK, Types
<1>10. LeadsOK'
  BY <1>0, <1>2 DEF LeadsOK, Leads
<1>11. SeeksOK'
  <2>. SUFFICES ASSUME NEW r \in Requests, req[r].pc \in {"drain", "reattach"},
                       sess'[req[r].slot].stage = "live"
                PROVE  ~Loose(sess[req[r].slot].proc)'
    BY <1>2 DEF SeeksOK
  <2>1. req[r].slot \in Slots
    BY <1>0 DEF RequestsOK, Seeks
  <2>2. sess'[req[r].slot] = sess[req[r].slot] /\ ~Loose(sess[req[r].slot].proc)
    BY <1>0, <1>5, <2>1 DEF SeeksOK
  <2>. QED
    BY <1>2, <2>2 DEF Loose
<1>12. Unique'
  BY <1>0, <1>2, <1>5, StreamAssumption DEF Unique
<1>13. NoOrphan'
  BY <1>0, <1>2, <1>5 DEF NoOrphan, Loose, InHand
<1>14. SweptOK'
  BY <1>0, <1>2, <1>5 DEF SweptOK
<1>. QED
  BY <1>4, <1>6, <1>7, <1>8, <1>9, <1>10, <1>11, <1>12, <1>13, <1>14 DEF IInv

-----------------------------------------------------------------------------
(* A PROCESS IS STARTED *)

LEMMA Spawns ==
    ASSUME IInv, NEW r \in Requests, NEW p \in FreshProcs, NEW pc,
           \/ req[r].pc = "spawn" /\ pc = "register"
           \/ req[r].pc = "drain" /\ pc = "reattach",
           proc' = [proc EXCEPT ![p] = Running],
           req' = [req EXCEPT ![r].pc = pc, ![r].proc = p],
           Mkdir(req[r].key), UNCHANGED <<sessions, sess, flight, down>>
    PROVE  IInv'
<1>0. /\ Types /\ Locks /\ SessionsOK /\ MapOK /\ LeadsOK /\ RequestsOK /\ SeeksOK /\ Unique
      /\ NoOrphan /\ SweptOK /\ req[r] \in Request
  BY DEF IInv, Types
<1>1. /\ p \in Procs /\ ~Referenced(p) /\ p # None
  BY StreamAssumption DEF FreshProcs
<1>2. /\ proc' \in [Procs -> Process] /\ \A q \in Procs : q # p => proc'[q] = proc[q]
  BY <1>0, <1>1 DEF Types, Process, Running
<1>3. /\ [req[r] EXCEPT !.pc = pc, !.proc = p] \in Request
      /\ req' = [req EXCEPT ![r] = [req[r] EXCEPT !.pc = pc, !.proc = p]]
  BY <1>0, <1>1 DEF Types, Request
<1>4. /\ req'[r].pc = pc /\ req'[r].proc = p /\ req'[r].key = req[r].key /\ req'[r].slot = req[r].slot
      /\ \A q \in Requests \ {r} : req'[q] = req[q]
      /\ req' \in [Requests -> Request]
  BY <1>0, <1>3 DEF Types, Request
<1>5. dir' \in [Keys -> Dirs]
  BY <1>0 DEF Types, Mkdir, Dirs
<1>6. Types'
  BY <1>0, <1>2, <1>4, <1>5 DEF Types
<1>7. \A q \in Requests : /\ Seeks(q)' <=> Seeks(q)
                          /\ Leads(q)' <=> Leads(q)
                          /\ req'[q].key = req[q].key /\ req'[q].slot = req[q].slot
                          /\ req'[q].pc \in {"drain", "reattach"} => req[q].pc \in {"drain", "reattach"}
  BY <1>4 DEF Seeks, Leads
<1>8. Locks'
  BY <1>0, <1>7, LocksKept
<1>9. SessionsOK' /\ MapOK' /\ SweptOK'
  BY <1>0 DEF SessionsOK, MapOK, SweptOK
<1>10. LeadsOK'
  BY <1>0, <1>7 DEF LeadsOK
<1>11. RequestsOK'
  <2>1. /\ req[r].key \in Keys
        /\ \A q \in Requests : req'[q].pc = "lock" => req[q].pc = "lock"
    BY <1>0, <1>4 DEF RequestsOK
  <2>2. \A q \in Requests : req'[q].pc \in {"register", "reattach"} => req'[q].proc \in Procs
    BY <1>0, <1>1, <1>4 DEF RequestsOK
  <2>3. \A q \in Requests : req'[q].pc \notin {"idle", "stop"} => req'[q].key \in Keys
    BY <1>0, <1>4, <2>1 DEF RequestsOK
  <2>. QED
    BY <1>0, <1>7, <2>1, <2>2, <2>3 DEF RequestsOK
<1>12. SeeksOK'
  <2>. SUFFICES ASSUME NEW q \in Requests, req'[q].pc \in {"drain", "reattach"},
                       sess[req[q].slot].stage = "live"
                PROVE  ~(proc'[sess[req[q].slot].proc].run = "running" /\ ~proc'[sess[req[q].slot].proc].cancelled)
    BY <1>7 DEF SeeksOK, Loose
  <2>1. req[q].pc \in {"drain", "reattach"} /\ req[q].slot \in Slots
    BY <1>0, <1>7 DEF RequestsOK, Seeks
  <2>2. ~Loose(sess[req[q].slot].proc) /\ sess[req[q].slot].proc \in Procs
    BY <1>0, <2>1 DEF SeeksOK, SessionsOK
  <2>3. sess[req[q].slot].proc # p
    BY <1>1, <2>1 DEF Referenced
  <2>. QED
    BY <1>2, <2>2, <2>3 DEF Loose
<1>13. Unique'
  <2>1. /\ \A s \in Slots : sess[s].proc # p
        /\ \A q \in Requests : q # r => req'[q].proc # p
    BY <1>1, <1>4 DEF Referenced
  <2>. SUFFICES ASSUME NEW x \in Procs
                PROVE  /\ \A s, t \in Slots : sess[s].proc = x /\ sess[t].proc = x => s = t
                       /\ \A q, t \in Requests : req'[q].proc = x /\ req'[t].proc = x => q = t
                       /\ \A s \in Slots, q \in Requests : ~(sess[s].proc = x /\ req'[q].proc = x)
    BY DEF Unique
  <2>2. CASE x = p
    BY <2>1, <2>2
  <2>3. CASE x # p
    <3>1. \A q \in Requests : req'[q].proc = x => req[q].proc = x
      BY <1>4, <2>3
    <3>. QED
      BY <1>0, <3>1 DEF Unique
  <2>. QED
    BY <2>2, <2>3
<1>14. NoOrphan'
  <2>1. InHand(p)'
    BY <1>4 DEF InHand
  <2>2. ASSUME NEW q \in Procs, q # p, Loose(q)'
        PROVE  \/ \E s \in Slots : sess[s].stage \in {"live", "cancel"} /\ sess[s].proc = q
               \/ InHand(q)'
    <3>1. Loose(q)
      BY <1>2, <2>2 DEF Loose
    <3>2. InHand(q) => InHand(q)'
      BY <1>4 DEF InHand
    <3>. QED
      BY <1>0, <3>1, <3>2 DEF NoOrphan
  <2>. QED
    BY <2>1, <2>2 DEF NoOrphan
<1>. QED
  BY <1>6, <1>8, <1>9, <1>10, <1>11, <1>12, <1>13, <1>14 DEF IInv

LEMMA SpawnStep == ASSUME IInv, NEW r \in Requests, Spawn(r) PROVE IInv'
<1>1. CASE RemoveAll(req[r].key) /\ Land(r) /\ UNCHANGED proc
  <2>1. dir' \in [Keys -> Dirs]
    BY <1>1 DEF IInv, Types, RemoveAll, Dirs
  <2>. QED
    BY <1>1, <2>1, Fails DEF Spawn
<1>2. CASE /\ \E p \in FreshProcs :
               /\ proc' = [proc EXCEPT ![p] = Running]
               /\ req' = [req EXCEPT ![r].pc = "register", ![r].proc = p]
           /\ Mkdir(req[r].key) /\ UNCHANGED flight
  BY <1>2, Spawns DEF Spawn
<1>. QED
  BY <1>1, <1>2 DEF Spawn

LEMMA RegisterStep == ASSUME IInv, NEW r \in Requests, Register(r) PROVE IInv'
<1> DEFINE k == req[r].key
           p == req[r].proc
<1>0. /\ Types /\ Locks /\ SessionsOK /\ MapOK /\ LeadsOK /\ RequestsOK /\ SeeksOK /\ Unique
      /\ NoOrphan /\ SweptOK /\ req[r] \in Request /\ Leads(r) /\ req[r].pc = "register"
  BY DEF IInv, Types, Register, Leads
<1>1. k \in Keys /\ p \in Procs /\ sessions[k] = None /\ p # None
  BY <1>0, StreamAssumption DEF RequestsOK, LeadsOK
<1> DEFINE n == [FreeSession EXCEPT !.stage = "live", !.key = k, !.copy = req[r].copy, !.proc = p,
                                    !.watch = "wait", !.late = down \notin {"up", "closing"}]
<1>2. PICK s \in FreshSlots : sessions' = [sessions EXCEPT ![k] = s] /\ sess' = [sess EXCEPT ![s] = n]
  BY DEF Register
<1>3. /\ Land(r) /\ UNCHANGED <<proc, dir, down>>
  BY DEF Register
<1>4. /\ n \in Session /\ n.stage = "live" /\ n.key = k /\ n.proc = p /\ n.lock = None
      /\ n.late = (down \notin {"up", "closing"})
  BY <1>0, <1>1 DEF Session, FreeSession, Request
<1>. HIDE DEF n, k, p
<1>5. s \in Slots /\ sess[s] = FreeSession /\ \A q \in Requests : req[q].slot # s
  BY DEF FreshSlots
<1>6. /\ sess'[s] = n /\ \A t \in Slots \ {s} : sess'[t] = sess[t]
      /\ sessions'[k] = s /\ \A j \in Keys \ {k} : sessions'[j] = sessions[j]
      /\ sess[s].stage = "free" /\ sess[s].lock = None
  BY <1>0, <1>1, <1>2, <1>5 DEF Types, FreeSession
<1>7. /\ req' \in [Requests -> Request] /\ flight' \in [Keys -> Requests \cup {None}]
      /\ req'[r] = IdleRequest
      /\ \A q \in Requests : \/ req'[q] = IdleRequest /\ (q = r \/ req[q].pc = "follow")
                             \/ req'[q] = req[q] /\ q # r
      /\ \A q \in Requests : Leads(q)' =>
            /\ q # r /\ Leads(q) /\ req'[q] = req[q] /\ req[q].key # req[r].key
            /\ flight'[req[q].key] = flight[req[q].key]
  BY <1>0, <1>3, Lands
<1>8. Types'
  BY <1>0, <1>1, <1>2, <1>3, <1>4, <1>5, <1>7 DEF Types
<1>9. Locks'
  <2>1. \A t \in Slots : sess'[t].lock \in {sess[t].lock, None}
    BY <1>4, <1>6
  <2>2. \A q \in Requests : Seeks(q) => req'[q].slot = req[q].slot /\ Seeks(q)'
    BY <1>0, <1>7 DEF Seeks
  <2>. QED
    BY <1>0, <2>1, <2>2, LocksKept
<1>10. SessionsOK'
  BY <1>0, <1>1, <1>4, <1>6 DEF SessionsOK
<1>11. MapOK'
  <2>1. ASSUME NEW j \in Keys, sessions'[j] # None
        PROVE  sess'[sessions'[j]].stage = "live" /\ sess'[sessions'[j]].key = j
    <3>1. CASE j = k
      BY <1>4, <1>6, <3>1
    <3>2. CASE j # k
      BY <1>0, <1>6, <2>1, <3>2 DEF MapOK, Types
    <3>. QED
      BY <3>1, <3>2
  <2>2. ASSUME NEW t \in Slots, sess'[t].stage = "live" PROVE sessions'[sess'[t].key] = t
    <3>1. CASE t = s
      BY <1>4, <1>6, <3>1
    <3>2. CASE t # s
      <4>1. sess[t].stage = "live" /\ sessions[sess[t].key] = t /\ sess[t].key \in Keys
        BY <1>0, <1>6, <2>2, <3>2 DEF MapOK, SessionsOK
      <4>2. sess[t].key # k
        BY <1>1, <4>1, StreamAssumption
      <4>. QED
        BY <1>6, <3>2, <4>1, <4>2
    <3>. QED
      BY <3>1, <3>2
  <2>. QED
    BY <2>1, <2>2 DEF MapOK
<1>12. LeadsOK'
  <2>. SUFFICES ASSUME NEW q \in Requests, Leads(q)'
                PROVE  flight'[req'[q].key] = q /\ sessions'[req'[q].key] = None
    BY DEF LeadsOK
  <2>1. Leads(q) /\ req'[q] = req[q] /\ req[q].key # k /\ flight'[req[q].key] = flight[req[q].key]
    BY <1>7 DEF k
  <2>2. req[q].key \in Keys /\ flight[req[q].key] = q /\ sessions[req[q].key] = None
    BY <1>0, <2>1 DEF RequestsOK, LeadsOK, Leads
  <2>. QED
    BY <1>6, <2>1, <2>2
<1>13. RequestsOK'
  <2>1. ASSUME NEW q \in Requests, req'[q] = req[q]
        PROVE  /\ req'[q].pc \notin {"idle", "stop"} => req'[q].key \in Keys
               /\ req'[q].pc = "lock" \/ Seeks(q)' => req'[q].slot \in Slots
               /\ Seeks(q)' => sess'[req'[q].slot].lock = q
               /\ req'[q].pc \in {"register", "reattach"} => req'[q].proc \in Procs
    BY <1>0, <1>5, <1>6, <2>1 DEF RequestsOK, Seeks
  <2>2. ASSUME NEW q \in Requests, req'[q] = IdleRequest
        PROVE  req'[q].pc = "idle" /\ ~Seeks(q)'
    BY <2>2 DEF IdleRequest, Seeks
  <2>. QED
    BY <1>7, <2>1, <2>2 DEF RequestsOK
<1>14. SeeksOK'
  <2>. SUFFICES ASSUME NEW q \in Requests, req'[q].pc \in {"drain", "reattach"},
                       sess'[req'[q].slot].stage = "live"
                PROVE  ~(proc'[sess'[req'[q].slot].proc].run = "running" /\ ~proc'[sess'[req'[q].slot].proc].cancelled)
    BY DEF SeeksOK, Loose
  <2>1. req'[q] = req[q]
    BY <1>7 DEF IdleRequest
  <2>2. req[q].slot \in Slots /\ req[q].slot # s
    BY <1>0, <1>5, <2>1 DEF RequestsOK, Seeks
  <2>3. sess'[req'[q].slot] = sess[req[q].slot]
    BY <1>6, <2>1, <2>2
  <2>. QED
    BY <1>0, <1>3, <2>1, <2>3 DEF SeeksOK, Loose
<1>15. Unique'
  <2>1. \A t \in Slots : sess'[t].proc = IF t = s THEN p ELSE sess[t].proc
    BY <1>4, <1>6
  <2>2. \A q \in Requests : req'[q].proc = None \/ (req'[q].proc = req[q].proc /\ q # r)
    <3>. TAKE q \in Requests
    <3>1. CASE req'[q] = IdleRequest
      BY <3>1, IdleMove
    <3>2. CASE req'[q] = req[q] /\ q # r
      BY <3>2
    <3>. QED
      BY <1>7, <3>1, <3>2
  <2>3. \A t \in Slots : sess[t].proc # p
    BY <1>0, <1>1 DEF Unique, p
  <2>4. \A q \in Requests : req'[q].proc # p
    BY <1>0, <1>1, <2>2 DEF Unique, p
  <2>. SUFFICES ASSUME NEW x \in Procs
                PROVE  /\ \A t, u \in Slots : sess'[t].proc = x /\ sess'[u].proc = x => t = u
                       /\ \A q, u \in Requests : req'[q].proc = x /\ req'[u].proc = x => q = u
                       /\ \A t \in Slots, q \in Requests : ~(sess'[t].proc = x /\ req'[q].proc = x)
    BY DEF Unique
  <2>5. x # None
    BY StreamAssumption
  <2>6. CASE x = p
    BY <2>1, <2>3, <2>4, <2>6
  <2>7. CASE x # p
    BY <1>0, <2>1, <2>2, <2>5, <2>7 DEF Unique
  <2>. QED
    BY <2>6, <2>7
<1>16. NoOrphan'
  <2>. SUFFICES ASSUME NEW x \in Procs, Loose(x)'
                PROVE  \/ \E t \in Slots : sess'[t].stage \in {"live", "cancel"} /\ sess'[t].proc = x
                       \/ InHand(x)'
    BY DEF NoOrphan
  <2>1. Loose(x)
    BY <1>3 DEF Loose
  <2>2. CASE x = p
    BY <1>4, <1>5, <1>6, <2>2
  <2>3. CASE x # p /\ InHand(x)
    <3>1. PICK q \in Requests : req[q].pc \in {"register", "reattach"} /\ req[q].proc = x
      BY <2>3 DEF InHand
    <3>2. q # r
      BY <2>3, <3>1 DEF p
    <3>3. req'[q] = req[q]
      BY <1>7, <3>1, <3>2
    <3>. QED
      BY <3>1, <3>3 DEF InHand
  <2>4. CASE \E t \in Slots : sess[t].stage \in {"live", "cancel"} /\ sess[t].proc = x
    <3>1. PICK t \in Slots : sess[t].stage \in {"live", "cancel"} /\ sess[t].proc = x
      BY <2>4
    <3>2. sess'[t] = sess[t]
      BY <1>6, <3>1
    <3>. QED
      BY <3>1, <3>2
  <2>. QED
    BY <1>0, <2>1, <2>2, <2>3, <2>4 DEF NoOrphan
<1>17. SweptOK'
  BY <1>0, <1>3, <1>4, <1>6 DEF SweptOK
<1>. QED
  BY <1>8, <1>9, <1>10, <1>11, <1>12, <1>13, <1>14, <1>15, <1>16, <1>17 DEF IInv

-----------------------------------------------------------------------------
(* A SEEK *)

LEMMA LockStep == ASSUME IInv, NEW r \in Requests, Lock(r) PROVE IInv'
<1> DEFINE s == req[r].slot
<1>0. /\ Types /\ Locks /\ SessionsOK /\ MapOK /\ LeadsOK /\ RequestsOK /\ SeeksOK /\ Unique
      /\ NoOrphan /\ SweptOK /\ req[r] \in Request /\ req[r].pc = "lock" /\ ~Seeks(r) /\ ~Leads(r)
  BY DEF IInv, Types, Lock, Seeks, Leads
<1>1. s \in Slots /\ sess[s].lock = None /\ sess[s] \in Session
  BY <1>0 DEF RequestsOK, Lock, LockFree, Types
<1>2. UNCHANGED <<sessions, dir, flight, down>>
  BY DEF Lock
<1>3. CASE Return(r) /\ UNCHANGED <<sess, proc>>
  <2>1. AllSame
    BY <1>0, <1>3, UnchangedSame
  <2>. QED
    BY <1>0, <1>2, <1>3, <2>1, IdleTypes, IdleMove, Moves DEF Return
<1>4. CASE /\ sess' = [sess EXCEPT ![s].lock = r]
           /\ proc' = [p \in Procs |-> IF p = sess[s].proc
                                       THEN [proc[p] EXCEPT !.cancelled = TRUE] ELSE proc[p]]
           /\ Goto(r, "drain")
  <2> DEFINE n == [sess[s] EXCEPT !.lock = r]
  <2>1. /\ n \in Session /\ n.lock = r /\ n.stage = sess[s].stage /\ n.key = sess[s].key
        /\ n.proc = sess[s].proc /\ n.watch = sess[s].watch /\ n.late = sess[s].late
    BY <1>1 DEF Session
  <2>2. sess' = [sess EXCEPT ![s] = n]
    BY <1>0, <1>1, <1>4 DEF Types
  <2>. HIDE DEF n
  <2>3. /\ \A t \in Slots :
            /\ sess'[t].stage = sess[t].stage /\ sess'[t].key = sess[t].key /\ sess'[t].proc = sess[t].proc
            /\ sess'[t].watch = sess[t].watch /\ sess'[t].late = sess[t].late
            /\ sess'[t].lock = IF t = s THEN r ELSE sess[t].lock
        /\ sess' \in [Slots -> Session]
    BY <1>0, <1>1, <2>1, <2>2 DEF Types
  <2> DEFINE q == [req[r] EXCEPT !.pc = "drain"]
  <2>4. q \in Request /\ q.pc = "drain" /\ q.key = req[r].key /\ q.slot = s /\ q.proc = req[r].proc
    BY <1>0 DEF Request
  <2>5. req' = [req EXCEPT ![r] = q]
    BY <1>0, <1>4 DEF Types, Goto
  <2>. HIDE DEF q
  <2>6. req' \in [Requests -> Request] /\ req'[r] = q /\ \A u \in Requests \ {r} : req'[u] = req[u]
    BY <1>0, <2>4, <2>5 DEF Types
  <2>7. /\ proc' \in [Procs -> Process] /\ \A p \in Procs : Loose(p)' => Loose(p) /\ p # sess[s].proc
    BY <1>0, <1>4 DEF Types, Process, Loose
  <2>8. Types'
    BY <1>0, <1>2, <2>3, <2>6, <2>7 DEF Types
  <2>9. Locks'
    <3>. SUFFICES ASSUME NEW t \in Slots, sess'[t].lock # None
                  PROVE  req'[sess'[t].lock].slot = t /\ req'[sess'[t].lock].pc \in {"drain", "reattach", "kill"}
      BY DEF Locks, Seeks
    <3>1. CASE t = s
      BY <2>3, <2>4, <2>6, <3>1
    <3>2. CASE t # s
      <4>1. sess'[t].lock = sess[t].lock /\ sess[t].lock \in Requests /\ sess[t].lock # None
        BY <1>0, <2>3, <3>2 DEF Types, Session
      <4>2. req[sess[t].lock].slot = t /\ Seeks(sess[t].lock)
        BY <1>0, <4>1 DEF Locks
      <4>3. sess[t].lock # r
        BY <3>2, <4>2
      <4>. QED
        BY <2>6, <4>1, <4>2, <4>3 DEF Seeks
    <3>. QED
      BY <3>1, <3>2
  <2>10. SessionsOK'
    BY <1>0, <2>3 DEF SessionsOK
  <2>11. MapOK'
    BY <1>0, <1>2, <2>3 DEF MapOK, Types
  <2>12. LeadsOK'
    BY <1>0, <1>2, <2>4, <2>6 DEF LeadsOK, Leads
  <2>13. RequestsOK'
    <3>1. /\ req[r].key \in Keys /\ sess'[s].lock = r
          /\ \A u \in Requests : Seeks(u) => req[u].slot # s
      BY <1>0, <1>1, <2>3, StreamAssumption DEF RequestsOK
    <3>2. ASSUME NEW u \in Requests, u # r
          PROVE  /\ req'[u].pc \notin {"idle", "stop"} => req'[u].key \in Keys
                 /\ req'[u].pc = "lock" \/ Seeks(u)' => req'[u].slot \in Slots
                 /\ Seeks(u)' => sess'[req'[u].slot].lock = u
                 /\ req'[u].pc \in {"register", "reattach"} => req'[u].proc \in Procs
      BY <1>0, <2>3, <2>6, <3>1, <3>2 DEF RequestsOK, Seeks
    <3>. QED
      BY <1>1, <2>4, <2>6, <3>1, <3>2 DEF RequestsOK, Seeks
  <2>14. SeeksOK'
    <3>. SUFFICES ASSUME NEW u \in Requests, req'[u].pc \in {"drain", "reattach"},
                         sess'[req'[u].slot].stage = "live"
                  PROVE  ~(proc'[sess'[req'[u].slot].proc].run = "running" /\ ~proc'[sess'[req'[u].slot].proc].cancelled)
      BY DEF SeeksOK, Loose
    <3>1. CASE u = r
      <4>1. req'[u].slot = s /\ sess'[s].proc = sess[s].proc /\ sess[s].stage = "live"
        BY <1>1, <2>3, <2>4, <2>6, <3>1
      <4>2. sess[s].proc \in Procs
        BY <1>0, <1>1, <4>1 DEF SessionsOK
      <4>. QED
        BY <2>7, <4>1, <4>2 DEF Loose
    <3>2. CASE u # r
      <4>1. req'[u] = req[u] /\ req[u].slot \in Slots
        BY <1>0, <2>6, <3>2 DEF RequestsOK, Seeks
      <4>2. sess[req[u].slot].stage = "live" /\ sess'[req[u].slot].proc = sess[req[u].slot].proc
        BY <2>3, <4>1
      <4>3. ~Loose(sess[req[u].slot].proc) /\ sess[req[u].slot].proc \in Procs
        BY <1>0, <4>1, <4>2 DEF SeeksOK, SessionsOK
      <4>. QED
        BY <2>7, <4>1, <4>2, <4>3 DEF Loose
    <3>. QED
      BY <3>1, <3>2
  <2>15. Unique'
    <3>1. \A u \in Requests : req'[u].proc = req[u].proc
      BY <2>4, <2>6
    <3>. QED
      BY <1>0, <2>3, <3>1 DEF Unique
  <2>16. NoOrphan'
    <3>1. \A p : InHand(p) => InHand(p)'
      BY <1>0, <2>6 DEF InHand
    <3>. QED
      BY <1>0, <2>3, <2>7, <3>1 DEF NoOrphan
  <2>17. SweptOK'
    BY <1>0, <1>2, <2>3 DEF SweptOK
  <2>. QED
    BY <2>8, <2>9, <2>10, <2>11, <2>12, <2>13, <2>14, <2>15, <2>16, <2>17 DEF IInv
<1>. QED
  BY <1>3, <1>4 DEF Lock

(* A seek ends: its lock is given back.                                    *)
LEMMA Leaves ==
    ASSUME IInv, NEW r \in Requests, req[r].pc \in {"drain", "kill"},
           sess' = [sess EXCEPT ![req[r].slot] = Unlocked(@)], Return(r),
           dir' \in [Keys -> Dirs], UNCHANGED <<sessions, proc, flight, down>>
    PROVE  IInv'
<1> DEFINE s == req[r].slot
<1>0. /\ Types /\ Locks /\ SessionsOK /\ MapOK /\ LeadsOK /\ RequestsOK /\ SeeksOK /\ Unique
      /\ NoOrphan /\ SweptOK /\ Seeks(r)
  BY DEF IInv, Seeks
<1>1. s \in Slots /\ sess[s].lock = r /\ sess[s] \in Session
  BY <1>0 DEF RequestsOK, Types
<1>2. /\ Unlocked(sess[s]) \in Session
      /\ Unlocked(sess[s]).stage = sess[s].stage /\ Unlocked(sess[s]).lock = None
      /\ sess[s].stage # "free" => /\ Unlocked(sess[s]).key = sess[s].key
                                   /\ Unlocked(sess[s]).proc = sess[s].proc
                                   /\ Unlocked(sess[s]).late = sess[s].late
      /\ sess[s].stage = "free" /\ sess[s].proc = None => Unlocked(sess[s]).proc = None
      /\ Unlocked(sess[s]).watch # "off" =>
            sess[s].watch # "off" /\ Unlocked(sess[s]).key = sess[s].key
  BY <1>1, UnlockedTypes
<1>3. sess' \in [Slots -> Session] /\ sess'[s] = Unlocked(sess[s]) /\ \A t \in Slots \ {s} : sess'[t] = sess[t]
  BY <1>0, <1>1, <1>2 DEF Types
<1>. HIDE DEF s
<1>4. \A t \in Slots : /\ sess'[t].stage = sess[t].stage /\ sess'[t].proc = sess[t].proc
                       /\ sess'[t].lock = IF t = s THEN None ELSE sess[t].lock
                       /\ sess'[t].stage # "free" => sess'[t].key = sess[t].key /\ sess'[t].late = sess[t].late
                       /\ sess'[t].watch # "off" => sess[t].watch # "off" /\ sess'[t].key = sess[t].key
  BY <1>0, <1>2, <1>3 DEF SessionsOK
<1>5. /\ req' \in [Requests -> Request] /\ req'[r] = IdleRequest
      /\ \A q \in Requests \ {r} : req'[q] = req[q]
  BY <1>0, IdleTypes DEF Types, Return
<1>6. req'[r].pc = "idle" /\ req'[r].proc = None /\ ~Seeks(r)' /\ ~Leads(r)'
  BY <1>5 DEF IdleRequest, Seeks, Leads
<1>7. Types'
  BY <1>0, <1>3, <1>5 DEF Types
<1>8. Locks'
  <2>1. \A t \in Slots : sess'[t].lock # r
    BY <1>0, <1>4, StreamAssumption DEF Locks, s
  <2>2. \A q \in Requests : Seeks(q) => \/ req'[q].slot = req[q].slot /\ Seeks(q)'
                                        \/ \A t \in Slots : sess'[t].lock # q
    BY <1>5, <2>1 DEF Seeks
  <2>3. \A t \in Slots : sess'[t].lock \in {sess[t].lock, None}
    BY <1>4
  <2>. QED
    BY <1>0, <2>2, <2>3, LocksKept
<1>9. SessionsOK'
  BY <1>0, <1>4 DEF SessionsOK
<1>10. MapOK'
  BY <1>0, <1>4 DEF MapOK, Types
<1>11. LeadsOK'
  BY <1>0, <1>5, <1>6 DEF LeadsOK, Leads
<1>12. RequestsOK'
  <2>1. ASSUME NEW q \in Requests, q # r
        PROVE  /\ req'[q].pc \notin {"idle", "stop"} => req'[q].key \in Keys
               /\ req'[q].pc = "lock" \/ Seeks(q)' => req'[q].slot \in Slots
               /\ Seeks(q)' => sess'[req'[q].slot].lock = q
               /\ req'[q].pc \in {"register", "reattach"} => req'[q].proc \in Procs
    <3>1. Seeks(q) => req[q].slot # s
      BY <1>0, <1>1, <2>1 DEF RequestsOK, s
    <3>. QED
      BY <1>0, <1>4, <1>5, <2>1, <3>1 DEF RequestsOK, Seeks
  <2>. QED
    BY <1>6, <2>1 DEF RequestsOK
<1>13. SeeksOK'
  <2>. SUFFICES ASSUME NEW q \in Requests, req'[q].pc \in {"drain", "reattach"},
                       sess'[req'[q].slot].stage = "live"
                PROVE  ~(proc'[sess'[req'[q].slot].proc].run = "running" /\ ~proc'[sess'[req'[q].slot].proc].cancelled)
    BY DEF SeeksOK, Loose
  <2>1. q # r
    BY <1>6
  <2>2. req'[q] = req[q] /\ req[q].slot \in Slots
    BY <1>0, <1>5, <2>1 DEF RequestsOK, Seeks
  <2>. QED
    BY <1>0, <1>4, <2>2 DEF SeeksOK, Loose
<1>14. Unique'
  <2>1. \A q \in Requests : req'[q].proc \in {req[q].proc, None}
    BY <1>5, <1>6
  <2>. QED
    BY <1>0, <1>4, <2>1, StreamAssumption DEF Unique
<1>15. NoOrphan'
  <2>1. \A p : InHand(p) => InHand(p)'
    BY <1>0, <1>5 DEF InHand
  <2>. QED
    BY <1>0, <1>4, <2>1 DEF NoOrphan, Loose
<1>16. SweptOK'
  BY <1>0, <1>4 DEF SweptOK
<1>. QED
  BY <1>7, <1>8, <1>9, <1>10, <1>11, <1>12, <1>13, <1>14, <1>15, <1>16 DEF IInv

LEMMA RespawnStep == ASSUME IInv, NEW r \in Requests, Respawn(r) \/ Kill(r) PROVE IInv'
<1>1. CASE Kill(r)
  <2>1. dir' \in [Keys -> Dirs]
    BY <1>1 DEF IInv, Types, Kill, RemoveAll, Dirs
  <2>. QED
    BY <1>1, <2>1, Leaves DEF Kill
<1>2. CASE req[r].pc = "drain" /\ sess' = [sess EXCEPT ![req[r].slot] = Unlocked(@)] /\ Return(r)
           /\ UNCHANGED <<sessions, proc, dir, flight, down>>
  <2>1. dir' \in [Keys -> Dirs]
    BY <1>2 DEF IInv, Types
  <2>. QED
    BY <1>2, <2>1, Leaves
<1>3. CASE /\ req[r].pc = "drain" /\ Mkdir(req[r].key) /\ UNCHANGED <<sessions, sess, flight, down>>
           /\ \E p \in FreshProcs :
                /\ proc' = [proc EXCEPT ![p] = Running]
                /\ req' = [req EXCEPT ![r].pc = "reattach", ![r].proc = p]
  BY <1>3, Spawns
<1>. QED
  BY <1>1, <1>2, <1>3 DEF Respawn

(* The process becomes the session's.                                      *)
LEMMA Attaches ==
    ASSUME IInv, NEW r \in Requests, req[r].pc = "reattach", StillRegistered(r),
           sess' = [sess EXCEPT ![req[r].slot] =
                        Unlocked([Changed(@) EXCEPT !.proc = req[r].proc, !.idle = FALSE])],
           Return(r), UNCHANGED <<sessions, proc, dir, flight, down>>
    PROVE  IInv'
<1> DEFINE s == req[r].slot
           p == req[r].proc
           c == Changed(sess[s])
           a == [c EXCEPT !.proc = p, !.idle = FALSE]
           n == Unlocked(a)
<1>0. /\ Types /\ Locks /\ SessionsOK /\ MapOK /\ LeadsOK /\ RequestsOK /\ SeeksOK /\ Unique
      /\ NoOrphan /\ SweptOK /\ Seeks(r)
  BY DEF IInv, Seeks
<1>1. s \in Slots /\ sess[s].lock = r /\ sess[s] \in Session /\ p \in Procs /\ req[r].key \in Keys
  BY <1>0 DEF RequestsOK, Types
<1>2. sess[s].stage = "live" /\ sess[s].proc \in Procs /\ ~Loose(sess[s].proc)
  <2>1. sessions[req[r].key] = s /\ s # None
    BY <1>1, StreamAssumption DEF StillRegistered
  <2>2. sess[s].stage = "live"
    BY <1>0, <1>1, <2>1 DEF MapOK
  <2>. QED
    BY <1>0, <1>1, <2>2 DEF SeeksOK, SessionsOK
<1>3. Same(c, sess[s])
  BY <1>1, ChangedSame
<1>. HIDE DEF c
<1>4. /\ a \in Session /\ a.stage = "live" /\ a.key = sess[s].key /\ a.proc = p /\ a.late = sess[s].late
      /\ a.watch # "off" => sess[s].watch # "off"
  BY <1>1, <1>2, <1>3 DEF Same, Session
<1>. HIDE DEF a
<1>5. /\ n \in Session /\ n.stage = "live" /\ n.lock = None /\ n.key = sess[s].key /\ n.proc = p
      /\ n.late = sess[s].late
      /\ n.watch # "off" => sess[s].watch # "off"
  BY <1>4, UnlockedTypes
<1>6. sess' = [sess EXCEPT ![s] = n]
  BY <1>0, <1>1 DEF Types, a, c
<1>. HIDE DEF n, s, p
<1>7. /\ sess' \in [Slots -> Session] /\ sess'[s] = n /\ \A t \in Slots \ {s} : sess'[t] = sess[t]
  BY <1>0, <1>1, <1>5, <1>6 DEF Types
<1>8. \A t \in Slots : /\ sess'[t].stage = sess[t].stage /\ sess'[t].key = sess[t].key
                       /\ sess'[t].late = sess[t].late
                       /\ sess'[t].proc = IF t = s THEN p ELSE sess[t].proc
                       /\ sess'[t].lock = IF t = s THEN None ELSE sess[t].lock
                       /\ sess'[t].watch # "off" => sess[t].watch # "off"
  BY <1>2, <1>5, <1>7
<1>9. /\ req' \in [Requests -> Request] /\ req'[r] = IdleRequest
      /\ \A q \in Requests \ {r} : req'[q] = req[q]
  BY <1>0, IdleTypes DEF Types, Return
<1>10. req'[r].pc = "idle" /\ req'[r].proc = None /\ ~Seeks(r)' /\ ~Leads(r)'
  BY <1>9 DEF IdleRequest, Seeks, Leads
<1>11. Types'
  BY <1>0, <1>7, <1>9 DEF Types
<1>12. Locks'
  <2>1. \A t \in Slots : sess'[t].lock # r
    BY <1>0, <1>8, StreamAssumption DEF Locks, s
  <2>2. \A q \in Requests : Seeks(q) => \/ req'[q].slot = req[q].slot /\ Seeks(q)'
                                        \/ \A t \in Slots : sess'[t].lock # q
    BY <1>9, <2>1 DEF Seeks
  <2>3. \A t \in Slots : sess'[t].lock \in {sess[t].lock, None}
    BY <1>8
  <2>. QED
    BY <1>0, <2>2, <2>3, LocksKept
<1>13. SessionsOK'
  BY <1>0, <1>1, <1>2, <1>8 DEF SessionsOK
<1>14. MapOK'
  BY <1>0, <1>8 DEF MapOK, Types
<1>15. LeadsOK'
  BY <1>0, <1>9, <1>10 DEF LeadsOK, Leads
<1>16. \A q \in Requests \ {r} : Seeks(q) => req[q].slot # s
  BY <1>0, <1>1 DEF RequestsOK
<1>17. RequestsOK'
  <2>1. ASSUME NEW q \in Requests, q # r
        PROVE  /\ req'[q].pc \notin {"idle", "stop"} => req'[q].key \in Keys
               /\ req'[q].pc = "lock" \/ Seeks(q)' => req'[q].slot \in Slots
               /\ Seeks(q)' => sess'[req'[q].slot].lock = q
               /\ req'[q].pc \in {"register", "reattach"} => req'[q].proc \in Procs
    BY <1>0, <1>8, <1>9, <1>16, <2>1 DEF RequestsOK, Seeks
  <2>. QED
    BY <1>10, <2>1 DEF RequestsOK
<1>18. SeeksOK'
  <2>. SUFFICES ASSUME NEW q \in Requests, req'[q].pc \in {"drain", "reattach"},
                       sess'[req'[q].slot].stage = "live"
                PROVE  ~(proc'[sess'[req'[q].slot].proc].run = "running" /\ ~proc'[sess'[req'[q].slot].proc].cancelled)
    BY DEF SeeksOK, Loose
  <2>1. q # r
    BY <1>10
  <2>2. req'[q] = req[q] /\ req[q].slot \in Slots /\ req[q].slot # s
    BY <1>0, <1>9, <1>16, <2>1 DEF RequestsOK, Seeks
  <2>. QED
    BY <1>0, <1>8, <2>2 DEF SeeksOK, Loose
<1>19. Unique'
  <2>1. \A q \in Requests : req'[q].proc = None \/ (req'[q].proc = req[q].proc /\ q # r)
    BY <1>9, <1>10
  <2>2. \A t \in Slots : sess[t].proc # p
    BY <1>0, <1>1 DEF Unique, p
  <2>3. p # None /\ \A q \in Requests : req'[q].proc # p
    BY <1>0, <1>1, <2>1, StreamAssumption DEF Unique, p
  <2>. SUFFICES ASSUME NEW x \in Procs
                PROVE  /\ \A t, u \in Slots : sess'[t].proc = x /\ sess'[u].proc = x => t = u
                       /\ \A q, u \in Requests : req'[q].proc = x /\ req'[u].proc = x => q = u
                       /\ \A t \in Slots, q \in Requests : ~(sess'[t].proc = x /\ req'[q].proc = x)
    BY DEF Unique
  <2>4. x # None
    BY StreamAssumption
  <2>5. CASE x = p
    BY <1>8, <2>2, <2>3, <2>5
  <2>6. CASE x # p
    BY <1>0, <1>8, <2>1, <2>4, <2>6 DEF Unique
  <2>. QED
    BY <2>5, <2>6
<1>20. NoOrphan'
  <2>. SUFFICES ASSUME NEW x \in Procs, Loose(x)'
                PROVE  \/ \E t \in Slots : sess'[t].stage \in {"live", "cancel"} /\ sess'[t].proc = x
                       \/ InHand(x)'
    BY DEF NoOrphan
  <2>1. Loose(x)
    BY DEF Loose
  <2>2. CASE x = p
    BY <1>1, <1>2, <1>8, <2>2
  <2>3. CASE x # p /\ InHand(x)
    <3>1. PICK q \in Requests : req[q].pc \in {"register", "reattach"} /\ req[q].proc = x
      BY <2>3 DEF InHand
    <3>2. q # r
      BY <2>3, <3>1 DEF p
    <3>. QED
      BY <1>9, <3>1, <3>2 DEF InHand
  <2>4. CASE \E t \in Slots : sess[t].stage \in {"live", "cancel"} /\ sess[t].proc = x
    <3>1. PICK t \in Slots : sess[t].stage \in {"live", "cancel"} /\ sess[t].proc = x
      BY <2>4
    <3>2. t # s
      BY <1>2, <2>1, <3>1
    <3>. QED
      BY <1>8, <3>1, <3>2
  <2>. QED
    BY <1>0, <2>1, <2>2, <2>3, <2>4 DEF NoOrphan
<1>21. SweptOK'
  BY <1>0, <1>8 DEF SweptOK
<1>. QED
  BY <1>11, <1>12, <1>13, <1>14, <1>15, <1>17, <1>18, <1>19, <1>20, <1>21 DEF IInv

(* The session has left the map: the process is cancelled.                 *)
LEMMA Discards ==
    ASSUME IInv, NEW r \in Requests, req[r].pc = "reattach",
           proc' = [proc EXCEPT ![req[r].proc].cancelled = TRUE], Goto(r, "kill"),
           UNCHANGED <<sessions, sess, dir, flight, down>>
    PROVE  IInv'
<1>0. /\ Types /\ Locks /\ SessionsOK /\ MapOK /\ LeadsOK /\ RequestsOK /\ SeeksOK /\ Unique
      /\ NoOrphan /\ SweptOK /\ Seeks(r) /\ req[r] \in Request
  BY DEF IInv, Seeks, Types
<1>1. PICK p \in Procs : p = req[r].proc
  BY <1>0 DEF RequestsOK
<1>2. proc' \in [Procs -> Process] /\ ~Loose(p)' /\ \A q \in Procs : Loose(q)' => Loose(q)
  BY <1>0, <1>1 DEF Types, Process, Loose
<1>3. /\ [req[r] EXCEPT !.pc = "kill"] \in Request
      /\ req' = [req EXCEPT ![r] = [req[r] EXCEPT !.pc = "kill"]]
  BY <1>0 DEF Types, Request, Goto
<1>4. /\ req' \in [Requests -> Request] /\ req'[r].pc = "kill"
      /\ \A q \in Requests : /\ req'[q].key = req[q].key /\ req'[q].slot = req[q].slot
                             /\ req'[q].proc = req[q].proc
                             /\ q # r => req'[q].pc = req[q].pc
  BY <1>0, <1>3 DEF Types, Request
<1>5. Types'
  BY <1>0, <1>2, <1>4 DEF Types
<1>6. \A q \in Requests : (Seeks(q)' <=> Seeks(q)) /\ (Leads(q)' => Leads(q))
  BY <1>0, <1>4 DEF Seeks, Leads
<1>7. Locks'
  BY <1>0, <1>4, <1>6, LocksKept
<1>8. SessionsOK' /\ MapOK' /\ SweptOK'
  BY <1>0 DEF SessionsOK, MapOK, SweptOK
<1>9. LeadsOK'
  BY <1>0, <1>4, <1>6 DEF LeadsOK
<1>10. RequestsOK'
  BY <1>0, <1>4, <1>6 DEF RequestsOK
<1>11. SeeksOK'
  <2>. SUFFICES ASSUME NEW q \in Requests, req'[q].pc \in {"drain", "reattach"},
                       sess[req[q].slot].stage = "live"
                PROVE  ~(proc'[sess[req[q].slot].proc].run = "running" /\ ~proc'[sess[req[q].slot].proc].cancelled)
    BY <1>4 DEF SeeksOK, Loose
  <2>1. req[q].pc \in {"drain", "reattach"} /\ req[q].slot \in Slots
    BY <1>0, <1>4 DEF RequestsOK, Seeks
  <2>2. ~Loose(sess[req[q].slot].proc) /\ sess[req[q].slot].proc \in Procs
    BY <1>0, <2>1 DEF SeeksOK, SessionsOK
  <2>. QED
    BY <1>2, <2>2 DEF Loose
<1>12. Unique'
  BY <1>0, <1>4 DEF Unique
<1>13. NoOrphan'
  <2>. SUFFICES ASSUME NEW x \in Procs, Loose(x)'
                PROVE  \/ \E t \in Slots : sess[t].stage \in {"live", "cancel"} /\ sess[t].proc = x
                       \/ InHand(x)'
    BY DEF NoOrphan
  <2>1. Loose(x) /\ x # p
    BY <1>2
  <2>2. InHand(x) => InHand(x)'
    BY <1>1, <1>4, <2>1 DEF InHand
  <2>. QED
    BY <1>0, <2>1, <2>2 DEF NoOrphan
<1>. QED
  BY <1>5, <1>7, <1>8, <1>9, <1>10, <1>11, <1>12, <1>13 DEF IInv

LEMMA ReattachStep == ASSUME IInv, NEW r \in Requests, Reattach(r) PROVE IInv'
<1>1. CASE StillRegistered(r)
  BY <1>1, Attaches DEF Reattach
<1>2. CASE ~StillRegistered(r)
  BY <1>2, Discards DEF Reattach
<1>. QED
  BY <1>1, <1>2

-----------------------------------------------------------------------------
(* THEOREMS *)

LEMMA StepInv == IInv /\ [Next]_vars => IInv'
<1>. SUFFICES ASSUME IInv, [Next]_vars PROVE IInv'
  OBVIOUS
<1>1. ASSUME NEW r \in Requests, NEW k \in Keys, Start(r, k) \/ Seek(r, k) \/ StopItem(r, k)
      PROVE  IInv'
  BY <1>1, StartStep, SeekStep, StopItemStep
<1>2. ASSUME NEW r \in Requests, Admit(r) \/ StopNext(r) \/ StopsDone(r) PROVE IInv'
  BY <1>2, AdmitStep, StopNextStep, StopsDoneStep
<1>3. ASSUME NEW r \in Requests, Spawn(r) \/ Register(r) PROVE IInv'
  BY <1>3, SpawnStep, RegisterStep
<1>4. ASSUME NEW r \in Requests, Lock(r) \/ Respawn(r) \/ Reattach(r) \/ Kill(r) PROVE IInv'
  BY <1>4, LockStep, RespawnStep, ReattachStep
<1>5. ASSUME NEW s \in Slots, WatchStop(s) \/ BeginStop(s) \/ EndStop(s) PROVE IInv'
  BY <1>5, WatchStopStep, BeginStopStep, EndStopStep
<1>6. CASE Glances
  BY <1>6, GlanceStep
<1>7. ASSUME NEW k \in Keys, Write(k) PROVE IInv'
  BY <1>7, WriteStep
<1>8. ASSUME NEW p \in Procs, Exit(p) PROVE IInv'
  BY <1>8, ExitStep
<1>9. CASE Reap \/ Shutdown \/ Terminated \/ UNCHANGED vars
  BY <1>9, ReapStep, DownStep DEF Shutdown, Terminated
<1>. QED
  BY <1>1, <1>2, <1>3, <1>4, <1>5, <1>6, <1>7, <1>8, <1>9
     DEF Next, Arrive, Handle, Watch, Glances

THEOREM Invariant == Spec => []IInv
BY InitInv, StepInv, PTL DEF Spec

(* Types, and restartMu is held by a seek of the session that has it       *)
(* (RestartSessionAt and its deferred unlock).                             *)
THEOREM TypeCorrect == Spec => []TypeOK
<1>1. IInv => TypeOK
  BY TypeParts DEF IInv
<1>. QED
  BY <1>1, Invariant, PTL

(* The map names every live session under its key: StartSession's flight   *)
(* and its second look keep a registration from hiding another.            *)
THEOREM MapIsExact == Spec => []RegisteredIffLive
<1>1. IInv => RegisteredIffLive
  BY StreamAssumption DEF IInv, MapOK, SessionsOK, Types, RegisteredIffLive
<1>. QED
  BY <1>1, Invariant, PTL

(* No transcode runs that nobody will stop, however starts, seeks, stops,  *)
(* clean-ups and the watchers of early exits overlap.                      *)
THEOREM NothingOrphaned == Spec => []NoOrphan
<1>1. IInv => NoOrphan
  BY DEF IInv
<1>. QED
  BY <1>1, Invariant, PTL

(* After Shutdown only late starts survive (Manager.Shutdown's sweep).     *)
THEOREM LateStartsOnly == Spec => []OnlyLateStartsSurvive
<1>1. ASSUME IInv PROVE OnlyLateStartsSurvive
  <2>. SUFFICES ASSUME down = "down", NEW p \in Procs, Loose(p)
                PROVE  \/ InHand(p)
                       \/ \E s \in Slots : sess[s].proc = p /\ (sess[s].stage = "live" => sess[s].late)
    BY DEF OnlyLateStartsSurvive
  <2>. QED
    BY <1>1 DEF IInv, NoOrphan, SweptOK
<1>. QED
  BY <1>1, Invariant, PTL

(* The directory of a key has one writer that is not on its way out: a     *)
(* second one belongs to a session that was taken out of the map, or to a  *)
(* seek whose session was (reattachRestartedSession).                      *)
THEOREM WritersExclusive == Spec => []OneWriter
<1> DEFINE Leaving(x) ==
        \/ \E s \in Slots : sess[s].stage = "cancel" /\ sess[s].proc = x
        \/ \E r \in Requests : req[r].pc = "reattach" /\ req[r].proc = x /\ ~StillRegistered(r)
    Named(x, k) == sessions[k] # None /\ sess[sessions[k]].proc = x
    Attaching(x, k) == \E r \in Requests : /\ req[r].pc = "reattach" /\ req[r].proc = x
                                           /\ req[r].key = k /\ StillRegistered(r)
    Starting(x, k) == \E r \in Requests : req[r].pc = "register" /\ req[r].proc = x /\ req[r].key = k
<1>1. ASSUME IInv, NEW x \in Procs, NEW k \in Keys, Loose(x), WorksOn(x, k), ~Leaving(x)
      PROVE  Named(x, k) \/ Attaching(x, k) \/ Starting(x, k)
  <2>0. Types /\ SessionsOK /\ MapOK /\ Unique /\ NoOrphan
    BY <1>1 DEF IInv
  <2>1. CASE \E s \in Slots : sess[s].stage \in {"live", "cancel"} /\ sess[s].proc = x
    <3>1. PICK s \in Slots : sess[s].stage \in {"live", "cancel"} /\ sess[s].proc = x
      BY <2>1
    <3>2. sess[s].stage = "live" /\ sessions[sess[s].key] = s
      BY <1>1, <2>0, <3>1 DEF MapOK
    <3>3. sess[s].key = k
      BY <1>1, <2>0, <3>1 DEF WorksOn, Unique
    <3>. QED
      BY <3>1, <3>2, <3>3, StreamAssumption
  <2>2. CASE InHand(x)
    <3>1. PICK r \in Requests : req[r].pc \in {"register", "reattach"} /\ req[r].proc = x
      BY <2>2 DEF InHand
    <3>2. req[r].key = k
      BY <1>1, <2>0, <3>1 DEF WorksOn, Unique
    <3>. QED
      BY <1>1, <3>1, <3>2
  <2>. QED
    BY <1>1, <2>0, <2>1, <2>2 DEF NoOrphan
<1>2. ASSUME IInv, NEW k \in Keys, NEW x \in Procs, NEW y \in Procs, x # y, Loose(x), Loose(y),
             Named(x, k) \/ Attaching(x, k) \/ Starting(x, k),
             Named(y, k) \/ Attaching(y, k) \/ Starting(y, k)
      PROVE  FALSE
  <2>0. Types /\ MapOK /\ LeadsOK /\ RequestsOK /\ SeeksOK
    BY <1>2 DEF IInv
  <2>1. \A z \in Procs : Starting(z, k) => sessions[k] = None
    BY <2>0 DEF LeadsOK, Leads
  <2>2. \A z \in Procs : Attaching(z, k) => sessions[k] # None /\ ~Loose(sess[sessions[k]].proc)
    <3>. SUFFICES ASSUME NEW r \in Requests, req[r].pc = "reattach", req[r].key = k, StillRegistered(r)
                  PROVE  sessions[k] # None /\ ~Loose(sess[sessions[k]].proc)
      OBVIOUS
    <3>1. sessions[k] = req[r].slot /\ req[r].slot \in Slots
      BY <2>0 DEF StillRegistered, RequestsOK, Seeks
    <3>2. sessions[k] # None /\ sess[req[r].slot].stage = "live"
      BY <2>0, <3>1, StreamAssumption DEF MapOK
    <3>. QED
      BY <2>0, <3>1, <3>2 DEF SeeksOK
  <2>3. ~(Starting(x, k) /\ Starting(y, k))
    <3>. SUFFICES ASSUME NEW q \in Requests, NEW r \in Requests,
                         req[q].pc = "register", req[q].proc = x, req[q].key = k,
                         req[r].pc = "register", req[r].proc = y, req[r].key = k
                  PROVE  FALSE
      OBVIOUS
    <3>1. flight[k] = q /\ flight[k] = r
      BY <2>0 DEF LeadsOK, Leads
    <3>. QED
      BY <1>2, <3>1
  <2>4. ~(Attaching(x, k) /\ Attaching(y, k))
    <3>. SUFFICES ASSUME NEW q \in Requests, NEW r \in Requests,
                         req[q].pc = "reattach", req[q].proc = x, req[q].key = k, StillRegistered(q),
                         req[r].pc = "reattach", req[r].proc = y, req[r].key = k, StillRegistered(r)
                  PROVE  FALSE
      OBVIOUS
    <3>1. sess[sessions[k]].lock = q /\ sess[sessions[k]].lock = r
      BY <2>0 DEF RequestsOK, Seeks, StillRegistered
    <3>. QED
      BY <1>2, <3>1
  <2>5. ~(Named(x, k) /\ Named(y, k))
    BY <1>2
  <2>6. \A z \in Procs : Loose(z) /\ Named(z, k) => \A w \in Procs : ~Attaching(w, k)
    BY <2>2
  <2>7. \A z \in Procs : Starting(z, k) => \A w \in Procs : ~Named(w, k) /\ ~Attaching(w, k)
    BY <2>1, <2>2
  <2>. HIDE DEF Named, Attaching, Starting
  <2>. QED
    BY <1>2, <2>3, <2>4, <2>5, <2>6, <2>7
<1>3. ASSUME IInv PROVE OneWriter
  <2>. SUFFICES ASSUME NEW p \in Procs, NEW q \in Procs, NEW k \in Keys,
                       p # q, Loose(p), Loose(q), WorksOn(p, k), WorksOn(q, k),
                       ~Leaving(p), ~Leaving(q)
                PROVE  FALSE
    BY DEF OneWriter
  <2>. HIDE DEF Leaving, Named, Attaching, Starting
  <2>1. Named(p, k) \/ Attaching(p, k) \/ Starting(p, k)
    BY <1>1, <1>3
  <2>2. Named(q, k) \/ Attaching(q, k) \/ Starting(q, k)
    BY <1>1, <1>3
  <2>. QED
    BY <1>2, <1>3, <2>1, <2>2
<1>. HIDE DEF Leaving
<1>. QED
  BY <1>3, Invariant, PTL
=============================================================================
