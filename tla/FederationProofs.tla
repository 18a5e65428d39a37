--------------------------- MODULE FederationProofs ---------------------------
(***************************************************************************)
(* Proofs about a paired server: the pairing itself, and streaming to it,  *)
(* for any handlers, requests, items, caps and sizes; then about the       *)
(* specification that the control run checks, of these two and of the four *)
(* parts of internal/auth (AuthProofs).                                    *)
(***************************************************************************)
EXTENDS AuthProofs

-----------------------------------------------------------------------------
(* Streaming to a peer.                                                    *)
LEMMA StreamBounds ==
    /\ IsFiniteSet(PeerItems) /\ IsFiniteSet(Requests) /\ Requests # {}
    /\ MaxStreams \in Nat /\ TTL \in Nat /\ QueueSize \in Nat /\ MaxEntries \in Nat
    /\ NoRequest \notin PeerItems
BY ControlAssumption

LEMMA TypeInit == Init => TypeOK
BY StreamBounds DEF Init, TypeOK, Gone, Entries

LEMMA AuditTypes ==
    ASSUME TypeOK, Record \/ Take \/ Persist \/ CloseAuditor \/ Closed
    PROVE  TypeOK'
<1>1. CASE Record
  <2>1. entries' \in Entries /\ entries' \in 0 .. MaxEntries
    BY <1>1, StreamBounds DEF Record, Entries, TypeOK
  <2>2. queue' \in Seq(Entries) /\ Len(queue') <= QueueSize
    BY <1>1, <2>1, StreamBounds DEF Record, Full, TypeOK
  <2>3. dropped' \subseteq Entries /\ inTime' \subseteq Entries
    BY <1>1, <2>1 DEF Record, TypeOK
  <2>. QED
    BY <1>1, <2>1, <2>2, <2>3 DEF Record, TypeOK
<1>2. CASE Take
  <2>1. PICK n \in 1 .. Len(queue) : /\ batch' = {queue[k] : k \in 1 .. n}
                                    /\ queue' = SubSeq(queue, n + 1, Len(queue))
    BY <1>2 DEF Take
  <2>2. queue' \in Seq(Entries) /\ Len(queue') <= QueueSize
    BY <2>1, StreamBounds DEF TypeOK
  <2>3. batch' \subseteq Entries
    BY <2>1 DEF TypeOK
  <2>. QED
    BY <1>2, <2>2, <2>3 DEF Take, TypeOK
<1>3. CASE Persist
  BY <1>3 DEF Persist, TypeOK
<1>4. CASE CloseAuditor \/ Closed
  BY <1>4 DEF CloseAuditor, Closed, TypeOK
<1>. QED
  BY <1>1, <1>2, <1>3, <1>4

LEMMA TypeStep == ASSUME TypeOK, [Next]_streamVars PROVE TypeOK'
<1>1. CASE UNCHANGED streamVars
  BY <1>1 DEF streamVars, TypeOK
<1>2. CASE Sweep
  BY <1>2, StreamBounds DEF Sweep, Active, auditVars, TypeOK, Gone
<1>3. ASSUME NEW r \in Requests, Register(r) PROVE TypeOK'
  BY <1>3, StreamBounds DEF Register, auditVars, TypeOK, Gone
<1>4. ASSUME NEW i \in PeerItems, Lookup(i) PROVE TypeOK'
  BY <1>4, StreamBounds DEF Lookup, auditVars, TypeOK, Gone
<1>5. ASSUME NEW r \in Requests, NEW i \in PeerItems, Admit(r, i) PROVE TypeOK'
  BY <1>5 DEF Admit, auditVars, TypeOK
<1>. QED
  BY <1>1, <1>2, <1>3, <1>4, <1>5, AuditTypes DEF Next

-----------------------------------------------------------------------------
(* The items the peer has or is about to have a stream of: a request that  *)
(* was admitted counts before it is registered, and then only once.        *)
Claimed == Active \cup ({request[r] : r \in Requests} \ {NoRequest})

ClaimsBounded == Cardinality(Claimed) <= MaxStreams + Cardinality(Requests) - 1

LEMMA ClaimedFinite ==
    ASSUME TypeOK
    PROVE  Claimed \subseteq PeerItems /\ IsFiniteSet(Claimed) /\ Cardinality(Claimed) \in Nat
<1>1. Claimed \subseteq PeerItems
  BY DEF Claimed, Active, TypeOK
<1>. QED
  BY <1>1, FS_Subset, FS_CardinalityType, StreamBounds

(* A set of fewer claims keeps the bound.                                  *)
LEMMA FewerClaims ==
    ASSUME TypeOK, ClaimsBounded, Claimed' \subseteq Claimed
    PROVE  ClaimsBounded'
<1>1. IsFiniteSet(Claimed') /\ Cardinality(Claimed') <= Cardinality(Claimed)
  BY ClaimedFinite, FS_Subset
<1>2. Cardinality(Claimed') \in Nat /\ Cardinality(Requests) \in Nat
  BY <1>1, FS_CardinalityType, StreamBounds
<1>. QED
  BY <1>1, <1>2, ClaimedFinite, StreamBounds DEF ClaimsBounded

(* Admission of an item that has no stream finds less than the cap; at the *)
(* worst every other request has been let in by the same look.             *)
LEMMA AdmitClaims ==
    ASSUME TypeOK, ClaimsBounded, NEW r \in Requests, NEW i \in PeerItems, Admit(r, i)
    PROVE  ClaimsBounded'
<1>1. CASE i \in Active
  <2>1. Claimed' \subseteq Claimed
    BY <1>1 DEF Admit, Claimed, Active, TypeOK
  <2>. QED
    BY <2>1, FewerClaims
<1>2. CASE Cardinality(Active) < MaxStreams
  <2>. DEFINE Asked == {request'[q] : q \in Requests}
  <2>1. IsFiniteSet(Asked) /\ Cardinality(Asked) <= Cardinality(Requests)
    <3>1. request' \in [Requests -> PeerItems \cup {NoRequest}]
      BY DEF Admit, TypeOK
    <3>2. request' \in Surjection(Requests, Asked)
      BY <3>1 DEF Surjection
    <3>. HIDE DEF Asked
    <3>. QED
      BY <3>2, FS_Surjection, StreamBounds
  <2>2. IsFiniteSet(Active) /\ Active \subseteq PeerItems
    BY FS_Subset, StreamBounds DEF Active
  <2>3. Active' = Active /\ Claimed' \subseteq Active \cup Asked
    BY DEF Admit, Claimed, Active
  <2>. HIDE DEF Asked
  <2>4. /\ Cardinality(Active) \in Nat /\ Cardinality(Asked) \in Nat /\ Cardinality(Requests) \in Nat
        /\ IsFiniteSet(Active \cup Asked)
        /\ Cardinality(Active \cup Asked) <= Cardinality(Active) + Cardinality(Asked)
    <3>1. IsFiniteSet(Active \cap Asked)
      BY <2>2, FS_Intersection
    <3>2. /\ Cardinality(Active) \in Nat /\ Cardinality(Asked) \in Nat
          /\ Cardinality(Requests) \in Nat /\ Cardinality(Active \cap Asked) \in Nat
      BY <2>1, <2>2, <3>1, FS_CardinalityType, StreamBounds
    <3>3. /\ IsFiniteSet(Active \cup Asked)
          /\ Cardinality(Active \cup Asked)
                = Cardinality(Active) + Cardinality(Asked) - Cardinality(Active \cap Asked)
      BY <2>1, <2>2, FS_Union
    <3>. QED
      BY <3>2, <3>3
  <2>5. IsFiniteSet(Claimed') /\ Cardinality(Claimed') <= Cardinality(Active \cup Asked)
    BY <2>3, <2>4, FS_Subset
  <2>6. Cardinality(Claimed') \in Nat /\ Cardinality(Active \cup Asked) \in Nat
    BY <2>4, <2>5, FS_CardinalityType
  <2>. QED
    BY <1>2, <2>1, <2>4, <2>5, <2>6, StreamBounds DEF ClaimsBounded
<1>. QED
  BY <1>1, <1>2 DEF Admit, Admitted

LEMMA ClaimsStep ==
    ASSUME TypeOK, ClaimsBounded, [Next]_streamVars
    PROVE  ClaimsBounded'
<1>1. CASE UNCHANGED <<sessions, request>>
  BY <1>1 DEF ClaimsBounded, Claimed, Active
<1>2. ASSUME NEW r \in Requests, Register(r) PROVE Claimed' \subseteq Claimed
  BY <1>2 DEF Register, Claimed, Active, TypeOK
<1>3. ASSUME NEW i \in PeerItems, Lookup(i) PROVE Claimed' \subseteq Claimed
  BY <1>3 DEF Lookup, Claimed, Active, TypeOK
<1>4. CASE Sweep
  <2>1. Claimed' \subseteq Claimed
    BY <1>4 DEF Sweep, Claimed, Active
  <2>. QED
    BY <2>1, FewerClaims
<1>5. Record \/ Take \/ Persist \/ CloseAuditor \/ Closed \/ UNCHANGED streamVars
        => UNCHANGED <<sessions, request>>
  BY DEF Record, Take, Persist, CloseAuditor, Closed, streamVars
<1>. QED
  BY <1>1, <1>2, <1>3, <1>4, <1>5, FewerClaims, AdmitClaims DEF Next

(* The window between admission and registration is worth one stream for   *)
(* each request of the peer but one, and never more.                       *)
THEOREM StreamsStayBounded == Spec => []StreamsBounded
<1>1. Init => ClaimsBounded
  <2>1. ASSUME Init PROVE Claimed = {}
    BY <2>1 DEF Init, Claimed, Active
  <2>2. Cardinality(Requests) \in Nat /\ Cardinality(Requests) # 0
    BY FS_CardinalityType, FS_EmptySet, StreamBounds
  <2>3. ASSUME Init PROVE Cardinality(Claimed) = 0
    BY <2>1, <2>3, FS_EmptySet
  <2>. QED
    BY <2>2, <2>3, StreamBounds DEF ClaimsBounded
<1>2. TypeOK /\ ClaimsBounded => StreamsBounded
  <2>1. ASSUME TypeOK
        PROVE  /\ Cardinality(Active) <= Cardinality(Claimed) /\ Cardinality(Active) \in Nat
               /\ Cardinality(Claimed) \in Nat
    <3>1. Active \subseteq Claimed
      BY DEF Claimed
    <3>. QED
      BY <2>1, <3>1, ClaimedFinite, FS_Subset, FS_CardinalityType
  <2>2. Cardinality(Requests) \in Nat
    BY FS_CardinalityType, StreamBounds
  <2>. QED
    BY <2>1, <2>2, StreamBounds DEF ClaimsBounded, StreamsBounded
<1>. QED
  BY <1>1, <1>2, TypeInit, TypeStep, ClaimsStep, PTL DEF Spec

-----------------------------------------------------------------------------
(* Where an entry that was queued in time is.                              *)
Accounted ==
    /\ \A e \in inTime : e \in settled \/ e \in batch \/ \E k \in 1 .. Len(queue) : queue[k] = e
    /\ auditor = "closed" => inTime \subseteq settled

LEMMA AccountedStep ==
    ASSUME TypeOK, Accounted, [Next]_streamVars
    PROVE  Accounted'
<1>0. queue \in Seq(Entries) /\ Len(queue) \in Nat
  BY DEF TypeOK
<1>1. CASE UNCHANGED auditVars
  BY <1>1 DEF auditVars, Accounted
<1>2. CASE Record
  <2>1. CASE Full
    BY <1>2, <2>1 DEF Record, Accounted
  <2>2. CASE ~Full
    <3>1. queue' = Append(queue, entries') /\ Len(queue') = Len(queue) + 1
          /\ queue'[Len(queue) + 1] = entries'
          /\ \A k \in 1 .. Len(queue) : queue'[k] = queue[k]
      BY <1>0, <1>2, <2>2 DEF Record
    <3>2. \A e \in inTime' : e \in inTime \/ e = entries'
      BY <1>2, <2>2 DEF Record
    <3>3. settled' = settled /\ batch' = batch /\ auditor' = auditor
          /\ (auditor = "closed" => inTime' = inTime)
      BY <1>2, <2>2 DEF Record
    <3>4. ASSUME NEW e \in inTime'
          PROVE  e \in settled \/ e \in batch \/ \E k \in 1 .. Len(queue') : queue'[k] = e
      BY <1>0, <3>1, <3>2, <3>4 DEF Accounted
    <3>. QED
      BY <3>3, <3>4 DEF Accounted
  <2>. QED
    BY <2>1, <2>2
<1>3. CASE Take
  <2>1. PICK n \in 1 .. Len(queue) : /\ batch' = {queue[k] : k \in 1 .. n}
                                    /\ queue' = SubSeq(queue, n + 1, Len(queue))
    BY <1>3 DEF Take
  <2>2. Len(queue') = Len(queue) - n /\ \A k \in 1 .. Len(queue') : queue'[k] = queue[k + n]
    BY <1>0, <2>1
  <2>3. ASSUME NEW k \in 1 .. Len(queue)
        PROVE  queue[k] \in batch' \/ \E j \in 1 .. Len(queue') : queue'[j] = queue[k]
    <3>1. CASE k <= n
      <4>1. k \in 1 .. n
        BY <2>3, <3>1
      <4>. QED
        BY <2>1, <4>1
    <3>2. CASE n < k
      <4>1. k - n \in 1 .. Len(queue') /\ (k - n) + n = k
        BY <1>0, <2>1, <2>2, <3>2
      <4>. QED
        BY <2>2, <4>1
    <3>3. k <= n \/ n < k
      BY <2>1, <2>3
    <3>. QED
      BY <3>1, <3>2, <3>3
  <2>4. inTime' = inTime /\ settled' = settled /\ auditor' = auditor /\ batch = {}
    BY <1>3 DEF Take
  <2>. QED
    BY <2>3, <2>4 DEF Accounted
<1>4. CASE Persist
  BY <1>4 DEF Persist, Accounted
<1>5. CASE CloseAuditor
  BY <1>5 DEF CloseAuditor, Accounted
<1>6. CASE Closed
  BY <1>0, <1>6 DEF Closed, Flushed, Accounted
<1>7. (\E r \in Requests : Register(r) \/ \E i \in PeerItems : Admit(r, i))
        \/ (\E i \in PeerItems : Lookup(i)) \/ Sweep \/ UNCHANGED streamVars
        => UNCHANGED auditVars
  BY DEF Register, Admit, Lookup, Sweep, streamVars, auditVars
<1>. QED
  BY <1>1, <1>2, <1>3, <1>4, <1>5, <1>6, <1>7 DEF Next

(* Closing the auditor loses nothing that was queued before it: it is in   *)
(* the database, or its own insert failed.                                 *)
THEOREM CloseFlushes == Spec => []AuditFlushed
<1>1. Init => Accounted
  BY DEF Init, Accounted
<1>2. Accounted => AuditFlushed
  BY DEF Accounted, AuditFlushed
<1>. QED
  BY <1>1, <1>2, TypeInit, TypeStep, AccountedStep, PTL DEF Spec

-----------------------------------------------------------------------------
(* All that streaming to a peer promises.                                  *)
THEOREM PeerStreamsSafety == Spec => []PeerStreamsSafe
<1>1. StreamsBounded /\ AuditFlushed => PeerStreamsSafe
  BY DEF PeerStreamsSafe
<1>. QED
  BY <1>1, StreamsStayBounded, CloseFlushes, PTL

-----------------------------------------------------------------------------
(* The pairing of two servers.  The identifier of a request is claimed by  *)
(* at most one handler or call of each server until its row is there, so   *)
(* that no row is ever written twice.                                      *)
Claiming(t, i) == t.pc \in {"post", "persist", "store"} /\ t.id = i

FreshIds ==
    /\ \A s \in Servers, i \in Pairing!Ids : row[s][i] # None => i <= sent
    /\ \A m \in net : m.kind = "request" =>
          m.id <= sent /\ row[m.to][m.id] = None /\ m.outcome = "pending"
    /\ \A s \in Servers, h \in Handlers, i \in Pairing!Ids : Claiming(task[s][h], i) =>
          /\ i <= sent /\ row[s][i] = None
          /\ \A m \in net : m.kind = "request" /\ m.id = i => m.to # s
          /\ \A g \in Handlers : Claiming(task[s][g], i) => g = h

(* The other server accepted this very request, and has stored the peer.   *)
Agreed(s, i) ==
    LET t == Pairing!Other(s) IN Pairing!Is(t, i, "in", "accepted") /\ peer[t] # "none"

(* What a handler knows that has got this far ...                          *)
TaskOK(s, t) ==
    /\ t.pc \in {"post", "persist", "store", "mark", "peer"} => t.id \in Pairing!Ids
    /\ t.pc = "mark" => row[s][t.id] # None
    /\ t.pc = "mark" /\ t.to = "accepted" =>
          IF t.tell THEN row[s][t.id].dir = "in" ELSE Agreed(s, t.id)
    /\ t.pc \in {"peer", "cache"} /\ t.tell =>
          t.id \in Pairing!Ids /\ Pairing!Is(s, t.id, "in", "accepted")
    /\ t.pc = "cache" /\ t.tell => peer[s] # "none"

(* ... and what the callback of an acceptance says.                        *)
CallOK(m) == m.kind # "request" /\ m.outcome = "accepted" => Agreed(m.to, m.id)

PairingInv ==
    /\ Pairing!TypeOK
    /\ FreshIds
    /\ \A s \in Servers, h \in Handlers : TaskOK(s, task[s][h])
    /\ \A m \in net : CallOK(m)
    /\ \A s \in Servers, i \in Pairing!Ids : Pairing!Is(s, i, "out", "accepted") => Agreed(s, i)

LEMMA OtherServer ==
    ASSUME NEW s \in Servers
    PROVE  /\ Pairing!Other(s) \in Servers /\ Pairing!Other(s) # s
           /\ \A t \in Servers : t # s => t = Pairing!Other(s)
<1>1. PICK a \in Servers, b \in Servers : a # b /\ Servers = {a, b}
  BY ControlAssumption
<1>2. \E t \in Servers : t # s
  BY <1>1
<1>. QED
  BY <1>1, <1>2 DEF Pairing!Other

LEMMA OtherTwice == \A s \in Servers : Pairing!Other(Pairing!Other(s)) = s
BY OtherServer

-----------------------------------------------------------------------------
(* Whatever a step writes, what was resolved and who was stored remains.   *)
Grows ==
    /\ row' \in [Servers -> [Pairing!Ids -> Pairing!Row \cup {None}]]
    /\ peer' \in [Servers -> {"none", "paired", "revoked"}]
    /\ \A s \in Servers, i \in Pairing!Ids : row[s][i] # None =>
          /\ row'[s][i] # None /\ row'[s][i].dir = row[s][i].dir
          /\ row[s][i].status # "pending" => row'[s][i] = row[s][i]
    /\ \A s \in Servers : peer[s] # "none" => peer'[s] # "none"

LEMMA IsKept ==
    ASSUME Grows, Pairing!TypeOK, NEW s \in Servers, NEW i \in Pairing!Ids,
           NEW d \in {"in", "out"}, Pairing!Is(s, i, d, "accepted")
    PROVE  (Pairing!Is(s, i, d, "accepted"))'
<1>1. row[s][i] = [dir |-> d, status |-> "accepted"]
  BY DEF Pairing!Is
<1>2. row[s][i] \in Pairing!Row
  BY <1>1 DEF Pairing!Row, Pairing!Status
<1>3. row[s][i] # None /\ row[s][i].status # "pending"
  BY <1>1, <1>2, NoneAssumption
<1>. QED
  BY <1>1, <1>3 DEF Grows, Pairing!Is

LEMMA AgreedKept ==
    ASSUME Grows, Pairing!TypeOK, NEW s \in Servers, NEW i \in Pairing!Ids, Agreed(s, i)
    PROVE  Agreed(s, i)'
<1>1. PICK t \in Servers : t = Pairing!Other(s)
  BY OtherServer
<1>2. Pairing!Is(t, i, "in", "accepted") /\ peer[t] # "none"
  BY <1>1 DEF Agreed
<1>3. (Pairing!Is(t, i, "in", "accepted"))' /\ peer'[t] # "none"
  BY <1>2, IsKept DEF Grows
<1>. QED
  BY <1>1, <1>3 DEF Agreed

LEMMA TaskKept ==
    ASSUME Grows, Pairing!TypeOK, NEW s \in Servers, NEW t \in Pairing!Task, TaskOK(s, t)
    PROVE  TaskOK(s, t)'
<1>1. t.pc = "mark" => row'[s][t.id] # None
  BY DEF TaskOK, Grows
<1>2. t.pc = "mark" /\ t.to = "accepted" =>
         IF t.tell THEN row'[s][t.id].dir = "in" ELSE Agreed(s, t.id)'
  BY AgreedKept DEF TaskOK, Grows
<1>3. t.pc \in {"peer", "cache"} /\ t.tell =>
         t.id \in Pairing!Ids /\ (Pairing!Is(s, t.id, "in", "accepted"))'
  BY IsKept DEF TaskOK
<1>4. t.pc = "cache" /\ t.tell => peer'[s] # "none"
  BY DEF TaskOK, Grows
<1>5. t.pc \in {"post", "persist", "store", "mark", "peer"} => t.id \in Pairing!Ids
  BY DEF TaskOK
<1>. QED
  BY <1>1, <1>2, <1>3, <1>4, <1>5 DEF TaskOK

LEMMA CallKept ==
    ASSUME Grows, Pairing!TypeOK, NEW m \in Pairing!Message, CallOK(m)
    PROVE  CallOK(m)'
BY AgreedKept DEF CallOK, Pairing!Message

(* A step that keeps what there was: only what it adds must be looked at.  *)
LEMMA KeepsPairing ==
    ASSUME PairingInv, Grows, Pairing!TypeOK', FreshIds',
           \A s \in Servers, h \in Handlers :
              task'[s][h] = task[s][h] \/ TaskOK(s, task[s][h])',
           \A m \in net' : m \in net \/ CallOK(m)',
           \A s \in Servers, i \in Pairing!Ids :
              (Pairing!Is(s, i, "out", "accepted"))'
                 => Pairing!Is(s, i, "out", "accepted") \/ Agreed(s, i)'
    PROVE  PairingInv'
<1>1. Pairing!TypeOK
  BY DEF PairingInv
<1>2. ASSUME NEW s \in Servers, NEW h \in Handlers PROVE TaskOK(s, task[s][h])'
  <2>1. PICK t \in Pairing!Task : t = task'[s][h]
    BY DEF Pairing!TypeOK
  <2>2. TaskOK(s, t)'
    <3>1. CASE t = task[s][h]
      <4>1. TaskOK(s, t)
        BY <3>1 DEF PairingInv
      <4>. QED
        BY <1>1, <4>1, TaskKept
    <3>2. CASE TaskOK(s, task[s][h])'
      BY <2>1, <3>2 DEF TaskOK
    <3>. QED
      BY <2>1, <3>1, <3>2
  <2>. QED
    BY <2>1, <2>2 DEF TaskOK
<1>3. ASSUME NEW m \in net' PROVE CallOK(m)'
  <2>1. m \in Pairing!Message
    BY DEF Pairing!TypeOK
  <2>. QED
    BY <1>1, <2>1, CallKept DEF PairingInv
<1>4. ASSUME NEW s \in Servers, NEW i \in Pairing!Ids, (Pairing!Is(s, i, "out", "accepted"))'
      PROVE  Agreed(s, i)'
  BY <1>1, <1>4, AgreedKept DEF PairingInv
<1>. QED
  BY <1>2, <1>3, <1>4 DEF PairingInv

-----------------------------------------------------------------------------
(* How the tasks of a server change.                                       *)
LEMMA OffOK ==
    /\ Pairing!Off \in Pairing!Task /\ Pairing!Off.pc = "off" /\ ~Pairing!Off.tell
    /\ \A i : ~Claiming(Pairing!Off, i)
BY DEF Pairing!Off, Pairing!Task, Pairing!Status, Claiming

LEMMA SetMoves ==
    ASSUME Pairing!TypeOK, NEW s \in Servers, NEW h \in Handlers, NEW t \in Pairing!Task,
           Pairing!Set(s, h, t)
    PROVE  /\ task' \in [Servers -> [Handlers -> Pairing!Task]]
           /\ \A u \in Servers, g \in Handlers :
                 task'[u][g] = IF u = s /\ g = h THEN t ELSE task[u][g]
<1>1. task \in [Servers -> [Handlers -> Pairing!Task]]
  BY DEF Pairing!TypeOK
<1>2. task' = [task EXCEPT ![s] = [task[s] EXCEPT ![h] = t]]
  BY <1>1 DEF Pairing!Set
<1>. QED
  BY <1>1, <1>2

LEMMA GotoSets ==
    ASSUME Pairing!TypeOK, NEW s \in Servers, NEW h \in Handlers,
           NEW pc \in {"peer", "cache"}, Pairing!Goto(s, h, pc)
    PROVE  \E t \in Pairing!Task :
              /\ t.pc = pc /\ t.id = task[s][h].id /\ t.to = task[s][h].to
              /\ t.tell = task[s][h].tell /\ Pairing!Set(s, h, t)
<1>. DEFINE t == [task[s][h] EXCEPT !.pc = pc]
<1>1. task[s][h] \in Pairing!Task /\ task \in [Servers -> [Handlers -> Pairing!Task]]
  BY DEF Pairing!TypeOK
<1>2. /\ t \in Pairing!Task /\ t.pc = pc /\ t.id = task[s][h].id /\ t.to = task[s][h].to
      /\ t.tell = task[s][h].tell
  BY <1>1 DEF Pairing!Task
<1>3. Pairing!Set(s, h, t)
  BY <1>1 DEF Pairing!Goto, Pairing!Set
<1>. QED
  BY <1>2, <1>3

LEMMA AnswerMoves ==
    ASSUME Pairing!TypeOK, NEW s \in Servers, NEW h \in Handlers, NEW i \in Pairing!Ids,
           NEW ok, Pairing!Answer(s, h, i, ok)
    PROVE  /\ task' \in [Servers -> [Handlers -> Pairing!Task]]
           /\ task'[s][h] = Pairing!Off
           /\ \A u \in Servers, g \in Handlers :
                 \/ task'[u][g] = Pairing!Off
                 \/ task'[u][g] = task[u][g]
                 \/ /\ task[u][g].pc = "post" /\ task'[u][g].pc = "persist"
                    /\ task'[u][g].id = task[u][g].id
<1>1. \A t \in Pairing!Task : /\ [t EXCEPT !.pc = "persist"] \in Pairing!Task
                              /\ [t EXCEPT !.pc = "persist"].pc = "persist"
                              /\ [t EXCEPT !.pc = "persist"].id = t.id
  BY DEF Pairing!Task
<1>2. \A u \in Servers, g \in Handlers :
         task'[u][g] = IF u = s /\ g = h THEN Pairing!Off
                       ELSE IF u # s /\ task[u][g].pc = "post" /\ task[u][g].id = i
                            THEN IF ok THEN [task[u][g] EXCEPT !.pc = "persist"]
                                 ELSE Pairing!Off
                            ELSE task[u][g]
  BY DEF Pairing!Answer
<1>3. \A u \in Servers, g \in Handlers : task[u][g] \in Pairing!Task
  BY DEF Pairing!TypeOK
<1>4. ASSUME NEW u \in Servers, NEW g \in Handlers
      PROVE  /\ task'[u][g] \in Pairing!Task
             /\ \/ task'[u][g] = Pairing!Off
                \/ task'[u][g] = task[u][g]
                \/ /\ task[u][g].pc = "post" /\ task'[u][g].pc = "persist"
                   /\ task'[u][g].id = task[u][g].id
  <2>. DEFINE t == [task[u][g] EXCEPT !.pc = "persist"]
  <2>1. t \in Pairing!Task /\ t.pc = "persist" /\ t.id = task[u][g].id
    BY <1>1, <1>3
  <2>2. \/ task'[u][g] = Pairing!Off
        \/ task'[u][g] = task[u][g]
        \/ task[u][g].pc = "post" /\ task'[u][g] = t
    BY <1>2
  <2>. HIDE DEF t
  <2>. QED
    BY <1>3, <2>1, <2>2, OffOK
<1>5. task' \in [Servers -> [Handlers -> Pairing!Task]]
  BY <1>4 DEF Pairing!Answer
<1>6. task'[s][h] = Pairing!Off
  BY <1>2
<1>. QED
  BY <1>4, <1>5, <1>6

(* A step that claims nothing, writes no row that is not there and sends   *)
(* no request.                                                             *)
LEMMA FreshKept ==
    ASSUME FreshIds, Pairing!TypeOK, sent' = sent,
           \A s \in Servers, i \in Pairing!Ids : row'[s][i] = None <=> row[s][i] = None,
           \A m \in net' : m.kind = "request" => m \in net,
           \A s \in Servers, h \in Handlers, i \in Pairing!Ids :
              Claiming(task'[s][h], i) => Claiming(task[s][h], i)
    PROVE  FreshIds'
<1>1. \A s \in Servers, i \in Pairing!Ids : row'[s][i] # None => i <= sent'
  BY DEF FreshIds
<1>2. \A m \in net' : m.kind = "request" =>
          m.id <= sent' /\ row'[m.to][m.id] = None /\ m.outcome = "pending"
  BY DEF FreshIds, Pairing!TypeOK, Pairing!Message
<1>3. \A s \in Servers, h \in Handlers, i \in Pairing!Ids : Claiming(task'[s][h], i) =>
          /\ i <= sent' /\ row'[s][i] = None
          /\ \A m \in net' : m.kind = "request" /\ m.id = i => m.to # s
          /\ \A g \in Handlers : Claiming(task'[s][g], i) => g = h
  BY DEF FreshIds
<1>. QED
  BY <1>1, <1>2, <1>3 DEF FreshIds, Claiming

LEMMA SameRows ==
    ASSUME Pairing!TypeOK, row' = row, peer' = peer
    PROVE  Grows
BY DEF Grows, Pairing!TypeOK

LEMMA PairingTypes ==
    ASSUME Pairing!TypeOK, row' = row,
           peer' \in [Servers -> {"none", "paired", "revoked"}],
           peerCache' \in [Servers -> BOOLEAN],
           task' \in [Servers -> [Handlers -> Pairing!Task]],
           net' \subseteq Pairing!Message, sent' \in 0 .. MaxRequests
    PROVE  Pairing!TypeOK'
BY DEF Pairing!TypeOK

LEMMA PairingInit == Pairing!Init => PairingInv
<1>. SUFFICES ASSUME Pairing!Init PROVE PairingInv
  OBVIOUS
<1>1. \A s \in Servers, i \in Pairing!Ids : row[s][i] = None
  BY DEF Pairing!Init
<1>2. \A s \in Servers, h \in Handlers : task[s][h] = Pairing!Off
  BY DEF Pairing!Init
<1>3. Pairing!TypeOK
  BY <1>1, OffOK, ControlAssumption DEF Pairing!Init, Pairing!TypeOK
<1>4. FreshIds
  BY <1>1, <1>2, OffOK DEF Pairing!Init, FreshIds
<1>5. \A s \in Servers, h \in Handlers : TaskOK(s, task[s][h])
  BY <1>2, OffOK DEF TaskOK
<1>6. \A s \in Servers, i \in Pairing!Ids : ~Pairing!Is(s, i, "out", "accepted")
  <2>1. [dir |-> "out", status |-> "accepted"] \in Pairing!Row
    BY DEF Pairing!Row, Pairing!Status
  <2>. QED
    BY <1>1, <2>1, NoneAssumption DEF Pairing!Is
<1>. QED
  BY <1>3, <1>4, <1>5, <1>6 DEF Pairing!Init, PairingInv

-----------------------------------------------------------------------------
(* One handler goes on, perhaps with a notice to the other server, and     *)
(* writes nothing.                                                         *)
LEMMA TaskStep ==
    ASSUME PairingInv, row' = row, peer' = peer, sent' = sent,
           peerCache' \in [Servers -> BOOLEAN], net' \subseteq Pairing!Message,
           NEW s \in Servers, NEW h \in Handlers, NEW t \in Pairing!Task, Pairing!Set(s, h, t),
           TaskOK(s, t),
           \A i \in Pairing!Ids : Claiming(t, i) => Claiming(task[s][h], i),
           \A m \in net' : m \in net \/ (m.kind # "request" /\ CallOK(m))
    PROVE  PairingInv' /\ Grows
<1>0. Pairing!TypeOK /\ FreshIds /\ sent \in 0 .. MaxRequests
  BY DEF PairingInv, Pairing!TypeOK
<1>1. /\ task' \in [Servers -> [Handlers -> Pairing!Task]]
      /\ \A u \in Servers, g \in Handlers :
            task'[u][g] = IF u = s /\ g = h THEN t ELSE task[u][g]
  BY <1>0, SetMoves
<1>2. Pairing!TypeOK' /\ Grows
  BY <1>0, <1>1, PairingTypes, SameRows DEF Pairing!TypeOK
<1>3. FreshIds'
  BY <1>0, <1>1, FreshKept
<1>4. TaskOK(s, t)'
  BY <1>0, <1>2, TaskKept
<1>5. \A u \in Servers, g \in Handlers : task'[u][g] = task[u][g] \/ TaskOK(u, task[u][g])'
  BY <1>1, <1>4 DEF TaskOK
<1>6. \A m \in net' : m \in net \/ CallOK(m)'
  BY <1>0, <1>2, CallKept
<1>7. \A u \in Servers, i \in Pairing!Ids :
         (Pairing!Is(u, i, "out", "accepted"))' => Pairing!Is(u, i, "out", "accepted")
  BY DEF Pairing!Is
<1>. QED
  BY <1>2, <1>3, <1>5, <1>6, <1>7, KeepsPairing

(* Handlers end or go on waiting for their answer; nothing is written.     *)
LEMMA AnswerStep ==
    ASSUME PairingInv, row' = row, peer' = peer, sent' = sent, peerCache' = peerCache,
           net' \subseteq net, NEW s \in Servers, NEW h \in Handlers, NEW i \in Pairing!Ids,
           NEW ok, Pairing!Answer(s, h, i, ok)
    PROVE  PairingInv' /\ Grows
<1>0. Pairing!TypeOK /\ FreshIds /\ sent \in 0 .. MaxRequests
  BY DEF PairingInv, Pairing!TypeOK
<1>1. /\ task' \in [Servers -> [Handlers -> Pairing!Task]]
      /\ \A u \in Servers, g \in Handlers :
            \/ task'[u][g] = Pairing!Off
            \/ task'[u][g] = task[u][g]
            \/ /\ task[u][g].pc = "post" /\ task'[u][g].pc = "persist"
               /\ task'[u][g].id = task[u][g].id
  BY <1>0, AnswerMoves
<1>2. Pairing!TypeOK' /\ Grows
  BY <1>0, <1>1, PairingTypes, SameRows DEF Pairing!TypeOK
<1>3. \A u \in Servers, g \in Handlers, j \in Pairing!Ids :
         Claiming(task'[u][g], j) => Claiming(task[u][g], j)
  BY <1>1, OffOK DEF Claiming
<1>4. FreshIds'
  BY <1>0, <1>3, FreshKept
<1>5. ASSUME NEW u \in Servers, NEW g \in Handlers
      PROVE  task'[u][g] = task[u][g] \/ TaskOK(u, task[u][g])'
  <2>1. TaskOK(u, task[u][g])
    BY DEF PairingInv
  <2>2. CASE task'[u][g] = Pairing!Off
    BY <2>2, OffOK DEF TaskOK
  <2>3. CASE task[u][g].pc = "post" /\ task'[u][g].pc = "persist"
             /\ task'[u][g].id = task[u][g].id
    BY <2>1, <2>3 DEF TaskOK
  <2>. QED
    BY <1>1, <2>2, <2>3
<1>6. \A u \in Servers, j \in Pairing!Ids :
         (Pairing!Is(u, j, "out", "accepted"))' => Pairing!Is(u, j, "out", "accepted")
  BY DEF Pairing!Is
<1>. QED
  BY <1>2, <1>4, <1>5, <1>6, KeepsPairing

(* A handler that claimed an identifier writes the row of its request, or  *)
(* finds that the index refuses it, and lets go of the identifier.         *)
LEMMA InsertStep ==
    ASSUME PairingInv, peer' = peer, sent' = sent, peerCache' = peerCache, net' = net,
           NEW s \in Servers, NEW h \in Handlers, NEW i \in Pairing!Ids,
           NEW d \in {"in", "out"}, Claiming(task[s][h], i),
           \/ row' = row
           \/ /\ ~Pairing!ActiveRequest(s, d)
              /\ row' = [row EXCEPT ![s][i] = [dir |-> d, status |-> "pending"]],
           task' \in [Servers -> [Handlers -> Pairing!Task]],
           task'[s][h] = Pairing!Off,
           \A u \in Servers, g \in Handlers :
              \/ task'[u][g] = Pairing!Off
              \/ task'[u][g] = task[u][g]
              \/ /\ task[u][g].pc = "post" /\ task'[u][g].pc = "persist"
                 /\ task'[u][g].id = task[u][g].id
    PROVE  PairingInv' /\ Grows
<1>. DEFINE new == [dir |-> d, status |-> "pending"]
<1>0. /\ Pairing!TypeOK /\ FreshIds /\ sent \in 0 .. MaxRequests
      /\ row \in [Servers -> [Pairing!Ids -> Pairing!Row \cup {None}]]
      /\ row[s][i] = None /\ i <= sent
  BY DEF PairingInv, Pairing!TypeOK, FreshIds
<1>1. new \in Pairing!Row /\ new.status = "pending" /\ new.dir = d /\ new # None
  BY NoneAssumption DEF Pairing!Row, Pairing!Status
<1>2. \A u \in Servers, j \in Pairing!Ids :
         \/ row'[u][j] = row[u][j]
         \/ u = s /\ j = i /\ row'[u][j] = new
  <2>1. CASE row' = row
    BY <2>1
  <2>2. CASE row' = [row EXCEPT ![s][i] = new]
    BY <1>0, <2>2
  <2>. QED
    BY <2>1, <2>2
<1>3. row' \in [Servers -> [Pairing!Ids -> Pairing!Row \cup {None}]]
  <2>1. CASE row' = row
    BY <1>0, <2>1
  <2>2. CASE row' = [row EXCEPT ![s][i] = new]
    <3>. HIDE DEF new
    <3>1. [row[s] EXCEPT ![i] = new] \in [Pairing!Ids -> Pairing!Row \cup {None}]
      BY <1>0, <1>1
    <3>2. row' = [row EXCEPT ![s] = [row[s] EXCEPT ![i] = new]]
      BY <1>0, <2>2
    <3>. QED
      BY <1>0, <3>1, <3>2
  <2>. QED
    BY <2>1, <2>2
<1>. HIDE DEF new
<1>4. Grows
  BY <1>0, <1>2, <1>3 DEF Grows, Pairing!TypeOK
<1>5. \A u \in Servers, j, k \in Pairing!Ids :
         row'[u][j] # None /\ row'[u][j] = row'[u][k] /\ row'[u][j].status = "pending" => j = k
  <2>1. CASE row' = row
    BY <1>0, <2>1 DEF Pairing!TypeOK
  <2>2. CASE ~Pairing!ActiveRequest(s, d)
    <3>1. \A j \in Pairing!Ids : row[s][j] # new
      BY <2>2 DEF Pairing!ActiveRequest, Pairing!Is, new
    <3>. QED
      BY <1>0, <1>1, <1>2, <3>1 DEF Pairing!TypeOK
  <2>. QED
    BY <2>1, <2>2
<1>6. Pairing!TypeOK'
  BY <1>0, <1>3, <1>5 DEF Pairing!TypeOK
<1>7. \A u \in Servers, g \in Handlers, j \in Pairing!Ids :
         Claiming(task'[u][g], j) => Claiming(task[u][g], j) /\ (u # s \/ j # i)
  <2>1. \A g \in Handlers : Claiming(task[s][g], i) => g = h
    BY <1>0 DEF FreshIds
  <2>. QED
    BY <2>1, OffOK DEF Claiming
<1>8. FreshIds'
  <2>1. \A u \in Servers, j \in Pairing!Ids : row'[u][j] # None => j <= sent'
    BY <1>0, <1>2 DEF FreshIds
  <2>2. \A m \in net' : m.kind = "request" =>
           m.id <= sent' /\ row'[m.to][m.id] = None /\ m.outcome = "pending"
    <3>. SUFFICES ASSUME NEW m \in net, m.kind = "request"
                  PROVE  m.id <= sent' /\ row'[m.to][m.id] = None /\ m.outcome = "pending"
      OBVIOUS
    <3>1. m.to \in Servers /\ m.id \in Pairing!Ids
      BY <1>0 DEF Pairing!TypeOK, Pairing!Message
    <3>2. m.id <= sent /\ row[m.to][m.id] = None /\ m.outcome = "pending"
      BY <1>0 DEF FreshIds
    <3>3. ~(m.id = i /\ m.to = s)
      BY <1>0 DEF FreshIds
    <3>. QED
      BY <1>2, <3>1, <3>2, <3>3
  <2>3. \A u \in Servers, g \in Handlers, j \in Pairing!Ids : Claiming(task'[u][g], j) =>
           /\ j <= sent' /\ row'[u][j] = None
           /\ \A m \in net' : m.kind = "request" /\ m.id = j => m.to # u
           /\ \A f \in Handlers : Claiming(task'[u][f], j) => f = g
    BY <1>0, <1>2, <1>7 DEF FreshIds
  <2>. QED
    BY <2>1, <2>2, <2>3 DEF FreshIds, Claiming
<1>9. ASSUME NEW u \in Servers, NEW g \in Handlers
      PROVE  task'[u][g] = task[u][g] \/ TaskOK(u, task[u][g])'
  <2>1. TaskOK(u, task[u][g])
    BY DEF PairingInv
  <2>2. CASE task'[u][g] = Pairing!Off
    BY <2>2, OffOK DEF TaskOK
  <2>3. CASE task[u][g].pc = "post" /\ task'[u][g].pc = "persist"
             /\ task'[u][g].id = task[u][g].id
    BY <2>1, <2>3 DEF TaskOK
  <2>. QED
    BY <2>2, <2>3
<1>10. \A u \in Servers, j \in Pairing!Ids :
         (Pairing!Is(u, j, "out", "accepted"))' => Pairing!Is(u, j, "out", "accepted")
  BY <1>1, <1>2 DEF Pairing!Is
<1>. QED
  BY <1>4, <1>6, <1>8, <1>9, <1>10, KeepsPairing

-----------------------------------------------------------------------------
(* A step that changes the status of one pending request.                  *)
LEMMA ResolveStep ==
    ASSUME PairingInv, peer' = peer, sent' = sent, peerCache' = peerCache,
           net' \subseteq Pairing!Message,
           NEW s \in Servers, NEW i \in Pairing!Ids, NEW to \in Pairing!Status,
           row[s][i] # None, row[s][i].status = "pending",
           row' = [row EXCEPT ![s][i].status = to],
           row[s][i].dir = "out" /\ to = "accepted" => Agreed(s, i)
    PROVE  /\ Grows /\ row' \in [Servers -> [Pairing!Ids -> Pairing!Row \cup {None}]]
           /\ \A u \in Servers, j \in Pairing!Ids : row'[u][j] = None <=> row[u][j] = None
           /\ \A u \in Servers, j, k \in Pairing!Ids :
                 row'[u][j] # None /\ row'[u][j] = row'[u][k] /\ row'[u][j].status = "pending"
                    => j = k
           /\ \A u \in Servers, j \in Pairing!Ids :
                 (Pairing!Is(u, j, "out", "accepted"))'
                    => Pairing!Is(u, j, "out", "accepted") \/ Agreed(u, j)'
           /\ row'[s][i].status = to /\ row'[s][i].dir = row[s][i].dir
           /\ row'[s][i] \in Pairing!Row
<1>. DEFINE new == [row[s][i] EXCEPT !.status = to]
<1>0. /\ Pairing!TypeOK /\ row \in [Servers -> [Pairing!Ids -> Pairing!Row \cup {None}]]
      /\ row[s][i] \in Pairing!Row
  BY DEF PairingInv, Pairing!TypeOK
<1>1. /\ new \in Pairing!Row /\ new.status = to /\ new.dir = row[s][i].dir /\ new # None
      /\ to = "pending" => new = row[s][i]
  BY <1>0, NoneAssumption DEF Pairing!Row
<1>2. row' = [row EXCEPT ![s] = [row[s] EXCEPT ![i] = new]]
  BY <1>0
<1>. HIDE DEF new
<1>3. row' \in [Servers -> [Pairing!Ids -> Pairing!Row \cup {None}]]
  BY <1>0, <1>1, <1>2
<1>4. \A u \in Servers, j \in Pairing!Ids :
         row'[u][j] = IF u = s /\ j = i THEN new ELSE row[u][j]
  BY <1>0, <1>2
<1>5. Grows
  BY <1>0, <1>1, <1>3, <1>4 DEF Grows, Pairing!TypeOK
<1>6. \A u \in Servers, j, k \in Pairing!Ids :
         row'[u][j] # None /\ row'[u][j] = row'[u][k] /\ row'[u][j].status = "pending" => j = k
  BY <1>0, <1>1, <1>4 DEF Pairing!TypeOK
<1>7. ASSUME NEW u \in Servers, NEW j \in Pairing!Ids, (Pairing!Is(u, j, "out", "accepted"))'
      PROVE  Pairing!Is(u, j, "out", "accepted") \/ Agreed(u, j)'
  <2>1. CASE u = s /\ j = i
    <3>1. row[s][i].dir = "out" /\ to = "accepted"
      BY <1>1, <1>4, <1>7, <2>1 DEF Pairing!Is
    <3>. QED
      BY <1>0, <1>5, <2>1, <3>1, AgreedKept
  <2>2. CASE ~(u = s /\ j = i)
    BY <1>4, <1>7, <2>2 DEF Pairing!Is
  <2>. QED
    BY <2>1, <2>2
<1>. QED
  BY <1>0, <1>1, <1>3, <1>4, <1>5, <1>6, <1>7

LEMMA MarkStep ==
    ASSUME PairingInv, NEW s \in Servers, NEW h \in Handlers, Pairing!Mark(s, h)
    PROVE  PairingInv' /\ Grows
<1>. DEFINE t == task[s][h]
<1>0. /\ Pairing!TypeOK /\ FreshIds /\ t \in Pairing!Task /\ TaskOK(s, t) /\ t.pc = "mark"
      /\ t.id \in Pairing!Ids /\ t.to \in Pairing!Status /\ row[s][t.id] # None
      /\ UNCHANGED <<peer, peerCache, sent>>
  BY DEF PairingInv, Pairing!TypeOK, Pairing!Mark, TaskOK, Pairing!Task
<1>1. CASE ~Pairing!StillPending(s, t.id)
  <2>1. Pairing!Set(s, h, Pairing!Off) /\ UNCHANGED <<row, net>>
    BY <1>1 DEF Pairing!Mark
  <2>2. TaskOK(s, Pairing!Off)
    BY OffOK DEF TaskOK
  <2>. QED
    BY <1>0, <2>1, <2>2, OffOK, TaskStep DEF Pairing!TypeOK
<1>2. CASE Pairing!StillPending(s, t.id)
  <2>1. /\ row[s][t.id].status = "pending" /\ row' = [row EXCEPT ![s][t.id].status = t.to]
        /\ IF t.to = "accepted" THEN Pairing!Goto(s, h, "peer") ELSE Pairing!Set(s, h, Pairing!Off)
        /\ net' = IF Pairing!TellsNow(t) THEN net \cup {Pairing!Notice(s, t)} ELSE net
    BY <1>2 DEF Pairing!Mark, Pairing!StillPending
  <2>2. /\ Pairing!Notice(s, t) \in Pairing!Message /\ Pairing!Notice(s, t).kind # "request"
        /\ t.to # "accepted" => Pairing!Notice(s, t).outcome # "accepted"
    BY <1>0, OtherServer DEF Pairing!Notice, Pairing!Call, Pairing!Message, Pairing!Status
  <2>3. /\ net' \subseteq Pairing!Message
        /\ \A m \in net' : m \in net \/ (m.kind # "request" /\ m.outcome # "accepted")
    BY <1>0, <2>1, <2>2 DEF Pairing!TypeOK, Pairing!TellsNow
  <2>4. /\ t.to = "accepted" /\ t.tell => row[s][t.id].dir = "in"
        /\ row[s][t.id].dir = "out" /\ t.to = "accepted" => Agreed(s, t.id)
    BY <1>0 DEF TaskOK
  <2>5. PICK i \in Pairing!Ids, to \in Pairing!Status : i = t.id /\ to = t.to
    BY <1>0
  <2>6. /\ Grows /\ row' \in [Servers -> [Pairing!Ids -> Pairing!Row \cup {None}]]
        /\ \A u \in Servers, j \in Pairing!Ids : row'[u][j] = None <=> row[u][j] = None
        /\ \A u \in Servers, j, k \in Pairing!Ids :
              row'[u][j] # None /\ row'[u][j] = row'[u][k] /\ row'[u][j].status = "pending"
                 => j = k
        /\ \A u \in Servers, j \in Pairing!Ids :
              (Pairing!Is(u, j, "out", "accepted"))'
                 => Pairing!Is(u, j, "out", "accepted") \/ Agreed(u, j)'
        /\ row'[s][i].status = to /\ row'[s][i].dir = row[s][i].dir
        /\ row'[s][i] \in Pairing!Row
    <3>1. /\ row[s][i] # None /\ row[s][i].status = "pending"
          /\ row' = [row EXCEPT ![s][i].status = to]
          /\ row[s][i].dir = "out" /\ to = "accepted" => Agreed(s, i)
      BY <1>0, <2>1, <2>4, <2>5
    <3>. HIDE DEF t
    <3>. QED
      BY <1>0, <2>3, <3>1, ResolveStep
  <2>7. PICK q \in Pairing!Task : /\ Pairing!Set(s, h, q)
                                  /\ \/ q = Pairing!Off
                                     \/ /\ q.pc = "peer" /\ q.id = i /\ q.to = "accepted"
                                        /\ q.tell = t.tell /\ to = "accepted"
    <3>1. CASE t.to = "accepted"
      BY <1>0, <2>1, <2>5, <3>1, GotoSets
    <3>2. CASE t.to # "accepted"
      BY <2>1, <3>2, OffOK
    <3>. QED
      BY <3>1, <3>2
  <2>8. TaskOK(s, q)'
    <3>1. CASE q = Pairing!Off
      BY <3>1, OffOK DEF TaskOK
    <3>2. CASE q.pc = "peer" /\ q.id = i /\ q.tell = t.tell /\ to = "accepted"
      <4>1. q.tell => (Pairing!Is(s, i, "in", "accepted"))'
        BY <2>4, <2>5, <2>6, <3>2 DEF Pairing!Is, Pairing!Row
      <4>. QED
        BY <2>5, <3>2, <4>1 DEF TaskOK
    <3>. QED
      BY <2>7, <3>1, <3>2
  <2>9. /\ task' \in [Servers -> [Handlers -> Pairing!Task]]
        /\ \A u \in Servers, g \in Handlers :
              task'[u][g] = IF u = s /\ g = h THEN q ELSE task[u][g]
    BY <1>0, <2>7, SetMoves
  <2>10. \A j : ~Claiming(q, j)
    BY <2>7, OffOK DEF Claiming
  <2>11. FreshIds'
    BY <1>0, <2>3, <2>6, <2>9, <2>10, FreshKept
  <2>12. Pairing!TypeOK'
    BY <1>0, <2>3, <2>6, <2>9 DEF Pairing!TypeOK
  <2>13. \A u \in Servers, g \in Handlers : task'[u][g] = task[u][g] \/ TaskOK(u, task[u][g])'
    BY <2>8, <2>9 DEF TaskOK
  <2>14. \A m \in net' : m \in net \/ CallOK(m)'
    BY <2>3 DEF CallOK
  <2>. QED
    BY <2>6, <2>11, <2>12, <2>13, <2>14, KeepsPairing
<1>. QED
  BY <1>1, <1>2

-----------------------------------------------------------------------------
(* A step that changes the row of the peer, and the handler with it.       *)
LEMMA PeerStep ==
    ASSUME PairingInv, UNCHANGED <<row, sent, net, peerCache>>,
           peer' \in [Servers -> {"none", "paired", "revoked"}],
           \A u \in Servers : peer[u] # "none" => peer'[u] # "none",
           NEW s \in Servers, NEW h \in Handlers, NEW q \in Pairing!Task,
           Pairing!Set(s, h, q), TaskOK(s, q)', \A i : ~Claiming(q, i)
    PROVE  PairingInv' /\ Grows
<1>0. Pairing!TypeOK /\ FreshIds
  BY DEF PairingInv
<1>1. /\ task' \in [Servers -> [Handlers -> Pairing!Task]]
      /\ \A u \in Servers, g \in Handlers :
            task'[u][g] = IF u = s /\ g = h THEN q ELSE task[u][g]
  BY <1>0, SetMoves
<1>2. Pairing!TypeOK'
  BY <1>0, <1>1 DEF Pairing!TypeOK
<1>3. Grows
  BY <1>0 DEF Grows, Pairing!TypeOK
<1>4. FreshIds'
  BY <1>0, <1>1, FreshKept
<1>5. \A u \in Servers, g \in Handlers : task'[u][g] = task[u][g] \/ TaskOK(u, task[u][g])'
  BY <1>1 DEF TaskOK
<1>6. \A u \in Servers, i \in Pairing!Ids :
         (Pairing!Is(u, i, "out", "accepted"))' => Pairing!Is(u, i, "out", "accepted")
  BY DEF Pairing!Is
<1>. QED
  BY <1>2, <1>3, <1>4, <1>5, <1>6, KeepsPairing

LEMMA InsertPeerStep ==
    ASSUME PairingInv, NEW s \in Servers, NEW h \in Handlers, Pairing!InsertPeer(s, h)
    PROVE  PairingInv' /\ Grows
<1>0. /\ Pairing!TypeOK /\ TaskOK(s, task[s][h]) /\ task[s][h].pc = "peer"
      /\ UNCHANGED <<row, sent, net, peerCache>>
      /\ peer \in [Servers -> {"none", "paired", "revoked"}]
  BY DEF PairingInv, Pairing!TypeOK, Pairing!InsertPeer
<1>1. CASE peer[s] = "none"
  <2>1. peer' = [peer EXCEPT ![s] = "paired"] /\ Pairing!Goto(s, h, "cache")
    BY <1>1 DEF Pairing!InsertPeer
  <2>2. PICK q \in Pairing!Task : /\ q.pc = "cache" /\ q.id = task[s][h].id
                                  /\ q.tell = task[s][h].tell /\ Pairing!Set(s, h, q)
    BY <1>0, <2>1, GotoSets
  <2>3. peer'[s] = "paired"
    BY <1>0, <2>1
  <2>4. TaskOK(s, q)'
    BY <1>0, <2>2, <2>3 DEF TaskOK, Pairing!Is
  <2>5. \A i : ~Claiming(q, i)
    BY <2>2 DEF Claiming
  <2>. QED
    BY <1>0, <2>1, <2>2, <2>4, <2>5, PeerStep
<1>2. CASE peer[s] # "none"
  <2>1. peer' = peer /\ Pairing!Set(s, h, Pairing!Off)
    BY <1>2 DEF Pairing!InsertPeer
  <2>2. TaskOK(s, Pairing!Off)'
    BY OffOK DEF TaskOK
  <2>. QED
    BY <1>0, <2>1, <2>2, OffOK, PeerStep
<1>. QED
  BY <1>1, <1>2

LEMMA RevokeStep ==
    ASSUME PairingInv, NEW s \in Servers, NEW h \in Handlers, Pairing!RevokePeer(s, h)
    PROVE  PairingInv' /\ Grows
<1>0. /\ Pairing!TypeOK /\ task[s][h] = Pairing!Off
      /\ UNCHANGED <<row, sent, net, peerCache>>
      /\ peer \in [Servers -> {"none", "paired", "revoked"}]
      /\ peer' = [peer EXCEPT ![s] = "revoked"] /\ Pairing!Goto(s, h, "cache")
  BY DEF PairingInv, Pairing!TypeOK, Pairing!RevokePeer
<1>1. PICK q \in Pairing!Task : /\ q.pc = "cache" /\ q.tell = task[s][h].tell
                                /\ Pairing!Set(s, h, q)
  BY <1>0, GotoSets
<1>2. TaskOK(s, q)' /\ \A i : ~Claiming(q, i)
  BY <1>0, <1>1, OffOK DEF TaskOK, Claiming
<1>. QED
  BY <1>0, <1>1, <1>2, PeerStep

LEMMA SetCacheStep ==
    ASSUME PairingInv, NEW s \in Servers, NEW h \in Handlers, Pairing!SetCache(s, h)
    PROVE  PairingInv' /\ Grows
<1>. DEFINE t == task[s][h]
<1>0. /\ Pairing!TypeOK /\ t \in Pairing!Task /\ TaskOK(s, t) /\ t.pc = "cache"
      /\ net' = IF t.tell THEN net \cup {Pairing!Notice(s, t)} ELSE net
      /\ Pairing!Set(s, h, Pairing!Off) /\ UNCHANGED <<row, peer, sent>>
  BY DEF PairingInv, Pairing!TypeOK, Pairing!SetCache
<1>1. peerCache' \in [Servers -> BOOLEAN]
  <2>1. PICK paired \in Pairing!ListPeers(s, t) : peerCache' = [peerCache EXCEPT ![s] = paired]
    BY DEF Pairing!SetCache
  <2>2. paired \in BOOLEAN
    BY <2>1 DEF Pairing!ListPeers
  <2>. QED
    BY <1>0, <2>1, <2>2 DEF Pairing!TypeOK
<1>2. ASSUME t.tell
      PROVE  /\ Pairing!Notice(s, t) \in Pairing!Message
             /\ Pairing!Notice(s, t).kind # "request" /\ CallOK(Pairing!Notice(s, t))
  <2>1. t.id \in Pairing!Ids /\ Pairing!Is(s, t.id, "in", "accepted") /\ peer[s] # "none"
    BY <1>0, <1>2 DEF TaskOK
  <2>2. Agreed(Pairing!Other(s), t.id)
    BY <2>1, OtherTwice DEF Agreed
  <2>3. t.to \in Pairing!Status /\ Pairing!Other(s) \in Servers
    BY <1>0, OtherServer DEF Pairing!Task
  <2>4. CASE t.to = "cancelled"
    BY <2>1, <2>3, <2>4 DEF Pairing!Notice, Pairing!Call, Pairing!Message, Pairing!Status, CallOK
  <2>5. CASE t.to # "cancelled"
    BY <2>1, <2>2, <2>3, <2>5 DEF Pairing!Notice, Pairing!Call, Pairing!Message, CallOK
  <2>. QED
    BY <2>4, <2>5
<1>3. /\ net' \subseteq Pairing!Message
      /\ \A m \in net' : m \in net \/ (m.kind # "request" /\ CallOK(m))
  BY <1>0, <1>2 DEF Pairing!TypeOK
<1>4. TaskOK(s, Pairing!Off)
  BY OffOK DEF TaskOK
<1>. QED
  BY <1>0, <1>1, <1>3, <1>4, OffOK, TaskStep

-----------------------------------------------------------------------------
(* The handlers that send and receive.                                     *)
LEMMA ResolveSets ==
    ASSUME PairingInv, NEW s \in Servers, NEW h \in Handlers, NEW i \in Pairing!Ids,
           NEW to \in Pairing!Status, NEW tell \in BOOLEAN, NEW d \in {"in", "out"},
           Pairing!Is(s, i, d, "pending"), Pairing!Resolve(s, h, i, to, tell),
           to = "accepted" => IF tell THEN d = "in" ELSE Agreed(s, i),
           UNCHANGED <<row, peer, peerCache, sent>>, net' \subseteq net
    PROVE  PairingInv' /\ Grows
<1>. DEFINE q == [Pairing!Off EXCEPT !.pc = "mark", !.id = i, !.to = to, !.tell = tell]
<1>1. /\ q \in Pairing!Task /\ q.pc = "mark" /\ q.id = i /\ q.to = to /\ q.tell = tell
      /\ Pairing!Set(s, h, q)
  BY DEF Pairing!Off, Pairing!Task, Pairing!Resolve
<1>. HIDE DEF q
<1>2. row[s][i] # None /\ row[s][i].dir = d
  <2>1. [dir |-> d, status |-> "pending"] \in Pairing!Row
    BY DEF Pairing!Row, Pairing!Status
  <2>. QED
    BY <2>1, NoneAssumption DEF Pairing!Is
<1>3. TaskOK(s, q) /\ \A j : ~Claiming(q, j)
  BY <1>1, <1>2 DEF TaskOK, Claiming
<1>. QED
  BY <1>1, <1>3, TaskStep DEF PairingInv, Pairing!TypeOK

LEMMA DecideStep ==
    ASSUME PairingInv, NEW s \in Servers, NEW h \in Handlers, NEW i \in Pairing!Ids,
           Pairing!Decide(s, h, i)
    PROVE  PairingInv' /\ Grows
<1>1. CASE /\ Pairing!Is(s, i, "in", "pending")
           /\ \E to \in {"accepted", "declined"} : Pairing!Resolve(s, h, i, to, TRUE)
  BY <1>1, ResolveSets DEF Pairing!Decide, Pairing!Status
<1>2. CASE Pairing!Is(s, i, "out", "pending") /\ Pairing!Resolve(s, h, i, "cancelled", TRUE)
  BY <1>2, ResolveSets DEF Pairing!Decide, Pairing!Status
<1>. QED
  BY <1>1, <1>2 DEF Pairing!Decide

LEMMA ReceiveOtherStep ==
    ASSUME PairingInv, NEW s \in Servers, NEW h \in Handlers, NEW m \in net,
           Pairing!ReceiveOther(s, h, m)
    PROVE  PairingInv' /\ Grows
<1>1. /\ m \in Pairing!Message /\ CallOK(m) /\ m.to = s /\ m.kind # "request"
      /\ net' \subseteq net
  BY DEF PairingInv, Pairing!TypeOK, Pairing!ReceiveOther
<1>2. m.id \in Pairing!Ids /\ m.outcome \in Pairing!Status
  BY <1>1 DEF Pairing!Message
<1>3. m.outcome = "accepted" => Agreed(s, m.id)
  BY <1>1 DEF CallOK
<1>4. PICK d \in {"in", "out"} : Pairing!Is(s, m.id, d, "pending")
  BY DEF Pairing!ReceiveOther
<1>5. /\ Pairing!Resolve(s, h, m.id, m.outcome, FALSE)
      /\ UNCHANGED <<row, peer, peerCache, sent>>
  BY DEF Pairing!ReceiveOther, Pairing!Outcome
<1>. QED
  BY <1>1, <1>2, <1>3, <1>4, <1>5, ResolveSets

(* An identifier is claimed: by the handler that has sent its request ...  *)
LEMMA SendStep ==
    ASSUME PairingInv, NEW s \in Servers, NEW h \in Handlers, Pairing!Send(s, h)
    PROVE  PairingInv' /\ Grows
<1>. DEFINE i == sent + 1
            o == Pairing!Other(s)
            q == [Pairing!Off EXCEPT !.pc = "post", !.id = i]
            m == [kind |-> "request", id |-> i, to |-> o, outcome |-> "pending"]
<1>0. /\ Pairing!TypeOK /\ FreshIds /\ sent \in Nat /\ MaxRequests \in Nat /\ sent < MaxRequests
      /\ sent' = i /\ net' = net \cup {m} /\ Pairing!Set(s, h, q)
      /\ UNCHANGED <<row, peer, peerCache>> /\ o \in Servers /\ o # s
  BY ControlAssumption, OtherServer
     DEF PairingInv, Pairing!TypeOK, Pairing!Send, Pairing!Call
<1>1. i \in Pairing!Ids /\ i \in 0 .. MaxRequests /\ sent' > sent
  BY <1>0 DEF Pairing!Ids
<1>2. q \in Pairing!Task /\ q.pc = "post" /\ q.id = i /\ ~q.tell
  BY <1>1 DEF Pairing!Off, Pairing!Task, Pairing!Status
<1>3. /\ m \in Pairing!Message /\ m.kind = "request" /\ m.id = i /\ m.to = o
      /\ m.outcome = "pending"
  BY <1>0, <1>1 DEF Pairing!Message, Pairing!Status
<1>. HIDE DEF q, m
<1>4. /\ task' \in [Servers -> [Handlers -> Pairing!Task]]
      /\ \A u \in Servers, g \in Handlers :
            task'[u][g] = IF u = s /\ g = h THEN q ELSE task[u][g]
  BY <1>0, <1>2, SetMoves
<1>5. Pairing!TypeOK' /\ Grows
  BY <1>0, <1>1, <1>3, <1>4, PairingTypes, SameRows DEF Pairing!TypeOK
<1>6. /\ \A u \in Servers : row[u][i] = None
      /\ \A n \in net : n.kind = "request" => n.id # i
      /\ \A u \in Servers, g \in Handlers : ~Claiming(task[u][g], i)
  BY <1>0, <1>1 DEF FreshIds
<1>7. FreshIds'
  <2>0. \A j \in Pairing!Ids : j \in Nat /\ (j <= sent => j <= sent')
    BY <1>0 DEF Pairing!Ids
  <2>1. \A u \in Servers, j \in Pairing!Ids : row'[u][j] # None => j <= sent'
    BY <1>0, <2>0 DEF FreshIds
  <2>2. \A n \in net' : n.kind = "request" =>
           n.id <= sent' /\ row'[n.to][n.id] = None /\ n.outcome = "pending"
    BY <1>0, <1>3, <1>6, <2>0 DEF FreshIds, Pairing!TypeOK, Pairing!Message
  <2>3. ASSUME NEW u \in Servers, NEW g \in Handlers, NEW j \in Pairing!Ids,
               Claiming(task'[u][g], j)
        PROVE  /\ j <= sent' /\ row'[u][j] = None
               /\ \A n \in net' : n.kind = "request" /\ n.id = j => n.to # u
               /\ \A f \in Handlers : Claiming(task'[u][f], j) => f = g
    <3>1. CASE u = s /\ g = h
      <4>1. j = i
        BY <1>2, <1>4, <2>3, <3>1 DEF Claiming
      <4>. QED
        BY <1>0, <1>3, <1>4, <1>6, <3>1, <4>1
    <3>2. CASE ~(u = s /\ g = h)
      <4>1. Claiming(task[u][g], j) /\ j # i
        BY <1>4, <1>6, <2>3, <3>2
      <4>2. \A f \in Handlers : Claiming(task'[u][f], j) => Claiming(task[u][f], j)
        BY <1>2, <1>4, <4>1 DEF Claiming
      <4>. QED
        BY <1>0, <1>3, <2>0, <4>1, <4>2 DEF FreshIds
    <3>. QED
      BY <3>1, <3>2
  <2>. QED
    BY <2>1, <2>2, <2>3 DEF FreshIds, Claiming
<1>8. \A u \in Servers, g \in Handlers : task'[u][g] = task[u][g] \/ TaskOK(u, task[u][g])'
  BY <1>1, <1>2, <1>4 DEF TaskOK
<1>9. \A n \in net' : n \in net \/ CallOK(n)'
  BY <1>0, <1>3 DEF CallOK
<1>10. \A u \in Servers, j \in Pairing!Ids :
         (Pairing!Is(u, j, "out", "accepted"))' => Pairing!Is(u, j, "out", "accepted")
  BY <1>0 DEF Pairing!Is
<1>. QED
  BY <1>5, <1>7, <1>8, <1>9, <1>10, KeepsPairing

(* ... and, as the call is gone, by the handler that received it.          *)
LEMMA ReceiveRequestStep ==
    ASSUME PairingInv, NEW s \in Servers, NEW h \in Handlers, NEW m \in net,
           Pairing!ReceiveRequest(s, h, m)
    PROVE  PairingInv' /\ Grows
<1>0. /\ Pairing!TypeOK /\ FreshIds /\ m \in Pairing!Message /\ m.to = s /\ m.kind = "request"
      /\ m.id \in Pairing!Ids /\ net' = net \ {m} /\ task[s][h] = Pairing!Off
      /\ UNCHANGED <<row, peer, peerCache, sent>>
  BY DEF PairingInv, Pairing!TypeOK, Pairing!ReceiveRequest, Pairing!Message
<1>1. CASE \E ok \in BOOLEAN : Pairing!Answer(s, h, m.id, ok)
  BY <1>0, <1>1, AnswerStep
<1>2. CASE Pairing!Set(s, h, [Pairing!Off EXCEPT !.pc = "store", !.id = m.id])
  <2>. DEFINE q == [Pairing!Off EXCEPT !.pc = "store", !.id = m.id]
  <2>1. q \in Pairing!Task /\ q.pc = "store" /\ q.id = m.id /\ ~q.tell /\ Pairing!Set(s, h, q)
    BY <1>0, <1>2 DEF Pairing!Off, Pairing!Task, Pairing!Status
  <2>. HIDE DEF q
  <2>2. /\ task' \in [Servers -> [Handlers -> Pairing!Task]]
        /\ \A u \in Servers, g \in Handlers :
              task'[u][g] = IF u = s /\ g = h THEN q ELSE task[u][g]
    BY <1>0, <2>1, SetMoves
  <2>3. Pairing!TypeOK' /\ Grows
    BY <1>0, <2>2, PairingTypes, SameRows DEF Pairing!TypeOK
  <2>4. m.id <= sent /\ row[s][m.id] = None
        /\ \A g \in Handlers : ~Claiming(task[s][g], m.id)
    BY <1>0 DEF FreshIds
  <2>5. \A n \in net' : n.kind = "request" /\ n.to = s => n.id # m.id
    <3>. SUFFICES ASSUME NEW n \in net, n.kind = "request", n.to = s, n.id = m.id PROVE n = m
      BY <1>0
    <3>1. n \in Pairing!Message /\ n.outcome = "pending" /\ m.outcome = "pending"
      BY <1>0 DEF FreshIds, Pairing!TypeOK
    <3>. QED
      BY <1>0, <3>1 DEF Pairing!Message
  <2>6. FreshIds'
    <3>1. \A u \in Servers, j \in Pairing!Ids : row'[u][j] # None => j <= sent'
      BY <1>0 DEF FreshIds
    <3>2. \A n \in net' : n.kind = "request" =>
             n.id <= sent' /\ row'[n.to][n.id] = None /\ n.outcome = "pending"
      BY <1>0 DEF FreshIds
    <3>3. ASSUME NEW u \in Servers, NEW g \in Handlers, NEW j \in Pairing!Ids,
                 Claiming(task'[u][g], j)
          PROVE  /\ j <= sent' /\ row'[u][j] = None
                 /\ \A n \in net' : n.kind = "request" /\ n.id = j => n.to # u
                 /\ \A f \in Handlers : Claiming(task'[u][f], j) => f = g
      <4>1. CASE u = s /\ g = h
        <5>1. j = m.id
          BY <2>1, <2>2, <3>3, <4>1 DEF Claiming
        <5>. QED
          BY <1>0, <2>2, <2>4, <2>5, <4>1, <5>1
      <4>2. CASE ~(u = s /\ g = h)
        <5>1. Claiming(task[u][g], j) /\ (u = s => j # m.id)
          BY <2>2, <2>4, <3>3, <4>2
        <5>2. \A f \in Handlers : Claiming(task'[u][f], j) => Claiming(task[u][f], j)
          BY <2>1, <2>2, <5>1 DEF Claiming
        <5>. QED
          BY <1>0, <5>1, <5>2 DEF FreshIds
      <4>. QED
        BY <4>1, <4>2
    <3>. QED
      BY <3>1, <3>2, <3>3 DEF FreshIds, Claiming
  <2>7. \A u \in Servers, g \in Handlers : task'[u][g] = task[u][g] \/ TaskOK(u, task[u][g])'
    BY <1>0, <2>1, <2>2 DEF TaskOK
  <2>8. \A u \in Servers, j \in Pairing!Ids :
           (Pairing!Is(u, j, "out", "accepted"))' => Pairing!Is(u, j, "out", "accepted")
    BY <1>0 DEF Pairing!Is
  <2>. QED
    BY <1>0, <2>3, <2>6, <2>7, <2>8, KeepsPairing
<1>. QED
  BY <1>1, <1>2 DEF Pairing!ReceiveRequest

-----------------------------------------------------------------------------
(* The other steps, and all of them together.                              *)
LEMMA TimeoutStep ==
    ASSUME PairingInv, NEW s \in Servers, NEW h \in Handlers, Pairing!Timeout(s, h)
    PROVE  PairingInv' /\ Grows
<1>1. TaskOK(s, Pairing!Off)
  BY OffOK DEF TaskOK
<1>2. /\ Pairing!Set(s, h, Pairing!Off) /\ UNCHANGED <<row, peer, peerCache, net, sent>>
      /\ peerCache' \in [Servers -> BOOLEAN] /\ net' \subseteq Pairing!Message
  BY DEF Pairing!Timeout, PairingInv, Pairing!TypeOK
<1>. QED
  BY <1>1, <1>2, OffOK, TaskStep

LEMMA PersistStep ==
    ASSUME PairingInv, NEW s \in Servers, NEW h \in Handlers, Pairing!Persist(s, h)
    PROVE  PairingInv' /\ Grows
<1>. DEFINE i == task[s][h].id
<1>1. /\ Pairing!TypeOK /\ TaskOK(s, task[s][h]) /\ task[s][h].pc = "persist"
      /\ UNCHANGED <<peer, peerCache, net, sent>> /\ Pairing!Set(s, h, Pairing!Off)
  BY DEF PairingInv, Pairing!Persist
<1>2. i \in Pairing!Ids /\ Claiming(task[s][h], i)
  BY <1>1 DEF TaskOK, Claiming
<1>3. \/ row' = row
      \/ /\ ~Pairing!ActiveRequest(s, "out")
         /\ row' = [row EXCEPT ![s][i] = [dir |-> "out", status |-> "pending"]]
  BY DEF Pairing!Persist, Pairing!Taken
<1>4. /\ task' \in [Servers -> [Handlers -> Pairing!Task]]
      /\ task'[s][h] = Pairing!Off
      /\ \A u \in Servers, g \in Handlers :
            task'[u][g] = Pairing!Off \/ task'[u][g] = task[u][g]
  BY <1>1, OffOK, SetMoves
<1>. HIDE DEF i
<1>. QED
  BY <1>1, <1>2, <1>3, <1>4, InsertStep

LEMMA StoreStep ==
    ASSUME PairingInv, NEW s \in Servers, NEW h \in Handlers, Pairing!Store(s, h)
    PROVE  PairingInv' /\ Grows
<1>. DEFINE i == task[s][h].id
<1>1. /\ Pairing!TypeOK /\ TaskOK(s, task[s][h]) /\ task[s][h].pc = "store"
      /\ UNCHANGED <<peer, peerCache, net, sent>>
      /\ Pairing!Answer(s, h, i, ~Pairing!Taken(s, "in"))
  BY DEF PairingInv, Pairing!Store
<1>2. i \in Pairing!Ids /\ Claiming(task[s][h], i)
  BY <1>1 DEF TaskOK, Claiming
<1>3. \/ row' = row
      \/ /\ ~Pairing!ActiveRequest(s, "in")
         /\ row' = [row EXCEPT ![s][i] = [dir |-> "in", status |-> "pending"]]
  BY DEF Pairing!Store, Pairing!Taken
<1>. HIDE DEF i
<1>. QED
  BY <1>1, <1>2, <1>3, AnswerMoves, InsertStep

LEMMA ExpireStep ==
    ASSUME PairingInv, NEW s \in Servers, NEW i \in Pairing!Ids, Pairing!Expire(s, i)
    PROVE  PairingInv' /\ Grows
<1>0. /\ Pairing!TypeOK /\ FreshIds /\ UNCHANGED <<peer, peerCache, task, net, sent>>
      /\ net' \subseteq Pairing!Message
  BY DEF PairingInv, Pairing!TypeOK, Pairing!Expire
<1>1. PICK to \in Pairing!Status : to = "expired"
  BY DEF Pairing!Status
<1>2. /\ row[s][i] # None /\ row[s][i].status = "pending"
      /\ row' = [row EXCEPT ![s][i].status = to] /\ to # "accepted"
  BY <1>1 DEF Pairing!Expire, Pairing!StillPending
<1>3. /\ Grows /\ row' \in [Servers -> [Pairing!Ids -> Pairing!Row \cup {None}]]
      /\ \A u \in Servers, j \in Pairing!Ids : row'[u][j] = None <=> row[u][j] = None
      /\ \A u \in Servers, j, k \in Pairing!Ids :
            row'[u][j] # None /\ row'[u][j] = row'[u][k] /\ row'[u][j].status = "pending"
               => j = k
      /\ \A u \in Servers, j \in Pairing!Ids :
            (Pairing!Is(u, j, "out", "accepted"))'
               => Pairing!Is(u, j, "out", "accepted") \/ Agreed(u, j)'
  BY <1>0, <1>2, ResolveStep
<1>4. FreshIds'
  BY <1>0, <1>3, FreshKept
<1>5. Pairing!TypeOK'
  BY <1>0, <1>3 DEF Pairing!TypeOK
<1>. QED
  BY <1>0, <1>3, <1>4, <1>5, KeepsPairing

LEMMA RestartStep ==
    ASSUME PairingInv, NEW s \in Servers, Pairing!Restart(s)
    PROVE  PairingInv' /\ Grows
<1>0. /\ Pairing!TypeOK /\ FreshIds /\ UNCHANGED <<row, peer, net, sent>>
      /\ peerCache' = [peerCache EXCEPT ![s] = (peer[s] = "paired")]
      /\ task' = [task EXCEPT ![s] = [h \in Handlers |-> Pairing!Off]]
  BY DEF PairingInv, Pairing!Restart
<1>1. /\ task' \in [Servers -> [Handlers -> Pairing!Task]]
      /\ \A u \in Servers, g \in Handlers :
            task'[u][g] = Pairing!Off \/ task'[u][g] = task[u][g]
  BY <1>0, OffOK DEF Pairing!TypeOK
<1>2. peerCache' \in [Servers -> BOOLEAN]
  BY <1>0 DEF Pairing!TypeOK
<1>3. Pairing!TypeOK' /\ Grows
  BY <1>0, <1>1, <1>2, SameRows DEF Pairing!TypeOK
<1>4. FreshIds'
  <2>1. \A u \in Servers, g \in Handlers, j \in Pairing!Ids :
           Claiming(task'[u][g], j) => Claiming(task[u][g], j)
    BY <1>1, OffOK
  <2>. QED
    BY <1>0, <2>1, FreshKept
<1>5. \A u \in Servers, g \in Handlers : task'[u][g] = task[u][g] \/ TaskOK(u, task[u][g])'
  BY <1>1, OffOK DEF TaskOK
<1>6. \A u \in Servers, i \in Pairing!Ids :
         (Pairing!Is(u, i, "out", "accepted"))' => Pairing!Is(u, i, "out", "accepted")
  BY <1>0 DEF Pairing!Is
<1>. QED
  BY <1>0, <1>3, <1>4, <1>5, <1>6, KeepsPairing

LEMMA PairingStep ==
    ASSUME PairingInv, [Pairing!Next]_(Pairing!pairingVars)
    PROVE  PairingInv' /\ (Grows \/ UNCHANGED Pairing!pairingVars)
<1>1. CASE Pairing!Next
  <2>1. CASE \E s \in Servers, h \in Handlers : Pairing!Handle(s, h)
    <3>1. PICK s \in Servers, h \in Handlers : Pairing!Handle(s, h)
      BY <2>1
    <3>. QED
      BY <3>1, SendStep, TimeoutStep, PersistStep, StoreStep, MarkStep, InsertPeerStep,
         SetCacheStep, RevokeStep DEF Pairing!Handle
  <2>2. CASE \E s \in Servers, h \in Handlers, i \in Pairing!Ids : Pairing!Decide(s, h, i)
    BY <2>2, DecideStep
  <2>3. CASE \E s \in Servers, h \in Handlers, m \in net :
                Pairing!ReceiveRequest(s, h, m) \/ Pairing!ReceiveOther(s, h, m)
    BY <2>3, ReceiveRequestStep, ReceiveOtherStep
  <2>4. CASE \E s \in Servers, i \in Pairing!Ids : Pairing!Expire(s, i)
    BY <2>4, ExpireStep
  <2>5. CASE \E s \in Servers : Pairing!Restart(s)
    BY <2>5, RestartStep
  <2>. QED
    BY <1>1, <2>1, <2>2, <2>3, <2>4, <2>5 DEF Pairing!Next
<1>2. CASE UNCHANGED Pairing!pairingVars
  BY <1>2 DEF Pairing!pairingVars, PairingInv, Pairing!TypeOK, FreshIds, Claiming, TaskOK,
              CallOK, Agreed, Pairing!Is
<1>. QED
  BY <1>1, <1>2

(* Two servers are paired by consent of both (SendPairingRequest,          *)
(* resolveIncoming, HandlePairingCallback): a request counts as accepted   *)
(* only where the admin of the other server accepted it and the peer was   *)
(* stored there, and what was decided of it is not changed, whatever is    *)
(* lost, late, repeated, or interrupted by a restart.                      *)
THEOREM PairingCorrect == Pairing!Spec => PairingSafe
<1>1. Pairing!Spec => []PairingInv
  <2>1. PairingInv /\ [Pairing!Next]_(Pairing!pairingVars) => PairingInv'
    BY PairingStep
  <2>. QED
    BY <2>1, PairingInit, PTL DEF Pairing!Spec
<1>2. PairingInv => Pairing!AcceptedByBoth /\ Pairing!SenderNeverAlone
  BY DEF PairingInv, Agreed, Pairing!AcceptedByBoth, Pairing!SenderNeverAlone
<1>3. PairingInv /\ [Pairing!Next]_(Pairing!pairingVars)
      => [\A s \in Servers, i \in Pairing!Ids :
             (row[s][i] # None /\ row[s][i].status # "pending")
                => row'[s][i] = row[s][i]]_(Pairing!pairingVars)
  BY PairingStep DEF Grows
<1>4. Pairing!Spec => Pairing!ResolvedOnce
  BY <1>1, <1>3, PTL DEF Pairing!Spec, Pairing!ResolvedOnce
<1>. QED
  BY <1>1, <1>2, <1>4, PTL DEF PairingSafe, Pairing!PairingSafe

-----------------------------------------------------------------------------
(* The specification that is checked: each component does what it does on  *)
(* its own, whichever has the focus.                                       *)
LEMMA ControlParts ==
    ASSUME [ControlNext]_vars
    PROVE  /\ [Sessions!Next]_(Sessions!sessionVars)
           /\ [Signing!Next]_(Signing!keyVars)
           /\ [Limiter!Next]_(Limiter!limiterVars)
           /\ [Device!Next]_(Device!deviceVars)
           /\ [Pairing!Next]_(Pairing!pairingVars)
           /\ [Next]_streamVars
           /\ focus' = focus
BY DEF ControlNext, vars, sessionVars, keyVars, limiterVars, deviceVars, pairingVars,
       Sessions!sessionVars, Signing!keyVars, Limiter!limiterVars, Device!deviceVars,
       Pairing!pairingVars

LEMMA FocusSet ==
    ControlSpec => [](focus \in {"sessions", "signing", "limiter", "device", "pairing", "streams"})
<1>. DEFINE Known ==
              focus \in {"sessions", "signing", "limiter", "device", "pairing", "streams"}
<1>1. ControlInit => Known
  BY DEF ControlInit
<1>2. Known /\ [ControlNext]_vars => Known'
  BY ControlParts
<1>. QED
  BY <1>1, <1>2, PTL DEF ControlSpec

LEMMA Components ==
    ControlSpec => /\ Sessions!Spec /\ Signing!Spec /\ Limiter!Spec /\ Device!Spec
                   /\ Pairing!Spec /\ Spec
<1>1. ControlInit => /\ Sessions!Init /\ Signing!Init /\ Limiter!Init /\ Device!Init
                     /\ Pairing!Init /\ Init
  BY DEF ControlInit
<1>2. [ControlNext]_vars => /\ [Sessions!Next]_(Sessions!sessionVars)
                            /\ [Signing!Next]_(Signing!keyVars)
                            /\ [Limiter!Next]_(Limiter!limiterVars)
                            /\ [Device!Next]_(Device!deviceVars)
                            /\ [Pairing!Next]_(Pairing!pairingVars)
                            /\ [Next]_streamVars
  BY ControlParts
<1>. QED
  BY <1>1, <1>2, PTL DEF ControlSpec, Sessions!Spec, Signing!Spec, Limiter!Spec, Device!Spec,
                         Pairing!Spec, Spec

(* The types of the state of the four parts of internal/auth, of the       *)
(* pairing and of the streams of a peer, along any interleaving.           *)
THEOREM ControlTyped == ControlSpec => []ControlTypeOK
<1>1. Sessions!Spec => []SessionsInv
  <2>1. SessionsInv /\ [Sessions!Next]_(Sessions!sessionVars) => SessionsInv'
    BY SessionsStep
  <2>. QED
    BY <2>1, SessionsInit, PTL DEF Sessions!Spec
<1>2. Signing!Spec => []SigningInv
  BY SigningInit, SigningStep, PTL DEF Signing!Spec
<1>3. Limiter!Spec => []LimiterInv
  BY LimiterInit, LimiterStep, PTL DEF Limiter!Spec
<1>4. Device!Spec => []DeviceInv
  BY DeviceInit, DeviceStep, PTL DEF Device!Spec
<1>5. Pairing!Spec => []PairingInv
  <2>1. PairingInv /\ [Pairing!Next]_(Pairing!pairingVars) => PairingInv'
    BY PairingStep
  <2>. QED
    BY <2>1, PairingInit, PTL DEF Pairing!Spec
<1>6. Spec => []TypeOK
  BY TypeInit, TypeStep, PTL DEF Spec
<1>7. /\ focus \in {"sessions", "signing", "limiter", "device", "pairing", "streams"}
      /\ SessionsInv /\ SigningInv /\ LimiterInv /\ DeviceInv /\ PairingInv /\ TypeOK
      => ControlTypeOK
  BY DEF ControlTypeOK, SessionsInv, RowsInv, CallersInv, FaultsInv, Sessions!TypeOK, SigningInv,
         LimiterInv, DeviceInv, PairingInv
<1>. QED
  BY <1>1, <1>2, <1>3, <1>4, <1>5, <1>6, <1>7, FocusSet, Components, PTL

(* What the control run checks of each component, for all of them at once. *)
THEOREM ControlCorrect ==
    ControlSpec => /\ SessionsSafe /\ []CanSign /\ LimiterSafe /\ DeviceSafe
                   /\ PairingSafe /\ []PeerStreamsSafe
BY Components, SessionsCorrect, SigningCorrect, LimiterCorrect, DeviceCorrect, PairingCorrect,
   PeerStreamsSafety, PTL

=============================================================================
