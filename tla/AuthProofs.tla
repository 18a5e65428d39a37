------------------------------ MODULE AuthProofs ------------------------------
(***************************************************************************)
(* Proofs about the parts of internal/auth that keep state of their own,   *)
(* as MCControl instantiates them: for any number of requests at a time    *)
(* and any limit.                                                          *)
(***************************************************************************)
EXTENDS MCControl, TLAPS, FiniteSetTheorems, WellFoundedInduction

(* An instance has a copy of what its module extends.                      *)
LEMMA InstanceCardinality ==
    \A S : /\ Limiter!Cardinality(S) = Cardinality(S)
           /\ Device!Cardinality(S) = Cardinality(S)
           /\ Sessions!Cardinality(S) = Cardinality(S)
BY DEF Cardinality, Limiter!Cardinality, Device!Cardinality, Sessions!Cardinality

(* Sets that grow or shrink by one element, as the steps below change      *)
(* them.                                                                   *)
LEMMA OneMore ==
    ASSUME NEW U, IsFiniteSet(U), NEW S \in SUBSET U, NEW x \in U
    PROVE  /\ IsFiniteSet(S) /\ Cardinality(S) \in Nat /\ Cardinality(U) \in Nat
           /\ Cardinality(S) <= Cardinality(U)
           /\ Cardinality(S \cup {x}) \in Nat /\ Cardinality(S \cup {x}) <= Cardinality(U)
           /\ x \notin S => Cardinality(S \cup {x}) = Cardinality(S) + 1
           /\ x \in S => Cardinality(S \ {x}) = Cardinality(S) - 1
<1>1. IsFiniteSet(S) /\ Cardinality(S) <= Cardinality(U)
  BY FS_Subset
<1>2. IsFiniteSet(S \cup {x}) /\ Cardinality(S \cup {x}) <= Cardinality(U)
  BY FS_Subset
<1>3. QED
  BY <1>1, <1>2, FS_CardinalityType, FS_AddElement, FS_RemoveElement

-----------------------------------------------------------------------------
(* The login rate limiter.  A key without a lock has fewer failures than   *)
(* lock it, and each attempt that is past the look may add one.            *)
LimiterInv ==
    /\ Limiter!TypeOK
    /\ ~record.present => record = Limiter!NoRecord
    /\ record.present /\ ~record.locked => record.fails < MaxFails
    /\ Limiter!GuessesBounded

LEMMA NoRecordOK ==
    /\ Limiter!NoRecord \in Limiter!Record
    /\ ~Limiter!NoRecord.present /\ Limiter!NoRecord.fails = 0
BY ControlAssumption DEF Limiter!NoRecord, Limiter!Record

LEMMA LimiterInit == Limiter!Init => LimiterInv
<1>. SUFFICES ASSUME Limiter!Init PROVE LimiterInv
  OBVIOUS
<1>1. Cardinality(Attempts) \in Nat /\ Cardinality(attempt) = 0
  BY ControlAssumption, FS_CardinalityType, FS_EmptySet DEF Limiter!Init
<1>. QED
  BY <1>1, ControlAssumption, InstanceCardinality, NoRecordOK
     DEF Limiter!Init, LimiterInv, Limiter!TypeOK, Limiter!GuessesBounded

LEMMA FailureOK ==
    ASSUME NEW rec \in Limiter!Record, rec.present /\ ~rec.locked => rec.fails < MaxFails
    PROVE  LET f == Limiter!Failure(rec) IN
           /\ f \in Limiter!Record /\ f.present /\ f.fails = rec.fails + 1
           /\ f.age = rec.age /\ (rec.locked => f.locked)
           /\ ~f.locked => f.fails < MaxFails
           /\ f.lock = rec.lock \/ f.lock = Lockout
<1> DEFINE f == Limiter!Failure(rec)
<1>1. rec.fails \in Nat /\ rec.fails + 1 \in Nat /\ MaxFails \in Nat /\ Lockout \in Nat
  BY ControlAssumption DEF Limiter!Record
<1>2. /\ f.present = TRUE /\ f.fails = rec.fails + 1 /\ f.age = rec.age
      /\ f.lock = IF rec.fails + 1 >= MaxFails THEN Lockout ELSE rec.lock
  BY <1>1 DEF Limiter!Failure, Limiter!Record
<1>3. f.locked = (rec.locked \/ rec.fails + 1 >= MaxFails)
  BY DEF Limiter!Failure, Limiter!Record
<1>4. f \in Limiter!Record
  <2>. DEFINE fails == rec.fails + 1
              locked == rec.locked \/ fails >= MaxFails
              lock == IF fails >= MaxFails THEN Lockout ELSE rec.lock
  <2>1. fails \in Nat /\ locked \in BOOLEAN /\ lock \in 0 .. Lockout
    BY <1>1 DEF Limiter!Record
  <2>2. f = [rec EXCEPT !.present = TRUE, !.fails = fails, !.locked = locked, !.lock = lock]
    BY DEF Limiter!Failure
  <2>. HIDE DEF f, fails, locked, lock
  <2>. QED
    BY <2>1, <2>2 DEF Limiter!Record
<1>5. (rec.locked => f.locked) /\ (rec.fails + 1 >= MaxFails => f.locked)
  BY <1>3, Zenon
<1>. QED
  BY <1>1, <1>2, <1>4, <1>5

LEMMA TickOK ==
    ASSUME record \in Limiter!Record, Limiter!Tick
    PROVE  /\ record' \in Limiter!Record /\ record.present /\ record'.present
           /\ record'.fails = record.fails
           /\ (record'.locked <=> record.locked) /\ attempt' = attempt
<1>. DEFINE age == Limiter!LowerOf(record.age + 1, Window + 1)
            lock == IF record.lock = 0 THEN 0 ELSE record.lock - 1
<1>1. record.age \in 0 .. Window + 1 /\ record.lock \in 0 .. Lockout /\ Window \in Nat /\ Lockout \in Nat
  BY ControlAssumption DEF Limiter!Record
<1>2. age \in 0 .. Window + 1 /\ lock \in 0 .. Lockout
  BY <1>1 DEF Limiter!LowerOf
<1>3. record' = [record EXCEPT !.age = age, !.lock = lock] /\ record.present /\ attempt' = attempt
  BY DEF Limiter!Tick
<1>. HIDE DEF age, lock
<1>. QED
  BY <1>2, <1>3 DEF Limiter!Record

(* A step keeps the bound, and frees a locked key only by a success.       *)
LEMMA LimiterStep ==
    ASSUME LimiterInv, [Limiter!Next]_(Limiter!limiterVars)
    PROVE  LimiterInv'
<1>0. /\ MaxFails \in Nat /\ MaxFails > 0 /\ Window \in Nat /\ Lockout \in Nat
      /\ record \in Limiter!Record /\ attempt \subseteq Attempts
      /\ ~record.present => record = Limiter!NoRecord
      /\ record.present /\ ~record.locked => record.fails < MaxFails
      /\ record.fails + Cardinality(attempt) < MaxFails + Cardinality(Attempts)
  BY ControlAssumption, InstanceCardinality
     DEF LimiterInv, Limiter!TypeOK, Limiter!GuessesBounded
<1>1. IsFiniteSet(attempt) /\ Cardinality(attempt) \in Nat /\ Cardinality(Attempts) \in Nat
      /\ Cardinality(attempt) <= Cardinality(Attempts)
  BY <1>0, ControlAssumption, FS_Subset, FS_CardinalityType
<1>2. ASSUME record' \in Limiter!Record, attempt' \subseteq Attempts,
             ~record'.present => record' = Limiter!NoRecord,
             record'.present /\ ~record'.locked => record'.fails < MaxFails,
             record'.fails + Cardinality(attempt') < MaxFails + Cardinality(Attempts)
      PROVE  LimiterInv'
  BY <1>2, InstanceCardinality DEF LimiterInv, Limiter!TypeOK, Limiter!GuessesBounded
<1>3. ASSUME NEW a \in Attempts, Limiter!Begin(a) PROVE LimiterInv'
  <2>1. /\ Cardinality(attempt \cup {a}) \in Nat
        /\ Cardinality(attempt \cup {a}) <= Cardinality(Attempts)
    BY <1>0, ControlAssumption, OneMore
  <2>2. CASE Limiter!Stale \/ ~record.present
    BY <1>0, <1>1, <1>2, <1>3, <2>1, <2>2, NoRecordOK DEF Limiter!Begin
  <2>3. CASE record.present /\ ~Limiter!Stale
    BY <1>0, <1>1, <1>2, <1>3, <2>1, <2>3 DEF Limiter!Begin, Limiter!IsLocked, Limiter!Record
  <2>. QED
    BY <2>2, <2>3
<1>4. ASSUME NEW a \in Attempts, Limiter!Fail(a) PROVE LimiterInv'
  <2>1. a \in attempt /\ attempt' = attempt \ {a} /\ Cardinality(attempt') = Cardinality(attempt) - 1
    BY <1>0, <1>4, ControlAssumption, OneMore DEF Limiter!Fail
  <2>2. PICK rec \in {record, Limiter!NoRecord} : record' = Limiter!Failure(rec)
    BY <1>4 DEF Limiter!Fail
  <2>3. rec \in Limiter!Record /\ (rec.present /\ ~rec.locked => rec.fails < MaxFails)
    BY <1>0, <2>2, NoRecordOK
  <2>4. /\ record' \in Limiter!Record /\ record'.present /\ record'.fails = rec.fails + 1
        /\ ~record'.locked => record'.fails < MaxFails
    BY <2>2, <2>3, FailureOK
  <2>5. record'.fails + Cardinality(attempt') < MaxFails + Cardinality(Attempts)
    <3>1. CASE rec = record
      BY <1>0, <1>1, <2>1, <2>4, <3>1 DEF Limiter!Record
    <3>2. CASE rec = Limiter!NoRecord
      BY <1>0, <1>1, <2>1, <2>4, <3>2, NoRecordOK
    <3>. QED
      BY <2>2, <3>1, <3>2
  <2>. QED
    BY <1>0, <1>2, <2>1, <2>4, <2>5
<1>5. ASSUME NEW a \in Attempts, Limiter!Succeed(a) PROVE LimiterInv'
  <2>1. attempt' = attempt \ {a} /\ Cardinality(attempt') = Cardinality(attempt) - 1
    BY <1>0, <1>5, ControlAssumption, OneMore DEF Limiter!Succeed
  <2>. QED
    BY <1>0, <1>1, <1>2, <1>5, <2>1, NoRecordOK DEF Limiter!Succeed
<1>6. CASE Limiter!Cleanup
  BY <1>0, <1>1, <1>2, <1>6, NoRecordOK DEF Limiter!Cleanup
<1>7. CASE Limiter!Tick
  BY <1>0, <1>1, <1>2, <1>7, TickOK
<1>8. CASE UNCHANGED Limiter!limiterVars
  BY <1>0, <1>2, <1>8 DEF Limiter!limiterVars
<1>. QED
  BY <1>3, <1>4, <1>5, <1>6, <1>7, <1>8 DEF Limiter!Next

LEMMA LockStep ==
    ASSUME LimiterInv, Limiter!Next, Limiter!IsLocked
    PROVE  \/ (Limiter!IsLocked)'
           \/ record'.age > Window \/ record'.lock < 1
           \/ record' = Limiter!NoRecord /\ attempt' # attempt
<1>0. /\ Window \in Nat /\ Lockout \in Nat /\ record \in Limiter!Record /\ attempt \subseteq Attempts
      /\ record.present /\ record.locked /\ record.lock # 0 /\ ~(record.age > Window)
  BY ControlAssumption DEF LimiterInv, Limiter!TypeOK, Limiter!IsLocked, Limiter!Stale,
     Limiter!LockOver, Limiter!WindowOver
<1>1. ASSUME record' \in Limiter!Record, record'.present, record'.locked
      PROVE  (Limiter!IsLocked)' \/ record'.age > Window \/ record'.lock < 1
  BY <1>0, <1>1 DEF Limiter!IsLocked, Limiter!Stale, Limiter!LockOver, Limiter!WindowOver,
     Limiter!Record
<1>2. ASSUME NEW a \in Attempts, Limiter!Begin(a)
      PROVE  (Limiter!IsLocked)' \/ record'.age > Window \/ record'.lock < 1
  BY <1>0, <1>1, <1>2 DEF Limiter!Begin, Limiter!IsLocked
<1>3. ASSUME NEW a \in Attempts, Limiter!Fail(a)
      PROVE  (Limiter!IsLocked)' \/ record'.age > Window \/ record'.lock < 1
  <2>1. record' = Limiter!Failure(record)
    BY <1>0, <1>3 DEF Limiter!Fail, Limiter!WindowOver
  <2>. QED
    BY <1>0, <1>1, <2>1, FailureOK
<1>4. ASSUME NEW a \in Attempts, Limiter!Succeed(a)
      PROVE  record' = Limiter!NoRecord /\ attempt' # attempt
  BY <1>4 DEF Limiter!Succeed
<1>5. CASE Limiter!Cleanup
  BY <1>5 DEF Limiter!Cleanup, Limiter!IsLocked
<1>6. CASE Limiter!Tick
  BY <1>0, <1>1, <1>6, TickOK
<1>. QED
  BY <1>2, <1>3, <1>4, <1>5, <1>6 DEF Limiter!Next

(* All the failures that count together in a window are MaxFails and those *)
(* of the attempts that were past the look, and only a success frees a key *)
(* before its lockout or its window is over (ratelimit.go).                *)
THEOREM LimiterCorrect == Limiter!Spec => LimiterSafe
<1>1. Limiter!Spec => []LimiterInv
  BY LimiterInit, LimiterStep, PTL DEF Limiter!Spec
<1>2. LimiterInv => Limiter!GuessesBounded
  BY DEF LimiterInv
<1>3. LimiterInv /\ [Limiter!Next]_(Limiter!limiterVars)
      => [Limiter!IsLocked => \/ (Limiter!IsLocked)'
                              \/ record'.age > Window \/ record'.lock < 1
                              \/ record' = Limiter!NoRecord /\ attempt' # attempt
         ]_(Limiter!limiterVars)
  BY LockStep
<1>. QED
  BY <1>1, <1>2, <1>3, PTL DEF Limiter!Spec, LimiterSafe, Limiter!LimiterSafe, Limiter!LockHolds

-----------------------------------------------------------------------------
(* The device login.  A token is issued before the code is consumed: until *)
(* it is, each token belongs to a poll that is about to consume it, or to  *)
(* one that failed to; once it is, only the polls that read it before may  *)
(* still get one.                                                          *)
Issuing == {p \in Polls : poll[p] = "issue"}
Consuming == {p \in Polls : poll[p] = "consume"}

DeviceInv ==
    /\ Device!TypeOK
    /\ tokens + Cardinality(Issuing) <= Cardinality(Polls) + unconsumed
    /\ ~code.consumed => tokens <= Cardinality(Consuming) + unconsumed

(* Two disjoint sets of polls.                                             *)
LEMMA DisjointPolls ==
    ASSUME NEW S \in SUBSET Polls, NEW T \in SUBSET Polls, S \cap T = {}
    PROVE  Cardinality(S) + Cardinality(T) <= Cardinality(Polls)
<1>1. IsFiniteSet(S) /\ IsFiniteSet(T) /\ IsFiniteSet(S \cup T)
      /\ Cardinality(S \cup T) <= Cardinality(Polls)
  BY ControlAssumption, FS_Subset
<1>2. Cardinality(S \cap T) = 0
  BY FS_EmptySet
<1>3. Cardinality(S \cup T) = Cardinality(S) + Cardinality(T) - Cardinality(S \cap T)
  BY <1>1, FS_Union
<1>. QED
  BY <1>1, <1>2, <1>3, FS_CardinalityType, ControlAssumption

LEMMA PollCounts ==
    ASSUME DeviceInv
    PROVE  /\ Cardinality(Polls) \in Nat /\ Cardinality(Issuing) \in Nat
           /\ Cardinality(Consuming) \in Nat
           /\ Cardinality(Issuing) + Cardinality(Consuming) <= Cardinality(Polls)
           /\ code \in Device!Code /\ approval \subseteq Approvers /\ tokens \in Nat
           /\ unconsumed \in 0 .. MaxFaults /\ unconsumed \in Nat /\ MaxFaults \in Nat
           /\ tokens <= Cardinality(Polls) + unconsumed
           /\ poll \in [Polls -> {"idle", "early", "pending", "issue", "consume"}]
<1>1. IsFiniteSet(Issuing) /\ IsFiniteSet(Consuming) /\ IsFiniteSet(Polls)
  BY ControlAssumption, FS_Subset DEF Issuing, Consuming
<1>2. /\ Cardinality(Polls) \in Nat /\ Cardinality(Issuing) \in Nat
      /\ Cardinality(Consuming) \in Nat
  BY <1>1, FS_CardinalityType
<1>3. Cardinality(Issuing) + Cardinality(Consuming) <= Cardinality(Polls)
  BY DisjointPolls DEF Issuing, Consuming
<1>4. /\ code \in Device!Code /\ approval \subseteq Approvers /\ tokens \in Nat
      /\ poll \in [Polls -> {"idle", "early", "pending", "issue", "consume"}]
      /\ unconsumed \in 0 .. MaxFaults /\ unconsumed \in Nat /\ MaxFaults \in Nat
  BY <1>2, ControlAssumption, InstanceCardinality DEF DeviceInv, Device!TypeOK, Device!MaxIssued
<1>. QED
  BY <1>2, <1>3, <1>4 DEF DeviceInv

LEMMA DeviceInit == Device!Init => DeviceInv
<1>. SUFFICES ASSUME Device!Init PROVE DeviceInv
  OBVIOUS
<1>1. Issuing = {} /\ Consuming = {}
  BY DEF Device!Init, Issuing, Consuming
<1>2. Cardinality(Issuing) = 0 /\ Cardinality(Consuming) = 0 /\ Cardinality(Polls) \in Nat
  BY <1>1, ControlAssumption, FS_EmptySet, FS_CardinalityType
<1>. QED
  BY <1>2, ControlAssumption, InstanceCardinality
     DEF Device!Init, DeviceInv, Device!TypeOK, Device!Code, Device!MaxIssued

(* What a step may do to the polls: of those that issue or consume, it     *)
(* moves at most one.                                                      *)
LEMMA PollMoves ==
    ASSUME DeviceInv, NEW p \in Polls,
           NEW pc \in {"idle", "early", "pending", "issue", "consume"},
           poll' = [poll EXCEPT ![p] = pc]
    PROVE  /\ Cardinality(Issuing') \in Nat /\ Cardinality(Consuming') \in Nat
           /\ Cardinality(Issuing') + Cardinality(Consuming') <= Cardinality(Polls)
           /\ poll[p] = "issue" /\ pc # "issue"
                 => Cardinality(Issuing') = Cardinality(Issuing) - 1
           /\ poll[p] # "issue" /\ pc # "issue" => Cardinality(Issuing') = Cardinality(Issuing)
           /\ poll[p] # "consume" /\ pc = "consume"
                 => Cardinality(Consuming') = Cardinality(Consuming) + 1
           /\ poll[p] # "consume" /\ pc # "consume"
                 => Cardinality(Consuming') = Cardinality(Consuming)
           /\ poll[p] = "consume" /\ pc # "consume"
                 => Cardinality(Consuming') = Cardinality(Consuming) - 1
<1>1. /\ Issuing' = IF pc = "issue" THEN Issuing \cup {p} ELSE Issuing \ {p}
      /\ Consuming' = IF pc = "consume" THEN Consuming \cup {p} ELSE Consuming \ {p}
  BY PollCounts DEF Issuing, Consuming
<1>2. Issuing' \subseteq Polls /\ Consuming' \subseteq Polls /\ Issuing' \cap Consuming' = {}
  BY PollCounts DEF Issuing, Consuming
<1>3. Cardinality(Issuing') + Cardinality(Consuming') <= Cardinality(Polls)
  BY <1>2, DisjointPolls
<1>4. IsFiniteSet(Issuing) /\ IsFiniteSet(Consuming) /\ IsFiniteSet(Issuing')
      /\ IsFiniteSet(Consuming')
  BY <1>2, ControlAssumption, FS_Subset DEF Issuing, Consuming
<1>5. Cardinality(Issuing') \in Nat /\ Cardinality(Consuming') \in Nat
  BY <1>4, FS_CardinalityType
<1>6. p \in Issuing <=> poll[p] = "issue"
  BY DEF Issuing
<1>7. p \in Consuming <=> poll[p] = "consume"
  BY DEF Consuming
<1>8. pc # "issue" => Cardinality(Issuing') = IF p \in Issuing THEN Cardinality(Issuing) - 1
                                                ELSE Cardinality(Issuing)
  BY <1>1, <1>4, FS_RemoveElement
<1>9. Cardinality(Consuming') =
         IF pc = "consume" THEN IF p \in Consuming THEN Cardinality(Consuming)
                                ELSE Cardinality(Consuming) + 1
         ELSE IF p \in Consuming THEN Cardinality(Consuming) - 1 ELSE Cardinality(Consuming)
  BY <1>1, <1>4, FS_RemoveElement, FS_AddElement
<1>. QED
  BY <1>3, <1>5, <1>6, <1>7, <1>8, <1>9

LEMMA DeviceStep ==
    ASSUME DeviceInv, [Device!Next]_(Device!deviceVars)
    PROVE  DeviceInv'
<1>0. /\ code \in Device!Code /\ approval \subseteq Approvers /\ tokens \in Nat
      /\ Cardinality(Polls) \in Nat /\ tokens <= Cardinality(Polls) + unconsumed
      /\ unconsumed \in 0 .. MaxFaults /\ unconsumed \in Nat /\ MaxFaults \in Nat
      /\ poll \in [Polls -> {"idle", "early", "pending", "issue", "consume"}]
      /\ Cardinality(Issuing) \in Nat /\ Cardinality(Consuming) \in Nat
      /\ tokens + Cardinality(Issuing) <= Cardinality(Polls) + unconsumed
      /\ ~code.consumed => tokens <= Cardinality(Consuming) + unconsumed
  BY PollCounts DEF DeviceInv
<1>1. ASSUME code' \in Device!Code, approval' \subseteq Approvers, tokens' \in Nat,
             poll' \in [Polls -> {"idle", "early", "pending", "issue", "consume"}],
             unconsumed' \in 0 .. MaxFaults,
             tokens' + Cardinality(Issuing') <= Cardinality(Polls) + unconsumed',
             Cardinality(Issuing') \in Nat,
             ~code'.consumed => tokens' <= Cardinality(Consuming') + unconsumed'
      PROVE  DeviceInv'
  BY <1>0, <1>1, InstanceCardinality DEF DeviceInv, Device!TypeOK, Device!MaxIssued
<1>2. ASSUME UNCHANGED <<poll, tokens, unconsumed>>, code' \in Device!Code, approval' \subseteq Approvers,
             code'.consumed <=> code.consumed
      PROVE  DeviceInv'
  <2>1. Issuing' = Issuing /\ Consuming' = Consuming
    BY <1>2 DEF Issuing, Consuming
  <2>. QED
    BY <1>0, <1>1, <1>2, <2>1
<1>3. ASSUME NEW u \in Approvers, Device!ReadForApproval(u) \/ Device!Approve(u)
      PROVE  DeviceInv'
  <2>1. CASE Device!ReadForApproval(u)
    BY <1>0, <1>2, <2>1 DEF Device!ReadForApproval
  <2>2. CASE Device!Approve(u)
    <3>1. code' \in Device!Code /\ (code'.consumed <=> code.consumed)
      BY <1>0, <2>2 DEF Device!Approve, Device!Code
    <3>. QED
      BY <1>0, <1>2, <2>2, <3>1 DEF Device!Approve
  <2>. QED
    BY <1>3, <2>1, <2>2
<1>4. ASSUME NEW p \in Polls, Device!Read(p) PROVE DeviceInv'
  <2>1. PICK pc \in {"early", "pending", "issue"} : poll' = [poll EXCEPT ![p] = pc]
    BY <1>4 DEF Device!Read
  <2>2. poll[p] = "idle" /\ ~code.consumed /\ UNCHANGED <<code, approval, tokens, unconsumed>>
    BY <1>4 DEF Device!Read, Device!Usable
  <2>3. /\ Cardinality(Issuing') \in Nat /\ Cardinality(Consuming') = Cardinality(Consuming)
        /\ Cardinality(Issuing') + Cardinality(Consuming') <= Cardinality(Polls)
    BY <2>1, <2>2, PollMoves
  <2>. QED
    BY <1>0, <1>1, <2>1, <2>2, <2>3
<1>5. ASSUME NEW p \in Polls, Device!Touch(p) PROVE DeviceInv'
  <2>1. poll[p] \in {"early", "pending"} /\ poll' = [poll EXCEPT ![p] = "idle"]
    BY <1>5 DEF Device!Touch
  <2>2. /\ Cardinality(Issuing') = Cardinality(Issuing)
        /\ Cardinality(Consuming') = Cardinality(Consuming)
    BY <2>1, PollMoves
  <2>3. code' \in Device!Code /\ (code'.consumed <=> code.consumed)
    BY <1>0, <1>5 DEF Device!Touch, Device!Touched, Device!Code
  <2>. QED
    BY <1>0, <1>1, <1>5, <2>1, <2>2, <2>3 DEF Device!Touch
<1>6. ASSUME NEW p \in Polls, Device!Issue(p) PROVE DeviceInv'
  <2>1. code' \in Device!Code /\ (code'.consumed <=> code.consumed)
    BY <1>0, <1>6 DEF Device!Issue, Device!Touched, Device!Code
  <2>2. CASE tokens' = tokens + 1 /\ poll' = [poll EXCEPT ![p] = "consume"]
    <3>1. /\ Cardinality(Issuing') = Cardinality(Issuing) - 1 /\ Cardinality(Issuing') \in Nat
          /\ Cardinality(Consuming') = Cardinality(Consuming) + 1
      BY <1>6, <2>2, PollMoves DEF Device!Issue
    <3>. QED
      BY <1>0, <1>1, <1>6, <2>1, <2>2, <3>1 DEF Device!Issue
  <2>3. CASE tokens' = tokens /\ poll' = [poll EXCEPT ![p] = "idle"]
    <3>1. /\ Cardinality(Issuing') = Cardinality(Issuing) - 1 /\ Cardinality(Issuing') \in Nat
          /\ Cardinality(Consuming') = Cardinality(Consuming)
      BY <1>6, <2>3, PollMoves DEF Device!Issue
    <3>. QED
      BY <1>0, <1>1, <1>6, <2>1, <2>3, <3>1 DEF Device!Issue
  <2>. QED
    BY <1>6, <2>2, <2>3 DEF Device!Issue
<1>7. ASSUME NEW p \in Polls, Device!Consume(p) PROVE DeviceInv'
  <2>1. poll[p] = "consume" /\ poll' = [poll EXCEPT ![p] = "idle"]
    BY <1>7 DEF Device!Consume
  <2>2. Cardinality(Issuing') = Cardinality(Issuing)
    BY <2>1, PollMoves
  <2>3. code' \in Device!Code /\ code'.consumed
    BY <1>0, <1>7 DEF Device!Consume, Device!Code
  <2>. QED
    BY <1>0, <1>1, <1>7, <2>1, <2>2, <2>3 DEF Device!Consume
<1>10. ASSUME NEW p \in Polls, Device!NotConsumed(p) PROVE DeviceInv'
  <2>1. poll[p] = "consume" /\ poll' = [poll EXCEPT ![p] = "idle"]
    BY <1>10 DEF Device!NotConsumed
  <2>2. /\ Cardinality(Issuing') = Cardinality(Issuing)
        /\ Cardinality(Consuming') = Cardinality(Consuming) - 1
    BY <2>1, PollMoves
  <2>3. UNCHANGED <<code, approval, tokens>> /\ unconsumed' = unconsumed + 1
        /\ unconsumed < MaxFaults
    BY <1>10 DEF Device!NotConsumed
  <2>. QED
    BY <1>0, <1>1, <2>1, <2>2, <2>3
<1>8. CASE Device!GapPasses \/ Device!Expire
  <2>1. code' \in Device!Code /\ (code'.consumed <=> code.consumed)
    BY <1>0, <1>8 DEF Device!GapPasses, Device!Expire, Device!Code
  <2>. QED
    BY <1>0, <1>2, <1>8, <2>1 DEF Device!GapPasses, Device!Expire
<1>9. CASE UNCHANGED Device!deviceVars
  BY <1>0, <1>2, <1>9 DEF Device!deviceVars
<1>. QED
  BY <1>3, <1>4, <1>5, <1>6, <1>7, <1>8, <1>9, <1>10 DEF Device!Next, Device!PollStep

LEMMA ApproverStep ==
    ASSUME DeviceInv, Device!Next, code.user # None
    PROVE  code'.user = code.user
<1>0. code \in Device!Code
  BY PollCounts
<1>1. ASSUME NEW u \in Approvers, Device!ReadForApproval(u) \/ Device!Approve(u)
      PROVE  code'.user = code.user
  BY <1>1 DEF Device!ReadForApproval, Device!Approve, Device!Pending
<1>2. ASSUME NEW p \in Polls, Device!PollStep(p) PROVE code'.user = code.user
  BY <1>0, <1>2 DEF Device!PollStep, Device!Read, Device!Touch, Device!Touched, Device!Issue,
     Device!Consume, Device!NotConsumed, Device!Code
<1>3. CASE Device!GapPasses \/ Device!Expire
  BY <1>0, <1>3 DEF Device!GapPasses, Device!Expire, Device!Code
<1>. QED
  BY <1>1, <1>2, <1>3 DEF Device!Next

(* Of the users who approve one code one is its user, and the polls that   *)
(* overlap, and those that failed to consume it, get a session each at     *)
(* most (device.go).                                                       *)
THEOREM DeviceCorrect == Device!Spec => DeviceSafe
<1>1. Device!Spec => []DeviceInv
  BY DeviceInit, DeviceStep, PTL DEF Device!Spec
<1>2. DeviceInv => Device!TokensBounded
  BY PollCounts, InstanceCardinality DEF Device!TokensBounded
<1>3. DeviceInv /\ [Device!Next]_(Device!deviceVars)
      => [code.user # None => code'.user = code.user]_(Device!deviceVars)
  BY ApproverStep
<1>. QED
  BY <1>1, <1>2, <1>3, PTL DEF Device!Spec, DeviceSafe, Device!DeviceSafe, Device!OneApprover

-----------------------------------------------------------------------------
(* The signing keys.  A rotation inserts one key before it retires one, so *)
(* that the table has more active keys than rotations that are about to    *)
(* retire one; whatever of this a reload reads, it reads some active key.  *)
Rotations == {a \in Admins : admin[a].pc \in {"retire", "set"}}

SigningInv ==
    /\ Signing!TypeOK
    /\ cache.primary # 0
    /\ \A a \in Admins :
          /\ admin[a].pc = "set" => \E k \in Signing!Kids : admin[a].active = {k}
          /\ admin[a].pc \in {"all", "store"} => admin[a].active # {}
    /\ Cardinality(Signing!Active) > Cardinality(Rotations)

(* The newest of some keys is one of them.                                 *)
LEMMA NewestKey ==
    ASSUME NEW S \in SUBSET Signing!Kids, S # {}
    PROVE  Signing!Max(S) \in S
<1>. DEFINE T == {MaxKeys - k : k \in S}
<1>1. MaxKeys \in Nat /\ \A k \in S : k \in Nat /\ k <= MaxKeys
  BY ControlAssumption DEF Signing!Kids
<1>2. T \subseteq Nat /\ T # {}
  BY <1>1
<1>3. PICK n \in T : \A m \in T : <<m, n>> \notin OpToRel(<, Nat)
  BY <1>2, WFMin, NatLessThanWellFounded
<1>4. \A m \in T : ~(m < n)
  BY <1>2, <1>3 DEF OpToRel
<1>5. PICK k \in S : n = MaxKeys - k
  BY DEF T
<1>6. \A j \in S : k >= j
  <2>. TAKE j \in S
  <2>1. MaxKeys - j \in T
    OBVIOUS
  <2>2. ~(MaxKeys - j < MaxKeys - k)
    BY <1>4, <1>5, <2>1
  <2>. QED
    BY <1>1, <2>2
<1>. QED
  BY <1>6 DEF Signing!Max

LEMMA CachedOK ==
    ASSUME NEW active \in SUBSET Signing!Kids, active # {}, NEW retired \in SUBSET Signing!Kids
    PROVE  /\ Signing!Cached(active, retired) \in Signing!Cache
           /\ Signing!Cached(active, retired).primary # 0
<1>1. Signing!Max(active) \in Signing!Kids
  BY NewestKey
<1>2. Signing!Max(active) \in 0 .. MaxKeys /\ Signing!Max(active) # 0
  BY <1>1, ControlAssumption DEF Signing!Kids
<1>. QED
  BY <1>2 DEF Signing!Cached, Signing!Cache

LEMMA KeyCounts ==
    /\ IsFiniteSet(Signing!Active) /\ Cardinality(Signing!Active) \in Nat
    /\ IsFiniteSet(Rotations) /\ Cardinality(Rotations) \in Nat
    /\ IsFiniteSet((Signing!Active)') /\ Cardinality((Signing!Active)') \in Nat
<1>1. IsFiniteSet(Signing!Kids)
  BY ControlAssumption, FS_Interval DEF Signing!Kids
<1>. QED
  BY <1>1, ControlAssumption, FS_Subset, FS_CardinalityType DEF Signing!Active, Rotations

LEMMA SigningInit == Signing!Init => SigningInv
<1>. SUFFICES ASSUME Signing!Init PROVE SigningInv
  OBVIOUS
<1>0. 1 \in Signing!Kids /\ MaxKeys \in Nat
  BY ControlAssumption DEF Signing!Kids
<1>1. Signing!Active = {1}
  BY <1>0 DEF Signing!Init, Signing!Active
<1>2. Rotations = {}
  BY DEF Signing!Init, Signing!IdleAdmin, Rotations
<1>3. Cardinality(Signing!Active) = 1 /\ Cardinality(Rotations) = 0
  BY <1>1, <1>2, FS_Singleton, FS_EmptySet
<1>4. cache \in Signing!Cache /\ cache.primary # 0
  BY <1>0, CachedOK DEF Signing!Init
<1>5. Signing!IdleAdmin \in Signing!AdminCall
  BY <1>0 DEF Signing!IdleAdmin, Signing!AdminCall
<1>6. Signing!TypeOK
  BY <1>0, <1>4, <1>5 DEF Signing!Init, Signing!TypeOK
<1>. QED
  BY <1>3, <1>4, <1>6 DEF Signing!Init, Signing!IdleAdmin, SigningInv

(* The step of one admin call: the others stay as they are.                *)
LEMMA AdminMoves ==
    ASSUME SigningInv, NEW a \in Admins, NEW c \in Signing!AdminCall,
           admin' = [admin EXCEPT ![a] = c],
           c.pc = "set" => \E k \in Signing!Kids : c.active = {k},
           c.pc \in {"all", "store"} => c.active # {}
    PROVE  /\ admin' \in [Admins -> Signing!AdminCall]
           /\ \A b \in Admins :
                 /\ admin'[b].pc = "set" => \E k \in Signing!Kids : admin'[b].active = {k}
                 /\ admin'[b].pc \in {"all", "store"} => admin'[b].active # {}
           /\ Cardinality(Rotations') =
                 IF admin[a].pc \in {"retire", "set"}
                 THEN IF c.pc \in {"retire", "set"} THEN Cardinality(Rotations)
                      ELSE Cardinality(Rotations) - 1
                 ELSE IF c.pc \in {"retire", "set"} THEN Cardinality(Rotations) + 1
                      ELSE Cardinality(Rotations)
<1>1. admin \in [Admins -> Signing!AdminCall]
  BY DEF SigningInv, Signing!TypeOK
<1>2. Rotations' = IF c.pc \in {"retire", "set"} THEN Rotations \cup {a} ELSE Rotations \ {a}
  BY <1>1 DEF Rotations
<1>3. a \in Rotations <=> admin[a].pc \in {"retire", "set"}
  BY DEF Rotations
<1>4. \A b \in Admins : admin'[b] = IF b = a THEN c ELSE admin[b]
  BY <1>1
<1>. QED
  BY <1>1, <1>2, <1>3, <1>4, KeyCounts, FS_AddElement, FS_RemoveElement DEF SigningInv

LEMMA SigningStep ==
    ASSUME SigningInv, [Signing!Next]_(Signing!keyVars)
    PROVE  SigningInv'
<1>0. /\ keys \in [Signing!Kids -> {"unborn", "active", "overlap", "retired", "pruned"}]
      /\ cache \in Signing!Cache /\ cache.primary # 0
      /\ admin \in [Admins -> Signing!AdminCall]
      /\ Cardinality(Signing!Active) > Cardinality(Rotations)
      /\ \A b \in Admins :
            /\ admin[b].pc = "set" => \E k \in Signing!Kids : admin[b].active = {k}
            /\ admin[b].pc \in {"all", "store"} => admin[b].active # {}
      /\ Signing!Kids \subseteq Nat
  BY DEF SigningInv, Signing!TypeOK, Signing!Kids
<1>1. Signing!Active # {} /\ Signing!Active \subseteq Signing!Kids
      /\ Signing!Retired \subseteq Signing!Kids
  BY <1>0, KeyCounts, FS_EmptySet DEF Signing!Active, Signing!Retired
<1>2. ASSUME NEW a \in Admins, Signing!Insert(a) PROVE SigningInv'
  <2>. DEFINE c(k) == [admin[a] EXCEPT !.pc = "retire", !.key = k]
  <2>1. PICK k \in Signing!Kids : /\ keys[k] = "unborn" /\ keys' = [keys EXCEPT ![k] = "active"]
                                  /\ admin' = [admin EXCEPT ![a] = c(k)]
    BY <1>0, <1>2 DEF Signing!Insert
  <2>2. c(k) \in Signing!AdminCall /\ c(k).pc = "retire"
    <3>1. k \in 0 .. MaxKeys
      BY ControlAssumption DEF Signing!Kids
    <3>. QED
      BY <1>0, <3>1 DEF Signing!AdminCall
  <2>. HIDE DEF c
  <2>3. admin[a].pc = "idle" /\ cache' = cache
    BY <1>2 DEF Signing!Insert
  <2>4. (Signing!Active)' = Signing!Active \cup {k} /\ k \notin Signing!Active
    BY <1>0, <2>1 DEF Signing!Active
  <2>5. Cardinality((Signing!Active)') = Cardinality(Signing!Active) + 1
    BY <2>4, KeyCounts, FS_AddElement
  <2>6. /\ admin' \in [Admins -> Signing!AdminCall]
        /\ \A b \in Admins :
              /\ admin'[b].pc = "set" => \E j \in Signing!Kids : admin'[b].active = {j}
              /\ admin'[b].pc \in {"all", "store"} => admin'[b].active # {}
        /\ Cardinality(Rotations') = Cardinality(Rotations) + 1
    BY <2>1, <2>2, <2>3, AdminMoves
  <2>7. keys' \in [Signing!Kids -> {"unborn", "active", "overlap", "retired", "pruned"}]
    BY <1>0, <2>1
  <2>. QED
    BY <1>0, <2>3, <2>5, <2>6, <2>7, KeyCounts DEF SigningInv, Signing!TypeOK
<1>3. ASSUME NEW a \in Admins, Signing!PickVictim(a) PROVE SigningInv'
  <2>. DEFINE c == [admin[a] EXCEPT !.pc = "set", !.active = {cache.primary}]
  <2>1. /\ admin' = [admin EXCEPT ![a] = c] /\ UNCHANGED <<keys, cache>>
        /\ admin[a].pc = "retire"
    BY <1>0, <1>3 DEF Signing!PickVictim, Signing!Victims
  <2>2. cache.primary \in Signing!Kids
    BY <1>0, ControlAssumption DEF Signing!Cache, Signing!Kids
  <2>3. c \in Signing!AdminCall /\ c.pc = "set" /\ c.active = {cache.primary}
    BY <1>0, <2>2 DEF Signing!AdminCall
  <2>. HIDE DEF c
  <2>4. /\ admin' \in [Admins -> Signing!AdminCall]
        /\ \A b \in Admins :
              /\ admin'[b].pc = "set" => \E j \in Signing!Kids : admin'[b].active = {j}
              /\ admin'[b].pc \in {"all", "store"} => admin'[b].active # {}
        /\ Cardinality(Rotations') = Cardinality(Rotations)
    BY <2>1, <2>2, <2>3, AdminMoves
  <2>5. (Signing!Active)' = Signing!Active
    BY <2>1 DEF Signing!Active
  <2>. QED
    BY <1>0, <2>1, <2>4, <2>5 DEF SigningInv, Signing!TypeOK
<1>4. ASSUME NEW a \in Admins, Signing!SetRetired(a) PROVE SigningInv'
  <2>1. PICK v \in Signing!Kids : admin[a].active = {v}
    BY <1>0, <1>4 DEF Signing!SetRetired
  <2>2. /\ keys' \in [Signing!Kids -> {"unborn", "active", "overlap", "retired", "pruned"}]
        /\ \A k \in Signing!Kids : k # v => keys'[k] = keys[k]
    BY <1>0, <1>4, <2>1 DEF Signing!SetRetired
  <2>3. Signing!Active \ {v} \subseteq (Signing!Active)'
    BY <2>2 DEF Signing!Active
  <2>4. Cardinality((Signing!Active)') >= Cardinality(Signing!Active) - 1
        /\ Cardinality((Signing!Active)') \in Nat
    <3>1. IsFiniteSet(Signing!Active \ {v})
          /\ Cardinality(Signing!Active \ {v}) = IF v \in Signing!Active
                                                 THEN Cardinality(Signing!Active) - 1
                                                 ELSE Cardinality(Signing!Active)
      BY KeyCounts, FS_RemoveElement
    <3>2. Cardinality(Signing!Active \ {v}) \in Nat
      BY <3>1, FS_CardinalityType
    <3>3. Cardinality(Signing!Active \ {v}) <= Cardinality((Signing!Active)')
      BY <2>3, KeyCounts, FS_Subset
    <3>. QED
      BY <3>1, <3>2, <3>3, KeyCounts
  <2>5. PICK pc \in {"idle", "active"} : admin' = [admin EXCEPT ![a] = [Signing!IdleAdmin EXCEPT !.pc = pc]]
    BY <1>4 DEF Signing!SetRetired, Signing!IdleAdmin
  <2>6. [Signing!IdleAdmin EXCEPT !.pc = pc] \in Signing!AdminCall
        /\ [Signing!IdleAdmin EXCEPT !.pc = pc].pc = pc
    BY ControlAssumption DEF Signing!IdleAdmin, Signing!AdminCall
  <2>7. admin[a].pc = "set" /\ cache' = cache
    BY <1>4 DEF Signing!SetRetired
  <2>8. /\ admin' \in [Admins -> Signing!AdminCall]
        /\ \A b \in Admins :
              /\ admin'[b].pc = "set" => \E j \in Signing!Kids : admin'[b].active = {j}
              /\ admin'[b].pc \in {"all", "store"} => admin'[b].active # {}
        /\ Cardinality(Rotations') = Cardinality(Rotations) - 1
    BY <2>5, <2>6, <2>7, AdminMoves
  <2>. QED
    BY <1>0, <2>2, <2>4, <2>7, <2>8, KeyCounts DEF SigningInv, Signing!TypeOK
<1>5. ASSUME (Signing!Active)' = Signing!Active,
             keys' \in [Signing!Kids -> {"unborn", "active", "overlap", "retired", "pruned"}],
             cache' \in Signing!Cache, cache'.primary # 0,
             NEW a \in Admins, NEW c \in Signing!AdminCall,
             admin' = [admin EXCEPT ![a] = c], c.pc \notin {"retire", "set"},
             admin[a].pc \notin {"retire", "set"},
             c.pc \in {"all", "store"} => c.active # {}
      PROVE  SigningInv'
  <2>1. /\ admin' \in [Admins -> Signing!AdminCall]
        /\ \A b \in Admins :
              /\ admin'[b].pc = "set" => \E j \in Signing!Kids : admin'[b].active = {j}
              /\ admin'[b].pc \in {"all", "store"} => admin'[b].active # {}
        /\ Cardinality(Rotations') = Cardinality(Rotations)
    BY <1>5, AdminMoves
  <2>. QED
    BY <1>0, <1>5, <2>1 DEF SigningInv, Signing!TypeOK
<1>6. ASSUME NEW a \in Admins, Signing!Prune(a) PROVE SigningInv'
  <2>1. PICK gone \in SUBSET {k \in Signing!Kids : keys[k] = "retired"} :
           keys' = [k \in Signing!Kids |-> IF k \in gone THEN "pruned" ELSE keys[k]]
    BY <1>6 DEF Signing!Prune
  <2>2. (Signing!Active)' = Signing!Active
    BY <2>1 DEF Signing!Active
  <2>3. keys' \in [Signing!Kids -> {"unborn", "active", "overlap", "retired", "pruned"}]
    BY <1>0, <2>1
  <2>4. /\ admin' = [admin EXCEPT ![a] = [admin[a] EXCEPT !.pc = "active"]]
        /\ [admin[a] EXCEPT !.pc = "active"] \in Signing!AdminCall
        /\ [admin[a] EXCEPT !.pc = "active"].pc = "active"
        /\ admin[a].pc = "idle" /\ cache' = cache
    BY <1>0, <1>6 DEF Signing!Prune, Signing!AdminCall
  <2>. QED
    BY <1>0, <1>5, <2>2, <2>3, <2>4
<1>7. ASSUME NEW a \in Admins, Signing!ListActive(a) PROVE SigningInv'
  <2>. DEFINE c == [admin[a] EXCEPT !.pc = "all", !.active = Signing!Active]
  <2>1. /\ admin' = [admin EXCEPT ![a] = c] /\ UNCHANGED <<keys, cache>>
        /\ admin[a].pc = "active"
    BY <1>0, <1>7 DEF Signing!ListActive
  <2>2. c \in Signing!AdminCall /\ c.pc = "all" /\ c.active = Signing!Active
    BY <1>0, <1>1 DEF Signing!AdminCall
  <2>. HIDE DEF c
  <2>3. (Signing!Active)' = Signing!Active
    BY <2>1 DEF Signing!Active
  <2>. QED
    BY <1>0, <1>1, <1>5, <2>1, <2>2, <2>3
<1>8. ASSUME NEW a \in Admins, Signing!ListAll(a) PROVE SigningInv'
  <2>. DEFINE c == [admin[a] EXCEPT !.pc = "store", !.retired = Signing!Retired]
  <2>1. /\ admin' = [admin EXCEPT ![a] = c] /\ UNCHANGED <<keys, cache>>
        /\ admin[a].pc = "all"
    BY <1>0, <1>8 DEF Signing!ListAll
  <2>2. c \in Signing!AdminCall /\ c.pc = "store" /\ c.active = admin[a].active
    BY <1>0, <1>1 DEF Signing!AdminCall
  <2>. HIDE DEF c
  <2>3. (Signing!Active)' = Signing!Active
    BY <2>1 DEF Signing!Active
  <2>. QED
    BY <1>0, <1>5, <2>1, <2>2, <2>3
<1>9. ASSUME NEW a \in Admins, Signing!Store(a) PROVE SigningInv'
  <2>1. /\ admin' = [admin EXCEPT ![a] = Signing!IdleAdmin] /\ keys' = keys
        /\ admin[a].pc = "store"
        /\ cache' = Signing!Cached(admin[a].active, admin[a].retired)
    BY <1>9 DEF Signing!Store
  <2>2. Signing!IdleAdmin \in Signing!AdminCall /\ Signing!IdleAdmin.pc = "idle"
    BY ControlAssumption DEF Signing!IdleAdmin, Signing!AdminCall
  <2>3. cache' \in Signing!Cache /\ cache'.primary # 0
    BY <1>0, <2>1, CachedOK DEF Signing!AdminCall
  <2>4. (Signing!Active)' = Signing!Active
    BY <2>1 DEF Signing!Active
  <2>. QED
    BY <1>0, <1>5, <2>1, <2>2, <2>3, <2>4
<1>10. CASE Signing!OverlapEnds
  <2>1. PICK k \in Signing!Kids : keys[k] = "overlap" /\ keys' = [keys EXCEPT ![k] = "retired"]
    BY <1>10 DEF Signing!OverlapEnds
  <2>2. (Signing!Active)' = Signing!Active
    BY <1>0, <2>1 DEF Signing!Active
  <2>3. keys' \in [Signing!Kids -> {"unborn", "active", "overlap", "retired", "pruned"}]
    BY <1>0, <2>1
  <2>4. UNCHANGED <<cache, admin>> /\ Rotations' = Rotations
    BY <1>10 DEF Signing!OverlapEnds, Rotations
  <2>. QED
    BY <1>0, <2>2, <2>3, <2>4 DEF SigningInv, Signing!TypeOK
<1>11. CASE Signing!Restart
  <2>1. /\ cache' = Signing!Cached(Signing!Active, Signing!Retired) /\ keys' = keys
        /\ admin' = [a \in Admins |-> Signing!IdleAdmin]
    BY <1>11 DEF Signing!Restart
  <2>2. Signing!IdleAdmin \in Signing!AdminCall /\ Signing!IdleAdmin.pc = "idle"
    BY ControlAssumption DEF Signing!IdleAdmin, Signing!AdminCall
  <2>3. cache' \in Signing!Cache /\ cache'.primary # 0
    BY <1>1, <2>1, CachedOK
  <2>4. (Signing!Active)' = Signing!Active
    BY <2>1 DEF Signing!Active
  <2>5. Rotations' = {}
    BY <2>1, <2>2 DEF Rotations
  <2>6. Cardinality((Signing!Active)') > Cardinality(Rotations')
    BY <1>0, <2>4, <2>5, KeyCounts, FS_EmptySet
  <2>. QED
    BY <1>0, <2>1, <2>2, <2>3, <2>6 DEF SigningInv, Signing!TypeOK
<1>12. CASE UNCHANGED Signing!keyVars
  <2>1. (Signing!Active)' = Signing!Active /\ Rotations' = Rotations
    BY <1>12 DEF Signing!keyVars, Signing!Active, Rotations
  <2>. QED
    BY <1>0, <1>12, <2>1 DEF Signing!keyVars, SigningInv, Signing!TypeOK
<1>. QED
  BY <1>2, <1>3, <1>4, <1>6, <1>7, <1>8, <1>9, <1>10, <1>11, <1>12 DEF Signing!Next

(* However rotations, prunes, reloads and crashes overlap, the server has  *)
(* a key to sign with, in the table and in its cache (keystore.go).        *)
THEOREM SigningCorrect == Signing!Spec => []CanSign
<1>1. Signing!Spec => []SigningInv
  BY SigningInit, SigningStep, PTL DEF Signing!Spec
<1>2. SigningInv => CanSign
  BY KeyCounts, FS_EmptySet DEF SigningInv, CanSign, Signing!CanSign
<1>. QED
  BY <1>1, <1>2, PTL

-----------------------------------------------------------------------------
(* The sessions of a user.  A token that was handed out belongs to one     *)
(* session, as its current token or as the previous one, so that a refresh *)
(* that found a session of its token found the only one; and a login that  *)
(* is about to insert a session saw room for it, or made it, or failed to. *)
Holds(r, t) == r.token = t \/ r.prev = t
Creating == {c \in Callers : caller[c].pc = "create"}

RowsInv ==
    /\ rows \subseteq Sessions!Row /\ minted \in 0 .. MaxTokens
    /\ IsFiniteSet(rows) /\ Cardinality(rows) <= minted
    /\ \A r \in rows : r.id <= minted /\ r.token <= minted /\ r.prev <= minted
    /\ \A r, s \in rows : r.id = s.id => r = s
    /\ \A r, s \in rows, t \in 1 .. minted : Holds(r, t) /\ Holds(s, t) => r = s

CallersInv ==
    /\ caller \in [Callers -> Sessions!Caller]
    /\ \A c \in Callers :
          /\ caller[c].pc \in {"find", "reuse", "rotate", "remove"}
                => caller[c].token \in 1 .. minted
          /\ caller[c].pc \in {"rotate", "remove"}
                => \A r \in rows : Holds(r, caller[c].token) => r.id = caller[c].id
          /\ caller[c].pc = "evict" => caller[c].count >= MaxSessions

FaultsInv == unevicted \in 0 .. MaxFaults /\ unrevoked \in 0 .. MaxFaults

Room == Cardinality(rows) + Cardinality(Creating)
           < MaxSessions + Cardinality(Callers) + unevicted

SessionsInv == RowsInv /\ CallersInv /\ FaultsInv /\ Room

LEMMA SessionsInit == Sessions!Init => SessionsInv
<1>. SUFFICES ASSUME Sessions!Init PROVE SessionsInv
  OBVIOUS
<1>1. rows = {} /\ minted = 0 /\ Creating = {}
  BY DEF Sessions!Init, Sessions!IdleCaller, Creating
<1>2. IsFiniteSet(rows) /\ Cardinality(rows) = 0 /\ Cardinality(Creating) = 0
      /\ Cardinality(Callers) \in Nat
  BY <1>1, ControlAssumption, FS_EmptySet, FS_CardinalityType
<1>3. RowsInv /\ FaultsInv /\ Room
  BY <1>1, <1>2, ControlAssumption DEF Sessions!Init, RowsInv, FaultsInv, Room
<1>4. Sessions!IdleCaller \in Sessions!Caller /\ Sessions!IdleCaller.pc = "idle"
  BY ControlAssumption DEF Sessions!IdleCaller, Sessions!Caller
<1>5. CallersInv
  BY <1>4 DEF Sessions!Init, CallersInv
<1>. QED
  BY <1>3, <1>5 DEF SessionsInv

-----------------------------------------------------------------------------
(* What a step may do to the table: delete, write a new token into a row,  *)
(* insert.  Descends is what the callers rely on.                          *)
Descends ==
    /\ minted' \in {minted, minted + 1}
    /\ \A r \in rows', t \in 1 .. minted : Holds(r, t) =>
          \E s \in rows : s.id = r.id /\ Holds(s, t)
    /\ \A r \in rows' : (\A s \in rows : s.id # r.id) => r.id > minted

LEMMA DeletedRows ==
    ASSUME RowsInv, rows' \subseteq rows, minted' = minted
    PROVE  RowsInv' /\ Descends /\ Cardinality(rows') <= Cardinality(rows)
<1>1. IsFiniteSet(rows') /\ Cardinality(rows') <= Cardinality(rows)
      /\ Cardinality(rows') \in Nat /\ Cardinality(rows) \in Nat
  BY FS_Subset, FS_CardinalityType DEF RowsInv
<1>2. minted \in Nat
  BY DEF RowsInv
<1>3. rows' \subseteq Sessions!Row /\ minted' \in 0 .. MaxTokens /\ Cardinality(rows') <= minted'
  BY <1>1, <1>2 DEF RowsInv
<1>4. RowsInv'
  BY <1>1, <1>3 DEF RowsInv, Holds
<1>. QED
  BY <1>1, <1>4 DEF Descends

LEMMA WrittenRow ==
    ASSUME RowsInv, NEW r \in rows, NEW q \in Sessions!Row, q.id = r.id,
           rows' = Sessions!Without(r.id) \cup {q},
           minted' \in {minted, minted + 1}, minted' <= MaxTokens,
           q.token = r.token \/ q.token = minted',
           q.prev \in {r.prev, r.token},
           minted' = minted => q.token = r.token
    PROVE  RowsInv' /\ Descends /\ Cardinality(rows') = Cardinality(rows)
<1>0. /\ minted \in Nat /\ MaxTokens \in Nat /\ rows \subseteq Sessions!Row
      /\ \A s \in rows : s.id <= minted /\ s.token <= minted /\ s.prev <= minted
      /\ \A s \in rows : s.id \in Nat /\ s.token \in Nat /\ s.prev \in Nat
      /\ IsFiniteSet(rows) /\ Cardinality(rows) <= minted /\ Cardinality(rows) \in Nat
  BY ControlAssumption, FS_CardinalityType DEF RowsInv, Sessions!Row
<1>1. minted' \in Nat /\ minted <= minted' /\ minted' \in 0 .. MaxTokens
  BY <1>0
<1>2. Sessions!Without(r.id) = rows \ {r}
  BY DEF RowsInv, Sessions!Without
<1>3. q \notin rows \ {r}
  BY DEF RowsInv
<1>4. IsFiniteSet(rows') /\ Cardinality(rows') = Cardinality(rows)
  <2>1. IsFiniteSet(rows \ {r}) /\ Cardinality(rows \ {r}) = Cardinality(rows) - 1
    BY <1>0, FS_RemoveElement
  <2>. QED
    BY <1>0, <1>2, <1>3, <2>1, FS_AddElement
<1>5. \A t \in 1 .. minted : Holds(q, t) => Holds(r, t)
  <2>. SUFFICES ASSUME NEW t \in 1 .. minted, Holds(q, t) PROVE Holds(r, t)
    OBVIOUS
  <2>1. t <= minted /\ t \in Nat
    BY <1>0
  <2>2. CASE q.token = r.token
    BY <2>2 DEF Holds
  <2>3. CASE q.token # r.token
    BY <1>0, <1>1, <2>1, <2>3 DEF Holds
  <2>. QED
    BY <2>2, <2>3
<1>6. Descends
  BY <1>2, <1>5 DEF Descends
<1>7. \A s \in rows' : s.id <= minted' /\ s.token <= minted' /\ s.prev <= minted'
  <2>1. q.token <= minted' /\ q.prev <= minted' /\ q.id <= minted'
    BY <1>0, <1>1
  <2>2. \A s \in rows : s.id <= minted' /\ s.token <= minted' /\ s.prev <= minted'
    BY <1>0, <1>1
  <2>. QED
    BY <1>2, <2>1, <2>2
<1>8. \A s, u \in rows' : s.id = u.id => s = u
  BY <1>2 DEF RowsInv
<1>9. \A s \in rows \ {r}, t \in 1 .. minted' : ~(Holds(q, t) /\ Holds(s, t))
  <2>. SUFFICES ASSUME NEW s \in rows \ {r}, NEW t \in 1 .. minted', Holds(q, t), Holds(s, t)
                PROVE FALSE
    OBVIOUS
  <2>1. t <= minted
    BY <1>0 DEF Holds
  <2>2. t \in 1 .. minted
    BY <1>0, <1>1, <2>1
  <2>. QED
    BY <1>5, <2>2 DEF RowsInv
<1>10. \A s, u \in rows \ {r}, t \in 1 .. minted' : Holds(s, t) /\ Holds(u, t) => s = u
  <2>. SUFFICES ASSUME NEW s \in rows \ {r}, NEW u \in rows \ {r}, NEW t \in 1 .. minted',
                       Holds(s, t), Holds(u, t)
                PROVE s = u
    OBVIOUS
  <2>1. t \in 1 .. minted
    BY <1>0, <1>1 DEF Holds
  <2>. QED
    BY <2>1 DEF RowsInv
<1>11. \A s, u \in rows', t \in 1 .. minted' : Holds(s, t) /\ Holds(u, t) => s = u
  BY <1>2, <1>9, <1>10
<1>. QED
  BY <1>0, <1>1, <1>2, <1>4, <1>6, <1>7, <1>8, <1>11 DEF RowsInv

LEMMA InsertedRow ==
    ASSUME RowsInv, minted' = minted + 1, minted' <= MaxTokens,
           NEW q \in Sessions!Row, q.id = minted', q.token = minted', q.prev = 0,
           rows' = rows \cup {q}
    PROVE  RowsInv' /\ Descends /\ Cardinality(rows') = Cardinality(rows) + 1
<1>0. /\ minted \in Nat /\ MaxTokens \in Nat /\ rows \subseteq Sessions!Row
      /\ \A s \in rows : s.id <= minted /\ s.token <= minted /\ s.prev <= minted
      /\ \A s \in rows : s.id \in Nat /\ s.token \in Nat /\ s.prev \in Nat
      /\ IsFiniteSet(rows) /\ Cardinality(rows) <= minted /\ Cardinality(rows) \in Nat
  BY ControlAssumption, FS_CardinalityType DEF RowsInv, Sessions!Row
<1>1. minted' \in 0 .. MaxTokens /\ minted' \in Nat /\ minted' > minted
  BY <1>0
<1>2. q \notin rows /\ \A s \in rows : s.id # q.id
  BY <1>0, <1>1
<1>3. IsFiniteSet(rows') /\ Cardinality(rows') = Cardinality(rows) + 1
  BY <1>0, <1>2, FS_AddElement
<1>4. \A s \in rows' : s.id <= minted' /\ s.token <= minted' /\ s.prev <= minted'
  BY <1>0, <1>1
<1>5. \A s, u \in rows' : s.id = u.id => s = u
  BY <1>2 DEF RowsInv
<1>6. \A s \in rows, t \in 1 .. minted' : ~(Holds(q, t) /\ Holds(s, t))
  BY <1>0, <1>1 DEF Holds
<1>7. \A s, u \in rows, t \in 1 .. minted' : Holds(s, t) /\ Holds(u, t) => s = u
  <2>. SUFFICES ASSUME NEW s \in rows, NEW u \in rows, NEW t \in 1 .. minted',
                       Holds(s, t), Holds(u, t)
                PROVE s = u
    OBVIOUS
  <2>1. t \in 1 .. minted
    BY <1>0, <1>1 DEF Holds
  <2>. QED
    BY <2>1 DEF RowsInv
<1>8. \A s, u \in rows', t \in 1 .. minted' : Holds(s, t) /\ Holds(u, t) => s = u
  BY <1>6, <1>7
<1>9. Descends
  BY <1>0, <1>1 DEF Descends, Holds
<1>. QED
  BY <1>0, <1>1, <1>3, <1>4, <1>5, <1>8, <1>9 DEF RowsInv

-----------------------------------------------------------------------------
(* What a step may do to the callers: one of them goes on.                 *)
LEMMA CallersKeep ==
    ASSUME RowsInv, RowsInv', CallersInv, Descends, caller' = caller
    PROVE  CallersInv' /\ Creating' = Creating
<1>1. \A t \in 1 .. minted : t \in 1 .. minted'
  BY DEF RowsInv, Descends
<1>. QED
  BY <1>1 DEF CallersInv, Descends, Creating

LEMMA CallerMoves ==
    ASSUME RowsInv, RowsInv', CallersInv, Descends,
           NEW c \in Callers, NEW q \in Sessions!Caller, caller' = [caller EXCEPT ![c] = q],
           q.pc \in {"find", "reuse", "rotate", "remove"} => q.token \in 1 .. minted,
           q.pc \in {"rotate", "remove"} => \A r \in rows : Holds(r, q.token) => r.id = q.id,
           q.pc = "evict" => q.count >= MaxSessions
    PROVE  /\ CallersInv'
           /\ Creating' = IF q.pc = "create" THEN Creating \cup {c} ELSE Creating \ {c}
<1>1. \A t \in 1 .. minted : t \in 1 .. minted'
  BY DEF RowsInv, Descends
<1>2. caller \in [Callers -> Sessions!Caller]
  BY DEF CallersInv
<1>3. \A d \in Callers : caller'[d] = IF d = c THEN q ELSE caller[d]
  BY <1>2
<1>4. caller' \in [Callers -> Sessions!Caller]
  BY <1>2
<1>5. Creating' = IF q.pc = "create" THEN Creating \cup {c} ELSE Creating \ {c}
  BY <1>3 DEF Creating
<1>6. ASSUME NEW d \in Callers
      PROVE  /\ caller'[d].pc \in {"find", "reuse", "rotate", "remove"}
                   => caller'[d].token \in 1 .. minted'
             /\ caller'[d].pc \in {"rotate", "remove"}
                   => \A r \in rows' : Holds(r, caller'[d].token) => r.id = caller'[d].id
             /\ caller'[d].pc = "evict" => caller'[d].count >= MaxSessions
  <2>. DEFINE x == caller'[d]
  <2>1. /\ x.pc \in {"find", "reuse", "rotate", "remove"} => x.token \in 1 .. minted
        /\ x.pc \in {"rotate", "remove"} => \A r \in rows : Holds(r, x.token) => r.id = x.id
        /\ x.pc = "evict" => x.count >= MaxSessions
    BY <1>3 DEF CallersInv
  <2>. HIDE DEF x
  <2>2. x.pc \in {"rotate", "remove"} => \A r \in rows' : Holds(r, x.token) => r.id = x.id
    BY <2>1 DEF Descends
  <2>3. /\ x.pc \in {"find", "reuse", "rotate", "remove"} => x.token \in 1 .. minted'
        /\ x.pc \in {"rotate", "remove"} => \A r \in rows' : Holds(r, x.token) => r.id = x.id
        /\ x.pc = "evict" => x.count >= MaxSessions
    BY <1>1, <2>1, <2>2
  <2>. QED
    BY <2>3 DEF x
<1>. QED
  BY <1>4, <1>5, <1>6 DEF CallersInv

LEMMA RowsKeep == ASSUME RowsInv, UNCHANGED <<rows, minted>> PROVE RowsInv' /\ Descends
<1>. QED
  BY DeletedRows

LEMMA IdleOK ==
    /\ Sessions!IdleCaller \in Sessions!Caller /\ Sessions!IdleCaller.pc = "idle"
BY ControlAssumption DEF Sessions!IdleCaller, Sessions!Caller

LEMMA CreatingCounts ==
    /\ IsFiniteSet(Creating) /\ Cardinality(Creating) \in Nat /\ Cardinality(Callers) \in Nat
    /\ Cardinality(Creating) <= Cardinality(Callers)
    /\ MaxSessions \in Nat /\ MaxSessions > 0
    /\ \A c \in Callers :
          /\ Cardinality(Creating \cup {c}) = IF c \in Creating THEN Cardinality(Creating)
                                              ELSE Cardinality(Creating) + 1
          /\ Cardinality(Creating \ {c}) = IF c \in Creating THEN Cardinality(Creating) - 1
                                           ELSE Cardinality(Creating)
          /\ Cardinality(Creating \cup {c}) <= Cardinality(Callers)
          /\ Cardinality(Creating \cup {c}) \in Nat /\ Cardinality(Creating \ {c}) \in Nat
<1>1. IsFiniteSet(Creating) /\ IsFiniteSet(Callers) /\ Cardinality(Creating) <= Cardinality(Callers)
  BY ControlAssumption, FS_Subset DEF Creating
<1>2. \A c \in Callers : Creating \cup {c} \in SUBSET Callers
  BY DEF Creating
<1>. QED
  BY <1>1, <1>2, ControlAssumption, FS_Subset, FS_CardinalityType, FS_AddElement, FS_RemoveElement

LEMMA RoomFor ==
    ASSUME NEW c \in Callers
    PROVE  /\ Cardinality(Creating \cup {c}) \in Nat
           /\ Cardinality(Creating \cup {c}) <= Cardinality(Callers)
           /\ Cardinality(Creating \cup {c}) <= Cardinality(Creating) + 1
BY CreatingCounts

(* The least recently active session goes, if there is one.                *)
LEMMA OldestGoes ==
    ASSUME RowsInv, rows' = {r \in rows : \E s \in rows : s.token < r.token}, minted' = minted,
           rows # {}
    PROVE  Cardinality(rows') < Cardinality(rows)
<1>. DEFINE T == {r.token : r \in rows}
<1>1. T \subseteq Nat /\ T # {}
  BY DEF RowsInv, Sessions!Row
<1>2. PICK n \in T : \A m \in T : <<m, n>> \notin OpToRel(<, Nat)
  BY <1>1, WFMin, NatLessThanWellFounded
<1>3. \A m \in T : ~(m < n)
  BY <1>1, <1>2 DEF OpToRel
<1>4. PICK r \in rows : n = r.token
  BY <1>2
<1>5. r \notin rows'
  BY <1>3, <1>4
<1>6. rows' \subseteq rows \ {r}
  BY <1>5
<1>7. IsFiniteSet(rows \ {r}) /\ Cardinality(rows \ {r}) = Cardinality(rows) - 1
      /\ Cardinality(rows) \in Nat
  BY FS_RemoveElement, FS_CardinalityType DEF RowsInv
<1>8. Cardinality(rows') <= Cardinality(rows \ {r}) /\ IsFiniteSet(rows')
  BY <1>6, <1>7, FS_Subset
<1>9. Cardinality(rows') \in Nat
  BY <1>8, FS_CardinalityType
<1>. QED
  BY <1>7, <1>8, <1>9

LEMMA SessionsStep ==
    ASSUME SessionsInv, [Sessions!Next]_(Sessions!sessionVars)
    PROVE  SessionsInv' /\ (Descends \/ UNCHANGED Sessions!sessionVars)
<1>0. /\ RowsInv /\ CallersInv /\ FaultsInv /\ Room
      /\ unevicted \in Nat /\ MaxFaults \in Nat
      /\ caller \in [Callers -> Sessions!Caller]
      /\ minted \in Nat /\ MaxTokens \in Nat /\ minted <= MaxTokens
      /\ IsFiniteSet(rows) /\ Cardinality(rows) \in Nat /\ Cardinality(rows) <= minted
  BY ControlAssumption, FS_CardinalityType DEF SessionsInv, RowsInv, CallersInv, FaultsInv
<1>. USE CreatingCounts
<1>17. ASSUME UNCHANGED <<unevicted, unrevoked>> PROVE FaultsInv' /\ unevicted' = unevicted
  BY <1>0, <1>17 DEF FaultsInv
\* One caller that neither was nor will be about to insert goes on.
<1>1. ASSUME RowsInv', Descends, Cardinality(rows') <= Cardinality(rows),
             FaultsInv', unevicted' = unevicted,
             NEW c \in Callers, NEW q \in Sessions!Caller, caller' = [caller EXCEPT ![c] = q],
             q.pc \in {"find", "reuse", "rotate", "remove"} => q.token \in 1 .. minted,
             q.pc \in {"rotate", "remove"} => \A r \in rows : Holds(r, q.token) => r.id = q.id,
             q.pc = "evict" => q.count >= MaxSessions,
             q.pc # "create"
      PROVE  SessionsInv' /\ Descends
  <2>1. CallersInv' /\ Creating' = Creating \ {c}
    BY <1>0, <1>1, CallerMoves
  <2>2. Cardinality(rows') \in Nat
    BY <1>1, FS_CardinalityType DEF RowsInv
  <2>3. Cardinality(Creating') \in Nat /\ Cardinality(Creating') <= Cardinality(Creating)
    BY <2>1
  <2>4. Room'
    BY <1>0, <1>1, <2>2, <2>3 DEF Room
  <2>. QED
    BY <1>1, <2>1, <2>4 DEF SessionsInv
<1>2. ASSUME RowsInv', Descends, Cardinality(rows') <= Cardinality(rows), caller' = caller,
             UNCHANGED <<unevicted, unrevoked>>
      PROVE  SessionsInv' /\ Descends
  <2>1. CallersInv' /\ Creating' = Creating
    BY <1>0, <1>2, CallersKeep
  <2>2. Cardinality(rows') \in Nat
    BY <1>2, FS_CardinalityType DEF RowsInv
  <2>3. Room'
    BY <1>0, <1>2, <2>1, <2>2 DEF Room
  <2>. QED
    BY <1>2, <1>17, <2>1, <2>3 DEF SessionsInv
<1>3. ASSUME UNCHANGED <<rows, minted>>
      PROVE  RowsInv' /\ Descends /\ Cardinality(rows') <= Cardinality(rows)
  BY <1>0, <1>3, RowsKeep
<1>4. ASSUME NEW c \in Callers, Sessions!Login(c) PROVE SessionsInv' /\ Descends
  <2>20. FaultsInv' /\ unevicted' = unevicted
    BY <1>17, <1>4 DEF Sessions!Login, Sessions!faults
  <2>. DEFINE q == [caller[c] EXCEPT !.pc = "count"]
  <2>1. caller' = [caller EXCEPT ![c] = q] /\ q \in Sessions!Caller /\ q.pc = "count"
    BY <1>0, <1>4 DEF Sessions!Login, Sessions!Caller
  <2>. HIDE DEF q
  <2>. QED
    BY <1>1, <2>20, <1>3, <1>4, <2>1 DEF Sessions!Login
<1>5. ASSUME NEW c \in Callers, Sessions!Count(c) PROVE SessionsInv' /\ Descends
  <2>20. FaultsInv' /\ unevicted' = unevicted
    BY <1>17, <1>5 DEF Sessions!Count, Sessions!faults
  <2>. DEFINE n == Cardinality(rows)
              pc == IF n >= MaxSessions THEN "evict" ELSE "create"
              q == [caller[c] EXCEPT !.count = n, !.pc = pc]
  <2>1. caller' = [caller EXCEPT ![c] = q] /\ UNCHANGED <<rows, minted>>
    BY <1>0, <1>5, InstanceCardinality DEF Sessions!Count, Sessions!Crowded
  <2>2. n \in 0 .. MaxTokens /\ pc \in {"evict", "create"}
    BY <1>0
  <2>3. q \in Sessions!Caller /\ q.pc = pc /\ q.count = n
    <3>. HIDE DEF n, pc
    <3>. QED
      BY <1>0, <2>2 DEF Sessions!Caller
  <2>. HIDE DEF q
  <2>4. CASE n >= MaxSessions
    BY <1>1, <2>20, <1>3, <2>1, <2>3, <2>4
  <2>5. CASE n < MaxSessions
    <3>1. q.pc = "create"
      BY <1>0, <2>3, <2>5
    <3>2. RowsInv' /\ Descends
      BY <1>3, <2>1
    <3>3. CallersInv' /\ Creating' = Creating \cup {c}
      BY <1>0, <2>1, <2>3, <3>1, <3>2, CallerMoves
    <3>4. Room'
      BY <1>0, <2>1, <2>5, <3>3, RoomFor, <2>20 DEF Room
    <3>. QED
      BY <3>2, <3>3, <3>4, <2>20 DEF SessionsInv
  <2>. QED
    BY <1>0, <2>4, <2>5
<1>6. ASSUME NEW c \in Callers, Sessions!DeleteOldest(c) PROVE SessionsInv' /\ Descends
  <2>20. FaultsInv' /\ unevicted' = unevicted
    BY <1>17, <1>6 DEF Sessions!DeleteOldest, Sessions!faults
  <2>. DEFINE n == caller[c].count - 1
              pc == IF n >= MaxSessions THEN "evict" ELSE "create"
              q == [caller[c] EXCEPT !.count = n, !.pc = pc]
  <2>1. /\ caller' = [caller EXCEPT ![c] = q] /\ minted' = minted
        /\ rows' = {r \in rows : \E s \in rows : s.token < r.token}
        /\ caller[c].pc = "evict"
    BY <1>0, <1>6 DEF Sessions!DeleteOldest, Sessions!Crowded
  <2>2. caller[c].count \in 0 .. MaxTokens /\ caller[c].count >= MaxSessions
    BY <1>0, <2>1 DEF CallersInv, Sessions!Caller
  <2>3. n \in 0 .. MaxTokens /\ pc \in {"evict", "create"}
    BY <1>0, <2>2
  <2>4. q \in Sessions!Caller /\ q.pc = pc /\ q.count = n
    <3>. HIDE DEF n, pc
    <3>. QED
      BY <1>0, <2>3 DEF Sessions!Caller
  <2>. HIDE DEF q
  <2>5. RowsInv' /\ Descends /\ Cardinality(rows') <= Cardinality(rows)
    BY <1>0, <2>1, DeletedRows
  <2>6. CASE n >= MaxSessions
    BY <1>1, <2>20, <2>1, <2>4, <2>5, <2>6
  <2>7. CASE n < MaxSessions
    <3>0. q.pc = "create"
      BY <2>3, <2>4, <2>7
    <3>1. CallersInv' /\ Creating' = Creating \cup {c}
      BY <1>0, <2>1, <2>4, <2>5, <3>0, CallerMoves
    <3>2. Cardinality(rows') \in Nat
      BY <2>5, FS_CardinalityType DEF RowsInv
    <3>3. Room'
      <4>1. CASE rows = {}
        <5>1. rows' = {} /\ Cardinality(rows') = 0
          BY <2>1, <4>1, FS_EmptySet
        <5>. QED
          BY <1>0, <3>1, <5>1, RoomFor, <2>20 DEF Room
      <4>2. CASE rows # {}
        <5>1. Cardinality(rows') < Cardinality(rows)
          BY <1>0, <2>1, <4>2, OldestGoes
        <5>. QED
          BY <1>0, <3>1, <3>2, <5>1, RoomFor, <2>20 DEF Room
      <4>. QED
        BY <4>1, <4>2
    <3>. QED
      BY <2>5, <3>1, <3>3, <2>20 DEF SessionsInv
  <2>. QED
    BY <2>3, <2>6, <2>7
<1>7. ASSUME NEW c \in Callers, Sessions!Create(c) PROVE SessionsInv' /\ Descends
  <2>20. FaultsInv' /\ unevicted' = unevicted
    BY <1>17, <1>7 DEF Sessions!Create, Sessions!faults
  <2>. DEFINE r == [id |-> minted + 1, token |-> minted + 1, prev |-> 0, expired |-> FALSE]
  <2>1. /\ caller[c].pc = "create" /\ minted' = minted + 1 /\ minted' <= MaxTokens
        /\ rows' = rows \cup {r} /\ caller' = [caller EXCEPT ![c] = Sessions!IdleCaller]
    BY <1>7 DEF Sessions!Create, Sessions!Return
  <2>2. r \in Sessions!Row
    BY <1>0, <2>1 DEF Sessions!Row
  <2>3. r.id = minted' /\ r.token = minted' /\ r.prev = 0
    BY <2>1
  <2>. HIDE DEF r
  <2>4. RowsInv' /\ Descends /\ Cardinality(rows') = Cardinality(rows) + 1
    BY <1>0, <2>1, <2>2, <2>3, InsertedRow
  <2>5. CallersInv' /\ Creating' = Creating \ {c}
    BY <1>0, <2>1, <2>4, IdleOK, CallerMoves
  <2>6. c \in Creating
    BY <2>1 DEF Creating
  <2>7. Room'
    BY <1>0, <2>4, <2>5, <2>6, <2>20 DEF Room
  <2>. QED
    BY <2>4, <2>5, <2>7, <2>20 DEF SessionsInv
<1>8. ASSUME NEW c \in Callers, NEW t \in 1 .. minted, Sessions!Refresh(c, t)
      PROVE  SessionsInv' /\ Descends
  <2>20. FaultsInv' /\ unevicted' = unevicted
    BY <1>17, <1>8 DEF Sessions!Refresh, Sessions!faults
  <2>. DEFINE q == [caller[c] EXCEPT !.pc = "find", !.token = t]
  <2>1. caller' = [caller EXCEPT ![c] = q] /\ UNCHANGED <<rows, minted>>
    BY <1>0, <1>8 DEF Sessions!Refresh
  <2>2. t \in 0 .. MaxTokens
    BY <1>0
  <2>3. q \in Sessions!Caller /\ q.pc = "find" /\ q.token = t
    BY <1>0, <2>2 DEF Sessions!Caller
  <2>. HIDE DEF q
  <2>. QED
    BY <1>1, <2>20, <1>3, <2>1, <2>3
<1>9. ASSUME NEW c \in Callers, Sessions!Find(c) PROVE SessionsInv' /\ Descends
  <2>20. FaultsInv' /\ unevicted' = unevicted
    BY <1>17, <1>9 DEF Sessions!Find, Sessions!faults
  <2>0. UNCHANGED <<rows, minted>> /\ caller[c].pc = "find" /\ caller[c].token \in 1 .. minted
    BY <1>0, <1>9 DEF Sessions!Find, CallersInv
  <2>1. CASE caller' = [caller EXCEPT ![c].pc = "reuse"]
    <3>. DEFINE q == [caller[c] EXCEPT !.pc = "reuse"]
    <3>1. /\ caller' = [caller EXCEPT ![c] = q] /\ q \in Sessions!Caller /\ q.pc = "reuse"
          /\ q.token = caller[c].token
      BY <1>0, <2>1 DEF Sessions!Caller
    <3>. HIDE DEF q
    <3>. QED
      BY <1>1, <2>20, <1>3, <2>0, <3>1
  <2>2. CASE caller' = [caller EXCEPT ![c] = Sessions!IdleCaller]
    BY <1>1, <2>20, <1>3, <2>0, <2>2, IdleOK
  <2>3. ASSUME NEW r \in rows, r.token = caller[c].token,
               NEW pc \in {"remove", "rotate"},
               caller' = [caller EXCEPT ![c] = [caller[c] EXCEPT !.pc = pc, !.id = r.id]]
        PROVE  SessionsInv' /\ Descends
    <3>. DEFINE q == [caller[c] EXCEPT !.pc = pc, !.id = r.id]
    <3>1. r.id \in 0 .. MaxTokens
      BY <1>0 DEF RowsInv, Sessions!Row
    <3>2. q \in Sessions!Caller /\ q.pc = pc /\ q.token = caller[c].token /\ q.id = r.id
      BY <1>0, <3>1 DEF Sessions!Caller
    <3>3. caller' = [caller EXCEPT ![c] = q]
      BY <2>3
    <3>. HIDE DEF q
    <3>4. \A s \in rows : Holds(s, q.token) => s.id = q.id
      BY <1>0, <2>0, <2>3, <3>2 DEF RowsInv, Holds
    <3>. QED
      BY <1>1, <2>20, <1>3, <2>0, <3>2, <3>3, <3>4
  <2>4. \/ caller' = [caller EXCEPT ![c].pc = "reuse"]
        \/ caller' = [caller EXCEPT ![c] = Sessions!IdleCaller]
        \/ \E r \in rows : /\ r.token = caller[c].token
                           /\ \E pc \in {"remove", "rotate"} :
                                 caller' = [caller EXCEPT ![c] =
                                               [caller[c] EXCEPT !.pc = pc, !.id = r.id]]
    BY <1>0, <1>9 DEF Sessions!Find, Sessions!Return
  <2>. QED
    BY <2>1, <2>2, <2>3, <2>4
<1>10. ASSUME NEW c \in Callers, Sessions!FindReused(c) PROVE SessionsInv' /\ Descends
  <2>20. FaultsInv' /\ unevicted' = unevicted
    BY <1>17, <1>10 DEF Sessions!FindReused, Sessions!faults
  <2>0. UNCHANGED <<rows, minted>> /\ caller[c].pc = "reuse" /\ caller[c].token \in 1 .. minted
    BY <1>0, <1>10 DEF Sessions!FindReused, CallersInv
  <2>1. CASE caller' = [caller EXCEPT ![c] = Sessions!IdleCaller]
    BY <1>1, <2>20, <1>3, <2>0, <2>1, IdleOK
  <2>2. ASSUME NEW r \in rows, r.prev = caller[c].token,
               caller' = [caller EXCEPT ![c].pc = "remove", ![c].id = r.id]
        PROVE  SessionsInv' /\ Descends
    <3>. DEFINE q == [caller[c] EXCEPT !.pc = "remove", !.id = r.id]
    <3>1. r.id \in 0 .. MaxTokens
      BY <1>0 DEF RowsInv, Sessions!Row
    <3>2. q \in Sessions!Caller /\ q.pc = "remove" /\ q.token = caller[c].token /\ q.id = r.id
      BY <1>0, <3>1 DEF Sessions!Caller
    <3>3. caller' = [caller EXCEPT ![c] = q]
      BY <1>0, <2>2
    <3>. HIDE DEF q
    <3>4. \A s \in rows : Holds(s, q.token) => s.id = q.id
      BY <1>0, <2>0, <2>2, <3>2 DEF RowsInv, Holds
    <3>. QED
      BY <1>1, <2>20, <1>3, <2>0, <3>2, <3>3, <3>4
  <2>. QED
    BY <1>10, <2>1, <2>2 DEF Sessions!FindReused, Sessions!Reused, Sessions!Return
<1>11. ASSUME NEW c \in Callers, Sessions!DeleteFound(c) PROVE SessionsInv' /\ Descends
  <2>20. FaultsInv' /\ unevicted' = unevicted
    BY <1>17, <1>11 DEF Sessions!DeleteFound, Sessions!faults
  <2>1. /\ rows' \subseteq rows /\ minted' = minted
        /\ caller' = [caller EXCEPT ![c] = Sessions!IdleCaller]
    BY <1>11 DEF Sessions!DeleteFound, Sessions!Without, Sessions!Return
  <2>2. RowsInv' /\ Descends /\ Cardinality(rows') <= Cardinality(rows)
    BY <1>0, <2>1, DeletedRows
  <2>. QED
    BY <1>1, <2>20, <2>1, <2>2, IdleOK
<1>12. ASSUME NEW c \in Callers, Sessions!Rotate(c) PROVE SessionsInv' /\ Descends
  <2>20. FaultsInv' /\ unevicted' = unevicted
    BY <1>17, <1>12 DEF Sessions!Rotate, Sessions!faults
  <2>. DEFINE id == caller[c].id
              New(r) == [r EXCEPT !.prev = r.token, !.token = minted + 1, !.expired = FALSE]
  <2>0. minted < MaxTokens
        /\ rows' = Sessions!Without(id) \cup {New(r) : r \in rows \ Sessions!Without(id)}
    BY <1>12 DEF Sessions!Rotate, Sessions!Rotated
  <2>1. /\ minted' = minted + 1 /\ minted' <= MaxTokens
        /\ caller' = [caller EXCEPT ![c] = Sessions!IdleCaller]
    BY <1>0, <1>12 DEF Sessions!Rotate, Sessions!Return
  <2>. HIDE DEF id
  <2>2. RowsInv' /\ Descends /\ Cardinality(rows') <= Cardinality(rows)
    <3>1. CASE \A r \in rows : r.id # id
      <4>1. Sessions!Without(id) = rows
        BY <3>1 DEF Sessions!Without
      <4>2. rows' = rows
        BY <2>0, <4>1
      <4>. HIDE DEF New
      <4>3. /\ minted' \in 0 .. MaxTokens /\ Cardinality(rows) <= minted'
            /\ \A r \in rows : r.id <= minted' /\ r.token <= minted' /\ r.prev <= minted'
        BY <1>0, <2>1 DEF RowsInv, Sessions!Row
      <4>4. ASSUME NEW r \in rows, NEW s \in rows, NEW t \in 1 .. minted', Holds(r, t), Holds(s, t)
            PROVE  r = s
        <5>1. r.token \in Nat /\ r.prev \in Nat /\ r.token <= minted /\ r.prev <= minted
          BY DEF SessionsInv, RowsInv, Sessions!Row
        <5>2. t \in 1 .. minted
          BY <1>0, <2>1, <4>4, <5>1 DEF Holds
        <5>. QED
          BY <1>0, <4>4, <5>2 DEF RowsInv
      <4>5. RowsInv'
        BY <1>0, <4>2, <4>3, <4>4 DEF RowsInv
      <4>. QED
        BY <1>0, <2>1, <4>2, <4>5 DEF Descends
    <3>2. ASSUME NEW r \in rows, r.id = id
          PROVE  RowsInv' /\ Descends /\ Cardinality(rows') <= Cardinality(rows)
      <4>1. rows \ Sessions!Without(id) = {r}
        BY <1>0, <3>2 DEF RowsInv, Sessions!Without
      <4>2. rows' = Sessions!Without(r.id) \cup {New(r)}
        BY <2>0, <3>2, <4>1
      <4>3. r \in Sessions!Row /\ r.token \in 0 .. MaxTokens /\ minted + 1 \in 1 .. MaxTokens
        BY <1>0, <2>1 DEF RowsInv, Sessions!Row
      <4>4. /\ New(r) \in Sessions!Row /\ New(r).id = r.id /\ New(r).token = minted'
            /\ New(r).prev = r.token
        BY <2>1, <4>3 DEF Sessions!Row
      <4>5. PICK q \in Sessions!Row : q = New(r)
        BY <4>4
      <4>. HIDE DEF New
      <4>6. /\ q.id = r.id /\ q.token = minted' /\ q.prev \in {r.prev, r.token}
            /\ minted' \in {minted, minted + 1} /\ minted' # minted
            /\ rows' = Sessions!Without(r.id) \cup {q}
        BY <1>0, <2>1, <4>2, <4>4, <4>5
      <4>7. RowsInv' /\ Descends /\ Cardinality(rows') = Cardinality(rows)
        BY <1>0, <2>1, <4>6, WrittenRow
      <4>. QED
        BY <1>0, <4>7
    <3>. QED
      BY <3>1, <3>2
  <2>. QED
    BY <1>1, <2>20, <2>1, <2>2, IdleOK
<1>13. ASSUME rows' \subseteq rows, minted' = minted, caller' = caller,
              UNCHANGED <<unevicted, unrevoked>>
       PROVE  SessionsInv' /\ Descends
  BY <1>0, <1>2, <1>13, DeletedRows
<1>14. CASE (\E t \in 1 .. minted : Sessions!Logout(t)) \/ Sessions!Revoke \/ Sessions!DeleteAll
             \/ Sessions!Clean
  BY <1>13, <1>14
     DEF Sessions!Logout, Sessions!Revoke, Sessions!DeleteAll, Sessions!Clean, Sessions!Without,
         Sessions!faults
<1>15. CASE Sessions!Expire
  <2>1. PICK r \in rows : rows' = Sessions!Without(r.id) \cup {[r EXCEPT !.expired = TRUE]}
    BY <1>15 DEF Sessions!Expire
  <2>. DEFINE q == [r EXCEPT !.expired = TRUE]
  <2>2. q \in Sessions!Row /\ q.id = r.id /\ q.token = r.token /\ q.prev = r.prev
    BY <1>0 DEF RowsInv, Sessions!Row
  <2>3. minted' = minted /\ caller' = caller /\ UNCHANGED <<unevicted, unrevoked>>
    BY <1>15 DEF Sessions!Expire, Sessions!faults
  <2>. HIDE DEF q
  <2>4. RowsInv' /\ Descends /\ Cardinality(rows') = Cardinality(rows)
    BY <1>0, <2>1, <2>2, <2>3, WrittenRow DEF q
  <2>. QED
    BY <1>0, <1>2, <2>3, <2>4
<1>18. ASSUME NEW c \in Callers, Sessions!Abandon(c) PROVE SessionsInv' /\ Descends
  <2>1. /\ caller' = [caller EXCEPT ![c] = Sessions!IdleCaller]
        /\ UNCHANGED <<rows, minted, unevicted>>
    BY <1>18 DEF Sessions!Abandon, Sessions!Return
  <2>2. FaultsInv'
    BY <1>0, <1>18 DEF Sessions!Abandon, FaultsInv
  <2>. QED
    BY <1>1, <1>3, <2>1, <2>2, IdleOK
<1>19. ASSUME NEW c \in Callers, Sessions!EvictionFails(c) PROVE SessionsInv' /\ Descends
  <2>. DEFINE q == [caller[c] EXCEPT !.pc = "create"]
  <2>1. /\ caller' = [caller EXCEPT ![c] = q] /\ q \in Sessions!Caller /\ q.pc = "create"
    BY <1>0, <1>19 DEF Sessions!EvictionFails, Sessions!Caller
  <2>2. UNCHANGED <<rows, minted>> /\ unevicted' = unevicted + 1 /\ FaultsInv'
    BY <1>0, <1>19 DEF Sessions!EvictionFails, FaultsInv
  <2>. HIDE DEF q
  <2>3. RowsInv' /\ Descends
    BY <1>3, <2>2
  <2>4. CallersInv' /\ Creating' = Creating \cup {c}
    BY <1>0, <2>1, <2>3, CallerMoves
  <2>5. Room'
    BY <1>0, <2>2, <2>4, RoomFor DEF Room
  <2>. QED
    BY <2>2, <2>3, <2>4, <2>5 DEF SessionsInv
<1>16. CASE UNCHANGED Sessions!sessionVars
  BY <1>13, <1>16 DEF Sessions!sessionVars
<1>. QED
  BY <1>4, <1>5, <1>6, <1>7, <1>8, <1>9, <1>10, <1>11, <1>12, <1>14, <1>15, <1>16,
     <1>18, <1>19
     DEF Sessions!Next

(* Only the end of a refresh turns its caller back to idle, and by then no *)
(* session has the token that came back as its previous one.               *)
LEMMA ReuseStep ==
    ASSUME SessionsInv, Sessions!Next,
           NEW c \in Callers, caller[c].pc \in {"reuse", "remove"}, caller'[c].pc = "idle",
           unrevoked' = unrevoked
    PROVE  \A r \in rows' : r.prev # caller[c].token
<1>0. /\ caller \in [Callers -> Sessions!Caller] /\ RowsInv /\ CallersInv
      /\ unrevoked \in Nat
  BY ControlAssumption DEF SessionsInv, CallersInv, FaultsInv
<1>1. ASSUME NEW d \in Callers, d # c, NEW q, caller' = [caller EXCEPT ![d] = q] PROVE FALSE
  BY <1>0, <1>1
<1>2. ASSUME caller' = caller PROVE FALSE
  BY <1>0, <1>2
<1>3. CASE Sessions!FindReused(c)
  <2>1. CASE Sessions!Reused(caller[c].token) = {}
    BY <1>3, <2>1 DEF Sessions!FindReused, Sessions!Reused
  <2>2. CASE \E r \in Sessions!Reused(caller[c].token) :
                caller' = [caller EXCEPT ![c].pc = "remove", ![c].id = r.id]
    BY <1>0, <2>2 DEF Sessions!Caller
  <2>. QED
    BY <1>3, <2>1, <2>2 DEF Sessions!FindReused
<1>4. CASE Sessions!DeleteFound(c)
  BY <1>0, <1>4 DEF Sessions!DeleteFound, Sessions!Without, CallersInv, Holds
<1>5. ASSUME NEW d \in Callers, d # c,
             \/ Sessions!Login(d) \/ Sessions!Count(d) \/ Sessions!DeleteOldest(d)
             \/ Sessions!Create(d) \/ Sessions!Find(d) \/ Sessions!FindReused(d)
             \/ Sessions!DeleteFound(d) \/ Sessions!Rotate(d)
             \/ Sessions!Abandon(d) \/ Sessions!EvictionFails(d)
             \/ \E t \in 1 .. minted : Sessions!Refresh(d, t)
      PROVE  FALSE
  <2>1. caller'[c] = caller[c]
    BY <1>0, <1>5 DEF Sessions!Login, Sessions!Count, Sessions!DeleteOldest, Sessions!Create,
       Sessions!Find, Sessions!FindReused, Sessions!DeleteFound, Sessions!Rotate,
       Sessions!Refresh, Sessions!Abandon, Sessions!EvictionFails, Sessions!Return
  <2>. QED
    BY <2>1
<1>6. CASE (\E t \in 1 .. minted : Sessions!Logout(t)) \/ Sessions!Revoke \/ Sessions!DeleteAll
            \/ Sessions!Expire \/ Sessions!Clean
  BY <1>2, <1>6 DEF Sessions!Logout, Sessions!Revoke, Sessions!DeleteAll, Sessions!Expire,
     Sessions!Clean
<1>7. CASE Sessions!Abandon(c) \/ Sessions!EvictionFails(c)
  BY <1>0, <1>7 DEF Sessions!Abandon, Sessions!EvictionFails
<1>. QED
  BY <1>3, <1>4, <1>5, <1>6, <1>7 DEF Sessions!Next, Sessions!Login, Sessions!Count,
     Sessions!DeleteOldest, Sessions!Create, Sessions!Find, Sessions!Rotate, Sessions!Refresh

(* Logins exceed the limit by no more than overlap and failed to evict,    *)
(* a session that is gone stays gone, and a token that was rotated away    *)
(* ends its session when it comes back (issuer.go, login_service.go).      *)
THEOREM SessionsCorrect == Sessions!Spec => SessionsSafe
<1>1. Sessions!Spec => []SessionsInv
  <2>1. SessionsInv /\ [Sessions!Next]_(Sessions!sessionVars) => SessionsInv'
    BY SessionsStep
  <2>. QED
    BY <2>1, SessionsInit, PTL DEF Sessions!Spec
<1>2. SessionsInv => Sessions!SessionsBounded
  <2>. SUFFICES ASSUME SessionsInv PROVE Sessions!SessionsBounded
    OBVIOUS
  <2>1. Cardinality(rows) \in Nat /\ Room /\ unevicted \in Nat
    BY FS_CardinalityType, ControlAssumption DEF SessionsInv, RowsInv, FaultsInv
  <2>. QED
    BY <2>1, CreatingCounts, InstanceCardinality DEF Room, Sessions!SessionsBounded
<1>3. SessionsInv /\ [Sessions!Next]_(Sessions!sessionVars)
      => [\A r \in rows' :
             (\A old \in rows : old.id # r.id) => r.id > minted]_(Sessions!sessionVars)
  BY SessionsStep DEF Descends
<1>4. SessionsInv /\ [Sessions!Next]_(Sessions!sessionVars)
      => [\A c \in Callers :
             (caller[c].pc \in {"reuse", "remove"} /\ caller'[c].pc = "idle"
                 /\ unrevoked' = unrevoked)
                 => \A r \in rows' : r.prev # caller[c].token]_(Sessions!sessionVars)
  BY ReuseStep
<1>5. Sessions!Spec => Sessions!RevokedStaysRevoked
  BY <1>1, <1>3, PTL DEF Sessions!Spec, Sessions!RevokedStaysRevoked
<1>6. Sessions!Spec => Sessions!ReuseEndsSession
  BY <1>1, <1>4, PTL DEF Sessions!Spec, Sessions!ReuseEndsSession
<1>. QED
  BY <1>1, <1>2, <1>5, <1>6, PTL DEF SessionsSafe, Sessions!SessionsSafe

=============================================================================
