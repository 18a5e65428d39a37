------------------------ MODULE ChannelBreakerProofs ------------------------
(***************************************************************************)
(* Proofs about ChannelBreaker for every set of channels and callers and   *)
(* every threshold, cooldown and timeout that BreakerAssumption allows.    *)
(*                                                                         *)
(* The invariant is inductive entry by entry: BreakerEntryProofs shows     *)
(* that each method keeps one entry well formed, the first part here adds  *)
(* the age of the last trial, the second lifts both to the steps of the    *)
(* specification, the last two use it.                                     *)
(***************************************************************************)
EXTENDS ChannelBreaker, BreakerEntryProofs

-----------------------------------------------------------------------------
(* The age of the last trial, entry by entry.                              *)

(* Allow: only a trial touches the entry, and the trial is brand new.      *)
LEMMA AllowProbe ==
  ASSUME NEW e \in Entry
  PROVE  /\ IsTrial(e) => ProbeOK(AfterAllow(e), 0)
         /\ ~IsTrial(e) => AfterAllow(e) = e
  BY DEF AfterAllow, ProbeOK, IsTrial, Entry

(* An outcome never makes the breaker look as if a trial were older.       *)
LEMMA OutcomeProbe ==
  ASSUME NEW e \in Entry, EntryOK(e),
         NEW age \in 0..TrialTimeout, ProbeOK(e, age)
  PROVE  ProbeOK(AfterSuccess(e), age) /\ ProbeOK(AfterFailure(e), age)
<1>1. ProbeOK(AfterSuccess(e), age)
  BY DEF AfterSuccess, ProbeOK, Entry
<1>2. ASSUME NEW f \in Entry, NEW n
      PROVE  ProbeOK(Opened(f, n), age)
  BY BreakerAssumption DEF Opened, ProbeOK, Entry
<1>3. ASSUME NEW f \in Entry, f.state = "closed"
      PROVE  ProbeOK(Counted(f), age)
  <2> DEFINE g == [f EXCEPT !.failures = f.failures + 1]
  <2>1. CASE f.failures + 1 >= Threshold
    <3>1. Counted(f) = Opened(g, InitialCooldown)
      BY <2>1 DEF Counted
    <3>2. QED
      BY <3>1, BreakerAssumption DEF Opened, ProbeOK, Entry
  <2>2. CASE ~(f.failures + 1 >= Threshold)
    BY <1>3, <2>2 DEF Counted, ProbeOK, Entry
  <2>3. QED
    BY <2>1, <2>2
<1>4. CASE e.state = "absent"
  <2>1. Created \in Entry /\ Created.state = "closed"
    BY AbsentGood, FieldValues DEF Created, Absent, Entry
  <2>2. AfterFailure(e) = Counted(Created)
    BY <1>4 DEF AfterFailure
  <2>3. QED
    BY <1>1, <1>3, <2>1, <2>2
<1>5. CASE e.state = "closed"
  BY <1>1, <1>3, <1>5 DEF AfterFailure
<1>6. CASE e.state = "half-open"
  BY <1>1, <1>2, <1>6 DEF AfterFailure
<1>7. CASE e.state = "open"
  BY <1>1, <1>7 DEF AfterFailure, AfterOpenFailure, ProbeOK, Entry
<1>8. QED
  BY <1>4, <1>5, <1>6, <1>7, FieldValues DEF Entry

(* The sweep and the clock keep it true.                                   *)
LEMMA TimeProbe ==
  ASSUME NEW e \in Entry, EntryOK(e),
         NEW age \in 0..TrialTimeout, ProbeOK(e, age)
  PROVE  /\ ProbeOK(AfterPrune(e), age)
         /\ OlderProbe(age) \in 0..TrialTimeout
         /\ ProbeOK(Older(e), OlderProbe(age))
<1>1. ProbeOK(AfterPrune(e), age)
  BY DEF AfterPrune, Absent, ProbeOK
<1>2. OlderProbe(age) \in 0..TrialTimeout
  BY BreakerAssumption DEF OlderProbe
<1>3. ProbeOK(Older(e), OlderProbe(age))
  BY OlderGood, BreakerAssumption, FieldValues DEF OlderProbe, ProbeOK, Entry
<1>4. QED
  BY <1>1, <1>2, <1>3

(* A trial is only let through when the previous one is old enough: an     *)
(* open entry has waited its cooldown, which is at least the trial         *)
(* timeout, and a half-open one has outlived its reservation.              *)
LEMMA TrialIsLate ==
  ASSUME NEW e \in Entry, EntryOK(e), Allowed(e), IsTrial(e),
         NEW age \in 0..TrialTimeout, ProbeOK(e, age)
  PROVE  age = TrialTimeout
  BY BreakerAssumption DEF Allowed, RetryAfter, IsTrial, EntryOK, ProbeOK, Entry

-----------------------------------------------------------------------------
(* The invariant of the specification.                                     *)
IInv == TypeOK /\ EntriesOK /\ ProbeAgeOK

(* The breaker starts with an empty map.                                   *)
LEMMA InitIInv == Init => IInv
  BY AbsentGood, BreakerAssumption
     DEF Init, IInv, TypeOK, EntriesOK, ProbeAgeOK, ProbeOK, Absent, Idle

(* The typing that an attempt in flight gives.                             *)
LEMMA InFlightIsAttempt ==
  ASSUME TypeOK, NEW k \in Callers, InFlight(k)
  PROVE  call[k] \in Attempt /\ call[k].channel \in Channels
  BY DEF TypeOK, InFlight, Attempt, Idle

(* Updating one entry and its trial age preserves the invariant when both  *)
(* are well formed together.                                               *)
LEMMA OneEntry ==
  ASSUME IInv, NEW c \in Channels,
         NEW e \in Entry, EntryOK(e),
         NEW age \in 0..TrialTimeout, ProbeOK(e, age),
         entries' = [entries EXCEPT ![c] = e],
         probeAge' = [probeAge EXCEPT ![c] = age],
         call' \in [Callers -> {Idle} \cup Attempt]
  PROVE  IInv'
  BY DEF IInv, TypeOK, EntriesOK, ProbeAgeOK

(* Every step of the specification preserves the invariant.                *)
LEMMA StepIInv == IInv /\ [Next]_vars => IInv'
<1> SUFFICES ASSUME IInv, [Next]_vars PROVE IInv'
  OBVIOUS
<1>0. /\ entries \in [Channels -> Entry]
      /\ probeAge \in [Channels -> 0..TrialTimeout]
      /\ call \in [Callers -> {Idle} \cup Attempt]
      /\ \A c \in Channels : EntryOK(entries[c]) /\ ProbeOK(entries[c], probeAge[c])
  BY DEF IInv, TypeOK, EntriesOK, ProbeAgeOK
<1>1. ASSUME NEW k \in Callers, NEW c \in Channels, Admit(k, c)
      PROVE  IInv'
  <2>1. call' \in [Callers -> {Idle} \cup Attempt]
    BY <1>0, <1>1 DEF Admit, Attempt, IsTrial
  <2>2. entries' = [entries EXCEPT ![c] = AfterAllow(entries[c])]
    BY <1>1 DEF Admit
  <2>3. AfterAllow(entries[c]) \in Entry /\ EntryOK(AfterAllow(entries[c]))
    BY <1>0, AllowGood
  <2>4. CASE IsTrial(entries[c])
    <3>1. probeAge' = [probeAge EXCEPT ![c] = 0]
      BY <1>1, <2>4 DEF Admit
    <3>2. 0 \in 0..TrialTimeout /\ ProbeOK(AfterAllow(entries[c]), 0)
      BY <1>0, <2>4, AllowProbe, BreakerAssumption
    <3>3. QED
      BY <2>1, <2>2, <2>3, <3>1, <3>2, OneEntry
  <2>5. CASE ~IsTrial(entries[c])
    <3>1. probeAge' = [probeAge EXCEPT ![c] = probeAge[c]]
      BY <1>0, <1>1, <2>5 DEF Admit
    <3>2. ProbeOK(AfterAllow(entries[c]), probeAge[c])
      BY <1>0, <2>5, AllowProbe
    <3>3. QED
      BY <1>0, <2>1, <2>2, <2>3, <3>1, <3>2, OneEntry
  <2>6. QED
    BY <2>4, <2>5
<1>2. ASSUME NEW k \in Callers, Succeed(k)
      PROVE  IInv'
  <2> DEFINE c == call[k].channel
  <2>1. call[k] \in Attempt /\ c \in Channels
    BY <1>2, InFlightIsAttempt DEF IInv, Succeed
  <2>2. call' \in [Callers -> {Idle} \cup Attempt]
    BY <1>0, <1>2, <2>1 DEF Succeed, Attempt
  <2>3. entries' = [entries EXCEPT ![c] = AfterSuccess(entries[c])]
    BY <1>2 DEF Succeed
  <2>4. probeAge' = [probeAge EXCEPT ![c] = probeAge[c]]
    BY <1>0, <1>2 DEF Succeed
  <2>5. AfterSuccess(entries[c]) \in Entry /\ EntryOK(AfterSuccess(entries[c]))
    BY <1>0, <2>1, SuccessGood
  <2>6. ProbeOK(AfterSuccess(entries[c]), probeAge[c])
    BY <1>0, <2>1, OutcomeProbe
  <2> HIDE DEF c
  <2>7. QED
    BY <1>0, <2>1, <2>2, <2>3, <2>4, <2>5, <2>6, OneEntry
<1>3. ASSUME NEW k \in Callers, Fail(k)
      PROVE  IInv'
  <2> DEFINE c == call[k].channel
  <2>1. c \in Channels
    BY <1>3, InFlightIsAttempt DEF IInv, Fail
  <2>2. call' \in [Callers -> {Idle} \cup Attempt]
    BY <1>0, <1>3 DEF Fail
  <2>3. entries' = [entries EXCEPT ![c] = AfterFailure(entries[c])]
    BY <1>3 DEF Fail
  <2>4. probeAge' = [probeAge EXCEPT ![c] = probeAge[c]]
    BY <1>0, <1>3 DEF Fail
  <2>5. AfterFailure(entries[c]) \in Entry /\ EntryOK(AfterFailure(entries[c]))
    BY <1>0, <2>1, FailureGood
  <2>6. ProbeOK(AfterFailure(entries[c]), probeAge[c])
    BY <1>0, <2>1, OutcomeProbe
  <2> HIDE DEF c
  <2>7. QED
    BY <1>0, <2>1, <2>2, <2>3, <2>4, <2>5, <2>6, OneEntry
<1>4. ASSUME NEW k \in Callers, Leave(k)
      PROVE  IInv'
  BY <1>0, <1>4 DEF Leave, IInv, TypeOK, EntriesOK, ProbeAgeOK
<1>5. CASE Prune
  <2>1. \A c \in Channels : /\ AfterPrune(entries[c]) \in Entry
                            /\ EntryOK(AfterPrune(entries[c]))
                            /\ ProbeOK(AfterPrune(entries[c]), probeAge[c])
    BY <1>0, PruneGood, TimeProbe
  <2>2. QED
    BY <1>0, <1>5, <2>1 DEF Prune, IInv, TypeOK, EntriesOK, ProbeAgeOK
<1>6. CASE Tick
  <2>1. \A c \in Channels : /\ Older(entries[c]) \in Entry
                            /\ EntryOK(Older(entries[c]))
                            /\ OlderProbe(probeAge[c]) \in 0..TrialTimeout
                            /\ ProbeOK(Older(entries[c]), OlderProbe(probeAge[c]))
    BY <1>0, OlderGood, TimeProbe
  <2>2. QED
    BY <1>0, <1>6, <2>1 DEF Tick, IInv, TypeOK, EntriesOK, ProbeAgeOK
<1>7. CASE UNCHANGED vars
  BY <1>0, <1>7 DEF vars, IInv, TypeOK, EntriesOK, ProbeAgeOK
<1>8. QED
  BY <1>1, <1>2, <1>3, <1>4, <1>5, <1>6, <1>7 DEF Next

(* TypeCorrect: the type invariant and its strengthening hold in every     *)
(* reachable state of the breaker, whatever its callers do.                *)
THEOREM TypeCorrect == Spec => [](TypeOK /\ EntriesOK /\ ProbeAgeOK)
<1>1. Spec => []IInv
  BY InitIInv, StepIInv, PTL DEF Spec
<1>2. IInv => TypeOK /\ EntriesOK /\ ProbeAgeOK
  BY DEF IInv
<1>3. QED
  BY <1>1, <1>2, PTL

(* SpacedTrials: for all timeouts, two half-open trials of one channel are *)
(* admitted at least breakerTrialTimeout apart.                            *)
THEOREM SpacedTrials == Spec => ProbesSpaced
<1> DEFINE Spaced == \A c \in Channels :
                       probeAge'[c] < probeAge[c] => probeAge[c] = TrialTimeout
<1>1. IInv /\ [Next]_vars => [Spaced]_vars
  <2> SUFFICES ASSUME IInv, Next PROVE Spaced
    OBVIOUS
  <2>0. /\ entries \in [Channels -> Entry]
        /\ probeAge \in [Channels -> 0..TrialTimeout]
        /\ \A c \in Channels : EntryOK(entries[c]) /\ ProbeOK(entries[c], probeAge[c])
    BY DEF IInv, TypeOK, EntriesOK, ProbeAgeOK
  <2>1. ASSUME NEW k \in Callers, NEW c \in Channels, Admit(k, c)
        PROVE  Spaced
    <3>1. IsTrial(entries[c]) => probeAge[c] = TrialTimeout
      BY <2>0, <2>1, TrialIsLate DEF Admit
    <3>2. QED
      BY <2>0, <2>1, <3>1, BreakerAssumption DEF Admit
  <2>2. ASSUME NEW k \in Callers, Succeed(k) \/ Fail(k) \/ Leave(k)
        PROVE  Spaced
    BY <2>0, <2>2, BreakerAssumption DEF Succeed, Fail, Leave
  <2>3. CASE Prune
    BY <2>0, <2>3, BreakerAssumption DEF Prune
  <2>4. CASE Tick
    BY <2>0, <2>4, BreakerAssumption DEF Tick, OlderProbe
  <2>5. QED
    BY <2>1, <2>2, <2>3, <2>4 DEF Next
<1>2. Spec => []IInv
  BY InitIInv, StepIInv, PTL DEF Spec
<1>3. QED
  BY <1>1, <1>2, PTL DEF Spec, ProbesSpaced

-----------------------------------------------------------------------------
(* A failure is never forgotten but by a success.                          *)

(* Whether or not the breaker trips, the failure has been counted.         *)
LEMMA CountedMore ==
  ASSUME NEW e \in Entry, EntryOK(e), e.state = "closed"
  PROVE  Counted(e).failures = e.failures + 1
<1> DEFINE n == e.failures + 1
           f == [e EXCEPT !.failures = n]
<1>1. n \in 0..Threshold
  BY BreakerAssumption DEF Entry, EntryOK
<1>2. f \in Entry /\ f.failures = n
  BY <1>1 DEF Entry
<1>3. Counted(e) = Opened(f, InitialCooldown) \/ Counted(e) = f
  BY DEF Counted
<1> HIDE DEF f, n
<1>4. Opened(f, InitialCooldown).failures = f.failures
  BY <1>2 DEF Opened, Entry
<1>5. QED
  BY <1>2, <1>3, <1>4 DEF n

(* No report of a failure, sweep or tick lowers the count of an entry.     *)
LEMMA CountKept ==
  ASSUME NEW e \in Entry, EntryOK(e)
  PROVE  /\ AfterAllow(e).failures = e.failures
         /\ AfterPrune(e).failures = e.failures
         /\ Older(e).failures = e.failures
         /\ AfterFailure(e).failures >= e.failures
<1>1. AfterAllow(e).failures = e.failures /\ Older(e).failures = e.failures
  BY DEF AfterAllow, Older, Entry
<1>2. AfterPrune(e).failures = e.failures
  BY DEF AfterPrune, Absent
<1>4. CASE e.state = "absent"
  <2>1. e.failures = 0
    BY <1>4 DEF EntryOK
  <2>2. AfterFailure(e) = Counted(Created)
    BY <1>4 DEF AfterFailure
  <2>3. Created \in Entry /\ Created.failures = 0 /\ EntryOK(Created) /\ Created.state = "closed"
    BY AbsentGood, FieldValues, BreakerAssumption DEF Created, Absent, Entry, EntryOK
  <2>4. QED
    BY <1>1, <1>2, <2>1, <2>2, <2>3, CountedMore
<1>5. CASE e.state = "closed"
  <2>1. AfterFailure(e) = Counted(e)
    BY <1>5 DEF AfterFailure
  <2>2. Counted(e).failures = e.failures + 1
    BY <1>5, CountedMore
  <2>3. QED
    BY <1>1, <1>2, <2>1, <2>2, BreakerAssumption DEF Entry
<1>6. CASE e.state \in {"half-open", "open"}
  <2>1. AfterFailure(e).failures = e.failures
    BY <1>6 DEF AfterFailure, Opened, AfterOpenFailure, Entry
  <2>2. QED
    BY <1>1, <1>2, <2>1, BreakerAssumption DEF Entry
<1>7. QED
  BY <1>1, <1>2, <1>4, <1>5, <1>6 DEF Entry, BreakerState

(* FailuresMatter: only a success of the channel lowers its count of       *)
(* failures; Prune and the clock lose none.                                *)
THEOREM FailuresMatter == Spec => FailuresRemembered
<1> DEFINE Remembered ==
        \A c \in Channels : entries'[c].failures < entries[c].failures =>
            \E k \in Callers : InFlight(k) /\ call[k].channel = c
                                /\ call'[k].phase = "streaming"
<1>1. IInv /\ [Next]_vars => [Remembered]_vars
  <2> SUFFICES ASSUME IInv, Next, NEW c \in Channels,
                      entries'[c].failures < entries[c].failures
               PROVE  \E k \in Callers : InFlight(k) /\ call[k].channel = c
                                          /\ call'[k].phase = "streaming"
    OBVIOUS
  <2>0. /\ entries \in [Channels -> Entry] /\ call \in [Callers -> {Idle} \cup Attempt]
        /\ EntryOK(entries[c]) /\ entries[c] \in Entry /\ entries[c].failures \in Int
    BY BreakerAssumption DEF IInv, TypeOK, EntriesOK, Entry
  <2>1. /\ entries'[c] # entries[c] /\ entries'[c] # AfterAllow(entries[c])
        /\ entries'[c] # AfterPrune(entries[c]) /\ entries'[c] # Older(entries[c])
        /\ entries'[c] # AfterFailure(entries[c])
    <3>1. ~(AfterFailure(entries[c]).failures < entries[c].failures)
      <4>1. AfterFailure(entries[c]) \in Entry /\ AfterFailure(entries[c]).failures >= entries[c].failures
        BY <2>0, CountKept, FailureGood
      <4>2. AfterFailure(entries[c]).failures \in Int
        BY <4>1, BreakerAssumption DEF Entry
      <4>3. QED
        BY <2>0, <4>1, <4>2
    <3>2. ~(entries[c].failures < entries[c].failures)
      BY <2>0
    <3>3. QED
      BY <2>0, <3>1, <3>2, CountKept
  <2>2. ASSUME NEW k \in Callers, NEW d \in Channels, Admit(k, d) PROVE FALSE
    BY <2>0, <2>1, <2>2 DEF Admit
  <2>3. ASSUME NEW k \in Callers, Fail(k) PROVE FALSE
    BY <2>0, <2>1, <2>3 DEF Fail
  <2>4. ASSUME NEW k \in Callers, Leave(k) PROVE FALSE
    BY <2>1, <2>4 DEF Leave
  <2>5. ~Prune /\ ~Tick
    BY <2>0, <2>1 DEF Prune, Tick
  <2>6. ASSUME NEW k \in Callers, Succeed(k)
        PROVE  InFlight(k) /\ call[k].channel = c /\ call'[k].phase = "streaming"
    <3>1. InFlight(k) /\ call[k] \in Attempt
      BY <2>0, <2>6 DEF Succeed, InFlight, Idle
    <3>2. call[k].channel = c
      BY <2>0, <2>1, <2>6 DEF Succeed
    <3>3. call'[k].phase = "streaming"
      BY <2>0, <2>6, <3>1 DEF Succeed, Attempt
    <3>4. QED
      BY <3>1, <3>2, <3>3
  <2>7. QED
    BY <2>2, <2>3, <2>4, <2>5, <2>6 DEF Next
<1>2. Spec => []IInv
  BY InitIInv, StepIInv, PTL DEF Spec
<1>3. QED
  BY <1>1, <1>2, PTL DEF Spec, FailuresRemembered

-----------------------------------------------------------------------------
(* The breaker implements the abstract gate.                               *)

(* What an Allow that lets a trial through does to the gate.               *)
LEMMA AllowGate ==
  ASSUME NEW e \in Entry, EntryOK(e), Allowed(e), IsTrial(e)
  PROVE  /\ RetryAfter(e) = 0
         /\ EntryMode(e) # "passing"
         /\ EntryMode(AfterAllow(e)) = "leased"
         /\ RetryAfter(AfterAllow(e)) = TrialTimeout
<1>1. AfterAllow(e) = [e EXCEPT !.state = "half-open",
                                !.trialInFlight = TRUE, !.sinceChange = 0]
  BY DEF AfterAllow
<1>2. /\ AfterAllow(e).state = "half-open" /\ AfterAllow(e).trialInFlight
      /\ AfterAllow(e).sinceChange = 0
  BY <1>1 DEF Entry
<1>3. QED
  BY <1>2, BreakerAssumption DEF Allowed, IsTrial, EntryMode, RetryAfter

(* RecordSuccess makes every attempt pass.                                 *)
LEMMA SuccessGate ==
  ASSUME NEW e \in Entry
  PROVE  /\ EntryMode(AfterSuccess(e)) = "passing"
         /\ RetryAfter(AfterSuccess(e)) = 0
  BY DEF AfterSuccess, EntryMode, RetryAfter, Entry

(* An entry that has just opened makes every caller wait the cooldown.     *)
LEMMA OpenedGate ==
  ASSUME NEW e \in Entry, NEW n \in InitialCooldown..MaxCooldown
  PROVE  /\ EntryMode(Opened(e, n)) = "cooling"
         /\ RetryAfter(Opened(e, n)) = n
<1>1. /\ Opened(e, n).state = "open" /\ Opened(e, n).cooldown = n
      /\ Opened(e, n).sinceOpened = 0
  BY DEF Opened, Entry
<1>2. QED
  BY <1>1, BreakerAssumption DEF EntryMode, RetryAfter

(* RecordFailure either leaves the gate alone or starts a cooldown, and    *)
(* starts none while one is running.                                       *)
LEMMA FailureGate ==
  ASSUME NEW e \in Entry, EntryOK(e)
  PROVE  \/ /\ EntryMode(AfterFailure(e)) = EntryMode(e)
            /\ RetryAfter(AfterFailure(e)) = RetryAfter(e)
         \/ /\ EntryMode(e) # "cooling"
            /\ EntryMode(AfterFailure(e)) = "cooling"
            /\ RetryAfter(AfterFailure(e)) \in InitialCooldown..MaxCooldown
<1>0. InitialCooldown \in InitialCooldown..MaxCooldown
  BY BreakerAssumption
<1>1. ASSUME NEW f \in Entry, f.state = "closed"
      PROVE  \/ EntryMode(Counted(f)) = "passing" /\ RetryAfter(Counted(f)) = 0
             \/ /\ EntryMode(Counted(f)) = "cooling"
                /\ RetryAfter(Counted(f)) = InitialCooldown
  <2> DEFINE g == [f EXCEPT !.failures = f.failures + 1]
  <2>1. CASE f.failures + 1 >= Threshold
    <3>1. Counted(f) = Opened(g, InitialCooldown)
      BY <2>1 DEF Counted
    <3>2. /\ Opened(g, InitialCooldown).state = "open"
          /\ Opened(g, InitialCooldown).cooldown = InitialCooldown
          /\ Opened(g, InitialCooldown).sinceOpened = 0
      BY DEF Opened, Entry
    <3>3. QED
      BY <3>1, <3>2, BreakerAssumption DEF EntryMode, RetryAfter
  <2>2. CASE ~(f.failures + 1 >= Threshold)
    <3>1. Counted(f).state = "closed"
      BY <1>1, <2>2 DEF Counted, Entry
    <3>2. QED
      BY <3>1 DEF EntryMode, RetryAfter
  <2>3. QED
    BY <2>1, <2>2
<1>2. CASE e.state = "absent"
  <2>1. Created \in Entry /\ Created.state = "closed"
    BY AbsentGood, FieldValues DEF Created, Absent, Entry
  <2>2. AfterFailure(e) = Counted(Created)
    BY <1>2 DEF AfterFailure
  <2>3. EntryMode(e) = "passing" /\ RetryAfter(e) = 0
    BY <1>2 DEF EntryMode, RetryAfter
  <2>4. QED
    BY <1>0, <1>1, <2>1, <2>2, <2>3
<1>3. CASE e.state = "closed"
  <2>1. AfterFailure(e) = Counted(e)
    BY <1>3 DEF AfterFailure
  <2>2. EntryMode(e) = "passing" /\ RetryAfter(e) = 0
    BY <1>3 DEF EntryMode, RetryAfter
  <2>3. QED
    BY <1>0, <1>1, <1>3, <2>1, <2>2
<1>4. CASE e.state = "half-open"
  <2>1. NextCooldown(e.cooldown) \in InitialCooldown..MaxCooldown
    BY NextCooldownBounds DEF Entry
  <2>2. AfterFailure(e) = Opened(e, NextCooldown(e.cooldown))
    BY <1>4 DEF AfterFailure
  <2>3. EntryMode(e) # "cooling"
    BY <1>4 DEF EntryMode
  <2>4. QED
    BY <2>1, <2>2, <2>3, OpenedGate
<1>5. CASE e.state = "open"
  <2>1. /\ AfterFailure(e).state = e.state
        /\ AfterFailure(e).cooldown = e.cooldown
        /\ AfterFailure(e).sinceOpened = e.sinceOpened
    BY <1>5 DEF AfterFailure, AfterOpenFailure, Entry
  <2>2. QED
    BY <1>5, <2>1 DEF EntryMode, RetryAfter
<1>6. QED
  BY <1>2, <1>3, <1>4, <1>5, FieldValues DEF Entry

(* The sweep is invisible to callers; the clock runs waits down.           *)
LEMMA TimeGate ==
  ASSUME NEW e \in Entry, EntryOK(e)
  PROVE  /\ EntryMode(AfterPrune(e)) = EntryMode(e)
         /\ RetryAfter(AfterPrune(e)) = RetryAfter(e)
         /\ EntryMode(Older(e)) = EntryMode(e)
         /\ RetryAfter(Older(e)) = IF RetryAfter(e) > 0
                                   THEN RetryAfter(e) - 1 ELSE 0
<1>1. /\ EntryMode(AfterPrune(e)) = EntryMode(e)
      /\ RetryAfter(AfterPrune(e)) = RetryAfter(e)
  BY DEF AfterPrune, Absent, EntryMode, RetryAfter
<1>2. EntryMode(Older(e)) = EntryMode(e)
  BY OlderGood DEF EntryMode
<1>3. CASE e.state = "open"
  <2>1. RetryAfter(Older(e)) = IF RetryAfter(e) > 0
                               THEN RetryAfter(e) - 1 ELSE 0
    BY <1>3, OlderGood, BreakerAssumption DEF RetryAfter, EntryOK, Entry
  <2>2. QED
    BY <1>1, <1>2, <2>1
<1>4. CASE e.state = "half-open"
  <2>1. RetryAfter(Older(e)) = IF RetryAfter(e) > 0
                               THEN RetryAfter(e) - 1 ELSE 0
    BY <1>4, OlderGood, BreakerAssumption
       DEF RetryAfter, EntryOK, Entry, ChangeCap
  <2>2. QED
    BY <1>1, <1>2, <2>1
<1>5. CASE e.state \in {"absent", "closed"}
  <2>1. RetryAfter(Older(e)) = 0 /\ RetryAfter(e) = 0
    BY <1>5, OlderGood DEF RetryAfter
  <2>2. QED
    BY <1>1, <1>2, <2>1
<1>6. QED
  BY <1>3, <1>4, <1>5, FieldValues DEF Entry

(* ImplementsGate: for every set of callers and all values of the          *)
(* thresholds and timeouts, the breaker the two planes share behaves as    *)
(* the abstract gate with the Retry-After of Allow as its wait.            *)
THEOREM ImplementsGate == Spec => GateSpec
<1>1. Init => Gate!Init
  BY DEF Init, Gate!Init, gateMode, gateWait, Absent, EntryMode, RetryAfter
<1>2. IInv /\ [Next]_vars => [Gate!Next]_(Gate!gateVars)
  <2> SUFFICES ASSUME IInv, [Next]_vars
               PROVE  Gate!Next \/ (gateMode' = gateMode /\ gateWait' = gateWait)
    BY DEF Gate!gateVars
  <2>0. /\ entries \in [Channels -> Entry]
        /\ \A c \in Channels : EntryOK(entries[c])
    BY DEF IInv, TypeOK, EntriesOK
  <2>a. ASSUME NEW c \in Channels, NEW e \in Entry,
               entries' = [entries EXCEPT ![c] = e]
        PROVE  /\ gateMode' = [gateMode EXCEPT ![c] = EntryMode(e)]
               /\ gateWait' = [gateWait EXCEPT ![c] = RetryAfter(e)]
    BY <2>0, <2>a DEF gateMode, gateWait
  <2>1. ASSUME NEW k \in Callers, NEW c \in Channels, Admit(k, c)
        PROVE  Gate!Next \/ (gateMode' = gateMode /\ gateWait' = gateWait)
    <3>1. entries' = [entries EXCEPT ![c] = AfterAllow(entries[c])]
      BY <2>1 DEF Admit
    <3>2. AfterAllow(entries[c]) \in Entry
      BY <2>0, AllowGood
    <3>3. CASE IsTrial(entries[c])
      <4>1. /\ RetryAfter(entries[c]) = 0
            /\ EntryMode(entries[c]) # "passing"
            /\ EntryMode(AfterAllow(entries[c])) = "leased"
            /\ RetryAfter(AfterAllow(entries[c])) = TrialTimeout
        BY <2>0, <2>1, <3>3, AllowGate DEF Admit
      <4>2. /\ gateMode' = [gateMode EXCEPT ![c] = "leased"]
            /\ gateWait' = [gateWait EXCEPT ![c] = TrialTimeout]
        BY <2>a, <3>1, <3>2, <4>1
      <4>3. gateWait[c] = 0 /\ gateMode[c] # "passing"
        BY <4>1 DEF gateWait, gateMode
      <4>4. QED
        BY <4>2, <4>3 DEF Gate!Next, Gate!Try
    <3>4. CASE ~IsTrial(entries[c])
      <4>1. entries' = entries
        BY <2>0, <3>1, <3>4, AllowProbe
      <4>2. QED
        BY <4>1 DEF gateMode, gateWait
    <3>5. QED
      BY <3>3, <3>4
  <2>2. ASSUME NEW k \in Callers, Succeed(k)
        PROVE  Gate!Next
    <3>1. call[k].channel \in Channels
      BY <2>2, InFlightIsAttempt DEF IInv, Succeed
    <3>2. entries' = [entries EXCEPT ![call[k].channel] =
                         AfterSuccess(entries[call[k].channel])]
      BY <2>2 DEF Succeed
    <3>3. AfterSuccess(entries[call[k].channel]) \in Entry
      BY <2>0, <3>1, SuccessGood
    <3>4. /\ EntryMode(AfterSuccess(entries[call[k].channel])) = "passing"
          /\ RetryAfter(AfterSuccess(entries[call[k].channel])) = 0
      BY <2>0, <3>1, SuccessGate
    <3>5. Gate!Clear(call[k].channel)
      BY <2>a, <3>1, <3>2, <3>3, <3>4 DEF Gate!Clear
    <3>6. QED
      BY <3>1, <3>5 DEF Gate!Next
  <2>3. ASSUME NEW k \in Callers, Fail(k)
        PROVE  Gate!Next \/ (gateMode' = gateMode /\ gateWait' = gateWait)
    <3> DEFINE c == call[k].channel
               f == AfterFailure(entries[c])
    <3>1. c \in Channels
      BY <2>3, InFlightIsAttempt DEF IInv, Fail
    <3>2. entries' = [entries EXCEPT ![c] = f]
      BY <2>3 DEF Fail
    <3>3. f \in Entry
      BY <2>0, <3>1, FailureGood
    <3>4. /\ gateMode' = [gateMode EXCEPT ![c] = EntryMode(f)]
          /\ gateWait' = [gateWait EXCEPT ![c] = RetryAfter(f)]
      BY <2>a, <3>1, <3>2, <3>3
    <3>5. gateMode[c] = EntryMode(entries[c]) /\ gateWait[c] = RetryAfter(entries[c])
      BY <3>1 DEF gateMode, gateWait
    <3>6. \/ /\ EntryMode(f) = EntryMode(entries[c])
             /\ RetryAfter(f) = RetryAfter(entries[c])
          \/ /\ EntryMode(entries[c]) # "cooling"
             /\ EntryMode(f) = "cooling"
             /\ RetryAfter(f) \in InitialCooldown..MaxCooldown
      BY <2>0, <3>1, FailureGate
    <3> HIDE DEF c, f
    <3>7. CASE EntryMode(f) = EntryMode(entries[c]) /\ RetryAfter(f) = RetryAfter(entries[c])
      <4>1. gateMode' = gateMode /\ gateWait' = gateWait
        BY <3>1, <3>4, <3>5, <3>7 DEF gateMode, gateWait
      <4>2. QED
        BY <4>1
    <3>8. CASE /\ EntryMode(entries[c]) # "cooling"
               /\ EntryMode(f) = "cooling"
               /\ RetryAfter(f) \in InitialCooldown..MaxCooldown
      BY <3>1, <3>4, <3>5, <3>8 DEF Gate!Next, Gate!Trip
    <3>9. QED
      BY <3>6, <3>7, <3>8
  <2>4. ASSUME NEW k \in Callers, Leave(k)
        PROVE  gateMode' = gateMode /\ gateWait' = gateWait
    BY <2>4 DEF Leave, gateMode, gateWait
  <2>5. CASE Prune
    BY <2>0, <2>5, TimeGate DEF Prune, gateMode, gateWait
  <2>6. CASE Tick
    <3>1. gateMode' = gateMode
      BY <2>0, <2>6, TimeGate DEF Tick, gateMode
    <3>2. gateWait' = [c \in Channels |-> IF gateWait[c] > 0
                                          THEN gateWait[c] - 1 ELSE 0]
      BY <2>0, <2>6, TimeGate DEF Tick, gateWait
    <3>3. QED
      BY <3>1, <3>2 DEF Gate!Next, Gate!Tick
  <2>7. CASE UNCHANGED vars
    BY <2>7 DEF vars, gateMode, gateWait
  <2>8. QED
    BY <2>1, <2>2, <2>3, <2>4, <2>5, <2>6, <2>7 DEF Next
<1>3. Spec => []IInv
  BY InitIInv, StepIInv, PTL DEF Spec
<1>4. QED
  BY <1>1, <1>2, <1>3, PTL DEF Spec, GateSpec, Gate!Spec
=============================================================================
