------------------------- MODULE BreakerEntryProofs -------------------------
(***************************************************************************)
(* Proofs about one entry of the circuit breaker, for every threshold,     *)
(* cooldown and timeout that BreakerAssumption allows: each method keeps   *)
(* it well formed.  ChannelBreakerProofs and TransmuxManagerProofs lift    *)
(* these lemmas to the steps of the two specifications.                    *)
(***************************************************************************)
EXTENDS BreakerEntry, TLAPS

-----------------------------------------------------------------------------
(* One entry.  The membership of the values the methods assign is stated   *)
(* once, so that the leaves below need not expand the sets.                *)

(* Values that the methods of the breaker assign to fields of an entry.    *)
LEMMA FieldValues ==
  /\ BreakerState = {"absent", "closed", "open", "half-open"}
  /\ ChangeCap \in Nat
  /\ 0 \in 0..ChangeCap /\ 0 \in 0..MaxCooldown /\ 0 \in 0..Threshold
  BY BreakerAssumption DEF BreakerState, ChangeCap

(* A channel without a key in the map starts out well formed.              *)
LEMMA AbsentGood == Absent \in Entry /\ EntryOK(Absent)
<1>1. Absent \in Entry
  BY FieldValues DEF Absent, Entry
<1>2. EntryOK(Absent)
  BY BreakerAssumption DEF Absent, EntryOK
<1>3. QED
  BY <1>1, <1>2

(* An Allow that lets its caller through keeps an entry well formed.       *)
LEMMA AllowGood ==
  ASSUME NEW e \in Entry, EntryOK(e)
  PROVE  AfterAllow(e) \in Entry /\ EntryOK(AfterAllow(e))
<1>1. AfterAllow(e) \in Entry
  BY FieldValues DEF AfterAllow, Entry
<1>2. EntryOK(AfterAllow(e))
  BY DEF AfterAllow, IsTrial, Entry, EntryOK
<1>3. QED
  BY <1>1, <1>2

(* RecordSuccess keeps an entry well formed.                               *)
LEMMA SuccessGood ==
  ASSUME NEW e \in Entry, EntryOK(e)
  PROVE  AfterSuccess(e) \in Entry /\ EntryOK(AfterSuccess(e))
<1>1. AfterSuccess(e) \in Entry
  BY FieldValues DEF AfterSuccess, Entry
<1>2. EntryOK(AfterSuccess(e))
  BY BreakerAssumption DEF AfterSuccess, Entry, EntryOK
<1>3. QED
  BY <1>1, <1>2

(* The cooldown after a failed trial stays between its two bounds.         *)
LEMMA NextCooldownBounds ==
  ASSUME NEW n \in 0..MaxCooldown
  PROVE  NextCooldown(n) \in InitialCooldown..MaxCooldown
  BY BreakerAssumption DEF NextCooldown

(* Opening an entry with a legal cooldown leaves it well formed.           *)
LEMMA OpenedGood ==
  ASSUME NEW e \in Entry, NEW n \in InitialCooldown..MaxCooldown
  PROVE  Opened(e, n) \in Entry /\ EntryOK(Opened(e, n))
<1>1. n \in 0..MaxCooldown
  BY BreakerAssumption
<1>2. Opened(e, n) \in Entry
  BY <1>1, FieldValues DEF Opened, Entry
<1>3. EntryOK(Opened(e, n))
  BY BreakerAssumption DEF Opened, Entry, EntryOK
<1>4. QED
  BY <1>2, <1>3

(* A failure counted while closed keeps an entry well formed: the counter  *)
(* stops at the threshold because reaching it opens the breaker.           *)
LEMMA CountedGood ==
  ASSUME NEW e \in Entry, EntryOK(e), e.state = "closed"
  PROVE  Counted(e) \in Entry /\ EntryOK(Counted(e))
<1> DEFINE n == e.failures + 1
           f == [e EXCEPT !.failures = n]
<1>1. n \in 0..Threshold
  BY BreakerAssumption DEF Entry, EntryOK
<1>2. f \in Entry
  BY <1>1 DEF Entry
<1>3. CASE n >= Threshold
  <2>1. InitialCooldown \in InitialCooldown..MaxCooldown
    BY BreakerAssumption
  <2>2. Counted(e) = Opened(f, InitialCooldown)
    BY <1>3 DEF Counted
  <2>3. QED
    BY <1>2, <2>1, <2>2, OpenedGood
<1>4. CASE ~(n >= Threshold)
  <2>1. Counted(e) = f
    BY <1>4 DEF Counted
  <2>2. EntryOK(f)
    BY <1>1, <1>4, BreakerAssumption DEF Entry, EntryOK
  <2>3. QED
    BY <1>2, <2>1, <2>2
<1>5. QED
  BY <1>3, <1>4

(* RecordFailure keeps an entry well formed, in each of the three states   *)
(* and for a channel it has not seen.                                      *)
LEMMA FailureGood ==
  ASSUME NEW e \in Entry, EntryOK(e)
  PROVE  AfterFailure(e) \in Entry /\ EntryOK(AfterFailure(e))
<1>1. CASE e.state = "absent"
  <2>1. Created \in Entry
    BY AbsentGood, FieldValues DEF Created, Entry
  <2>2. EntryOK(Created) /\ Created.state = "closed"
    BY BreakerAssumption DEF Created, Absent, EntryOK
  <2>3. AfterFailure(e) = Counted(Created)
    BY <1>1 DEF AfterFailure
  <2>4. QED
    BY <2>1, <2>2, <2>3, CountedGood
<1>2. CASE e.state = "closed"
  <2>1. AfterFailure(e) = Counted(e)
    BY <1>2 DEF AfterFailure
  <2>2. QED
    BY <1>2, <2>1, CountedGood
<1>3. CASE e.state = "half-open"
  <2>1. NextCooldown(e.cooldown) \in InitialCooldown..MaxCooldown
    BY NextCooldownBounds DEF Entry
  <2>2. AfterFailure(e) = Opened(e, NextCooldown(e.cooldown))
    BY <1>3 DEF AfterFailure
  <2>3. QED
    BY <2>1, <2>2, OpenedGood
<1>4. CASE e.state = "open"
  <2>1. AfterFailure(e) = [e EXCEPT !.sinceChange = 0]
    BY <1>4 DEF AfterFailure, AfterOpenFailure
  <2>2. [e EXCEPT !.sinceChange = 0] \in Entry
    BY FieldValues DEF Entry
  <2>3. EntryOK([e EXCEPT !.sinceChange = 0])
    BY <1>4 DEF Entry, EntryOK
  <2>4. QED
    BY <2>1, <2>2, <2>3
<1>5. QED
  BY <1>1, <1>2, <1>3, <1>4, FieldValues DEF Entry

(* Prune keeps an entry well formed.                                       *)
LEMMA PruneGood ==
  ASSUME NEW e \in Entry, EntryOK(e)
  PROVE  AfterPrune(e) \in Entry /\ EntryOK(AfterPrune(e))
  BY AbsentGood DEF AfterPrune

(* The clock keeps an entry well formed, and says how its ages move.       *)
LEMMA OlderGood ==
  ASSUME NEW e \in Entry, EntryOK(e)
  PROVE  /\ Older(e) \in Entry /\ EntryOK(Older(e))
         /\ Older(e).state = e.state /\ Older(e).cooldown = e.cooldown
         /\ Older(e).trialInFlight = e.trialInFlight
         /\ Older(e).sinceOpened =
              IF e.state = "open" /\ e.sinceOpened < MaxCooldown
              THEN e.sinceOpened + 1 ELSE e.sinceOpened
         /\ Older(e).sinceChange =
              IF e.state \in {"closed", "half-open"}
                 /\ e.sinceChange < ChangeCap
              THEN e.sinceChange + 1 ELSE e.sinceChange
<1> DEFINE o == IF e.state = "open" /\ e.sinceOpened < MaxCooldown
                THEN e.sinceOpened + 1 ELSE e.sinceOpened
           g == IF e.state \in {"closed", "half-open"}
                   /\ e.sinceChange < ChangeCap
                THEN e.sinceChange + 1 ELSE e.sinceChange
<1>1. o \in 0..MaxCooldown /\ g \in 0..ChangeCap
  BY FieldValues, BreakerAssumption DEF Entry
<1>2. Older(e) = [e EXCEPT !.sinceOpened = o, !.sinceChange = g]
  BY DEF Older
<1> HIDE DEF o, g
<1>3. Older(e) \in Entry
  BY <1>1, <1>2 DEF Entry
<1>4. EntryOK(Older(e))
  BY <1>2 DEF Entry, EntryOK
<1>5. /\ Older(e).state = e.state /\ Older(e).cooldown = e.cooldown
      /\ Older(e).trialInFlight = e.trialInFlight
      /\ Older(e).sinceOpened = o /\ Older(e).sinceChange = g
  BY <1>2 DEF Entry
<1>6. QED
  BY <1>3, <1>4, <1>5 DEF o, g
=============================================================================
