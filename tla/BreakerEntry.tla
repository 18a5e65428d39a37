---------------------------- MODULE BreakerEntry ----------------------------
(***************************************************************************)
(* One entry of the per-channel circuit breaker of the live-TV planes      *)
(* (internal/iptv/circuit_breaker.go), as pure operators: what Allow,      *)
(* RecordSuccess, RecordFailure and Prune do to the entry of the channel   *)
(* they are called for.  Every method runs under channelBreaker.mu, so     *)
(* each of them is one indivisible update of one entry.                    *)
(*                                                                         *)
(* Wall-clock instants are kept as ages in ticks: sinceOpened is           *)
(* now.Sub(openedAt) and sinceChange is now.Sub(lastChange).  Both         *)
(* saturate just above the largest value a guard distinguishes, so time    *)
(* is unbounded while the state stays finite.                              *)
(***************************************************************************)
EXTENDS Integers

CONSTANTS
    Threshold,        \* breakerThreshold
    InitialCooldown,  \* breakerInitialCooldown, in ticks
    MaxCooldown,      \* breakerMaxCooldown
    TrialTimeout,     \* breakerTrialTimeout
    IdleEvictAfter    \* breakerIdleEvictAfter

(* The code's values (5, 30 s, 5 min, 30 s, 10 min) satisfy this.          *)
ASSUME BreakerAssumption ==
    /\ Threshold \in Nat \ {0}
    /\ InitialCooldown \in Nat \ {0}
    /\ MaxCooldown \in Nat
    /\ InitialCooldown <= MaxCooldown
    /\ TrialTimeout \in Nat \ {0}
    /\ TrialTimeout <= InitialCooldown
    /\ IdleEvictAfter \in Nat

ChangeCap == TrialTimeout + IdleEvictAfter + 1

(* "absent" is a channel with no key in the entries map.                   *)
BreakerState == {"absent", "closed", "open", "half-open"}

Entry == [ state         : BreakerState,
           failures      : 0..Threshold,
           cooldown      : 0..MaxCooldown,
           sinceOpened   : 0..MaxCooldown,
           sinceChange   : 0..ChangeCap,
           trialInFlight : BOOLEAN ]

Absent == [ state         |-> "absent",
            failures      |-> 0,
            cooldown      |-> 0,
            sinceOpened   |-> 0,
            sinceChange   |-> 0,
            trialInFlight |-> FALSE ]

(* What the failing call of RecordFailure inserts for an unknown channel.  *)
Created == [Absent EXCEPT !.state = "closed"]

-----------------------------------------------------------------------------
(* Variants of the operators below with one thing wrong, each a bug this   *)
(* code could have had.  PROJECT.json says which property catches which.   *)

(* Bug: Allow ignores the trial another caller has in flight.              *)
RetryAfterNoLease(e) ==
    IF e.state = "open" /\ e.sinceOpened < e.cooldown
    THEN e.cooldown - e.sinceOpened ELSE 0

(* Bug: a trial that never reports is never forfeited.                     *)
RetryAfterNoForfeit(e) ==
    IF e.state = "half-open" /\ e.trialInFlight THEN TrialTimeout
    ELSE RetryAfterNoLease(e)

(* Bug: the doubled cooldown is not clamped.                               *)
NextCooldownUnclamped(cooldown) == 2 * cooldown

(* Bug: a failure that reaches an open breaker restarts its cooldown.      *)
AfterOpenFailureRestarts(e) == [e EXCEPT !.sinceOpened = 0, !.sinceChange = 0]

(* Bug: the trial after a cooldown starts a new count of failures.         *)
AfterAllowForgets(e) ==
    IF e.state \in {"open", "half-open"}
    THEN [Absent EXCEPT !.state = "half-open", !.trialInFlight = TRUE, !.cooldown = e.cooldown]
    ELSE e

-----------------------------------------------------------------------------
(* Allow's second result: how long the caller has to wait.  Zero exactly   *)
(* when the attempt is allowed.                                            *)
RetryAfter(e) ==
    CASE e.state = "open" /\ e.sinceOpened < e.cooldown ->
            e.cooldown - e.sinceOpened
      [] e.state = "half-open" /\ e.trialInFlight
            /\ e.sinceChange < TrialTimeout ->
            TrialTimeout - e.sinceChange
      [] OTHER -> 0

Allowed(e) == RetryAfter(e) = 0

(* The attempt Allow lets through is a half-open trial.                    *)
IsTrial(e) == e.state \in {"open", "half-open"}

(* Side effect of an Allow that returns true: the trial slot is reserved.  *)
AfterAllow(e) ==
    IF IsTrial(e)
    THEN [e EXCEPT !.state = "half-open",
                   !.trialInFlight = TRUE,
                   !.sinceChange = 0]
    ELSE e

AfterSuccess(e) ==
    IF e.state = "absent" THEN e
    ELSE [e EXCEPT !.state = "closed",
                   !.failures = 0,
                   !.cooldown = 0,
                   !.trialInFlight = FALSE,
                   !.sinceChange = 0]

(* The cooldown a failed trial leaves: doubled, clamped to both bounds.    *)
NextCooldown(cooldown) ==
    LET doubled == 2 * cooldown
    IN  CASE doubled < InitialCooldown -> InitialCooldown
          [] doubled > MaxCooldown     -> MaxCooldown
          [] OTHER                     -> doubled

Opened(e, cooldown) ==
    [e EXCEPT !.state = "open",
              !.cooldown = cooldown,
              !.sinceOpened = 0,
              !.sinceChange = 0,
              !.trialInFlight = FALSE]

(* A failure while closed counts, and trips the breaker at the threshold.  *)
(* Below the threshold lastChange stays as it was.                         *)
Counted(e) ==
    LET n == e.failures + 1
    IN  IF n >= Threshold
        THEN Opened([e EXCEPT !.failures = n], InitialCooldown)
        ELSE [e EXCEPT !.failures = n]

(* The breaker is already open: only lastChange is refreshed.              *)
AfterOpenFailure(e) == [e EXCEPT !.sinceChange = 0]

AfterFailure(e) ==
    CASE e.state = "absent"    -> Counted(Created)
      [] e.state = "closed"    -> Counted(e)
      [] e.state = "half-open" -> Opened(e, NextCooldown(e.cooldown))
      [] e.state = "open"      -> AfterOpenFailure(e)

AfterPrune(e) ==
    IF e.state = "closed" /\ e.failures = 0 /\ e.sinceChange > IdleEvictAfter
    THEN Absent
    ELSE e

(* One tick of the injected clock, seen by one entry.  An age runs only    *)
(* in the states that read it.                                             *)
Older(e) ==
    [e EXCEPT
        !.sinceOpened = IF e.state = "open" /\ e.sinceOpened < MaxCooldown
                        THEN e.sinceOpened + 1 ELSE e.sinceOpened,
        !.sinceChange = IF e.state \in {"closed", "half-open"}
                           /\ e.sinceChange < ChangeCap
                        THEN e.sinceChange + 1 ELSE e.sinceChange]

-----------------------------------------------------------------------------
(* The states an entry really takes: counters below the threshold while    *)
(* closed, a cooldown between its bounds while tripped, and a half-open    *)
(* entry always with a trial reserved (Allow is the only way into it).     *)
(* This is the part of the inductive invariant that speaks of one entry.   *)
EntryOK(e) ==
    /\ e.state \in {"absent", "closed"} =>
         e.failures < Threshold /\ e.cooldown = 0 /\ ~e.trialInFlight
    /\ e.state = "absent" => e.failures = 0
    /\ e.state \in {"open", "half-open"} =>
         InitialCooldown <= e.cooldown /\ e.cooldown <= MaxCooldown
    /\ e.state = "open" => ~e.trialInFlight
    /\ e.state = "half-open" => e.trialInFlight
=============================================================================
