----------------------------- MODULE RateLimiter -----------------------------
(***************************************************************************)
(* The login rate limiter (internal/auth/ratelimit.go) for one key, with   *)
(* the attempts that use it: an attempt asks isLocked, verifies the        *)
(* password outside of the lock, and records what came of it.              *)
(***************************************************************************)
EXTENDS Naturals, FiniteSets

CONSTANTS
    Attempts,      \* attempts that may run at a time
    MaxFails,      \* failures that lock the key
    Window,        \* time in which failures count together
    Lockout        \* time for which a key is locked

VARIABLES
    record,        \* the attemptRecord of the key
    attempt        \* attempts that are past isLocked

limiterVars == <<record, attempt>>

(* age is the time since firstFail, lock the time to lockedUntil, 0 when   *)
(* that is past; both stop counting when they no longer matter.  A clock   *)
(* of nanoseconds does not hit lockedUntil itself, where a key would be    *)
(* neither locked nor released.                                            *)
Record == [present : BOOLEAN, fails : Nat, age : 0 .. Window + 1,
           locked : BOOLEAN, lock : 0 .. Lockout]

NoRecord == [present |-> FALSE, fails |-> 0, age |-> 0, locked |-> FALSE, lock |-> 0]

TypeOK == record \in Record /\ attempt \subseteq Attempts

Init == record = NoRecord /\ attempt = {}

LockOver == record.locked /\ record.lock = 0
WindowOver == record.age > Window

(* Variant with a bug: the clean-up drops what is there.                   *)
StaleSoon == record.present /\ record.age > 0

(* isLocked and cleanup delete a record whose lockout or window is over.   *)
Stale == record.present /\ (LockOver \/ WindowOver)

IsLocked == record.present /\ ~Stale /\ record.locked

Begin(a) ==
    /\ a \notin attempt
    /\ record' = IF Stale THEN NoRecord ELSE record
    /\ attempt' = IF IsLocked THEN attempt ELSE attempt \cup {a}

(* recordFailure: a new record when the window is over, one more failure,  *)
(* and the lockout, again, when there are enough.                          *)
Failure(rec) ==
    LET fails == rec.fails + 1 IN
    [ rec EXCEPT !.present = TRUE, !.fails = fails,
                 !.locked = @ \/ fails >= MaxFails,
                 !.lock = IF fails >= MaxFails THEN Lockout ELSE @ ]

Fail(a) ==
    /\ a \in attempt
    /\ record' = Failure(IF record.present /\ ~WindowOver THEN record ELSE NoRecord)
    /\ attempt' = attempt \ {a}

Succeed(a) ==
    /\ a \in attempt
    /\ record' = NoRecord
    /\ attempt' = attempt \ {a}

Cleanup == Stale /\ record' = NoRecord /\ UNCHANGED attempt

LowerOf(a, b) == IF a < b THEN a ELSE b
Tick ==
    /\ record.present
    /\ record' = [record EXCEPT !.age = LowerOf(@ + 1, Window + 1),
                                !.lock = IF @ = 0 THEN 0 ELSE @ - 1]
    /\ UNCHANGED attempt

Next ==
    \/ \E a \in Attempts : Begin(a) \/ Fail(a) \/ Succeed(a)
    \/ Cleanup \/ Tick

Spec == Init /\ [][Next]_limiterVars

-----------------------------------------------------------------------------
(* PROPERTIES *)

(* Guesses are verified between the look at the lock and the record of the *)
(* failure, so more than MaxFails may be made, but no more than the        *)
(* attempts that were past the look already: all the failures that count   *)
(* together in a window are MaxFails and those.                            *)
GuessesBounded == record.fails + Cardinality(attempt) < MaxFails + Cardinality(Attempts)

(* A key that is locked stays so while its window and its lockout last: no *)
(* failure and no clean-up in between frees it, a success does (an attempt *)
(* that was past the look).  The window counts from the first failure, not *)
(* from the lockout, so its end may cut a lockout short (isLocked, and     *)
(* ratelimit.go:82): the property allows it.                               *)
LockHolds ==
    [][IsLocked => \/ IsLocked'
                   \/ record'.age > Window \/ record'.lock < 1
                   \/ record' = NoRecord /\ attempt' # attempt]_limiterVars

(* What the limiter of a key promises together.                            *)
LimiterSafe == []GuessesBounded /\ LockHolds
=============================================================================
