--------------------------- MODULE ChannelBreaker ---------------------------
(***************************************************************************)
(* The live-TV circuit breaker under its concurrent callers.  A caller is  *)
(* one upstream attempt of a plane that shares the breaker: a ProxyStream  *)
(* or ProxyURL request of the stream proxy, or an ffmpeg spawn of the      *)
(* transmux manager.  It asks Allow, runs for any length of time, and may  *)
(* report a success (and keep streaming), report a failure, or leave       *)
(* without reporting anything: a client that cancelled, a URL rejected     *)
(* after Allow, a spawn refused because the manager is full.  Attempts     *)
(* admitted before a trip are still in flight after it, so their reports   *)
(* reach a breaker that has changed state in between.                      *)
(***************************************************************************)
EXTENDS BreakerEntry, FiniteSets

CONSTANTS
    Channels,      \* channel identifiers
    Callers        \* slots for upstream attempts in flight

VARIABLES
    entries,   \* channelBreaker.entries: channel -> entry
    call,      \* caller -> the attempt it has in flight
    probeAge   \* history: ticks since the last trial admitted, saturated

vars == <<entries, call, probeAge>>

Idle == [phase |-> "idle"]
Attempt == [phase : {"flying", "streaming"}, channel : Channels, trial : BOOLEAN]

TypeOK ==
    /\ entries \in [Channels -> Entry]
    /\ call \in [Callers -> {Idle} \cup Attempt]
    /\ probeAge \in [Channels -> 0..TrialTimeout]

Init ==
    /\ entries = [c \in Channels |-> Absent]
    /\ call = [k \in Callers |-> Idle]
    /\ probeAge = [c \in Channels |-> TrialTimeout]

InFlight(k) == call[k].phase # "idle"

-----------------------------------------------------------------------------
(* Allow returns true: the attempt starts.                                 *)
Admit(k, c) ==
    /\ ~InFlight(k)
    /\ Allowed(entries[c])
    /\ entries' = [entries EXCEPT ![c] = AfterAllow(@)]
    /\ call' = [call EXCEPT ![k] = [phase   |-> "flying",
                                    channel |-> c,
                                    trial   |-> IsTrial(entries[c])]]
    /\ probeAge' = IF IsTrial(entries[c])
                   THEN [probeAge EXCEPT ![c] = 0]
                   ELSE probeAge

(* RecordSuccess.  A proxied stream goes on after its first success and    *)
(* may report again: streamWithReconnect retries after a mid-stream error. *)
Succeed(k) ==
    /\ InFlight(k)
    /\ entries' = [entries EXCEPT ![call[k].channel] = AfterSuccess(@)]
    /\ call' = [call EXCEPT ![k].phase = "streaming"]
    /\ UNCHANGED probeAge

(* RecordFailure: one outcome per request, after its last retry.           *)
Fail(k) ==
    /\ InFlight(k)
    /\ entries' = [entries EXCEPT ![call[k].channel] = AfterFailure(@)]
    /\ call' = [call EXCEPT ![k] = Idle]
    /\ UNCHANGED probeAge

(* The attempt ends and reports nothing.                                   *)
Leave(k) ==
    /\ InFlight(k)
    /\ call' = [call EXCEPT ![k] = Idle]
    /\ UNCHANGED <<entries, probeAge>>

(* Prune sweeps every entry in one critical section.  It is an operation   *)
(* of the breaker that no code of the repository calls but its tests.      *)
Prune ==
    /\ \E c \in Channels : AfterPrune(entries[c]) # entries[c]
    /\ entries' = [c \in Channels |-> AfterPrune(entries[c])]
    /\ UNCHANGED <<call, probeAge>>

OlderProbe(age) == IF age < TrialTimeout THEN age + 1 ELSE age

Tick ==
    /\ entries' = [c \in Channels |-> Older(entries[c])]
    /\ probeAge' = [c \in Channels |-> OlderProbe(probeAge[c])]
    /\ UNCHANGED call

Next ==
    \/ \E k \in Callers, c \in Channels : Admit(k, c)
    \/ \E k \in Callers : Succeed(k)
    \/ \E k \in Callers : Fail(k)
    \/ \E k \in Callers : Leave(k)
    \/ Prune
    \/ Tick

Spec == Init /\ [][Next]_vars

(* The clock advances.  No caller is ever obliged to come back or to       *)
(* report, and nobody to call Prune.                                       *)
FairSpec == Spec /\ WF_vars(Tick)

-----------------------------------------------------------------------------
(* Every entry is in a state that the methods of the breaker produce.      *)
EntriesOK == \A c \in Channels : EntryOK(entries[c])

(* Why two trials cannot be close together: a reserved trial is as old as  *)
(* its reservation, and the breaker cannot open again without at least     *)
(* that much time before the next one.                                     *)
ProbeOK(e, age) ==
    /\ e.state = "half-open" => age >= e.sinceChange \/ age = TrialTimeout
    /\ e.state = "open" => age >= e.sinceOpened \/ age = TrialTimeout

ProbeAgeOK == \A c \in Channels : ProbeOK(entries[c], probeAge[c])

(* ProbesSpaced: whatever outcomes arrive in between, and in whatever      *)
(* order, two half-open trials of one channel are admitted at least        *)
(* breakerTrialTimeout apart: the recovering upstream is never hammered    *)
(* (the thundering herd that the comment of Allow speaks of).  A trial     *)
(* sets probeAge back to 0, which a second one within the same tick does   *)
(* not show; the state that would let it in shows it at any later tick.    *)
ProbesSpaced ==
    [][\A c \in Channels :
          probeAge'[c] < probeAge[c] => probeAge[c] = TrialTimeout]_vars

(* FailuresRemembered: the count of consecutive failures of a channel goes *)
(* down only in a step that reports a success for that channel; neither    *)
(* the passing of time nor the eviction of idle entries loses a failure.   *)
(* (The eviction is Prune, which the program does not call.)               *)
FailuresRemembered ==
    [][\A c \in Channels :
          entries'[c].failures < entries[c].failures =>
              \E k \in Callers : InFlight(k) /\ call[k].channel = c
                                  /\ call'[k].phase = "streaming"]_vars

(* GateSpec: the breaker implements the abstract gate.  Its wait is the    *)
(* Retry-After that Allow computes, so late failures never lengthen a      *)
(* cooldown and a Retry-After handed to a client is never an               *)
(* underestimate while nobody else gets in.                                *)
EntryMode(e) ==
    CASE e.state = "open"      -> "cooling"
      [] e.state = "half-open" -> "leased"
      [] OTHER                 -> "passing"

gateMode == [c \in Channels |-> EntryMode(entries[c])]
gateWait == [c \in Channels |-> RetryAfter(entries[c])]

Gate == INSTANCE FastFailGate WITH
            mode <- gateMode, wait <- gateWait,
            MinCooldown <- InitialCooldown, Lease <- TrialTimeout

GateSpec == Gate!Spec

(* NeverLockedOut: a channel is allowed again and again, even when every   *)
(* trial is abandoned without a report (the client cancelled mid-fetch and *)
(* the cancel branch records nothing) and late failures keep arriving.     *)
NeverLockedOut == \A c \in Channels : []<>Allowed(entries[c])
=============================================================================
