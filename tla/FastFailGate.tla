---------------------------- MODULE FastFailGate ----------------------------
(***************************************************************************)
(* What the shared ChannelGate (internal/iptv/transmux.go) promises the    *)
(* two streaming planes, without saying how failures are counted, how a    *)
(* cooldown grows or when an entry is forgotten.  A channel is             *)
(*   - passing: every attempt is let through;                              *)
(*   - cooling: nobody is let through until wait has run out, however      *)
(*     many more failures are reported meanwhile;                          *)
(*   - leased: one attempt was let through to try the upstream, and nobody *)
(*     else is until its lease has run out.                                *)
(* Only a reported success ends a wait early.  wait is the Retry-After a   *)
(* refused caller is told: a caller that waits it out is let through       *)
(* unless somebody else tried and changed the channel first.               *)
(***************************************************************************)
EXTENDS Integers

CONSTANTS Channels, MinCooldown, MaxCooldown, Lease

VARIABLES mode, wait

gateVars == <<mode, wait>>

Init ==
    /\ mode = [c \in Channels |-> "passing"]
    /\ wait = [c \in Channels |-> 0]

(* An attempt is let through.                                              *)
Try(c) ==
    /\ wait[c] = 0
    /\ mode[c] # "passing"
    /\ mode' = [mode EXCEPT ![c] = "leased"]
    /\ wait' = [wait EXCEPT ![c] = Lease]

(* Enough failures: a new cooldown starts, never while one is running.     *)
Trip(c) ==
    /\ mode[c] # "cooling"
    /\ mode' = [mode EXCEPT ![c] = "cooling"]
    /\ \E t \in MinCooldown..MaxCooldown : wait' = [wait EXCEPT ![c] = t]

(* The upstream answered.                                                  *)
Clear(c) ==
    /\ mode' = [mode EXCEPT ![c] = "passing"]
    /\ wait' = [wait EXCEPT ![c] = 0]

Tick ==
    /\ wait' = [c \in Channels |-> IF wait[c] > 0 THEN wait[c] - 1 ELSE 0]
    /\ UNCHANGED mode

Next ==
    \/ \E c \in Channels : Try(c) \/ Trip(c) \/ Clear(c)
    \/ Tick

Spec == Init /\ [][Next]_gateVars
=============================================================================
