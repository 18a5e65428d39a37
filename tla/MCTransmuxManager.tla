------------------------- MODULE MCTransmuxManager -------------------------
EXTENDS TransmuxManager, TLC

MCThreshold == 1
MCInitialCooldown == 1
MCMaxCooldown == 1
MCTrialTimeout == 1
MCIdleEvictAfter == 0

Symmetry ==
    Permutations(Clients \ LegacyClients) \cup Permutations(LegacyClients)
        \cup Permutations(Slots) \cup Permutations(Channels)

(* Capacity is about spawns that overlap with exits: no process gets as    *)
(* far as a segment, and there is no clock, no reaper and no shutdown.     *)
CapacityNext ==
    \/ \E v \in Clients : Request(v) \/ Handler(v)
    \/ \E s \in Slots : Exit(s) \/ Watchers(s)
    \/ \E c \in Channels : ExpireFallback(c)

CapacitySpec == Init /\ [][CapacityNext]_vars
=============================================================================
