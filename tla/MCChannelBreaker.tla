-------------------------- MODULE MCChannelBreaker --------------------------
(* ChannelBreaker on a small instance.  Two failures trip the breaker and  *)
(* the cooldown takes the values 2, 4, 5: initial, doubled and clamped.    *)
EXTENDS ChannelBreaker

MCThreshold == 2
MCInitialCooldown == 2
MCMaxCooldown == 5
MCTrialTimeout == 2
MCIdleEvictAfter == 3
=============================================================================
