-------------------------- MODULE MCStreamManager --------------------------
(***************************************************************************)
(* Two variants k1 and k2 of one item, watched by one user.  A behaviour   *)
(* belongs to one of two scenarios, so that neither multiplies the other:  *)
(*   "seek"      every operation, on the variant k1;                       *)
(*   "variants"  starts and stops of both variants, without seeks or       *)
(*               idle sessions.                                            *)
(***************************************************************************)
EXTENDS StreamManager, TLC

CONSTANTS k1, k2

VARIABLE scenario

MCShowOf == [k \in Keys |-> "show"]
MCUserOf == [k \in Keys |-> "user"]

Symmetry == Permutations(Requests) \cup Permutations(Slots) \cup Permutations(Procs)

InScenario ==
    \/ scenario = "seek" /\ \A r \in Requests : req'[r].key # k2
    \/ /\ scenario = "variants"
       /\ \A r \in Requests : req'[r].pc # "lock"
       /\ \A s \in Slots : ~sess'[s].idle

MCInit == Init /\ scenario \in {"seek", "variants"}
MCNext == Next /\ InScenario /\ UNCHANGED scenario
MCSpec == MCInit /\ [][MCNext]_<<vars, scenario>>

(* For liveness: no Shutdown, and no segments and watchers, which no       *)
(* request waits for.                                                      *)
LiveNext ==
    /\ Next /\ down' = "up"
    /\ \A k \in Keys : dir'[k] # "segment"
    /\ \A s \in Slots : sess'[s].watch \in {"off", "wait"}
    /\ InScenario /\ UNCHANGED scenario
LiveSpec == MCInit /\ [][LiveNext]_<<vars, scenario>> /\ Fairness
=============================================================================
