----------------------------- MODULE MCControl ------------------------------
(***************************************************************************)
(* The four parts of internal/auth that keep state of their own, and the   *)
(* pairing of two servers and the streams of a peer.  They share no state, *)
(* so a behaviour of this specification is a behaviour of one of them,     *)
(* which focus names, and the others stay as they are.  The streams (Init, *)
(* Next, PeerStreamsSafe) are extended rather than instantiated: the       *)
(* theorems about them state the definition that is checked here.          *)
(***************************************************************************)
EXTENDS Naturals, Sequences, FiniteSets, TLC, PeerStreams

CONSTANTS Callers, MaxSessions, Admins, MaxKeys, Attempts, MaxFails, Window, Lockout,
          MaxTokens, MaxFaults, Polls, Approvers, Servers, Handlers, MaxRequests, None

(* The sets are of requests, handlers and admins that run at a time; the   *)
(* limits are those of the code, at least 1, or bounds of the model.       *)
ASSUME ControlAssumption ==
    /\ IsFiniteSet(Callers) /\ MaxSessions \in Nat \ {0} /\ MaxTokens \in Nat
    /\ MaxFaults \in Nat
    /\ IsFiniteSet(Admins) /\ MaxKeys \in Nat \ {0}
    /\ IsFiniteSet(Attempts) /\ MaxFails \in Nat \ {0} /\ Window \in Nat /\ Lockout \in Nat
    /\ IsFiniteSet(Polls) /\ None \notin Approvers
    /\ \E a, b \in Servers : a # b /\ Servers = {a, b}
    /\ MaxRequests \in Nat
    /\ IsFiniteSet(PeerItems) /\ IsFiniteSet(Requests) /\ Requests # {}
    /\ MaxStreams \in Nat /\ TTL \in Nat /\ QueueSize \in Nat /\ MaxEntries \in Nat
    /\ NoRequest \notin PeerItems

VARIABLES focus, rows, minted, caller, unevicted, unrevoked, keys, cache, admin,
          record, attempt, code, poll, approval, tokens, unconsumed,
          row, peer, peerCache, task, net, sent

(* Servers are alike, handlers are, and so are the callers of the sessions *)
(* (two of each), which never meet handlers: one permutation swaps both.   *)
Swapped(S) == [x \in S |-> CHOOSE y \in S : y # x]

Symmetry == {Swapped(Handlers) @@ Swapped(Callers)} \cup Permutations(Servers)

Sessions == INSTANCE AuthSessions
Signing == INSTANCE KeyStore
Limiter == INSTANCE RateLimiter
Device == INSTANCE DeviceCode
Pairing == INSTANCE FederationPairing

sessionVars == <<rows, minted, caller, unevicted, unrevoked>>
keyVars == <<keys, cache, admin>>
limiterVars == <<record, attempt>>
deviceVars == <<code, poll, approval, tokens, unconsumed>>
pairingVars == <<row, peer, peerCache, task, net, sent>>

(* What is absent is no row of the table.                                  *)
ASSUME NoneAssumption == None \notin Pairing!Row

vars == <<focus, sessionVars, keyVars, limiterVars, deviceVars, pairingVars, streamVars>>

ControlInit ==
    /\ focus \in {"sessions", "signing", "limiter", "device", "pairing", "streams"}
    /\ Sessions!Init /\ Signing!Init /\ Limiter!Init /\ Device!Init /\ Pairing!Init /\ Init

ControlNext ==
    /\ UNCHANGED focus
    /\ \/ /\ focus = "sessions" /\ Sessions!Next
          /\ UNCHANGED <<keyVars, limiterVars, deviceVars, pairingVars, streamVars>>
       \/ /\ focus = "signing" /\ Signing!Next
          /\ UNCHANGED <<sessionVars, limiterVars, deviceVars, pairingVars, streamVars>>
       \/ /\ focus = "limiter" /\ Limiter!Next
          /\ UNCHANGED <<sessionVars, keyVars, deviceVars, pairingVars, streamVars>>
       \/ /\ focus = "device" /\ Device!Next
          /\ UNCHANGED <<sessionVars, keyVars, limiterVars, pairingVars, streamVars>>
       \/ /\ focus = "pairing" /\ Pairing!Next
          /\ UNCHANGED <<sessionVars, keyVars, limiterVars, deviceVars, streamVars>>
       \/ /\ focus = "streams" /\ Next
          /\ UNCHANGED <<sessionVars, keyVars, limiterVars, deviceVars, pairingVars>>

ControlSpec == ControlInit /\ [][ControlNext]_vars

-----------------------------------------------------------------------------
ControlTypeOK ==
    CASE focus = "sessions" -> Sessions!TypeOK
      [] focus = "signing" -> Signing!TypeOK
      [] focus = "limiter" -> Limiter!TypeOK
      [] focus = "device" -> Device!TypeOK
      [] focus = "pairing" -> Pairing!TypeOK
      [] focus = "streams" -> TypeOK

SessionsSafe == Sessions!SessionsSafe
CanSign == Signing!CanSign
LimiterSafe == Limiter!LimiterSafe
DeviceSafe == Device!DeviceSafe
PairingSafe == Pairing!PairingSafe
=============================================================================
