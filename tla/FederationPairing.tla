-------------------------- MODULE FederationPairing --------------------------
(***************************************************************************)
(* Pairing two servers by request (internal/federation/manager_pairing.go):*)
(* the admin of one sends a request, the admin of the other accepts or     *)
(* declines it, and a callback tells the first; the sender may cancel, and *)
(* requests expire.  Each server keeps both directions in the table        *)
(* federation_pending_requests and the other server, once paired, in       *)
(* federation_peers, with a cache of the paired ones (peerCache).          *)
(*                                                                         *)
(* A handler reads, then writes with statements of their own.  The calls   *)
(* between the servers are lost or late; the callback and the cancel are   *)
(* sent once, by a goroutine whose failure is only logged.                 *)
(***************************************************************************)
EXTENDS Naturals, FiniteSets

CONSTANTS
    Servers,       \* two of them
    Handlers,      \* handlers that a server runs at a time
    MaxRequests,   \* bound of the model: requests ever sent
    None

VARIABLES
    row,           \* server -> request -> its row
    peer,          \* server -> what federation_peers says of the other
    peerCache,     \* server -> the other is in Manager.peerCache
    task,          \* server -> handler -> its progress
    net,           \* calls under way, or lost
    sent           \* requests sent so far

pairingVars == <<row, peer, peerCache, task, net, sent>>

Ids == 1 .. MaxRequests
Other(s) == CHOOSE t \in Servers : t # s

Status == {"pending", "accepted", "declined", "cancelled", "expired"}
Row == [dir : {"out", "in"}, status : Status]

\* "post": waits for the answer; "persist", "store": inserts the row, here or
\* there; "mark", "peer", "cache": what resolves a request.
Task == [ pc : {"off", "post", "persist", "store", "mark", "peer", "cache"},
          id : Ids \cup {None},
          to : Status,                  \* the status to mark
          tell : BOOLEAN ]              \* the other server is told afterwards

Off == [pc |-> "off", id |-> None, to |-> "pending", tell |-> FALSE]

Message == [kind : {"request", "callback", "cancel"}, id : Ids, to : Servers, outcome : Status]

TypeOK ==
    /\ row \in [Servers -> [Ids -> Row \cup {None}]]
    /\ peer \in [Servers -> {"none", "paired", "revoked"}]
    /\ peerCache \in [Servers -> BOOLEAN]
    /\ task \in [Servers -> [Handlers -> Task]]
    /\ net \subseteq Message
    /\ sent \in 0 .. MaxRequests
    \* the partial index over (direction, peer) WHERE status = 'pending'
    /\ \A s \in Servers, i, j \in Ids :
          row[s][i] # None /\ row[s][i] = row[s][j] /\ row[s][i].status = "pending" => i = j

Init ==
    /\ row = [s \in Servers |-> [i \in Ids |-> None]]
    /\ peer = [s \in Servers |-> "none"]
    /\ peerCache = [s \in Servers |-> FALSE]
    /\ task = [s \in Servers |-> [h \in Handlers |-> Off]]
    /\ net = {}
    /\ sent = 0

Is(s, i, dir, status) == row[s][i] = [dir |-> dir, status |-> status]

(* GetActivePendingRequestByPeer, and what the partial index refuses.      *)
ActiveRequest(s, dir) == \E i \in Ids : Is(s, i, dir, "pending")

Set(s, h, t) == task' = [task EXCEPT ![s][h] = t]
Goto(s, h, pc) == task' = [task EXCEPT ![s][h].pc = pc]
Call(kind, i, to, outcome) == [kind |-> kind, id |-> i, to |-> to, outcome |-> outcome]

-----------------------------------------------------------------------------
(* SendPairingRequest: probe, not paired, not even revoked, no request     *)
(* pending; then the POST, and the row only after its answer.              *)
Send(s, h) ==
    /\ task[s][h] = Off /\ sent < MaxRequests
    /\ peer[s] = "none" /\ ~ActiveRequest(s, "out")
    /\ sent' = sent + 1
    /\ net' = net \cup {Call("request", sent', Other(s), "pending")}
    /\ Set(s, h, [Off EXCEPT !.pc = "post", !.id = sent'])
    /\ UNCHANGED <<row, peer, peerCache>>

(* No answer in time: nothing is kept here.                                *)
Timeout(s, h) ==
    /\ task[s][h].pc = "post"
    /\ Set(s, h, Off)
    /\ UNCHANGED <<row, peer, peerCache, net, sent>>

(* Variant with a bug: neither the look nor an index keeps a second one    *)
(* out.                                                                    *)
NoIndex(s, dir) == FALSE

(* InsertPendingRequest fails if the index has one.                        *)
Taken(s, dir) == ActiveRequest(s, dir)

Persist(s, h) ==
    /\ task[s][h].pc = "persist"
    /\ row' = IF Taken(s, "out") THEN row
              ELSE [row EXCEPT ![s][task[s][h].id] = [dir |-> "out", status |-> "pending"]]
    /\ Set(s, h, Off)
    /\ UNCHANGED <<peer, peerCache, net, sent>>

(* The answer reaches whoever still waits for it, as the handler ends.     *)
Answer(s, h, i, ok) ==
    task' = [u \in Servers |-> [g \in Handlers |->
                IF u = s /\ g = h THEN Off
                ELSE IF u # s /\ task[u][g].pc = "post" /\ task[u][g].id = i
                     THEN IF ok THEN [task[u][g] EXCEPT !.pc = "persist"] ELSE Off
                     ELSE task[u][g]]]

(* HandleIncomingPairingRequest: refused by a setting, by the quota, or    *)
(* because the servers are paired; answered as before while one is         *)
(* pending, whatever its id; or stored.                                    *)
ReceiveRequest(s, h, m) ==
    /\ m \in net /\ m.to = s /\ m.kind = "request" /\ task[s][h] = Off
    /\ net' = net \ {m}
    /\ \/ Answer(s, h, m.id, FALSE)
       \/ peer[s] = "none" /\ ActiveRequest(s, "in") /\ Answer(s, h, m.id, TRUE)
       \/ /\ peer[s] = "none" /\ ~ActiveRequest(s, "in")
          /\ Set(s, h, [Off EXCEPT !.pc = "store", !.id = m.id])
    /\ UNCHANGED <<row, peer, peerCache, sent>>

Store(s, h) ==
    LET i == task[s][h].id IN
    /\ task[s][h].pc = "store"
    /\ row' = IF Taken(s, "in") THEN row
              ELSE [row EXCEPT ![s][i] = [dir |-> "in", status |-> "pending"]]
    /\ Answer(s, h, i, ~Taken(s, "in"))
    /\ UNCHANGED <<peer, peerCache, net, sent>>

-----------------------------------------------------------------------------
(* What may be done to a pending request: the admin of the receiver        *)
(* accepts or declines it, that of the sender cancels it, and the other    *)
(* server is told; its callback or cancel does the same here.              *)
Resolve(s, h, i, to, tell) ==
    Set(s, h, [Off EXCEPT !.pc = "mark", !.id = i, !.to = to, !.tell = tell])

Decide(s, h, i) ==
    /\ task[s][h] = Off
    /\ \/ Is(s, i, "in", "pending") /\ \E to \in {"accepted", "declined"} :
                                          Resolve(s, h, i, to, TRUE)
       \/ Is(s, i, "out", "pending") /\ Resolve(s, h, i, "cancelled", TRUE)
    /\ UNCHANGED <<row, peer, peerCache, net, sent>>

Outcome(m) == m.outcome

(* HandlePairingCallback and ReceivePairingCancel.  A call for a request   *)
(* that is not known, or no longer pending, is refused or ignored and      *)
(* changes nothing: it counts as one that never arrives.                   *)
ReceiveOther(s, h, m) ==
    /\ m \in net /\ m.to = s /\ m.kind # "request" /\ task[s][h] = Off
    /\ net' = net \ {m}
    /\ Is(s, m.id, IF m.kind = "callback" THEN "out" ELSE "in", "pending")
    /\ Resolve(s, h, m.id, Outcome(m), FALSE)
    /\ UNCHANGED <<row, peer, peerCache, sent>>

(* Variant with a bug: the update does not ask for status = 'pending'.     *)
AnyStatus(s, i) == TRUE

StillPending(s, i) == row[s][i].status = "pending"

(* The sender of an accepted request is told once the peer is stored.      *)
TellsNow(t) == t.tell /\ t.to # "accepted"

Notice(s, t) ==
    IF t.to = "cancelled" THEN Call("cancel", t.id, Other(s), "cancelled")
                          ELSE Call("callback", t.id, Other(s), t.to)

(* MarkPendingRequestResponded.                                            *)
Mark(s, h) ==
    LET t == task[s][h] IN
    /\ t.pc = "mark"
    /\ IF StillPending(s, t.id)
       THEN /\ row' = [row EXCEPT ![s][t.id].status = t.to]
            /\ IF t.to = "accepted" THEN Goto(s, h, "peer") ELSE Set(s, h, Off)
            /\ net' = IF TellsNow(t) THEN net \cup {Notice(s, t)} ELSE net
       ELSE Set(s, h, Off) /\ UNCHANGED <<row, net>>
    /\ UNCHANGED <<peer, peerCache, sent>>

(* InsertPeer fails if there is a row for the server, a revoked one, too.  *)
InsertPeer(s, h) ==
    /\ task[s][h].pc = "peer"
    /\ IF peer[s] = "none"
       THEN peer' = [peer EXCEPT ![s] = "paired"] /\ Goto(s, h, "cache")
       ELSE Set(s, h, Off) /\ UNCHANGED peer
    /\ UNCHANGED <<row, peerCache, net, sent>>

(* refreshPeerCache reads the table and then replaces the cache; the       *)
(* callback follows.  A peer is stored, then perhaps revoked: who stored   *)
(* it may have read it as paired, even if it is not any more; who revoked  *)
(* it reads it as it stays.                                                *)
ListPeers(s, t) == {peer[s] = "paired", t.to = "accepted"}

SetCache(s, h) ==
    LET t == task[s][h] IN
    /\ t.pc = "cache"
    /\ \E paired \in ListPeers(s, t) : peerCache' = [peerCache EXCEPT ![s] = paired]
    /\ net' = IF t.tell THEN net \cup {Notice(s, t)} ELSE net
    /\ Set(s, h, Off)
    /\ UNCHANGED <<row, peer, sent>>

RevokePeer(s, h) ==
    /\ task[s][h] = Off /\ peer[s] = "paired"
    /\ peer' = [peer EXCEPT ![s] = "revoked"]
    /\ Goto(s, h, "cache")
    /\ UNCHANGED <<row, peerCache, net, sent>>

-----------------------------------------------------------------------------
(* The sweeper; a restart.  A call that is lost is one nobody receives.    *)
Expire(s, i) ==
    /\ row[s][i] # None /\ StillPending(s, i)
    /\ row' = [row EXCEPT ![s][i].status = "expired"]
    /\ UNCHANGED <<peer, peerCache, task, net, sent>>

Restart(s) ==
    /\ \E h \in Handlers : task[s][h] # Off
    /\ task' = [task EXCEPT ![s] = [h \in Handlers |-> Off]]
    /\ peerCache' = [peerCache EXCEPT ![s] = (peer[s] = "paired")]
    /\ UNCHANGED <<row, peer, net, sent>>

Handle(s, h) ==
    \/ Send(s, h) \/ Timeout(s, h) \/ Persist(s, h) \/ Store(s, h)
    \/ Mark(s, h) \/ InsertPeer(s, h) \/ SetCache(s, h) \/ RevokePeer(s, h)

Next ==
    \/ \E s \in Servers, h \in Handlers :
        \/ Handle(s, h)
        \/ \E i \in Ids : Decide(s, h, i)
        \/ \E m \in net : ReceiveRequest(s, h, m) \/ ReceiveOther(s, h, m)
    \/ \E s \in Servers, i \in Ids : Expire(s, i)
    \/ \E s \in Servers : Restart(s)

Spec == Init /\ [][Next]_pairingVars

-----------------------------------------------------------------------------
(* PROPERTIES *)

(* "Todas son terminales" (pending_request.go): of an accept, a decline, a *)
(* cancel, a callback and the sweep that overlap, one decides, and what it *)
(* decided is not changed (MarkPendingRequestResponded).                   *)
ResolvedOnce ==
    [][\A s \in Servers, i \in Ids :
          (row[s][i] # None /\ row[s][i].status # "pending") => row'[s][i] = row[s][i]]_pairingVars

(* Both admins agreed: a server whose request counts as accepted was       *)
(* answered by an admin who accepted that very request (the callback's     *)
(* request id), whatever was lost, late or restarted.                      *)
AcceptedByBoth ==
    \A s \in Servers, i \in Ids :
        Is(s, i, "out", "accepted") => Is(Other(s), i, "in", "accepted")

(* A server that was told of the acceptance finds itself among the peers   *)
(* of the other, possibly revoked since: the callback is sent after the    *)
(* peer is stored (resolveIncoming), so that only the accepting side can   *)
(* be paired alone.                                                        *)
SenderNeverAlone ==
    \A s \in Servers, i \in Ids : Is(s, i, "out", "accepted") => peer[Other(s)] # "none"

(* What the pairing of two servers promises together.                      *)
PairingSafe == []AcceptedByBoth /\ []SenderNeverAlone /\ ResolvedOnce
===============================================================================
