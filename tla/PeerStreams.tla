----------------------------- MODULE PeerStreams -----------------------------
(***************************************************************************)
(* Streaming to a paired server (internal/federation/stream.go, audit.go   *)
(* and handlers/federation/federation_stream.go): a peer's requests for    *)
(* items are admitted against a cap, start a transcode, and only then are  *)
(* registered; sessions nobody asks for are swept.  Every request leaves   *)
(* an audit entry in a queue that one goroutine writes to the database,    *)
(* and that Manager.Close is to empty.                                     *)
(***************************************************************************)
EXTENDS Naturals, Sequences, FiniteSets

CONSTANTS
    PeerItems,     \* items the peer asks for
    Requests,      \* its requests at a time
    MaxStreams,    \* MaxConcurrentStreamsPerPeer
    TTL,           \* peerStreamSessionTTL, in sweeps
    QueueSize,     \* auditQueueSize
    MaxEntries     \* bound of the model: audit entries

VARIABLES
    sessions,      \* streamSessions of the peer: item -> age since it was last seen
    request,       \* request -> item it was admitted for
    queue,         \* Auditor.queue
    batch,         \* entries the goroutine has taken
    settled,       \* entries written, or lost one by one to a failing insert
    dropped,       \* entries the full queue refused
    entries,       \* entries so far
    auditor,       \* "running", "closing" once done is closed, "closed"
    inTime         \* entries queued before done was closed

streamVars == <<sessions, request, queue, batch, settled, dropped, entries, auditor, inTime>>

NoRequest == "none"
Gone == TTL + 1
Entries == 1 .. MaxEntries
Active == {i \in PeerItems : sessions[i] # Gone}

TypeOK ==
    /\ sessions \in [PeerItems -> 0 .. Gone]
    /\ request \in [Requests -> PeerItems \cup {NoRequest}]
    /\ queue \in Seq(Entries) /\ Len(queue) <= QueueSize
    /\ batch \subseteq Entries /\ settled \subseteq Entries
    /\ dropped \subseteq Entries /\ inTime \subseteq Entries
    /\ entries \in 0 .. MaxEntries
    /\ auditor \in {"running", "closing", "closed"}

Init ==
    /\ sessions = [i \in PeerItems |-> Gone]
    /\ request = [r \in Requests |-> NoRequest]
    /\ queue = <<>> /\ batch = {} /\ settled = {} /\ dropped = {} /\ inTime = {}
    /\ entries = 0
    /\ auditor = "running"

auditVars == <<queue, batch, settled, dropped, entries, auditor, inTime>>

-----------------------------------------------------------------------------
(* AdmitPeerStream: one more request for an item under way costs nothing.  *)
Admitted(i) == i \in Active \/ Cardinality(Active) < MaxStreams

Admit(r, i) ==
    /\ request[r] = NoRequest /\ Admitted(i)
    /\ request' = [request EXCEPT ![r] = i]
    /\ UNCHANGED <<sessions, auditVars>>

(* StartSession fails, or the session is registered after it.              *)
Register(r) ==
    /\ request[r] # NoRequest
    /\ request' = [request EXCEPT ![r] = NoRequest]
    /\ sessions' \in {sessions, [sessions EXCEPT ![request[r]] = 0]}
    /\ UNCHANGED auditVars

(* LookupPeerStreamSession, by every manifest and segment.                 *)
Lookup(i) ==
    /\ i \in Active
    /\ sessions' = [sessions EXCEPT ![i] = 0]
    /\ UNCHANGED <<request, auditVars>>

(* A sweep's worth of time, and SweepStreamSessions.                       *)
Sweep ==
    /\ sessions' = [i \in PeerItems |-> IF i \in Active THEN sessions[i] + 1 ELSE Gone]
    /\ UNCHANGED <<request, auditVars>>

-----------------------------------------------------------------------------
Full == Len(queue) = QueueSize

(* Auditor.Record never waits.                                             *)
Record ==
    /\ entries < MaxEntries /\ entries' = entries + 1
    /\ IF Full
       THEN dropped' = dropped \cup {entries'} /\ UNCHANGED <<queue, inTime>>
       ELSE /\ queue' = Append(queue, entries')
            /\ inTime' = IF auditor = "running" THEN inTime \cup {entries'} ELSE inTime
            /\ UNCHANGED dropped
    /\ UNCHANGED <<sessions, request, batch, settled, auditor>>

(* run drains what there is into a batch, or flush takes one entry.        *)
Take ==
    /\ auditor # "closed" /\ batch = {} /\ queue # <<>>
    /\ \E n \in 1 .. Len(queue) :
          /\ batch' = {queue[k] : k \in 1 .. n}
          /\ queue' = SubSeq(queue, n + 1, Len(queue))
    /\ UNCHANGED <<sessions, request, settled, dropped, entries, auditor, inTime>>

(* An insert that fails is logged, and the next one is tried.              *)
Persist ==
    /\ batch # {}
    /\ \E e \in batch : batch' = batch \ {e} /\ settled' = settled \cup {e}
    /\ UNCHANGED <<sessions, request, queue, dropped, entries, auditor, inTime>>

CloseAuditor ==
    /\ auditor = "running" /\ auditor' = "closing"
    /\ UNCHANGED <<sessions, request, queue, batch, settled, dropped, entries, inTime>>

(* Variant with a bug: the goroutine ends at once when done is closed.     *)
EndsAtOnce == batch = {}

(* The last flush returns when it finds the queue empty.                   *)
Flushed == batch = {} /\ queue = <<>>

Closed ==
    /\ auditor = "closing" /\ Flushed
    /\ auditor' = "closed"
    /\ UNCHANGED <<sessions, request, queue, batch, settled, dropped, entries, inTime>>

Next ==
    \/ \E r \in Requests : Register(r) \/ \E i \in PeerItems : Admit(r, i)
    \/ \E i \in PeerItems : Lookup(i)
    \/ Sweep \/ Record \/ Take \/ Persist \/ CloseAuditor \/ Closed

Spec == Init /\ [][Next]_streamVars

-----------------------------------------------------------------------------
(* PROPERTIES *)

(* The peer's streams are bounded by the cap and by the requests that were *)
(* admitted before the others had registered (the window that              *)
(* AdmitPeerStream's comment tells of): no sequence of expired and         *)
(* restarted streams adds to that.                                         *)
StreamsBounded == Cardinality(Active) <= MaxStreams + Cardinality(Requests) - 1

(* When Close has returned, what was queued before it was called is in the *)
(* database, or its own insert failed (Auditor.run, flush).                *)
AuditFlushed == auditor = "closed" => inTime \subseteq settled

(* What streaming to a peer promises together.                             *)
PeerStreamsSafe == StreamsBounded /\ AuditFlushed
=============================================================================
