--------------------------- MODULE TorrentManager ---------------------------
(***************************************************************************)
(* The torrent manager (internal/torrentstream/manager.go, download.go):   *)
(* streaming sessions and downloads share the torrents of one client and   *)
(* count their holders; the last holder drops the torrent and removes its  *)
(* scratch directory.                                                      *)
(*                                                                         *)
(* The client (a library) deduplicates torrents: adding one that it has    *)
(* yields the same object, which everybody who holds the torrent shares.   *)
(* An object that was dropped is dead: it fetches nothing more, and adding *)
(* the torrent again makes another.                                        *)
(***************************************************************************)
EXTENDS Naturals, FiniteSets

CONSTANTS
    Torrents,      \* infohashes
    Sources,       \* magnets and URLs
    TorrentOf,     \* source -> the torrent it stands for
    Tasks,         \* requests (GetOrStart) and downloads that run at a time
    None,
    MaxActive      \* opts.MaxSessions

VARIABLES
    scratch,       \* torrents with data in the scratch directory
    holders,       \* Manager.holders
    active,        \* Manager.sessions: torrent -> its session, or None
    alias,         \* Manager.bySrc: source -> the torrent of its session, or None
    task,          \* task -> its progress
    reaped,        \* sessions that reapIdle took and has not released yet
    closed,        \* Close was called
    leaked         \* history: torrents whose directory was not removed

torrentVars == <<scratch, holders, active, alias, task, reaped, closed, leaked>>

StreamSession == [dead : BOOLEAN]       \* its torrent object was dropped

Task == [ pc   : {"off", "touch", "add", "acquire", "info", "fetch", "release", "drop"},
          kind : {"stream", "download"},
          src  : Sources \cup {None},
          dead : BOOLEAN ]              \* its torrent object was dropped

OffTask == [pc |-> "off", kind |-> "stream", src |-> None, dead |-> FALSE]

\* each task, the session of the torrent, and the one that the reaper releases
MaxHolders == Cardinality(Tasks) + 2

TypeOK ==
    /\ scratch \subseteq Torrents
    /\ holders \in [Torrents -> 0 .. MaxHolders]
    /\ active \in [Torrents -> StreamSession \cup {None}]
    /\ alias \in [Sources -> Torrents \cup {None}]
    /\ task \in [Tasks -> Task]
    /\ \A r \in reaped : r.torrent \in Torrents /\ r.dead \in BOOLEAN /\ r.last \in BOOLEAN
    /\ closed \in BOOLEAN
    /\ leaked \subseteq Torrents

Init ==
    /\ scratch = {}
    /\ holders = [t \in Torrents |-> 0]
    /\ active = [t \in Torrents |-> None]
    /\ alias = [s \in Sources |-> None]
    /\ task = [k \in Tasks |-> OffTask]
    /\ reaped = {}
    /\ closed = FALSE
    /\ leaked = {}

Of(k) == TorrentOf[task[k].src]
Sessions == {t \in Torrents : active[t] # None}
Goto(k, pc) == task' = [task EXCEPT ![k].pc = pc]
Finish(k) == task' = [task EXCEPT ![k] = OffTask]

-----------------------------------------------------------------------------
(* GetOrStart joins a session that has this source as an alias (Lookup,    *)
(* then Touch: GetActive lets go of the lock in between); otherwise it will *)
(* add the torrent.  A download of a source that is being downloaded is    *)
(* refused.                                                                *)
Downloading(s) ==
    \E k \in Tasks : /\ task[k].kind = "download" /\ task[k].src = s
                     /\ task[k].pc \in {"add", "acquire", "info", "fetch"}

Starts(k, s, kind, pc) ==
    task' = [task EXCEPT ![k] = [pc |-> pc, kind |-> kind, src |-> s, dead |-> FALSE]]

Lookup(k, s) ==
    /\ ~closed /\ task[k].pc = "off" /\ alias[s] # None
    /\ Starts(k, s, "stream", "touch")
    /\ UNCHANGED <<scratch, holders, active, alias, reaped, closed, leaked>>

(* The time of its last use is set, of which Reap knows nothing; a session *)
(* that reapIdle took meanwhile is handed out all the same.                *)
Touch(k) ==
    /\ task[k].pc = "touch"
    /\ Finish(k)
    /\ UNCHANGED <<scratch, holders, active, alias, reaped, closed, leaked>>

Begin(k, s, kind) ==
    /\ ~closed /\ task[k].pc = "off"
    /\ IF kind = "stream" THEN alias[s] = None ELSE ~Downloading(s)
    /\ Starts(k, s, kind, "add")
    /\ UNCHANGED <<scratch, holders, active, alias, reaped, closed, leaked>>

(* addTorrent, which may fail: the client's object, at first alive.        *)
Add(k) ==
    /\ task[k].pc = "add"
    /\ Finish(k) \/ (~closed /\ Goto(k, "acquire"))
    /\ UNCHANGED <<scratch, holders, active, alias, reaped, closed, leaked>>

Acquire(k) ==
    /\ task[k].pc = "acquire"
    /\ holders' = [holders EXCEPT ![Of(k)] = @ + 1]
    /\ Goto(k, "info")
    /\ UNCHANGED <<scratch, active, alias, reaped, closed, leaked>>

(* The metadata does not come (the timeout, the request's end, Close), or  *)
(* names no file that could be played or downloaded.                       *)
NoInfo(k) ==
    /\ task[k].pc = "info"
    /\ Goto(k, "release")
    /\ UNCHANGED <<scratch, holders, active, alias, reaped, closed, leaked>>

(* Variant with a bug: the session that is joined keeps a second holder.   *)
JoinHolding(k) == Finish(k)
AfterJoin(k) == Goto(k, "release")

Full == Cardinality(Sessions) >= MaxActive

(* The metadata is there: join the session of the torrent, be refused, or  *)
(* become its session, which inherits the holder.                          *)
Stream(k) ==
    LET t == Of(k) IN
    /\ task[k].pc = "info" /\ task[k].kind = "stream"
    /\ \/ /\ active[t] # None
          /\ alias' = [alias EXCEPT ![task[k].src] = t]
          /\ AfterJoin(k)
          /\ UNCHANGED active
       \/ /\ active[t] = None /\ Full
          /\ Goto(k, "release")
          /\ UNCHANGED <<active, alias>>
       \/ /\ active[t] = None /\ ~Full
          /\ active' = [active EXCEPT ![t] = [dead |-> task[k].dead]]
          /\ alias' = [alias EXCEPT ![task[k].src] = t]
          /\ Finish(k)
    /\ UNCHANGED <<scratch, holders, reaped, closed, leaked>>

Download(k) ==
    /\ task[k].pc = "info" /\ task[k].kind = "download"
    /\ Goto(k, "fetch")
    /\ UNCHANGED <<scratch, holders, active, alias, reaped, closed, leaked>>

(* A download ends when all is there and copied, or the copy failed, or    *)
(* with Close; a dead object never completes.                              *)
EndDownload(k) ==
    /\ task[k].pc = "fetch" /\ (~task[k].dead \/ closed)
    /\ Goto(k, "release")
    /\ UNCHANGED <<scratch, holders, active, alias, reaped, closed, leaked>>

-----------------------------------------------------------------------------
(* The client writes what it fetches of a torrent whose object is alive,   *)
(* whoever has the object.                                                 *)
Has(k, t) == task[k].pc \notin {"off", "touch", "add"} /\ Of(k) = t

Alive(t) ==
    \/ \E k \in Tasks : Has(k, t) /\ ~task[k].dead
    \/ active[t] # None /\ ~active[t].dead
    \/ \E r \in reaped : r.torrent = t /\ ~r.dead

Fetch(t) ==
    /\ Alive(t) /\ t \notin scratch
    /\ scratch' = scratch \cup {t}
    /\ UNCHANGED <<holders, active, alias, task, reaped, closed, leaked>>

-----------------------------------------------------------------------------
(* release: decrement under the lock; the last holder then drops the       *)
(* object and removes the directory, outside the lock.                     *)
Last(t) == holders[t] = 1

Release(k) ==
    LET t == Of(k) IN
    /\ task[k].pc = "release"
    /\ holders' = [holders EXCEPT ![t] = @ - 1]
    /\ IF Last(t) THEN Goto(k, "drop") ELSE Finish(k)
    /\ UNCHANGED <<scratch, active, alias, reaped, closed, leaked>>

(* Drop of an object that is alive: whoever has that object has a dead one.*)
(* Drop of a dead one changes nothing, and is no step here.                *)
Drop(t) ==
    /\ task' = [k \in Tasks |-> IF Has(k, t) THEN [task[k] EXCEPT !.dead = TRUE] ELSE task[k]]
    /\ active' = [active EXCEPT ![t] = IF @ = None THEN None ELSE [@ EXCEPT !.dead = TRUE]]
    /\ reaped' = {[r EXCEPT !.dead = @ \/ r.torrent = t] : r \in reaped}
    /\ UNCHANGED <<scratch, holders, alias, closed, leaked>>

(* RemoveAll, whose failure is only logged; and nothing is removed when    *)
(* release could make no path of the name, which it read before it took    *)
(* the lock and perhaps before the metadata was there.                     *)
RemoveScratch(t) ==
    \/ scratch' = scratch \ {t} /\ leaked' = leaked \ {t}
    \/ scratch' = scratch /\ leaked' = leaked \cup (scratch \cap {t})

DropLast(k) == task[k].pc = "drop" /\ ~task[k].dead /\ Drop(Of(k))

RemoveLast(k) ==
    /\ task[k].pc = "drop" /\ task[k].dead
    /\ RemoveScratch(Of(k))
    /\ Finish(k)
    /\ UNCHANGED <<holders, active, alias, reaped, closed>>

-----------------------------------------------------------------------------
(* reapIdle takes sessions, those that it finds idle, and their aliases,   *)
(* then releases them one by one.                                          *)
AliasesWithout(S) == [s \in Sources |-> IF alias[s] \in S THEN None ELSE alias[s]]

Reap(S) ==
    /\ ~closed /\ reaped = {} /\ S # {}
    /\ reaped' = {[torrent |-> t, dead |-> active[t].dead, last |-> FALSE] : t \in S}
    /\ active' = [t \in Torrents |-> IF t \in S THEN None ELSE active[t]]
    /\ alias' = AliasesWithout(S)
    /\ UNCHANGED <<scratch, holders, task, closed, leaked>>

ReleaseReaped(r) ==
    /\ r \in reaped /\ ~r.last /\ \A q \in reaped : ~q.last
    /\ holders' = [holders EXCEPT ![r.torrent] = @ - 1]
    /\ reaped' = (reaped \ {r}) \cup (IF Last(r.torrent) THEN {[r EXCEPT !.last = TRUE]} ELSE {})
    /\ UNCHANGED <<scratch, active, alias, task, closed, leaked>>

DropReaped(r) == r \in reaped /\ r.last /\ ~r.dead /\ Drop(r.torrent)

RemoveReaped(r) ==
    /\ r \in reaped /\ r.last /\ r.dead
    /\ RemoveScratch(r.torrent)
    /\ reaped' = reaped \ {r}
    /\ UNCHANGED <<holders, active, alias, task, closed>>

(* Close cancels the downloads and waits for the reaper.                   *)
Close ==
    /\ ~closed /\ reaped = {}
    /\ closed' = TRUE
    /\ UNCHANGED <<scratch, holders, active, alias, task, reaped, leaked>>

TaskStep(k) ==
    \/ Touch(k) \/ Add(k) \/ Acquire(k) \/ NoInfo(k) \/ Stream(k) \/ Download(k)
    \/ EndDownload(k) \/ Release(k) \/ DropLast(k) \/ RemoveLast(k)

Next ==
    \/ \E k \in Tasks : \/ TaskStep(k)
                        \/ \E s \in Sources : Lookup(k, s)
                        \/ \E s \in Sources, kind \in {"stream", "download"} : Begin(k, s, kind)
    \/ \E t \in Torrents : Fetch(t)
    \/ \E r \in reaped : ReleaseReaped(r) \/ DropReaped(r) \/ RemoveReaped(r)
    \/ \E S \in SUBSET Sessions : Reap(S)
    \/ Close

Spec == Init /\ [][Next]_torrentVars

-----------------------------------------------------------------------------
(* PROPERTIES *)

Holding(k, t) == task[k].pc \in {"info", "fetch", "release"} /\ Of(k) = t

(* The count of a torrent is exactly its session, the session that the     *)
(* reaper is about to release, and the tasks that acquired it: no path     *)
(* through a join, a refusal, a failure or a reap counts twice or forgets. *)
HoldersExact ==
    \A t \in Torrents :
        holders[t] = Cardinality({k \in Tasks : Holding(k, t)})
                     + Cardinality({r \in reaped : r.torrent = t /\ ~r.last})
                     + (IF active[t] # None THEN 1 ELSE 0)

(* A source leads to a session of its torrent that is in the map, so that  *)
(* a lookup by source (GetActive) finds none that was reaped before it,    *)
(* though a reap between the lookup and the touch still gets through.      *)
AliasesLive ==
    \A s \in Sources : alias[s] # None => alias[s] = TorrentOf[s] /\ active[alias[s]] # None

(* MaxSessions holds at every moment, although the metadata is awaited     *)
(* between the request and the check.                                      *)
SessionsCapped == Cardinality(Sessions) <= MaxActive

(* When nobody holds a torrent and nobody is on the way to hold or drop    *)
(* it, its scratch data is gone, or the last attempt to remove it failed:  *)
(* the order of the last release, the drop outside the lock (release), the *)
(* next request and what the client still writes leaks no disk space by    *)
(* itself.                                                                 *)
ScratchRemoved ==
    \A t \in Torrents :
        (/\ holders[t] = 0
         /\ \A k \in Tasks : ~Has(k, t)
         /\ \A r \in reaped : r.torrent # t) => t \notin scratch \ leaked

(* What the torrent manager promises together.                             *)
TorrentsSafe == HoldersExact /\ AliasesLive /\ SessionsCapped /\ ScratchRemoved
=============================================================================
