----------------------------- MODULE IptvRefresh -----------------------------
(***************************************************************************)
(* Playlist (M3U) and guide (EPG) refreshes of the live TV libraries       *)
(* (internal/iptv/service_m3u.go, service_epg.go, scheduler.go).  They are *)
(* started by the scheduler's loop, by an admin's request, and by an       *)
(* import that found the address of a guide.  Service.refreshes has the    *)
(* library while one runs; the database is read minutes before it is       *)
(* written.                                                                *)
(*                                                                         *)
(* A guide refresh covers channels of every library, of which it needs the *)
(* ids; an import replaces a library's channels by new ones with new ids,  *)
(* its generation here.  An admin edits the address of a guide at any      *)
(* time: what a refresh finds in that column is any value.                 *)
(***************************************************************************)
EXTENDS Naturals

CONSTANTS
    Libraries,
    Tasks,         \* goroutines that may be refreshing at a time
    MaxImports,    \* bound of the model: generations of a library's channels
    None

VARIABLES
    refreshes,     \* Service.refreshes
    gen,           \* library -> generation of its channels
    guide,         \* library -> generation whose channels have programmes
    run,           \* task -> its progress
    spawned,       \* libraries of guide refreshes that SpawnBackground was given
    phase          \* of Service.Shutdown

refreshVars == <<refreshes, gen, guide, run, spawned, phase>>

Gens == 0 .. MaxImports

\* "tx", "found", "write": in a transaction or statement that began before the
\* context was cancelled, and may still be committed.
Run == [ pc : {"off", "spawn", "read", "fetch", "tx", "found", "next", "write", "release"},
         kind : {"m3u", "epg"}, lib : Libraries \cup {None},
         by : {"scheduler", "request", "background"},
         ids : [Libraries -> Gens] ]                \* of the channels that were read

Off == [pc |-> "off", kind |-> "m3u", lib |-> None, by |-> "request",
        ids |-> [l \in Libraries |-> 0]]

Running(t) == run[t].pc # "off"

TypeOK ==
    /\ refreshes \subseteq Libraries
    /\ gen \in [Libraries -> Gens]
    /\ guide \in [Libraries -> Gens \cup {None}]
    /\ run \in [Tasks -> Run]
    /\ \A t \in Tasks : Running(t) => run[t].lib \in Libraries
    /\ spawned \subseteq Libraries
    /\ phase \in {"running", "draining", "stopped"}
    \* the scheduler's loop runs one job after the other
    /\ \A t, u \in Tasks : run[t].by = "scheduler" /\ run[u].by = "scheduler" => t = u

Init ==
    /\ refreshes = {}
    /\ gen = [l \in Libraries |-> 0]
    /\ guide = [l \in Libraries |-> None]
    /\ run = [t \in Tasks |-> Off]
    /\ spawned = {}
    /\ phase = "running"

(* The goroutines of SpawnBackground run under bgCtx.                      *)
Cancelled(t) == run[t].by = "background" /\ phase # "running"

Goto(t, pc) == run' = [run EXCEPT ![t].pc = pc]

-----------------------------------------------------------------------------
Free(l) == l \notin refreshes

Begin(t, l, kind, by, pc) ==
    run' = [run EXCEPT ![t] = [pc |-> pc, kind |-> kind, lib |-> l, by |-> by,
                               ids |-> Off.ids]]

(* runOne on the scheduler's loop, a synchronous request (RunNow,          *)
(* RefreshEPG), or the handler of an import, which takes the slot and      *)
(* leaves the rest to the background.  Who finds the slot taken is told so *)
(* and nothing changes.                                                    *)
Refresh(t, l) ==
    /\ ~Running(t) /\ phase = "running"
    /\ Free(l) /\ refreshes' = refreshes \cup {l}
    /\ \/ Begin(t, l, "m3u", "request", "spawn")
       \/ \E kind \in {"m3u", "epg"} : Begin(t, l, kind, "request", "read")
       \/ /\ \A u \in Tasks : run[u].by # "scheduler"
          /\ \E kind \in {"m3u", "epg"} : Begin(t, l, kind, "scheduler", "read")
    /\ UNCHANGED <<gen, guide, spawned, phase>>

SpawnImport(t) ==
    /\ run[t].pc = "spawn"
    /\ Begin(t, run[t].lib, "m3u", "background", "read")
    /\ UNCHANGED <<refreshes, gen, guide, spawned, phase>>

(* A spawned guide refresh gets the slot, or is dropped.                   *)
RefreshSpawned(t, l) ==
    /\ ~Running(t) /\ l \in spawned
    /\ spawned' = spawned \ {l}
    /\ IF Free(l)
       THEN refreshes' = refreshes \cup {l} /\ Begin(t, l, "epg", "background", "read")
       ELSE UNCHANGED <<refreshes, run>>
    /\ UNCHANGED <<gen, guide, phase>>

(* The library's row, without which there is nothing to do; for a guide    *)
(* its sources, if it has any, and the channels of every library.          *)
Read(t) ==
    /\ run[t].pc = "read"
    /\ \/ Goto(t, "release")
       \/ ~Cancelled(t) /\ run[t].kind = "m3u" /\ Goto(t, "fetch")
       \/ /\ ~Cancelled(t) /\ run[t].kind = "epg"
          /\ run' = [run EXCEPT ![t] = [run[t] EXCEPT !.pc = "fetch", !.ids = gen]]
    /\ UNCHANGED <<refreshes, gen, guide, spawned, phase>>

(* The download and the parse: they fail, or there is something to write.  *)
Fetch(t) ==
    /\ run[t].pc = "fetch"
    /\ \/ Goto(t, "release")
       \/ ~Cancelled(t) /\ run[t].kind = "m3u" /\ Goto(t, "tx")
       \/ run[t].kind = "epg" /\ Goto(t, "next")
    /\ UNCHANGED <<refreshes, gen, guide, spawned, phase>>

(* ReplaceForLibrary: the programmes of the old channels go with them.     *)
(* The playlist may name a guide, which counts if the library has none.    *)
Replace(t) ==
    LET r == run[t] IN
    /\ r.pc = "tx"
    /\ \/ Goto(t, "release") /\ UNCHANGED <<gen, guide>>
       \/ /\ gen[r.lib] < MaxImports
          /\ gen' = [gen EXCEPT ![r.lib] = @ + 1]
          /\ guide' = [guide EXCEPT ![r.lib] = None]
          /\ \/ Goto(t, "release")
             \/ ~Cancelled(t) /\ Goto(t, "found")
    /\ UNCHANGED <<refreshes, spawned, phase>>

(* persistDiscoveredEPG writes the row that was read back; then the guide  *)
(* is fetched in the background.                                           *)
KeepDiscovered(t) ==
    /\ run[t].pc = "found"
    /\ spawned' \in {spawned, spawned \cup {run[t].lib}}
    /\ Goto(t, "release")
    /\ UNCHANGED <<refreshes, gen, guide, phase>>

-----------------------------------------------------------------------------
(* The channels that are covered, many or none of each library, one        *)
(* transaction after the other.                                            *)
NextChannels(t) ==
    /\ run[t].pc = "next"
    /\ \/ Goto(t, "release")
       \/ ~Cancelled(t) /\ Goto(t, "write")
    /\ UNCHANGED <<refreshes, gen, guide, spawned, phase>>

(* Variant with a bug: the programmes of a channel that is gone are kept.  *)
InsertAnyway(t, l) == TRUE

(* channel_id REFERENCES channels(id).                                     *)
Insertable(t, l) == run[t].ids[l] = gen[l]

(* ReplaceForChannel fails for a channel that has been replaced, and the   *)
(* loop goes on.                                                           *)
ReplaceGuide(t, l) ==
    /\ run[t].pc = "write" /\ Goto(t, "next")
    /\ \/ Insertable(t, l) /\ guide' = [guide EXCEPT ![l] = run[t].ids[l]]
       \/ UNCHANGED guide
    /\ UNCHANGED <<refreshes, gen, spawned, phase>>

Release(t) ==
    /\ run[t].pc = "release"
    /\ refreshes' = refreshes \ {run[t].lib}
    /\ run' = [run EXCEPT ![t] = Off]
    /\ UNCHANGED <<gen, guide, spawned, phase>>

-----------------------------------------------------------------------------
(* Shutdown cancels bgCtx and waits for bgWG.  Requests and the scheduler  *)
(* are given up after a while: some may still be running.                  *)
ShutdownBegin ==
    /\ phase = "running" /\ phase' = "draining"
    /\ UNCHANGED <<refreshes, gen, guide, run, spawned>>

Drained == spawned = {} /\ \A t \in Tasks : run[t].by # "background"

ShutdownReturn ==
    /\ phase = "draining" /\ Drained
    /\ phase' = "stopped"
    /\ UNCHANGED <<refreshes, gen, guide, run, spawned>>

Next ==
    \/ \E t \in Tasks : \/ \E l \in Libraries : \/ Refresh(t, l) \/ RefreshSpawned(t, l)
                                                \/ ReplaceGuide(t, l)
                        \/ SpawnImport(t) \/ Read(t) \/ Fetch(t) \/ Replace(t)
                        \/ KeepDiscovered(t) \/ NextChannels(t) \/ Release(t)
    \/ ShutdownBegin \/ ShutdownReturn

Spec == Init /\ [][Next]_refreshVars

-----------------------------------------------------------------------------
(* PROPERTIES *)

(* "Two concurrent refreshes" of a library never run, and no way out of    *)
(* one, of the many it has, leaves the library marked (TryAcquireRefresh   *)
(* and its release).                                                       *)
SlotExact ==
    /\ refreshes = {run[t].lib : t \in {u \in Tasks : Running(u)}}
    /\ \A t, u \in Tasks : Running(t) /\ Running(u) /\ run[t].lib = run[u].lib => t = u

(* A guide is one of channels the library has: a refresh that read the     *)
(* channels before an import of another library replaced them brings       *)
(* nothing back (RefreshEPG covers every library, its slot is one's own).  *)
GuideOfLiveChannels ==
    \A l \in Libraries : guide[l] # None => guide[l] = gen[l]

(* Once Shutdown has returned no background work writes, whoever spawned   *)
(* it and however late: main closes the database next.                     *)
BackgroundDrained ==
    phase = "stopped" => \A t \in Tasks :
        run[t].by = "background" => run[t].pc \notin {"tx", "found", "write"}

(* What the refreshes promise together.                                    *)
RefreshSafe == SlotExact /\ GuideOfLiveChannels /\ BackgroundDrained
=============================================================================
