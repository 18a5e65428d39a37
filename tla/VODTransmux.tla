----------------------------- MODULE VODTransmux -----------------------------
(***************************************************************************)
(* The transcoder of torrents (internal/torrentstream/vodtransmux.go), for *)
(* one infohash: Prepare registers a placeholder, probes the file, starts  *)
(* ffmpeg into the infohash's work directory and waits for a segment;      *)
(* others who ask meanwhile wait for that decision.  Stop, which requests, *)
(* the exit watcher, the reaper and Shutdown call, knows a session only by *)
(* its infohash.                                                           *)
(*                                                                         *)
(* A session is a slot: "free", a placeholder, or filled with its process  *)
(* and directory.  A slot is used again when nothing refers to it.         *)
(***************************************************************************)
EXTENDS Naturals, FiniteSets

CONSTANTS
    Requests,      \* requests (handlers torrent.Play) that run at a time
    Slots,         \* sessions that exist at a time
    Reaper, Closer, None

VARIABLES
    cur,           \* sessions[infohash]: a slot or None
    reader,        \* readers[infohash] is set
    dir,           \* the work directory: "none", "empty", "segment"
    ses,           \* slot -> vodSession and its ffmpeg
    req,           \* request -> its progress in Prepare
    stops,         \* agent -> its progress in Stop
    down           \* Shutdown was called

vodVars == <<cur, reader, dir, ses, req, stops, down>>

\* Whoever calls Stop: requests, the watcher of a slot, reaper, Shutdown.
Agents == Requests \cup Slots \cup {Reaper, Closer}

Slot == [ st       : {"free", "placeholder", "filled"},
          ready    : BOOLEAN,                     \* the channel is closed
          stopping : BOOLEAN,
          run      : BOOLEAN,                     \* its ffmpeg runs
          watch    : {"off", "on", "crashed"} ]   \* watchExit

FreeSlot == [st |-> "free", ready |-> FALSE, stopping |-> FALSE, run |-> FALSE,
             watch |-> "off"]
NoStop == [pc |-> "off", slot |-> None]
NoRequest == [pc |-> "off", slot |-> None]

TypeOK ==
    /\ cur \in Slots \cup {None} /\ reader \in BOOLEAN
    /\ dir \in {"none", "empty", "segment"}
    /\ ses \in [Slots -> Slot]
    /\ req \in [Requests -> [pc : {"off", "await", "probe", "mkdir", "start", "fill", "wait",
                                   "stop", "drop", "keep"},
                             slot : Slots \cup {None}]]
    /\ stops \in [Agents -> [pc : {"off", "take", "kill", "clean"}, slot : Slots \cup {None}]]
    /\ down \in BOOLEAN
    /\ \A s \in Slots : ses[s].run => ses[s].st # "free"

Init ==
    /\ cur = None /\ reader = FALSE /\ dir = "none"
    /\ ses = [s \in Slots |-> FreeSlot]
    /\ req = [r \in Requests |-> NoRequest]
    /\ stops = [a \in Agents |-> NoStop]
    /\ down = FALSE

Goto(r, pc) == req' = [req EXCEPT ![r].pc = pc]
StopPc(a, pc) == stops' = [stops EXCEPT ![a].pc = pc]
Own(r) == req[r].slot

-----------------------------------------------------------------------------
(* A slot that nothing refers to is free again: the map, a request, the    *)
(* watcher, a Stop, the process.                                           *)
Referred(s) ==
    \/ cur = s \/ ses[s].run \/ ses[s].watch # "off" \/ stops[s].pc # "off"
    \/ \E r \in Requests : req[r].slot = s
    \/ \E a \in Agents : stops[a].slot = s

UnusedSlots == {s \in Slots : ~Referred(s)}

Joinable == cur # None

(* Prepare, under the lock: wait for the session there is, or register a   *)
(* placeholder and the reader.                                             *)
Prepare(r) ==
    /\ ~down /\ req[r].pc = "off"
    /\ \/ /\ Joinable
          /\ req' = [req EXCEPT ![r] = [pc |-> "await", slot |-> cur]]
          /\ UNCHANGED <<cur, reader, ses>>
       \/ /\ ~Joinable
          /\ UnusedSlots # {}
          /\ cur' = CHOOSE s \in UnusedSlots : TRUE     \* any: slots are names
          /\ ses' = [ses EXCEPT ![cur'] = [FreeSlot EXCEPT !.st = "placeholder"]]
          /\ req' = [req EXCEPT ![r] = [pc |-> "probe", slot |-> cur']]
          /\ reader' = TRUE
    /\ UNCHANGED <<dir, stops, down>>

(* awaitSession: the decision, or the waiter's own context.                *)
Await(r) ==
    /\ req[r].pc = "await" /\ ses[Own(r)].ready
    /\ req' = [req EXCEPT ![r] = NoRequest]
    /\ UNCHANGED <<cur, reader, dir, ses, stops, down>>

LeaveAwait(r) ==
    /\ req[r].pc = "await"
    /\ req' = [req EXCEPT ![r] = NoRequest]
    /\ UNCHANGED <<cur, reader, dir, ses, stops, down>>

(* The probe reads the file through the loopback server, which needs the   *)
(* reader; it fails, or says that the file needs no transcoder (direct     *)
(* play, re-encoding declined), or that it does.                           *)
Probe(r) ==
    /\ req[r].pc = "probe"
    /\ \/ Goto(r, "drop")
       \/ reader /\ Goto(r, "mkdir")
    /\ UNCHANGED <<cur, reader, dir, ses, stops, down>>

(* startTranscode begins with a clean directory.                           *)
Mkdir(r) ==
    /\ req[r].pc = "mkdir"
    /\ \/ dir' = "empty" /\ Goto(r, "start")
       \/ dir' = "none" /\ Goto(r, "drop")
    /\ UNCHANGED <<cur, reader, ses, stops, down>>

StartFFmpeg(r) ==
    /\ req[r].pc = "start"
    /\ \/ /\ ses' = [ses EXCEPT ![Own(r)].run = TRUE]
          /\ Goto(r, "fill")
          /\ UNCHANGED dir
       \/ /\ dir' = "none"
          /\ Goto(r, "drop")
          /\ UNCHANGED ses
    /\ UNCHANGED <<cur, reader, stops, down>>

Fill(r) ==
    /\ req[r].pc = "fill"
    /\ ses' = [ses EXCEPT ![Own(r)].st = "filled", ![Own(r)].watch = "on"]
    /\ Goto(r, "wait")
    /\ UNCHANGED <<cur, reader, dir, stops, down>>

(* waitFirstSegment polls the directory, whoever wrote to it.              *)
FirstSegment(r) ==
    /\ req[r].pc = "wait" /\ dir = "segment"
    /\ Goto(r, "keep")
    /\ UNCHANGED <<cur, reader, dir, ses, stops, down>>

(* Variant with a bug: a failed start only drops the placeholder.          *)
NoStopOnFailure(r) == Goto(r, "drop") /\ UNCHANGED stops

FailedStart(r) == Goto(r, "stop") /\ StopPc(r, "take")

NoSegment(r) ==
    /\ req[r].pc = "wait"
    /\ FailedStart(r)
    /\ UNCHANGED <<cur, reader, dir, ses, down>>

(* finish: without a transcoder to keep, drop the placeholder, if it is    *)
(* still ours, and the reader; close ready.                                *)
Publish(r) ==
    /\ req[r].pc \in {"drop", "keep"}
    /\ \/ /\ req[r].pc = "drop"
          /\ cur' = IF cur = Own(r) THEN None ELSE cur
          /\ reader' = FALSE
       \/ req[r].pc = "keep" /\ UNCHANGED <<cur, reader>>
    /\ ses' = [ses EXCEPT ![Own(r)].ready = TRUE]
    /\ req' = [req EXCEPT ![r] = NoRequest]
    /\ UNCHANGED <<dir, stops, down>>

-----------------------------------------------------------------------------
(* ffmpeg writes segments while the directory exists, and ends: cleanly,   *)
(* which keeps the session, or with an error, which its watcher reports.   *)
Segment(s) ==
    /\ ses[s].run /\ dir = "empty"
    /\ dir' = "segment"
    /\ UNCHANGED <<cur, reader, ses, req, stops, down>>

Exit(s) ==
    /\ ses[s].run /\ ses[s].watch = "on"
    /\ \E end \in {"off"} \cup (IF ses[s].stopping THEN {} ELSE {"crashed"}) :
            ses' = [ses EXCEPT ![s].run = FALSE, ![s].watch = end]
    /\ UNCHANGED <<cur, reader, dir, req, stops, down>>

(* watchExit looks, under the lock, if the session is still registered; it *)
(* calls Stop after it.                                                    *)
WatchExit(s) ==
    /\ ses[s].watch = "crashed"
    /\ ses' = [ses EXCEPT ![s].watch = "off"]
    /\ IF cur = s THEN StopPc(s, "take") ELSE UNCHANGED stops
    /\ UNCHANGED <<cur, reader, dir, req, down>>

-----------------------------------------------------------------------------
(* Stop.  Take: under the lock, whatever session the infohash has now.     *)
After(a) ==
    req' = IF a \in Requests THEN [req EXCEPT ![a].pc = "drop"] ELSE req

Take(a) ==
    /\ stops[a].pc = "take"
    /\ cur' = None /\ reader' = FALSE
    /\ IF cur = None
       THEN stops' = [stops EXCEPT ![a] = NoStop] /\ After(a)
       ELSE stops' = [stops EXCEPT ![a] = [pc |-> "kill", slot |-> cur]] /\ UNCHANGED req
    /\ UNCHANGED <<dir, ses, down>>

(* Kill and wait; a placeholder has no process to kill yet.                *)
Kill(a) ==
    LET s == stops[a].slot IN
    /\ stops[a].pc = "kill"
    /\ ses' = IF ses[s].st = "filled"
              THEN [ses EXCEPT ![s].stopping = TRUE, ![s].run = FALSE,
                               ![s].watch = IF @ = "on" THEN "off" ELSE @]
              ELSE [ses EXCEPT ![s].stopping = TRUE]
    /\ StopPc(a, "clean")
    /\ UNCHANGED <<cur, reader, dir, req, down>>

(* The session's directory, if it has one by now, is removed.              *)
Clean(a) ==
    /\ stops[a].pc = "clean"
    /\ dir' = IF ses[stops[a].slot].st = "filled" THEN "none" ELSE dir
    /\ stops' = [stops EXCEPT ![a] = NoStop]
    /\ After(a)
    /\ UNCHANGED <<cur, reader, ses, down>>

(* reapIdle: a session without a viewer.  One that is being decided is     *)
(* younger than the idle timeout: its probe takes 60 s at most, its first  *)
(* segment 30 s, and the timeout is 5 minutes unless it is configured.     *)
ReapIdle ==
    /\ ~down /\ stops[Reaper].pc = "off"
    /\ cur # None /\ ses[cur].ready
    /\ StopPc(Reaper, "take")
    /\ UNCHANGED <<cur, reader, dir, ses, req, down>>

(* Shutdown waits for the reaper, then stops the session there is.         *)
Shutdown ==
    /\ ~down /\ stops[Reaper].pc = "off"
    /\ down' = TRUE
    /\ IF cur # None THEN StopPc(Closer, "take") ELSE UNCHANGED stops
    /\ UNCHANGED <<cur, reader, dir, ses, req>>

RequestStep(r) ==
    \/ Await(r) \/ Probe(r) \/ Mkdir(r) \/ StartFFmpeg(r) \/ Fill(r)
    \/ FirstSegment(r) \/ NoSegment(r) \/ Publish(r)

StopStep(a) == Take(a) \/ Kill(a) \/ Clean(a)

Next ==
    \/ \E r \in Requests : Prepare(r) \/ RequestStep(r) \/ LeaveAwait(r)
    \/ \E s \in Slots : Segment(s) \/ Exit(s) \/ WatchExit(s)
    \/ \E a \in Agents : StopStep(a)
    \/ ReapIdle \/ Shutdown

Spec == Init /\ [][Next]_vodVars

-----------------------------------------------------------------------------
(* PROPERTIES *)

(* vodtransmux.go:226: registering the placeholder under the lock "is what *)
(* guarantees a single ffmpeg per infohash".  One that a Stop is about to  *)
(* kill does not count.                                                    *)
BeingStopped(s) == \E a \in Agents : stops[a].slot = s

OneTranscoder == Cardinality({s \in Slots : ses[s].run /\ ~BeingStopped(s)}) <= 1

(* An ffmpeg that nobody reaches through the map is being stopped, or the  *)
(* Stop that took its session came when it was a placeholder, without a    *)
(* process to kill (Stop, startTranscode): no other path forgets one.      *)
OrphansWereStopped ==
    \A s \in Slots : ses[s].run /\ cur # s => ses[s].stopping \/ BeingStopped(s)

(* A session in the map is being decided by a request, or it was decided   *)
(* and filled: a failed start (finish) leaves no empty session behind that *)
(* every later Prepare would join.  Whether its process still runs is not  *)
(* part of it.                                                             *)
Decider(s) == {r \in Requests : req[r].slot = s /\ req[r].pc # "await"}

RegisteredDecided ==
    cur # None => Decider(cur) # {} \/ (ses[cur].st = "filled" /\ ses[cur].ready)

(* Whoever waits for a session (awaitSession) has an answer, or somebody   *)
(* who will give it: the request that decides closes ready on every path,  *)
(* also when its session was stopped under it.                             *)
WaitersAnswered ==
    \A r \in Requests : req[r].pc = "await" => ses[Own(r)].ready \/ Decider(Own(r)) # {}

(* What Prepare and Stop promise together.                                 *)
PlaysSafe == OrphansWereStopped /\ RegisteredDecided /\ WaitersAnswered
==============================================================================
