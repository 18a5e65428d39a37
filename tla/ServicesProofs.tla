---------------------------- MODULE ServicesProofs ----------------------------
(***************************************************************************)
(* Proofs about the seven media services, for any libraries, items,        *)
(* uploads, torrents, directories, requests at a time and limits; then     *)
(* about the specification that the services run checks.                   *)
(***************************************************************************)
EXTENDS Services, TLAPS, FiniteSetTheorems, SequenceTheorems, WellFoundedInduction

-----------------------------------------------------------------------------
(* Playlist and guide refreshes.                                           *)
RefreshStep(t) ==
    \/ \E l \in Libraries : Refresh(t, l) \/ RefreshSpawned(t, l) \/ ReplaceGuide(t, l)
    \/ SpawnImport(t) \/ Read(t) \/ Fetch(t) \/ Replace(t)
    \/ KeepDiscovered(t) \/ NextChannels(t) \/ Release(t)

(* A step of the system is one of a task, of an admin or of Shutdown.      *)
LEMMA RefreshCases ==
    ASSUME [Next]_refreshVars
    PROVE  \/ \E t \in Tasks : RefreshStep(t)
           \/ ShutdownBegin \/ ShutdownReturn
           \/ UNCHANGED refreshVars
BY DEF Next, RefreshStep

LEMMA RunOfOff == ASSUME MaxImports \in Nat PROVE Off \in Run
BY DEF Off, Run, Gens

LEMMA RefreshInit == ASSUME MaxImports \in Nat PROVE Init => TypeOK
<1>. SUFFICES ASSUME Init PROVE TypeOK
  OBVIOUS
<1>1. run \in [Tasks -> Run] /\ \A t \in Tasks : run[t].pc = "off" /\ run[t].by = "request"
  BY RunOfOff DEF Init, Off
<1>2. gen \in [Libraries -> Gens] /\ guide \in [Libraries -> Gens \cup {None}]
  BY DEF Init, Gens
<1>. QED
  BY <1>1, <1>2 DEF Init, TypeOK, Running

(* Going on with a refresh changes how far it is, and nothing else.        *)
LEMMA GotoTypes ==
    ASSUME run \in [Tasks -> Run], NEW t \in Tasks, NEW pc,
           pc \in {"off", "spawn", "read", "fetch", "tx", "found", "next", "write", "release"},
           Goto(t, pc)
    PROVE  /\ run' \in [Tasks -> Run]
           /\ \A u \in Tasks : u # t => run'[u] = run[u]
           /\ run'[t].pc = pc
           /\ run'[t].kind = run[t].kind
           /\ run'[t].lib = run[t].lib
           /\ run'[t].by = run[t].by
           /\ run'[t].ids = run[t].ids
BY DEF Goto, Run

(* A task that begins a refresh.                                           *)
LEMMA BeginTypes ==
    ASSUME MaxImports \in Nat, run \in [Tasks -> Run], NEW t \in Tasks, NEW l \in Libraries,
           NEW kind \in {"m3u", "epg"}, NEW by \in {"scheduler", "request", "background"},
           NEW pc \in {"spawn", "read"}, Begin(t, l, kind, by, pc)
    PROVE  /\ run' \in [Tasks -> Run]
           /\ \A u \in Tasks : u # t => run'[u] = run[u]
           /\ run'[t].pc = pc
           /\ run'[t].kind = kind
           /\ run'[t].lib = l
           /\ run'[t].by = by
<1>1. Off.ids \in [Libraries -> Gens]
  BY DEF Off, Gens
<1>. QED
  BY <1>1 DEF Begin, Run

(* The steps of a task that neither begin nor end a refresh, but go on.    *)
Goes(t) ==
    /\ run' \in [Tasks -> Run]
    /\ \A u \in Tasks : u # t => run'[u] = run[u]
    /\ run'[t].lib = run[t].lib /\ run'[t].by = run[t].by
    /\ run'[t].pc # "off"

LEMMA ReadGoes ==
    ASSUME TypeOK, NEW t \in Tasks, Read(t)
    PROVE  Goes(t)
<1>0. run \in [Tasks -> Run] /\ gen \in [Libraries -> Gens]
  BY DEF TypeOK
<1>1. CASE Goto(t, "release") \/ Goto(t, "fetch")
  BY <1>0, <1>1, GotoTypes DEF Goes
<1>2. CASE run' = [run EXCEPT ![t] = [run[t] EXCEPT !.pc = "fetch", !.ids = gen]]
  <2> DEFINE r == [run[t] EXCEPT !.pc = "fetch", !.ids = gen]
  <2>1. r \in Run /\ r.lib = run[t].lib /\ r.by = run[t].by /\ r.pc = "fetch"
    BY <1>0 DEF Run
  <2>2. run' = [run EXCEPT ![t] = r]
    BY <1>2
  <2>. HIDE DEF r
  <2>. QED
    BY <1>0, <2>1, <2>2 DEF Goes
<1>. QED
  BY <1>1, <1>2 DEF Read

(* The library of a refresh that is under way.                             *)
LEMMA OthersGo ==
    ASSUME TypeOK, NEW t \in Tasks,
           \/ Fetch(t) \/ Replace(t) \/ KeepDiscovered(t) \/ NextChannels(t)
           \/ \E l \in Libraries : ReplaceGuide(t, l)
    PROVE  Goes(t)
<1>0. run \in [Tasks -> Run]
  BY DEF TypeOK
<1>1. \E pc \in {"release", "tx", "next", "found", "write"} : Goto(t, pc)
  BY DEF Fetch, Replace, KeepDiscovered, NextChannels, ReplaceGuide
<1>. QED
  BY <1>0, <1>1, GotoTypes DEF Goes

(* Who runs for the scheduler is still at most one task.                   *)
LEMMA OneScheduledKept ==
    ASSUME TypeOK, NEW t \in Tasks, \A u \in Tasks : u # t => run'[u] = run[u],
           run'[t].pc # "off" => run'[t].lib \in Libraries,
           run'[t].by # run[t].by /\ run'[t].by = "scheduler"
             => \A u \in Tasks : run[u].by # "scheduler"
    PROVE  /\ (\A u \in Tasks : Running(u) => run[u].lib \in Libraries)'
           /\ (\A u, v \in Tasks : run[u].by = "scheduler" /\ run[v].by = "scheduler" => u = v)'
BY DEF TypeOK, Running

(* A step of a task leaves every task in its type.                         *)
LEMMA StepTypes ==
    ASSUME MaxImports \in Nat, TypeOK, NEW t \in Tasks, RefreshStep(t)
    PROVE  TypeOK'
<1>0. run \in [Tasks -> Run] /\ gen \in [Libraries -> Gens] /\ guide \in [Libraries -> Gens \cup {None}]
  BY DEF TypeOK
<1>1. ASSUME NEW l \in Libraries, Refresh(t, l) PROVE TypeOK'
  <2>1. \E kind \in {"m3u", "epg"}, by \in {"scheduler", "request"}, pc \in {"spawn", "read"} :
          /\ Begin(t, l, kind, by, pc)
          /\ by = "scheduler" => \A u \in Tasks : run[u].by # "scheduler"
    BY <1>1 DEF Refresh
  <2>2. PICK kind \in {"m3u", "epg"}, by \in {"scheduler", "request"}, pc \in {"spawn", "read"} :
          /\ Begin(t, l, kind, by, pc)
          /\ by = "scheduler" => \A u \in Tasks : run[u].by # "scheduler"
    BY <2>1
  <2>3. /\ run' \in [Tasks -> Run]
        /\ \A u \in Tasks : u # t => run'[u] = run[u]
        /\ run'[t].by = by /\ run'[t].lib = l
    BY <1>0, <2>2, BeginTypes
  <2>. QED
    BY <1>1, <2>2, <2>3, OneScheduledKept DEF Refresh, TypeOK
<1>2. ASSUME NEW l \in Libraries, RefreshSpawned(t, l) PROVE TypeOK'
  <2>1. CASE Begin(t, l, "epg", "background", "read") /\ refreshes' = refreshes \cup {l}
    <3>1. /\ run' \in [Tasks -> Run]
          /\ \A u \in Tasks : u # t => run'[u] = run[u]
          /\ run'[t].by = "background" /\ run'[t].lib = l
      BY <1>0, <2>1, BeginTypes
    <3>. QED
      BY <1>2, <2>1, <3>1, OneScheduledKept DEF RefreshSpawned, TypeOK
  <2>2. CASE UNCHANGED <<refreshes, run>>
    BY <1>2, <2>2 DEF RefreshSpawned, TypeOK, Running
  <2>. QED
    BY <1>2, <2>1, <2>2 DEF RefreshSpawned
<1>3. CASE SpawnImport(t)
  <2>1. run[t].lib \in Libraries
    BY <1>3 DEF SpawnImport, TypeOK, Running
  <2>2. /\ run' \in [Tasks -> Run]
        /\ \A u \in Tasks : u # t => run'[u] = run[u]
        /\ run'[t].by = "background" /\ run'[t].lib = run[t].lib
    BY <1>0, <1>3, <2>1, BeginTypes DEF SpawnImport
  <2>. QED
    BY <1>3, <2>1, <2>2, OneScheduledKept DEF SpawnImport, TypeOK
<1>4. CASE run[t].pc # "off" /\ Goes(t) /\ UNCHANGED <<refreshes, phase>>
           /\ spawned' \subseteq Libraries
           /\ gen' \in [Libraries -> Gens] /\ guide' \in [Libraries -> Gens \cup {None}]
  <2>1. run[t].pc # "off"
    BY <1>4
  <2>. QED
    BY <1>4, <2>1, OneScheduledKept DEF Goes, TypeOK, Running
<1>5. CASE Read(t)
  BY <1>0, <1>4, <1>5, ReadGoes DEF Read, TypeOK
<1>6. CASE Fetch(t)
  BY <1>0, <1>4, <1>6, OthersGo DEF Fetch, TypeOK
<1>7. CASE Replace(t)
  <2>1. gen' \in [Libraries -> Gens] /\ guide' \in [Libraries -> Gens \cup {None}]
    BY <1>0, <1>7 DEF Replace, Gens
  <2>. QED
    BY <1>4, <1>7, <2>1, OthersGo DEF Replace, TypeOK
<1>8. CASE KeepDiscovered(t)
  <2>1. run[t].lib \in Libraries
    BY <1>8 DEF KeepDiscovered, TypeOK, Running
  <2>. QED
    BY <1>0, <1>4, <1>8, <2>1, OthersGo DEF KeepDiscovered, TypeOK
<1>9. CASE NextChannels(t)
  BY <1>0, <1>4, <1>9, OthersGo DEF NextChannels, TypeOK
<1>10. ASSUME NEW l \in Libraries, ReplaceGuide(t, l) PROVE TypeOK'
  <2>1. guide' \in [Libraries -> Gens \cup {None}]
    BY <1>0, <1>10 DEF ReplaceGuide, Run
  <2>. QED
    BY <1>0, <1>4, <1>10, <2>1, OthersGo DEF ReplaceGuide, TypeOK
<1>11. CASE Release(t)
  <2>1. /\ run' \in [Tasks -> Run]
        /\ \A u \in Tasks : u # t => run'[u] = run[u]
        /\ run'[t].by = "request" /\ run'[t].pc = "off"
    BY <1>0, <1>11, RunOfOff DEF Release, Off
  <2>. QED
    BY <1>11, <2>1, OneScheduledKept DEF Release, TypeOK
<1>. QED
  BY <1>1, <1>2, <1>3, <1>5, <1>6, <1>7, <1>8, <1>9, <1>10, <1>11 DEF RefreshStep

LEMMA RefreshTypes == ASSUME MaxImports \in Nat, TypeOK, [Next]_refreshVars PROVE TypeOK'
<1>2. CASE ShutdownBegin
  BY <1>2 DEF ShutdownBegin, TypeOK, Running
<1>3. CASE ShutdownReturn
  BY <1>3 DEF ShutdownReturn, TypeOK, Running
<1>4. CASE UNCHANGED refreshVars
  BY <1>4 DEF refreshVars, TypeOK, Running
<1>. QED
  BY <1>2, <1>3, <1>4, RefreshCases, StepTypes

(* The refresh map, the library rows, the guide and the tasks keep their   *)
(* types, and the scheduler runs one job at a time.                        *)
THEOREM RefreshTyped == Spec => []TypeOK
<1>. MaxImports \in Nat
  BY ServicesAssumption
<1>. QED
  BY RefreshInit, RefreshTypes, PTL DEF Spec

-----------------------------------------------------------------------------
(* The slot of a library is taken exactly while a refresh of it runs.      *)

(* A step takes a free slot for an idle task, goes on, or gives the slot   *)
(* back with the task.                                                     *)
Takes(t) ==
    \E l \in Libraries : /\ l \notin refreshes /\ refreshes' = refreshes \cup {l}
                         /\ run[t].pc = "off"
                         /\ run'[t].pc # "off" /\ run'[t].lib = l
Keeps(t) ==
    /\ run[t].pc # "off" /\ refreshes' = refreshes
    /\ run'[t].pc # "off" /\ run'[t].lib = run[t].lib
Gives(t) ==
    /\ run[t].pc # "off" /\ refreshes' = refreshes \ {run[t].lib}
    /\ run'[t].pc = "off"

LEMMA StepShapes ==
    ASSUME MaxImports \in Nat, TypeOK, NEW t \in Tasks, RefreshStep(t)
    PROVE  \/ UNCHANGED <<refreshes, run>>
           \/ (\A u \in Tasks : u # t => run'[u] = run[u]) /\ (Takes(t) \/ Keeps(t) \/ Gives(t))
<1>0. run \in [Tasks -> Run]
  BY DEF TypeOK
<1>1. ASSUME NEW l \in Libraries, Refresh(t, l)
      PROVE  (\A u \in Tasks : u # t => run'[u] = run[u]) /\ Takes(t)
  <2>1. \E kind \in {"m3u", "epg"}, by \in {"scheduler", "request"}, pc \in {"spawn", "read"} :
          Begin(t, l, kind, by, pc)
    BY <1>1 DEF Refresh
  <2>. QED
    BY <1>0, <1>1, <2>1, BeginTypes DEF Refresh, Free, Running, Takes
<1>2. ASSUME NEW l \in Libraries, RefreshSpawned(t, l), ~UNCHANGED <<refreshes, run>>
      PROVE  (\A u \in Tasks : u # t => run'[u] = run[u]) /\ Takes(t)
  <2>1. Begin(t, l, "epg", "background", "read") /\ Free(l) /\ refreshes' = refreshes \cup {l}
    BY <1>2 DEF RefreshSpawned
  <2>. QED
    BY <1>0, <1>2, <2>1, BeginTypes DEF RefreshSpawned, Free, Running, Takes
<1>3. CASE SpawnImport(t)
  <2>1. run[t].lib \in Libraries
    BY <1>3 DEF SpawnImport, TypeOK, Running
  <2>. QED
    BY <1>0, <1>3, <2>1, BeginTypes DEF SpawnImport, Keeps
<1>4. CASE Goes(t) /\ run[t].pc # "off" /\ UNCHANGED refreshes
  BY <1>4 DEF Goes, Keeps
<1>5. CASE Read(t)
  BY <1>4, <1>5, ReadGoes DEF Read
<1>6. CASE Fetch(t)
  BY <1>4, <1>6, OthersGo DEF Fetch
<1>7. CASE Replace(t)
  BY <1>4, <1>7, OthersGo DEF Replace
<1>8. CASE KeepDiscovered(t)
  BY <1>4, <1>8, OthersGo DEF KeepDiscovered
<1>9. CASE NextChannels(t)
  BY <1>4, <1>9, OthersGo DEF NextChannels
<1>10. ASSUME NEW l \in Libraries, ReplaceGuide(t, l) PROVE Goes(t) /\ run[t].pc # "off" /\ UNCHANGED refreshes
  BY <1>10, OthersGo DEF ReplaceGuide
<1>11. CASE Release(t)
  BY <1>0, <1>11 DEF Release, Gives, Off
<1>. QED
  BY <1>1, <1>2, <1>3, <1>4, <1>5, <1>6, <1>7, <1>8, <1>9, <1>10, <1>11 DEF RefreshStep

(* The same, in the form the proofs use: no set is built.                  *)
SlotsHeld ==
    /\ \A t \in Tasks : run[t].pc # "off" => run[t].lib \in refreshes
    /\ \A l \in refreshes : \E t \in Tasks : run[t].pc # "off" /\ run[t].lib = l
    /\ \A t, u \in Tasks : run[t].pc # "off" /\ run[u].pc # "off" /\ run[t].lib = run[u].lib => t = u

LEMMA SlotsExact == SlotsHeld <=> SlotExact
BY DEF SlotsHeld, SlotExact, Running

LEMMA SlotsStep ==
    ASSUME MaxImports \in Nat, TypeOK, SlotsHeld, [Next]_refreshVars
    PROVE  SlotsHeld'
<1>1. CASE UNCHANGED <<refreshes, run>>
  BY <1>1 DEF SlotsHeld
<1>2. ASSUME NEW t \in Tasks, \A u \in Tasks : u # t => run'[u] = run[u], Takes(t) PROVE SlotsHeld'
  BY <1>2 DEF Takes, SlotsHeld
<1>3. ASSUME NEW t \in Tasks, \A u \in Tasks : u # t => run'[u] = run[u], Keeps(t) PROVE SlotsHeld'
  BY <1>3 DEF Keeps, SlotsHeld
<1>4. ASSUME NEW t \in Tasks, \A u \in Tasks : u # t => run'[u] = run[u], Gives(t) PROVE SlotsHeld'
  BY <1>4 DEF Gives, SlotsHeld
<1>5. ShutdownBegin \/ ShutdownReturn \/ UNCHANGED refreshVars
        => UNCHANGED <<refreshes, run>>
  BY DEF ShutdownBegin, ShutdownReturn, refreshVars
<1>. QED
  BY <1>1, <1>2, <1>3, <1>4, <1>5, RefreshCases, StepShapes

(* Whatever way a refresh ends, its library can be refreshed again, and    *)
(* two refreshes of a library never run at the same time.                  *)
THEOREM OneRefreshPerLibrary == Spec => []SlotExact
<1>. MaxImports \in Nat
  BY ServicesAssumption
<1>1. Init => SlotsHeld
  BY DEF Init, SlotsHeld, Off
<1>. QED
  BY <1>1, RefreshInit, RefreshTypes, SlotsStep, SlotsExact, PTL DEF Spec

-----------------------------------------------------------------------------
LEMMA GuideStep ==
    ASSUME MaxImports \in Nat, TypeOK, GuideOfLiveChannels, [Next]_refreshVars
    PROVE  GuideOfLiveChannels'
<1>0. gen \in [Libraries -> Gens] /\ guide \in [Libraries -> Gens \cup {None}]
  BY DEF TypeOK
<1>1. CASE UNCHANGED <<gen, guide>>
  BY <1>1 DEF GuideOfLiveChannels
<1>2. ASSUME NEW t \in Tasks, Replace(t) PROVE GuideOfLiveChannels'
  BY <1>0, <1>1, <1>2 DEF Replace, GuideOfLiveChannels
<1>3. ASSUME NEW t \in Tasks, NEW l \in Libraries, ReplaceGuide(t, l) PROVE GuideOfLiveChannels'
  BY <1>0, <1>1, <1>3 DEF ReplaceGuide, Insertable, GuideOfLiveChannels
<1>4. ASSUME NEW t \in Tasks, RefreshStep(t) PROVE GuideOfLiveChannels'
  <2>1. \/ UNCHANGED <<gen, guide>> \/ Replace(t) \/ \E l \in Libraries : ReplaceGuide(t, l)
    BY <1>4 DEF RefreshStep, Refresh, RefreshSpawned, SpawnImport, Read, Fetch, KeepDiscovered,
                NextChannels, Release
  <2>. QED
    BY <1>1, <1>2, <1>3, <2>1
<1>5. ShutdownBegin \/ ShutdownReturn \/ UNCHANGED refreshVars
        => UNCHANGED <<gen, guide>>
  BY DEF ShutdownBegin, ShutdownReturn, refreshVars
<1>. QED
  BY <1>1, <1>4, <1>5, RefreshCases

(* No guide refresh, however old the channels it read, leaves programmes   *)
(* of channels that an import has replaced.                                *)
THEOREM GuideStaysLive == Spec => []GuideOfLiveChannels
<1>. MaxImports \in Nat
  BY ServicesAssumption
<1>1. Init => GuideOfLiveChannels
  BY DEF Init, GuideOfLiveChannels
<1>. QED
  BY <1>1, RefreshInit, RefreshTypes, GuideStep, PTL DEF Spec

-----------------------------------------------------------------------------
(* After Shutdown has returned, background work that is still spawned      *)
(* finds its context cancelled before its first read.                      *)
Stillborn ==
    phase = "stopped" => \A t \in Tasks : run[t].by = "background" => run[t].pc \in {"read", "release"}

LEMMA StillbornStep ==
    ASSUME MaxImports \in Nat, TypeOK, Stillborn, [Next]_refreshVars
    PROVE  Stillborn'
<1>0. run \in [Tasks -> Run]
  BY DEF TypeOK
<1>1. CASE UNCHANGED <<run, phase>>
  BY <1>1 DEF Stillborn
<1>2. CASE ShutdownBegin
  BY <1>2 DEF ShutdownBegin, Stillborn
<1>3. CASE ShutdownReturn
  BY <1>3 DEF ShutdownReturn, Drained, Stillborn
<1>4. ASSUME NEW t \in Tasks, RefreshStep(t), ~UNCHANGED run PROVE Stillborn'
  <2>1. UNCHANGED phase
    BY <1>4 DEF RefreshStep, Refresh, RefreshSpawned, SpawnImport, Read, Fetch, Replace, KeepDiscovered,
                NextChannels, ReplaceGuide, Release
  <2>2. CASE \A u \in Tasks : u # t => run'[u] = run[u]
    <3>1. ASSUME run'[t].by = "background" => run'[t].pc \in {"read", "release"} PROVE Stillborn'
      BY <2>1, <2>2, <3>1 DEF Stillborn
    <3>2. ASSUME NEW l \in Libraries, Refresh(t, l) PROVE run'[t].by # "background"
      BY <1>0, <3>2 DEF Refresh, Begin
    <3>3. ASSUME NEW l \in Libraries, RefreshSpawned(t, l) PROVE run'[t].pc = "read"
      BY <1>0, <1>4, <3>3 DEF RefreshSpawned, Begin
    <3>4. CASE SpawnImport(t)
      BY <1>0, <3>1, <3>4 DEF SpawnImport, Begin
    <3>5. CASE Release(t)
      BY <1>0, <3>1, <3>5 DEF Release, Off
    <3>6. CASE Read(t) /\ Cancelled(t)
      BY <1>0, <3>1, <3>6, GotoTypes DEF Read
    <3>7. CASE Goes(t) /\ run[t].pc \notin {"read", "release"}
      BY <2>1, <3>1, <3>7 DEF Stillborn, Goes
    <3>8. CASE Read(t) /\ ~Cancelled(t)
      BY <2>1, <3>1, <3>8, ReadGoes DEF Goes, Cancelled, Stillborn
    <3>9. CASE Fetch(t) \/ Replace(t) \/ KeepDiscovered(t) \/ NextChannels(t)
                 \/ \E l \in Libraries : ReplaceGuide(t, l)
      <4>1. Goes(t)
        BY <3>9, OthersGo
      <4>. QED
        BY <3>7, <3>9, <4>1 DEF Fetch, Replace, KeepDiscovered, NextChannels, ReplaceGuide
    <3>. QED
      BY <1>4, <3>1, <3>2, <3>3, <3>4, <3>5, <3>6, <3>8, <3>9 DEF RefreshStep
  <2>. QED
    BY <1>4, <2>2, StepShapes
<1>5. UNCHANGED refreshVars => UNCHANGED <<run, phase>>
  BY DEF refreshVars
<1>6. ASSUME NEW t \in Tasks, RefreshStep(t), UNCHANGED run PROVE UNCHANGED <<run, phase>>
  BY <1>6 DEF RefreshStep, Refresh, RefreshSpawned, SpawnImport, Read, Fetch, Replace, KeepDiscovered,
              NextChannels, ReplaceGuide, Release
<1>. QED
  BY <1>1, <1>2, <1>3, <1>4, <1>5, <1>6, RefreshCases

(* Once Shutdown has returned no background work is in the middle of a     *)
(* write, not even work that was spawned after it: the database may close. *)
THEOREM BackgroundEnds == Spec => []BackgroundDrained
<1>. MaxImports \in Nat
  BY ServicesAssumption
<1>1. Init => Stillborn
  BY DEF Init, Stillborn
<1>2. Stillborn => BackgroundDrained
  BY DEF Stillborn, BackgroundDrained
<1>. QED
  BY <1>1, <1>2, RefreshInit, RefreshTypes, StillbornStep, PTL DEF Spec

-----------------------------------------------------------------------------
(* All that the refreshes promise.                                         *)
THEOREM RefreshSafety == Spec => []RefreshSafe
<1>. MaxImports \in Nat
  BY ServicesAssumption
<1>1. SlotExact /\ GuideOfLiveChannels /\ BackgroundDrained => RefreshSafe
  BY DEF RefreshSafe
<1>. QED
  BY <1>1, OneRefreshPerLibrary, GuideStaysLive, BackgroundEnds, PTL

-----------------------------------------------------------------------------
(* Seek-bar previews.                                                      *)
(* The steps that leave every generation where it is.                      *)
Quiet ==
    \/ \E v \in Viewers : Try(v) \/ \E i \in Items : Look(v, i)
    \/ \E i \in Items : MarkerExpires(i)
    \/ UNCHANGED trickplayVars

LEMMA PreviewsCases ==
    ASSUME [PreviewsNext]_trickplayVars
    PROVE  \/ Quiet
           \/ \E v \in Viewers : Recheck(v)
           \/ \E i \in Items : Generate(i) \/ FFmpegEnds(i) \/ WriteManifest(i)
                                \/ MarkFailed(i) \/ Unlock(i)
           \/ Restart \/ Upgrade
BY DEF PreviewsNext, Quiet

-----------------------------------------------------------------------------
(* Never more generations at work than there are slots.                    *)
LEMMA GenSlotsStep ==
    ASSUME IsFiniteSet(Items), GenSlots \in Nat, PreviewsTypeOK, [PreviewsNext]_trickplayVars
    PROVE  Cardinality(SlotHolders') <= GenSlots
<1>0. SlotHolders \subseteq Items /\ IsFiniteSet(SlotHolders) /\ Cardinality(SlotHolders) \in Nat
      /\ Cardinality(SlotHolders) <= GenSlots
  BY FS_Subset, FS_CardinalityType DEF SlotHolders, PreviewsTypeOK
<1>1. ASSUME SlotHolders' \subseteq SlotHolders PROVE Cardinality(SlotHolders') <= GenSlots
  <2>1. IsFiniteSet(SlotHolders') /\ Cardinality(SlotHolders') <= Cardinality(SlotHolders)
    BY <1>0, <1>1, FS_Subset
  <2>2. Cardinality(SlotHolders') \in Nat
    BY <2>1, FS_CardinalityType
  <2>. QED
    BY <1>0, <2>1, <2>2
<1>2. ASSUME NEW i \in Items, Generate(i) PROVE Cardinality(SlotHolders') <= GenSlots
  <2>1. SlotHolders' = SlotHolders \cup {i} /\ i \notin SlotHolders
    BY <1>2 DEF Generate, Becomes, SlotHolders, PreviewsTypeOK
  <2>2. Cardinality(SlotHolders') = Cardinality(SlotHolders) + 1
    BY <1>0, <2>1, FS_AddElement
  <2>. QED
    BY <1>0, <1>2, <2>2 DEF Generate
<1>3. Quiet => SlotHolders' \subseteq SlotHolders
  BY DEF Quiet, Try, Look, MarkerExpires, SlotHolders, trickplayVars
<1>4. ASSUME NEW v \in Viewers, Recheck(v) PROVE SlotHolders' \subseteq SlotHolders
  BY <1>4 DEF Recheck, SlotHolders, PreviewsTypeOK
<1>5. ASSUME NEW i \in Items, FFmpegEnds(i) \/ WriteManifest(i) \/ MarkFailed(i) \/ Unlock(i)
      PROVE  SlotHolders' \subseteq SlotHolders
  BY <1>5 DEF FFmpegEnds, WriteManifest, MarkFailed, Unlock, Becomes, SlotHolders, PreviewsTypeOK
<1>6. Restart \/ Upgrade => SlotHolders' \subseteq SlotHolders
  BY DEF Restart, Upgrade, SlotHolders
<1>. QED
  BY <1>1, <1>2, <1>3, <1>4, <1>5, <1>6, PreviewsCases

LEMMA PreviewsStart == ASSUME GenSlots \in Nat PROVE PreviewsInit => PreviewsTypeOK
<1>1. ASSUME PreviewsInit PROVE SlotHolders = {}
  BY <1>1 DEF PreviewsInit, SlotHolders
<1>. QED
  BY <1>1, FS_EmptySet DEF PreviewsInit, PreviewsTypeOK, GenStates, IdleViewer

(* A request that is past its first look is about an item.                 *)
LEMMA ViewerItem ==
    ASSUME PreviewsTypeOK, NEW v \in Viewers, viewer[v].pc # "idle"
    PROVE  viewer[v] \in [item : Items, pc : {"looked", "locked"}]
BY DEF PreviewsTypeOK, IdleViewer

LEMMA PreviewsTypes ==
    ASSUME IsFiniteSet(Items), GenSlots \in Nat, PreviewsTypeOK, [PreviewsNext]_trickplayVars
    PROVE  PreviewsTypeOK'
<1>0. Cardinality(SlotHolders') <= GenSlots
  BY GenSlotsStep
<1>1. ASSUME NEW v \in Viewers, NEW i \in Items, Look(v, i) PROVE PreviewsTypeOK'
  BY <1>0, <1>1 DEF Look, PreviewsTypeOK
<1>2. ASSUME NEW v \in Viewers, Try(v) PROVE PreviewsTypeOK'
  <2>1. viewer[v] \in [item : Items, pc : {"looked", "locked"}]
    BY <1>2, ViewerItem DEF Try
  <2>2. [viewer[v] EXCEPT !.pc = "locked"] \in [item : Items, pc : {"looked", "locked"}]
    BY <2>1
  <2>3. viewer' \in [Viewers -> {IdleViewer} \cup [item : Items, pc : {"looked", "locked"}]]
    BY <1>2, <2>2 DEF Try, PreviewsTypeOK
  <2>4. lock' \subseteq Items
    BY <1>2, <2>1 DEF Try, PreviewsTypeOK
  <2>. QED
    BY <1>0, <1>2, <2>3, <2>4 DEF Try, PreviewsTypeOK
<1>3. ASSUME NEW v \in Viewers, Recheck(v) PROVE PreviewsTypeOK'
  BY <1>0, <1>3 DEF Recheck, GiveBack, PreviewsTypeOK, GenStates
<1>4. ASSUME NEW i \in Items, Generate(i) \/ FFmpegEnds(i) \/ WriteManifest(i)
      PROVE  PreviewsTypeOK'
  BY <1>0, <1>4 DEF Generate, FFmpegEnds, WriteManifest, Becomes, PreviewsTypeOK, GenStates
<1>5. ASSUME NEW i \in Items, MarkFailed(i) \/ Unlock(i) \/ MarkerExpires(i)
      PROVE  PreviewsTypeOK'
  <2>1. making' \in [Items -> GenStates] /\ lock' \subseteq Items
    BY <1>5 DEF MarkFailed, Unlock, MarkerExpires, Becomes, PreviewsTypeOK, GenStates
  <2>2. marker' \in [Items -> {"none", "recent", "old"}]
    BY <1>5 DEF MarkFailed, Unlock, MarkerExpires, PreviewsTypeOK
  <2>. QED
    BY <1>0, <1>5, <2>1, <2>2 DEF MarkFailed, Unlock, MarkerExpires, PreviewsTypeOK
<1>6. CASE Restart \/ Upgrade
  BY <1>0, <1>6 DEF Restart, Upgrade, PreviewsTypeOK, GenStates
<1>7. CASE UNCHANGED trickplayVars
  BY <1>0, <1>7 DEF trickplayVars, PreviewsTypeOK
<1>. QED
  BY <1>1, <1>2, <1>3, <1>4, <1>5, <1>6, <1>7 DEF PreviewsNext

(* Files, locks, generations and requests keep their types, and no more    *)
(* generations are at work than genSlots has room for.                     *)
THEOREM PreviewsTyped == PreviewsSpec => []PreviewsTypeOK
<1>. IsFiniteSet(Items) /\ GenSlots \in Nat
  BY ServicesAssumption
<1>. QED
  BY PreviewsStart, PreviewsTypes, PTL DEF PreviewsSpec

-----------------------------------------------------------------------------
(* While files are being written the manifest is not current, and it       *)
(* becomes so only over a whole sprite.                                    *)
WholeBeforeCurrent ==
    \A i \in Items :
        /\ making[i] \in {"queued", "ffmpeg", "manifest", "failing"} => manifest[i] # "current"
        /\ making[i] = "manifest" => sprite[i] = "whole"
        /\ manifest[i] = "current" => sprite[i] = "whole"

LEMMA WholeStep ==
    ASSUME PreviewsTypeOK, WholeBeforeCurrent, [PreviewsNext]_trickplayVars
    PROVE  WholeBeforeCurrent'
<1>1. CASE Quiet
  BY <1>1 DEF Quiet, Try, Look, MarkerExpires, trickplayVars, WholeBeforeCurrent
<1>2. ASSUME NEW v \in Viewers, Recheck(v) PROVE WholeBeforeCurrent'
  BY <1>2 DEF Recheck, FreshNow, Fresh, PreviewsTypeOK, WholeBeforeCurrent
<1>3. ASSUME NEW i \in Items, Generate(i) \/ FFmpegEnds(i) \/ WriteManifest(i)
      PROVE  WholeBeforeCurrent'
  BY <1>3 DEF Generate, FFmpegEnds, WriteManifest, Becomes, PreviewsTypeOK, WholeBeforeCurrent
<1>4. ASSUME NEW i \in Items, MarkFailed(i) \/ Unlock(i) PROVE WholeBeforeCurrent'
  BY <1>4 DEF MarkFailed, Unlock, Becomes, PreviewsTypeOK, WholeBeforeCurrent
<1>5. CASE Restart \/ Upgrade
  BY <1>5 DEF Restart, Upgrade, WholeBeforeCurrent
<1>. QED
  BY <1>1, <1>2, <1>3, <1>4, <1>5, PreviewsCases

(* Requests racing each other, failures and crashes at any point included, *)
(* what counts as fresh is a whole sprite of this version.                 *)
THEOREM FreshIsWhole == PreviewsSpec => []ServedWhole
<1>. IsFiniteSet(Items) /\ GenSlots \in Nat
  BY ServicesAssumption
<1>1. PreviewsInit => WholeBeforeCurrent
  BY DEF PreviewsInit, WholeBeforeCurrent
<1>2. WholeBeforeCurrent => ServedWhole
  BY DEF WholeBeforeCurrent, ServedWhole, Fresh
<1>. QED
  BY <1>1, <1>2, PreviewsStart, PreviewsTypes, WholeStep, PTL DEF PreviewsSpec

-----------------------------------------------------------------------------
LEMMA LockStep ==
    ASSUME PreviewsTypeOK, LockExact, [PreviewsNext]_trickplayVars
    PROVE  LockExact'
<1>1. CASE UNCHANGED <<lock, making, viewer>>
  BY <1>1 DEF LockExact, Holds
<1>2. ASSUME NEW v \in Viewers, NEW i \in Items, Look(v, i) PROVE LockExact'
  BY <1>2 DEF Look, LockExact, Holds, IdleViewer, PreviewsTypeOK
<1>3. ASSUME NEW v \in Viewers, Try(v) PROVE LockExact'
  <2>1. viewer[v] \in [item : Items, pc : {"looked", "locked"}] /\ viewer[v].pc = "looked"
    BY <1>3, ViewerItem DEF Try
  <2>2. PICK i \in Items : viewer[v].item = i
    BY <2>1
  <2>3. \A w \in Viewers : w # v => viewer'[w] = viewer[w]
    BY <1>3 DEF Try, PreviewsTypeOK
  <2>4. CASE i \in lock
    <3>1. lock' = lock /\ making' = making /\ viewer'[v].pc = "idle"
      BY <1>3, <2>2, <2>4 DEF Try, IdleViewer, PreviewsTypeOK
    <3>. QED
      BY <2>1, <2>3, <3>1 DEF LockExact, Holds
  <2>5. CASE i \notin lock
    <3>1. lock' = lock \cup {i} /\ making' = making
          /\ viewer'[v].pc = "locked" /\ viewer'[v].item = i
      BY <1>3, <2>1, <2>2, <2>5 DEF Try, PreviewsTypeOK
    <3>. QED
      BY <2>1, <2>3, <2>5, <3>1 DEF LockExact, Holds
  <2>. QED
    BY <2>4, <2>5
<1>4. ASSUME NEW v \in Viewers, Recheck(v) PROVE LockExact'
  <2>1. viewer[v] \in [item : Items, pc : {"looked", "locked"}] /\ viewer[v].pc = "locked"
    BY <1>4, ViewerItem DEF Recheck
  <2>2. PICK i \in Items : viewer[v].item = i
    BY <2>1
  <2>3. /\ \A w \in Viewers : w # v => viewer'[w] = viewer[w]
        /\ viewer'[v].pc = "idle"
    BY <1>4 DEF Recheck, PreviewsTypeOK, IdleViewer
  <2>4. i \in lock /\ making[i] = "off" /\ \A w \in Viewers : Holds(w, i) => w = v
    BY <2>1, <2>2 DEF LockExact, Holds
  <2>5. CASE lock' = lock \ {i} /\ making' = making
    BY <2>2, <2>3, <2>4, <2>5 DEF LockExact, Holds
  <2>6. CASE lock' = lock /\ making' = [making EXCEPT ![i] = "queued"]
    BY <2>2, <2>3, <2>4, <2>6 DEF LockExact, Holds, PreviewsTypeOK
  <2>. QED
    BY <1>4, <2>2, <2>5, <2>6 DEF Recheck, GiveBack
<1>5. ASSUME NEW i \in Items, Generate(i) \/ FFmpegEnds(i) \/ WriteManifest(i)
      PROVE  LockExact'
  BY <1>5 DEF Generate, FFmpegEnds, WriteManifest, Becomes, LockExact, Holds, PreviewsTypeOK
<1>6. ASSUME NEW i \in Items, MarkFailed(i) \/ Unlock(i) PROVE LockExact'
  BY <1>6 DEF MarkFailed, Unlock, Becomes, LockExact, Holds, PreviewsTypeOK
<1>7. CASE Restart \/ Upgrade
  BY <1>7 DEF Restart, Upgrade, LockExact, Holds, IdleViewer
<1>. QED
  BY <1>1, <1>2, <1>3, <1>4, <1>5, <1>6, <1>7 DEF PreviewsNext, MarkerExpires, trickplayVars

(* An item's lock has one owner at a time, and no way through a request or *)
(* a generation loses it.                                                  *)
THEOREM OneGeneration == PreviewsSpec => []LockExact
<1>. IsFiniteSet(Items) /\ GenSlots \in Nat
  BY ServicesAssumption
<1>1. PreviewsInit => LockExact
  BY DEF PreviewsInit, LockExact, Holds, IdleViewer
<1>. QED
  BY <1>1, PreviewsStart, PreviewsTypes, LockStep, PTL DEF PreviewsSpec

-----------------------------------------------------------------------------
(* All that the previews promise.                                          *)
THEOREM PreviewsSafety == PreviewsSpec => []PreviewsSafe
<1>. IsFiniteSet(Items) /\ GenSlots \in Nat
  BY ServicesAssumption
<1>1. ServedWhole /\ LockExact => PreviewsSafe
  BY DEF PreviewsSafe
<1>. QED
  BY <1>1, FreshIsWhole, OneGeneration, PTL

-----------------------------------------------------------------------------
(* The library's directories.  What the watcher has in its map has a watch *)
(* in the kernel, or was removed since; and a directory without a watch is *)
(* at or below one that is being walked, or that an event tells of which   *)
(* the watcher will heed.                                                  *)
Heeded(d) == \E i \in 1 .. Len(events) : /\ events[i].dir \in watched
                                         /\ events[i].new \in Watcher!Above(d)

Reached(d) ==
    \/ d \in kernel \/ Heeded(d)
    \/ Watcher!Above(d) \cap (spared \cup tree.todo) # {}
    \/ tree.open \in Watcher!Above(d) \ {d}

TreeInv ==
    /\ Watcher!TypeOK
    /\ \A d \in dirs : Parent[d] \in dirs
    /\ kernel \subseteq watched /\ watched \ kernel \subseteq spared
    /\ seenAuto => \A d \in dirs : Reached(d)
    /\ ~seenAuto => watched = {} /\ tree = Watcher!NoTree

LEMMA AboveFacts ==
    ASSUME NEW d \in Dirs
    PROVE  /\ Parent[d] \in Dirs /\ Watcher!Above(d) = {d, Parent[d], Root}
           /\ Watcher!Above(Parent[d]) \subseteq Watcher!Above(d)
           /\ Parent[Root] = Root
BY ServicesAssumption DEF Watcher!Above

LEMMA AboveExists ==
    ASSUME TreeInv, NEW d \in dirs PROVE d \in Dirs /\ Watcher!Above(d) \subseteq dirs
<1>1. d \in Dirs /\ Parent[d] \in dirs /\ Root \in dirs
  BY DEF TreeInv, Watcher!TypeOK
<1>. QED
  BY <1>1, AboveFacts

LEMMA ReportAppends ==
    ASSUME Watcher!TypeOK, NEW d \in Dirs, NEW new \in Dirs \cup {None}, Watcher!Report(d, new)
    PROVE  /\ events' \in Seq(Watcher!Event) /\ Len(events') <= MaxEvents
           /\ Len(events) \in Nat /\ Len(events') \in Nat /\ Len(events) <= Len(events')
           /\ \A i \in 1 .. Len(events) : events'[i] = events[i]
           /\ d \in kernel => \/ Watcher!Dropped(d)
                              \/ \E i \in 1 .. Len(events') :
                                    events'[i].dir = d /\ events'[i].new = new
<1>. DEFINE e == [dir |-> d, new |-> new]
<1>0. /\ events \in Seq(Watcher!Event) /\ Len(events) \in Nat /\ Len(events) <= MaxEvents
      /\ MaxEvents \in Nat
  BY ServicesAssumption DEF Watcher!TypeOK
<1>1. e \in Watcher!Event /\ e.dir = d /\ e.new = new
  BY DEF Watcher!Event
<1>2. CASE events' = events /\ (d \in kernel => Watcher!Dropped(d))
  BY <1>0, <1>2
<1>3. CASE events' = Append(events, e) /\ Len(events) < MaxEvents
  <2>. HIDE DEF e
  <2>1. /\ events' \in Seq(Watcher!Event) /\ Len(events') = Len(events) + 1
        /\ events'[Len(events) + 1] = e /\ \A i \in 1 .. Len(events) : events'[i] = events[i]
    BY <1>0, <1>1, <1>3
  <2>. QED
    BY <1>0, <1>1, <1>3, <2>1
<1>. QED
  BY <1>0, <1>2, <1>3 DEF Watcher!Report, Watcher!Dropped

LEMMA HeededKept ==
    ASSUME TreeInv, NEW d \in Dirs, NEW new \in Dirs \cup {None}, Watcher!Report(d, new),
           watched' = watched, NEW c \in Dirs, Heeded(c)
    PROVE  Heeded(c)'
<1>1. PICK i \in 1 .. Len(events) : /\ events[i].dir \in watched
                                    /\ events[i].new \in Watcher!Above(c)
  BY DEF Heeded
<1>2. i \in 1 .. Len(events') /\ events'[i] = events[i]
  BY <1>1, ReportAppends DEF TreeInv
<1>. QED
  BY <1>1, <1>2 DEF Heeded, Watcher!Above

LEMMA TreeInit == Watcher!Init => TreeInv
<1>. SUFFICES ASSUME Watcher!Init PROVE TreeInv
  OBVIOUS
<1>. USE ServicesAssumption DEF Watcher!Init
<1>1. events \in Seq(Watcher!Event) /\ Len(events) = 0 /\ tree \in Watcher!Tree
  BY DEF Watcher!NoTree, Watcher!Tree
<1>2. auto \in BOOLEAN /\ (seenAuto <=> auto) /\ seenAuto \in BOOLEAN /\ timer = FALSE
  BY Zenon
<1>3. kernel \subseteq dirs /\ watched \subseteq Dirs /\ Root \in dirs /\ dirs \subseteq Dirs
  OBVIOUS
<1>4. Watcher!TypeOK
  <2>1. Len(events) <= MaxEvents
    BY <1>1
  <2>2. {timer, auto, seenAuto} \subseteq BOOLEAN
    BY <1>2
  <2>. QED
    BY <1>1, <1>3, <2>1, <2>2 DEF Watcher!TypeOK
<1>5. seenAuto => \A d \in dirs : Reached(d)
  BY <1>2 DEF Reached
<1>. QED
  BY <1>2, <1>3, <1>4, <1>5 DEF TreeInv

LEMMA FileTree ==
    ASSUME TreeInv, NEW d \in Dirs, Watcher!FileChange(d)
    PROVE  TreeInv'
<1>0. /\ Watcher!TypeOK /\ Watcher!Report(d, None) /\ None \in Dirs \cup {None}
      /\ UNCHANGED <<dirs, kernel, watched, timer, auto, seenAuto, tree, spared>>
  BY DEF TreeInv, Watcher!FileChange
<1>1. Watcher!TypeOK'
  BY <1>0, ReportAppends DEF Watcher!TypeOK
<1>2. \A c \in dirs' : Reached(c) => Reached(c)'
  BY <1>0, HeededKept DEF Reached, Watcher!Above, Watcher!TypeOK
<1>. QED
  BY <1>0, <1>1, <1>2 DEF TreeInv

LEMMA MkdirTree ==
    ASSUME TreeInv, NEW d \in Dirs, Watcher!Mkdir(d)
    PROVE  TreeInv'
<1>. DEFINE p == Parent[d]
<1>0. /\ Watcher!TypeOK /\ d \notin dirs /\ p \in dirs /\ p \in Dirs /\ d # Root
      /\ dirs' = dirs \cup {d} /\ Watcher!Report(p, d)
      /\ spared' = IF Watcher!Dropped(p) THEN spared \cup {d} ELSE spared
      /\ UNCHANGED <<kernel, watched, timer, auto, seenAuto, tree>>
  BY ServicesAssumption DEF TreeInv, Watcher!TypeOK, Watcher!Mkdir
<1>1. Watcher!TypeOK'
  BY <1>0, ReportAppends DEF Watcher!TypeOK
<1>2. ASSUME NEW c \in dirs', seenAuto PROVE Reached(c)'
  <2>1. CASE c \in dirs
    <3>1. Reached(c) /\ c \in Dirs
      BY <1>0, <1>2, <2>1 DEF TreeInv, Watcher!TypeOK
    <3>. QED
      BY <1>0, <3>1, HeededKept DEF Reached, Watcher!Above
  <2>2. CASE c = d
    <3>0. /\ Watcher!Above(p) \subseteq Watcher!Above(d) /\ d \in Watcher!Above(d)
          /\ Watcher!Above(p) = {p, Parent[p], Root} /\ Parent[p] = Root /\ p # d
      BY <1>0, AboveFacts, ServicesAssumption
    <3>1. Reached(p)
      BY <1>0, <1>2 DEF TreeInv
    <3>2. CASE p \in kernel
      <4>1. CASE Watcher!Dropped(p)
        BY <1>0, <2>2, <3>0, <4>1 DEF Reached, Watcher!Above
      <4>2. CASE \E i \in 1 .. Len(events') : events'[i].dir = p /\ events'[i].new = d
        <5>1. p \in watched'
          BY <1>0, <3>2 DEF TreeInv
        <5>. QED
          BY <2>2, <3>0, <4>2, <5>1 DEF Reached, Heeded, Watcher!Above
      <4>. QED
        BY <1>0, <3>2, <4>1, <4>2, ReportAppends
    <3>3. CASE Heeded(p)
      <4>1. Heeded(p)'
        BY <1>0, <3>3, HeededKept
      <4>2. Heeded(d)'
        BY <3>0, <4>1 DEF Heeded, Watcher!Above
      <4>. QED
        BY <2>2, <4>2 DEF Reached
    <3>4. CASE Watcher!Above(p) \cap (spared \cup tree.todo) # {}
      BY <1>0, <2>2, <3>0, <3>4 DEF Reached, Watcher!Above
    <3>5. CASE tree.open \in Watcher!Above(p) \ {p}
      BY <1>0, <2>2, <3>0, <3>5 DEF Reached, Watcher!Above
    <3>. QED
      BY <3>1, <3>2, <3>3, <3>4, <3>5 DEF Reached
  <2>. QED
    BY <1>0, <2>1, <2>2
<1>. QED
  BY <1>0, <1>1, <1>2 DEF TreeInv

LEMMA RmdirTree ==
    ASSUME TreeInv, NEW d \in Dirs, Watcher!Rmdir(d)
    PROVE  TreeInv'
<1>0. /\ Watcher!TypeOK /\ d \in dirs /\ d # Root /\ Parent[d] \in Dirs
      /\ \A c \in dirs \ {d} : Parent[c] # d
      /\ dirs' = dirs \ {d} /\ kernel' = kernel \ {d}
      /\ spared' = IF d \in watched THEN spared \cup {d} ELSE spared
      /\ Watcher!Report(Parent[d], None) /\ None \in Dirs \cup {None}
      /\ UNCHANGED <<watched, timer, auto, seenAuto, tree>>
  BY ServicesAssumption DEF TreeInv, Watcher!Rmdir
<1>1. Watcher!TypeOK'
  BY <1>0, ReportAppends DEF Watcher!TypeOK
<1>2. ASSUME NEW c \in dirs', Reached(c) PROVE Reached(c)'
  <2>1. c \in Dirs /\ c # d
    BY <1>0, <1>2 DEF Watcher!TypeOK
  <2>2. Heeded(c) => Heeded(c)'
    BY <1>0, <2>1, HeededKept
  <2>. QED
    BY <1>0, <1>2, <2>1, <2>2 DEF Reached, Watcher!Above
<1>3. watched' \ kernel' \subseteq spared' /\ kernel' \subseteq watched'
  BY <1>0 DEF TreeInv
<1>. QED
  BY <1>0, <1>1, <1>2, <1>3 DEF TreeInv

(* A directory that the walk visits: it has a watch, or is one of those    *)
(* that cannot be promised one, and what is below it is still to be read.  *)
LEMMA SubscribeTree ==
    ASSUME TreeInv, NEW d \in Dirs, Watcher!Subscribe(d)
    PROVE  TreeInv'
<1>0. /\ Watcher!TypeOK /\ tree.open = None /\ d \in tree.todo /\ tree \in Watcher!Tree
      /\ tree' = [tree EXCEPT !.todo = @ \ {d}, !.open = d]
      /\ UNCHANGED <<dirs, events, timer, auto, seenAuto>> /\ None \notin Dirs
  BY ServicesAssumption DEF TreeInv, Watcher!TypeOK, Watcher!Subscribe
<1>1. tree' \in Watcher!Tree /\ tree'.todo = tree.todo \ {d} /\ tree'.open = d
  BY <1>0 DEF Watcher!Tree
<1>2. /\ kernel \subseteq kernel' /\ kernel' \subseteq dirs /\ watched \subseteq watched'
      /\ watched' \subseteq Dirs
      /\ spared \subseteq spared' /\ spared' \subseteq Dirs
      /\ kernel' \subseteq watched' /\ watched' \ kernel' \subseteq spared'
      /\ d \in dirs => d \in kernel' \cup spared'
  BY <1>0 DEF TreeInv, Watcher!TypeOK, Watcher!Subscribe
<1>3. Watcher!TypeOK'
  BY <1>0, <1>1, <1>2 DEF Watcher!TypeOK
<1>4. ASSUME NEW c \in dirs, Reached(c) PROVE Reached(c)'
  <2>1. /\ Watcher!Above(c)' = Watcher!Above(c) /\ c \in Watcher!Above(c)
        /\ Watcher!Above(c) \subseteq Dirs
    BY <1>0, AboveExists DEF Watcher!Above, Watcher!TypeOK
  <2>2. Heeded(c) => Heeded(c)'
    BY <1>0, <1>2, <2>1 DEF Heeded
  <2>3. CASE d \in Watcher!Above(c)
    BY <1>0, <1>1, <1>2, <2>1, <2>3 DEF Reached
  <2>4. CASE d \notin Watcher!Above(c)
    BY <1>0, <1>1, <1>2, <1>4, <2>1, <2>2, <2>4 DEF Reached
  <2>. QED
    BY <2>3, <2>4
<1>5. seenAuto
  BY <1>0 DEF TreeInv, Watcher!NoTree
<1>. QED
  BY <1>0, <1>2, <1>3, <1>4, <1>5 DEF TreeInv

(* The entries of the directory just visited are visited next; if they     *)
(* cannot be read nothing below it is promised.                            *)
LEMMA EntriesTree ==
    ASSUME TreeInv, Watcher!Entries
    PROVE  TreeInv'
<1>. DEFINE o == tree.open
<1>0. /\ Watcher!TypeOK /\ o # None /\ tree \in Watcher!Tree /\ o \in Dirs /\ tree.todo \subseteq Dirs
      /\ UNCHANGED <<dirs, kernel, watched, events, auto, seenAuto>> /\ dirs \subseteq Dirs
      /\ timer \in BOOLEAN /\ tree.kick \in BOOLEAN
  BY DEF TreeInv, Watcher!TypeOK, Watcher!Entries, Watcher!ReadDir, Watcher!Tree
<1>1. PICK found \in SUBSET dirs :
        /\ \/ found = Watcher!Children(o) /\ spared' = spared
           \/ found = {} /\ spared' = spared \cup ({o} \cap dirs)
        /\ Watcher!ReadDir(found)
  <2>1. Watcher!Children(o) \subseteq dirs /\ {} \subseteq dirs
    BY DEF Watcher!Children
  <2>. QED
    BY <2>1 DEF Watcher!Entries
<1>2. /\ tree' \in Watcher!Tree /\ tree'.todo = tree.todo \cup found
      /\ timer' \in BOOLEAN
  <2>1. CASE tree.todo \cup found = {}
    BY <1>0, <1>1, <2>1 DEF Watcher!ReadDir, Watcher!NoTree, Watcher!Tree
  <2>2. CASE tree.todo \cup found # {}
    BY <1>0, <1>1, <2>2 DEF Watcher!ReadDir, Watcher!Tree
  <2>. QED
    BY <2>1, <2>2
<1>3. Watcher!TypeOK' /\ spared \subseteq spared'
  <2>1. spared \subseteq spared' /\ spared' \subseteq Dirs
    BY <1>0, <1>1 DEF Watcher!TypeOK
  <2>2. {timer', auto, seenAuto} \subseteq BOOLEAN
    BY <1>0, <1>2 DEF Watcher!TypeOK
  <2>. QED
    BY <1>0, <1>2, <2>1, <2>2 DEF Watcher!TypeOK
<1>4. ASSUME NEW c \in dirs, Reached(c) PROVE Reached(c)'
  <2>1. /\ Watcher!Above(c)' = Watcher!Above(c) /\ Watcher!Above(c) \subseteq dirs
        /\ Watcher!Above(c) = {c, Parent[c], Root} /\ c \in Dirs
    BY <1>0, AboveExists, AboveFacts DEF Watcher!Above
  <2>2. Heeded(c) => Heeded(c)'
    BY <1>0, <2>1 DEF Heeded
  <2>3. CASE o \in Watcher!Above(c) \ {c}
    <3>1. CASE found = {} /\ spared' = spared \cup ({o} \cap dirs)
      BY <2>1, <2>3, <3>1 DEF Reached
    <3>2. CASE found = Watcher!Children(o)
      <4>1. CASE Parent[c] = o
        BY <1>2, <2>1, <2>3, <3>2, <4>1 DEF Reached, Watcher!Children
      <4>2. CASE Parent[c] # o
        <5>1. o = Root /\ Parent[c] \in dirs /\ Parent[c] # o /\ Parent[Parent[c]] = Root
          BY <2>1, <2>3, <4>2, ServicesAssumption
        <5>2. Parent[c] \in found
          BY <3>2, <5>1 DEF Watcher!Children
        <5>. QED
          BY <1>2, <2>1, <5>2 DEF Reached
      <4>. QED
        BY <4>1, <4>2
    <3>. QED
      BY <1>1, <3>1, <3>2
  <2>4. CASE o \notin Watcher!Above(c) \ {c}
    BY <1>0, <1>2, <1>3, <1>4, <2>1, <2>2, <2>4 DEF Reached
  <2>. QED
    BY <2>3, <2>4
<1>5. seenAuto
  BY <1>0 DEF TreeInv, Watcher!NoTree
<1>. QED
  BY <1>0, <1>3, <1>4, <1>5 DEF TreeInv

LEMMA HandleTree ==
    ASSUME TreeInv, Watcher!HandleEvent
    PROVE  TreeInv'
<1>. DEFINE e == Head(events)
<1>0. /\ Watcher!TypeOK /\ events # <<>> /\ events' = Tail(events) /\ events \in Seq(Watcher!Event)
      /\ tree = Watcher!NoTree /\ tree \in Watcher!Tree
      /\ UNCHANGED <<dirs, kernel, watched, auto, seenAuto>>
  BY DEF TreeInv, Watcher!TypeOK, Watcher!HandleEvent
<1>1. /\ events' \in Seq(Watcher!Event) /\ Len(events') = Len(events) - 1 /\ Len(events) \in Nat
      /\ e = events[1] /\ e \in Watcher!Event
      /\ \A i \in 1 .. Len(events') : i + 1 \in 1 .. Len(events) /\ events'[i] = events[i + 1]
      /\ \A i \in 1 .. Len(events) : i = 1 \/ (i - 1 \in 1 .. Len(events') /\ (i - 1) + 1 = i)
  BY <1>0
<1>2. /\ tree.todo = {} /\ tree.open = None /\ None \notin Dirs
  BY <1>0, ServicesAssumption DEF Watcher!NoTree
<1>3. /\ tree' \in Watcher!Tree /\ tree'.open = None /\ spared \subseteq spared'
      /\ spared' \subseteq Dirs /\ timer' \in BOOLEAN
      /\ e.dir \notin watched => UNCHANGED <<timer, tree, spared>>
      /\ e.dir \in watched => e.new \notin dirs \/ e.new \in tree'.todo \cup spared'
  <2>1. CASE e.dir \notin watched /\ UNCHANGED <<timer, tree, spared>>
    BY <1>0, <1>2, <2>1 DEF Watcher!TypeOK
  <2>2. CASE /\ e.dir \in watched /\ e.new \in dirs
             /\ tree' = Watcher!WalkFrom(e.new, TRUE) /\ UNCHANGED <<timer, spared>>
    BY <1>0, <2>2 DEF Watcher!TypeOK, Watcher!WalkFrom, Watcher!Tree
  <2>3. CASE /\ e.dir \in watched /\ timer' = TRUE
             /\ spared' = spared \cup ({e.new} \cap dirs) /\ UNCHANGED tree
    BY <1>0, <1>2, <2>3 DEF Watcher!TypeOK
  <2>. QED
    BY <2>1, <2>2, <2>3 DEF Watcher!HandleEvent
<1>4. Watcher!TypeOK'
  <2>1. Len(events') <= MaxEvents
    BY <1>0, <1>1, ServicesAssumption DEF Watcher!TypeOK
  <2>2. {timer', auto, seenAuto} \subseteq BOOLEAN
    BY <1>0, <1>3 DEF Watcher!TypeOK
  <2>. QED
    BY <1>0, <1>1, <1>3, <2>1, <2>2 DEF Watcher!TypeOK
<1>5. ASSUME NEW c \in dirs, Reached(c) PROVE Reached(c)'
  <2>1. /\ Watcher!Above(c)' = Watcher!Above(c) /\ Watcher!Above(c) \subseteq dirs
        /\ Watcher!Above(c) \subseteq Dirs
    BY <1>0, AboveExists DEF Watcher!Above, Watcher!TypeOK
  <2>2. CASE Heeded(c)
    <3>1. PICK i \in 1 .. Len(events) : /\ events[i].dir \in watched
                                        /\ events[i].new \in Watcher!Above(c)
      BY <2>2 DEF Heeded
    <3>2. CASE i = 1
      <4>1. e.dir \in watched /\ e.new \in dirs /\ e.new \in Watcher!Above(c)
        BY <1>1, <2>1, <3>1, <3>2
      <4>. QED
        BY <1>3, <2>1, <4>1 DEF Reached
    <3>3. CASE i # 1
      <4>1. i - 1 \in 1 .. Len(events') /\ events'[i - 1] = events[i]
        BY <1>1, <3>1, <3>3
      <4>. QED
        BY <1>0, <2>1, <3>1, <4>1 DEF Reached, Heeded
    <3>. QED
      BY <3>2, <3>3
  <2>3. CASE ~Heeded(c)
    <3>1. c \in kernel \/ Watcher!Above(c) \cap spared # {}
      BY <1>2, <1>5, <2>1, <2>3 DEF Reached
    <3>. QED
      BY <1>0, <1>3, <2>1, <3>1 DEF Reached
  <2>. QED
    BY <2>2, <2>3
<1>6. ~seenAuto => tree' = Watcher!NoTree
  BY <1>0, <1>3 DEF TreeInv
<1>. QED
  BY <1>0, <1>3, <1>4, <1>5, <1>6 DEF TreeInv

LEMMA ReconcileTree ==
    ASSUME TreeInv, Watcher!Reconcile
    PROVE  TreeInv'
<1>0. /\ Watcher!TypeOK /\ auto # seenAuto /\ seenAuto' = auto /\ auto \in BOOLEAN
      /\ spared' = {} /\ UNCHANGED <<dirs, events, timer, auto>>
      /\ tree = Watcher!NoTree /\ seenAuto \in BOOLEAN
  BY DEF TreeInv, Watcher!TypeOK, Watcher!Reconcile
<1>1. CASE auto
  <2>1. watched = {} /\ kernel = {} /\ UNCHANGED <<kernel, watched>>
        /\ tree' = Watcher!WalkFrom(Root, FALSE)
    BY <1>0, <1>1 DEF TreeInv, Watcher!Reconcile
  <2>2. tree' \in Watcher!Tree /\ Root \in tree'.todo
    BY <2>1, ServicesAssumption DEF Watcher!WalkFrom, Watcher!Tree
  <2>3. Watcher!TypeOK'
    BY <1>0, <2>1, <2>2 DEF Watcher!TypeOK
  <2>4. \A d \in dirs' : Reached(d)'
    BY <1>0, <2>2, AboveFacts DEF Reached, Watcher!Above, Watcher!TypeOK
  <2>. QED
    BY <1>0, <1>1, <2>1, <2>3, <2>4 DEF TreeInv
<1>2. CASE ~auto
  <2>1. kernel' = {} /\ watched' = {} /\ tree' = tree
    BY <1>2 DEF Watcher!Reconcile
  <2>2. Watcher!TypeOK'
    BY <1>0, <2>1 DEF Watcher!TypeOK
  <2>. QED
    BY <1>0, <1>2, <2>1, <2>2 DEF TreeInv
<1>. QED
  BY <1>1, <1>2

LEMMA TreeStep ==
    ASSUME TreeInv, [Watcher!Next]_(Watcher!watcherVars) PROVE TreeInv'
<1>1. CASE Watcher!SetMode \/ Watcher!Fire \/ UNCHANGED Watcher!watcherVars
  <2>1. /\ UNCHANGED <<dirs, kernel, watched, events, seenAuto, tree, spared>>
        /\ auto' \in BOOLEAN /\ timer' \in BOOLEAN
    BY <1>1 DEF Watcher!SetMode, Watcher!Fire, Watcher!watcherVars, TreeInv, Watcher!TypeOK
  <2>2. Watcher!TypeOK'
    BY <2>1 DEF TreeInv, Watcher!TypeOK
  <2>. QED
    BY <2>1, <2>2 DEF TreeInv, Reached, Heeded, Watcher!Above
<1>2. ASSUME NEW d \in Dirs, \/ Watcher!FileChange(d) \/ Watcher!Mkdir(d)
                             \/ Watcher!Rmdir(d) \/ Watcher!Subscribe(d)
      PROVE  TreeInv'
  BY <1>2, FileTree, MkdirTree, RmdirTree, SubscribeTree
<1>. QED
  BY <1>1, <1>2, EntriesTree, HandleTree, ReconcileTree DEF Watcher!Next

LEMMA TreeHolds == Watcher!Spec => []TreeInv
<1>1. TreeInv /\ [Watcher!Next]_(Watcher!watcherVars) => TreeInv'
  BY TreeStep
<1>. QED
  BY TreeInit, <1>1, PTL DEF Watcher!Spec

LEMMA TreeCovered == TreeInv => Watcher!DirsCovered
<1>. SUFFICES ASSUME TreeInv, auto, seenAuto, NEW d \in dirs
              PROVE  \/ d \in kernel \/ Watcher!OnItsWay(d)
                     \/ Watcher!Above(d) \cap spared # {}
  BY DEF Watcher!DirsCovered
<1>1. Reached(d)
  BY DEF TreeInv
<1>2. Heeded(d) => Watcher!Above(d) \cap Watcher!Announced # {}
  BY DEF Heeded, Watcher!Announced, TreeInv, Watcher!TypeOK
<1>. QED
  BY <1>1, <1>2 DEF Reached, Watcher!OnItsWay

(* Whatever order directories appear in while the watcher handles events   *)
(* and walks, and whatever watches are refused: a directory that no watch  *)
(* covers is on its way to one, or is at or below one of those that the    *)
(* watcher was refused, was not told of, or saw removed.                   *)
THEOREM WatchesCover == Watcher!Spec => []DirsCovered
<1>1. TreeInv => DirsCovered
  BY TreeCovered DEF DirsCovered
<1>. QED
  BY <1>1, TreeHolds, PTL

(* What a scan has established of the files that stayed as they were since *)
(* it began: one that it met is in the catalogue with its content, one     *)
(* that it did not meet does not exist, and has no available item once the *)
(* scan has dealt with the paths it knew.                                  *)
ScanInv ==
    /\ \A f \in scan.known : item[f] # None
    /\ scan.pc \in {"off", "list"} => scan = [Scanner!NoScan EXCEPT !.pc = scan.pc]
    /\ scan.pc = "mark" => scan.todo = {}
    /\ scan.pc \in {"walk", "mark"} =>
          \A f \in Files :
             /\ f \in scan.seen \ moved => disk[f] # 0 /\ Scanner!UpToDate(f)
             /\ f \notin scan.seen \cup scan.todo \cup moved => disk[f] = 0
             /\ f \notin scan.seen \cup scan.known \cup moved =>
                   item[f] = None \/ ~item[f].available

LEMMA ScanInit == Scanner!Init => ScanInv
BY DEF Scanner!Init, Scanner!NoScan, ScanInv

LEMMA WriteScan ==
    ASSUME Scanner!TypeOK, ScanInv, NEW f \in Files, Scanner!Write(f)
    PROVE  ScanInv' /\ Scanner!TypeOK'
<1>1. /\ UNCHANGED <<item, scan>> /\ moved \subseteq moved' /\ moved' \subseteq Files
      /\ scan.pc # "off" => moved' = moved \cup {f}
      /\ disk' \in [Files -> 0 .. MaxVersion]
      /\ \A g \in Files : g # f => disk'[g] = disk[g]
  BY DEF Scanner!Write, Scanner!TypeOK
<1>. QED
  BY <1>1 DEF ScanInv, Scanner!UpToDate, Scanner!TypeOK

LEMMA StartScans ==
    ASSUME Scanner!TypeOK, Scanner!StartScan PROVE ScanInv' /\ Scanner!TypeOK'
BY DEF Scanner!StartScan, Scanner!NoScan, Scanner!Scan, ScanInv, Scanner!TypeOK

LEMMA StopScans ==
    ASSUME Scanner!TypeOK, Scanner!StopScan, UNCHANGED <<disk, item>>
    PROVE  ScanInv' /\ Scanner!TypeOK'
BY DEF Scanner!StopScan, Scanner!NoScan, Scanner!Scan, ScanInv, Scanner!TypeOK

LEMMA ListScan ==
    ASSUME Scanner!TypeOK, Scanner!List PROVE ScanInv' /\ Scanner!TypeOK'
<1>1. CASE Scanner!StopScan
  BY <1>1, StopScans DEF Scanner!List
<1>2. CASE ~Scanner!StopScan
  <2>1. /\ scan' = [pc |-> "walk", known |-> {f \in Files : item[f] # None}, todo |-> Files,
                    seen |-> {}]
        /\ UNCHANGED <<disk, item, moved>>
    BY <1>2 DEF Scanner!List
  <2>2. scan' \in Scanner!Scan
    BY <2>1 DEF Scanner!Scan
  <2>3. ScanInv'
    BY <2>1 DEF ScanInv
  <2>. QED
    BY <2>1, <2>2, <2>3 DEF Scanner!TypeOK
<1>. QED
  BY <1>1, <1>2

LEMMA WalkScan ==
    ASSUME Scanner!TypeOK, ScanInv, NEW f \in Files, Scanner!Walk(f)
    PROVE  ScanInv' /\ Scanner!TypeOK'
<1>. DEFINE found == [version |-> disk[f], available |-> TRUE]
<1>0. /\ scan \in Scanner!Scan /\ scan.pc = "walk" /\ disk[f] \in 0 .. MaxVersion
      /\ item \in [Files -> Scanner!Item \cup {None}] /\ MaxVersion \in Nat
      /\ UNCHANGED disk
      /\ None \notin Scanner!Item
  BY ServicesAssumption, AbsentAssumption DEF Scanner!Walk, Scanner!TypeOK
<1>1. /\ scan' \in Scanner!Scan /\ scan'.pc = "walk" /\ scan'.known = scan.known
      /\ scan'.todo = scan.todo \ {f}
      /\ scan'.seen = scan.seen \/ scan'.seen = scan.seen \cup {f}
  <2>1. \/ scan' = [scan EXCEPT !.todo = @ \ {f}]
        \/ scan' = [scan EXCEPT !.todo = @ \ {f}, !.seen = @ \cup {f}]
    BY DEF Scanner!Walk
  <2>2. CASE scan' = [scan EXCEPT !.todo = @ \ {f}]
    BY <1>0, <2>2 DEF Scanner!Scan
  <2>3. CASE scan' = [scan EXCEPT !.todo = @ \ {f}, !.seen = @ \cup {f}]
    BY <1>0, <2>3 DEF Scanner!Scan
  <2>. QED
    BY <2>1, <2>2, <2>3
<1>2. /\ moved' = moved \/ moved' = moved \cup {f}
      /\ \/ item' = item
         \/ /\ disk[f] # 0 /\ item' = [item EXCEPT ![f] = found]
            /\ scan'.seen = scan.seen \cup {f}
      /\ f \in scan'.seen \ scan.seen =>
            disk[f] # 0 /\ (f \in moved' \/ item'[f] = found)
      /\ f \notin scan'.seen => disk[f] = 0 \/ f \in moved'
  <2>0. /\ found = [version |-> disk[f], available |-> TRUE]
        /\ item' = [item EXCEPT ![f] = found] => item'[f] = found
    BY <1>0
  <2>. HIDE DEF found
  <2>1. CASE scan' = [scan EXCEPT !.todo = @ \ {f}] /\ item' = item /\ disk[f] = 0 /\ moved' = moved
    <3>1. scan'.seen = scan.seen
      BY <1>0, <2>1 DEF Scanner!Scan
    <3>. QED
      BY <2>1, <3>1
  <2>2. CASE scan' = [scan EXCEPT !.todo = @ \ {f}] /\ item' = item /\ moved' = moved \cup {f}
    <3>1. scan'.seen = scan.seen
      BY <1>0, <2>2 DEF Scanner!Scan
    <3>. QED
      BY <2>2, <3>1
  <2>3. CASE /\ scan' = [scan EXCEPT !.todo = @ \ {f}, !.seen = @ \cup {f}] /\ disk[f] # 0
             /\ \/ item[f] = found /\ UNCHANGED <<item, moved>>
                \/ item' = [item EXCEPT ![f] = found] /\ UNCHANGED moved
                \/ moved' = moved \cup {f} /\ UNCHANGED item
    <3>1. scan'.seen = scan.seen \cup {f}
      BY <1>0, <2>3 DEF Scanner!Scan
    <3>. QED
      BY <2>0, <2>3, <3>1
  <2>. QED
    BY <2>0, <2>1, <2>2, <2>3 DEF Scanner!Walk, Scanner!UpToDate
<1>3. disk[f] # 0 => found \in Scanner!Item
  BY <1>0 DEF Scanner!Item
<1>4. /\ \A g \in Files : g # f => item'[g] = item[g]
      /\ item' \in [Files -> Scanner!Item \cup {None}]
      /\ item[f] # None => item'[f] # None
      /\ f \in scan'.seen /\ f \notin moved' => disk[f] # 0 /\ item'[f] = found
  <2>. HIDE DEF found
  <2>1. /\ \A g \in Files : g # f => item'[g] = item[g]
        /\ item' \in [Files -> Scanner!Item \cup {None}]
        /\ item[f] # None => item'[f] # None
    BY <1>0, <1>2, <1>3
  <2>2. ASSUME f \in scan'.seen, f \notin moved', f \in scan.seen
        PROVE  disk[f] # 0 /\ item'[f] = found
    BY <1>0, <1>2, <2>2 DEF ScanInv, Scanner!UpToDate, found
  <2>. QED
    BY <1>2, <2>1, <2>2
<1>5. Scanner!TypeOK'
  BY <1>0, <1>1, <1>2, <1>4 DEF Scanner!TypeOK
<1>6. ASSUME NEW g \in Files
      PROVE  /\ g \in scan'.seen \ moved' =>
                   disk'[g] # 0 /\ item'[g] = [version |-> disk[g], available |-> TRUE]
             /\ g \notin scan'.seen \cup scan'.todo \cup moved' => disk'[g] = 0
             /\ g \notin scan'.seen \cup scan'.known \cup moved' =>
                   item'[g] = None \/ ~item'[g].available
             /\ g \in scan'.known => item'[g] # None
  <2>1. CASE g # f
    BY <1>0, <1>1, <1>2, <1>4, <2>1 DEF ScanInv, Scanner!UpToDate
  <2>2. CASE g = f
    BY <1>0, <1>1, <1>2, <1>4, <2>2 DEF ScanInv
  <2>. QED
    BY <2>1, <2>2
<1>7. scan'.known \subseteq Files
  BY <1>1 DEF Scanner!Scan
<1>. QED
  BY <1>0, <1>1, <1>5, <1>6, <1>7 DEF ScanInv, Scanner!UpToDate

LEMMA MarkScan ==
    ASSUME Scanner!TypeOK, ScanInv, NEW f \in Files, Scanner!Mark(f)
    PROVE  ScanInv' /\ Scanner!TypeOK'
<1>0. /\ scan \in Scanner!Scan /\ scan.pc = "mark" /\ f \in scan.known /\ f \notin scan.seen
      /\ item \in [Files -> Scanner!Item \cup {None}] /\ item[f] # None
      /\ scan' = [scan EXCEPT !.known = @ \ {f}]
      /\ \/ item' = [item EXCEPT ![f] = [item[f] EXCEPT !.available = FALSE]] /\ moved' = moved
         \/ item' = item /\ moved' = moved \cup {f}
      /\ UNCHANGED disk
      /\ None \notin Scanner!Item
  BY AbsentAssumption DEF Scanner!Mark, Scanner!Missing, Scanner!TypeOK, ScanInv
<1>1. /\ scan' \in Scanner!Scan /\ scan'.pc = "mark" /\ scan'.known = scan.known \ {f}
      /\ scan'.todo = scan.todo /\ scan'.seen = scan.seen
  BY <1>0 DEF Scanner!Scan
<1>2. /\ [item[f] EXCEPT !.available = FALSE] \in Scanner!Item
      /\ [item[f] EXCEPT !.available = FALSE].available = FALSE
  BY <1>0 DEF Scanner!Item
<1>3. /\ item' \in [Files -> Scanner!Item \cup {None}]
      /\ \A g \in Files : g # f => item'[g] = item[g]
      /\ item'[f] # None
      /\ f \in moved' \/ ~item'[f].available
      /\ moved \subseteq moved' /\ moved' \subseteq moved \cup {f}
  BY <1>0, <1>2
<1>4. Scanner!TypeOK'
  BY <1>0, <1>1, <1>3 DEF Scanner!TypeOK
<1>5. ASSUME NEW g \in Files
      PROVE  /\ g \in scan'.seen \ moved' =>
                   disk'[g] # 0 /\ item'[g] = [version |-> disk[g], available |-> TRUE]
             /\ g \notin scan'.seen \cup scan'.todo \cup moved' => disk'[g] = 0
             /\ g \notin scan'.seen \cup scan'.known \cup moved' =>
                   item'[g] = None \/ ~item'[g].available
             /\ g \in scan'.known => item'[g] # None
  <2>1. CASE g # f
    BY <1>0, <1>1, <1>3, <2>1 DEF ScanInv, Scanner!UpToDate
  <2>2. CASE g = f
    BY <1>0, <1>1, <1>3, <2>2 DEF ScanInv
  <2>. QED
    BY <2>1, <2>2
<1>6. scan'.known \subseteq Files /\ scan'.todo = {}
  BY <1>0, <1>1 DEF Scanner!Scan, ScanInv
<1>. QED
  BY <1>0, <1>1, <1>4, <1>5, <1>6 DEF ScanInv, Scanner!UpToDate

LEMMA EndWalkScan ==
    ASSUME Scanner!TypeOK, ScanInv, Scanner!EndWalk
    PROVE  ScanInv' /\ Scanner!TypeOK'
<1>1. scan' \in Scanner!Scan /\ scan'.pc = "mark"
      /\ scan'.known = scan.known /\ scan'.todo = {} /\ scan'.seen = scan.seen /\ scan.todo = {}
  BY DEF Scanner!EndWalk, Scanner!TypeOK, Scanner!Scan
<1>. QED
  BY <1>1 DEF Scanner!EndWalk, Scanner!TypeOK, ScanInv, Scanner!UpToDate

ScannerInv == Scanner!TypeOK /\ ScanInv

LEMMA ScannerStep ==
    ASSUME ScannerInv, [Scanner!Next]_(Scanner!scanVars) PROVE ScannerInv'
<1>. USE DEF ScannerInv
<1>1. ASSUME NEW f \in Files, Scanner!Write(f) \/ Scanner!Walk(f) \/ Scanner!Mark(f)
      PROVE  ScannerInv'
  BY <1>1, WriteScan, WalkScan, MarkScan
<1>2. CASE Scanner!EndScan
  BY <1>2, StopScans DEF Scanner!EndScan
<1>3. CASE UNCHANGED Scanner!scanVars
  BY <1>3 DEF Scanner!scanVars, Scanner!TypeOK, ScanInv, Scanner!UpToDate
<1>. QED
  BY <1>1, <1>2, <1>3, StartScans, ListScan, EndWalkScan DEF Scanner!Next

LEMMA ScannerHolds == Scanner!Spec => []ScannerInv
<1>1. Scanner!Init => ScannerInv
  <2>1. Scanner!Init => ScanInv
    BY ScanInit
  <2>2. Scanner!Init => Scanner!TypeOK
    BY ServicesAssumption DEF Scanner!Init, Scanner!TypeOK, Scanner!NoScan, Scanner!Scan
  <2>. QED
    BY <2>1, <2>2 DEF ScannerInv
<1>2. ScannerInv /\ [Scanner!Next]_(Scanner!scanVars) => ScannerInv'
  BY ScannerStep
<1>. QED
  BY <1>1, <1>2, PTL DEF Scanner!Spec

(* The end of a scan: what it did not touch is as it is on disk.           *)
LEMMA ScanEnds ==
    ASSUME ScannerInv, Scanner!EndScan PROVE \A f \in Files \ moved : Scanner!Current(f)
<1>. SUFFICES ASSUME NEW f \in Files \ moved PROVE Scanner!Current(f)
  OBVIOUS
<1>1. /\ f \in scan.seen => disk[f] # 0 /\ Scanner!UpToDate(f)
      /\ f \notin scan.seen \cup scan.todo => disk[f] = 0
      /\ f \notin scan.seen \cup scan.known => item[f] = None \/ ~item[f].available
      /\ scan.todo = {} /\ scan.known \subseteq scan.seen
  BY DEF ScannerInv, ScanInv, Scanner!EndScan, Scanner!Missing
<1>. QED
  BY <1>1 DEF Scanner!Current, Scanner!UpToDate

(* Changes in any order while a scan lists, walks and marks: what it left  *)
(* alone and did not fail on is in the catalogue as it is on disk.         *)
THEOREM ScanIsFaithful == Scanner!Spec => ScanCatchesUp
<1>1. ScannerInv => (Scanner!EndScan => \A f \in Files \ moved : Scanner!Current(f))
  BY ScanEnds
<1>2. ScannerInv /\ [Scanner!Next]_(Scanner!scanVars)
         => [Scanner!EndScan => \A f \in Files \ moved : Scanner!Current(f)]_(Scanner!scanVars)
  BY <1>1
<1>3. Scanner!Spec => [][Scanner!Next]_(Scanner!scanVars)
  BY PTL DEF Scanner!Spec
<1>. QED
  BY <1>2, <1>3, ScannerHolds, PTL DEF ScanCatchesUp, Scanner!ScanCatchesUp
-----------------------------------------------------------------------------
(* Uploads.  The account in bytes: each upload has a block of its own, so  *)
(* the blocks of one more upload are its size more bytes.                  *)
LEMMA UploadCardinality == \A S : Upload!Cardinality(S) = Cardinality(S)
BY DEF Cardinality, Upload!Cardinality

Blocks(S) == UNION {Upload!Bytes(u) : u \in S}

LEMMA BlockSize ==
    ASSUME NEW u \in Uploads
    PROVE  IsFiniteSet(Upload!Bytes(u)) /\ Cardinality(Upload!Bytes(u)) = SizeOf[u]
<1>1. SizeOf[u] \in Nat /\ SizeOf[u] \in Int /\ 1 \in Int
  BY ServicesAssumption
<1>2. IsFiniteSet(1 .. SizeOf[u]) /\ Cardinality(1 .. SizeOf[u]) = SizeOf[u]
  <2>1. /\ IsFiniteSet(1 .. SizeOf[u])
        /\ Cardinality(1 .. SizeOf[u]) = IF 1 > SizeOf[u] THEN 0 ELSE SizeOf[u] - 1 + 1
    BY <1>1, FS_Interval
  <2>. QED
    BY <1>1, <2>1
<1>3. IsFiniteSet({u}) /\ Cardinality({u}) = 1
  BY FS_Singleton
<1>4. /\ IsFiniteSet({u} \X (1 .. SizeOf[u]))
      /\ Cardinality({u} \X (1 .. SizeOf[u])) = Cardinality({u}) * Cardinality(1 .. SizeOf[u])
  BY <1>2, <1>3, FS_Product
<1>. QED
  BY <1>1, <1>2, <1>3, <1>4 DEF Upload!Bytes

LEMMA BlocksFinite ==
    ASSUME NEW S \in SUBSET Uploads
    PROVE  IsFiniteSet(Blocks(S)) /\ Cardinality(Blocks(S)) \in Nat
<1>. DEFINE B == {Upload!Bytes(u) : u \in S}
            f == [u \in S |-> Upload!Bytes(u)]
<1>1. IsFiniteSet(S)
  BY ServicesAssumption, FS_Subset
<1>2. f \in Surjection(S, B)
  BY DEF Surjection
<1>3. \A T \in B : IsFiniteSet(T)
  BY BlockSize
<1>4. IsFiniteSet(B)
  <2>. HIDE DEF f, B
  <2>. QED
    BY <1>1, <1>2, FS_Surjection
<1>5. IsFiniteSet(UNION B)
  <2>. HIDE DEF B
  <2>. QED
    BY <1>3, <1>4, FS_UNION
<1>. QED
  BY <1>5, FS_CardinalityType DEF Blocks

LEMMA BlocksAdd ==
    ASSUME NEW S \in SUBSET Uploads, NEW u \in Uploads, u \notin S
    PROVE  Cardinality(Blocks(S \cup {u})) = Cardinality(Blocks(S)) + SizeOf[u]
<1>1. Blocks(S \cup {u}) = Blocks(S) \cup Upload!Bytes(u) /\ Blocks(S) \cap Upload!Bytes(u) = {}
  BY DEF Blocks, Upload!Bytes
<1>2. /\ IsFiniteSet(Blocks(S)) /\ IsFiniteSet(Upload!Bytes(u))
      /\ Cardinality(Blocks(S)) \in Nat /\ Cardinality(Upload!Bytes(u)) = SizeOf[u]
      /\ SizeOf[u] \in Nat
  BY BlockSize, BlocksFinite, ServicesAssumption
<1>3. Cardinality(Blocks(S) \cup Upload!Bytes(u))
         = Cardinality(Blocks(S)) + Cardinality(Upload!Bytes(u))
              - Cardinality(Blocks(S) \cap Upload!Bytes(u))
  BY <1>2, FS_Union
<1>4. Cardinality(Blocks(S) \cap Upload!Bytes(u)) = 0
  BY <1>1, FS_EmptySet
<1>5. Cardinality(Blocks(S) \cup Upload!Bytes(u)) = Cardinality(Blocks(S)) + SizeOf[u]
  BY <1>2, <1>3, <1>4
<1>. QED
  BY <1>1, <1>5

(* The account is what the uploads in S reserved.                          *)
Account(S) == Cardinality(Blocks(S))

LEMMA Reserves ==
    ASSUME NEW S \in SUBSET Uploads, NEW u \in Uploads, u \notin S
    PROVE  Account(S \cup {u}) = Account(S) + SizeOf[u] /\ Account(S) \in Nat
BY BlocksAdd, BlocksFinite DEF Account

LEMMA Releases ==
    ASSUME NEW S \in SUBSET Uploads, NEW u \in S, used \in Nat, used <= Account(S)
    PROVE  /\ Upload!Released(u) <= Account(S \ {u})
           /\ used = Account(S) => Upload!Released(u) = Account(S \ {u})
<1>1. Account((S \ {u}) \cup {u}) = Account(S \ {u}) + SizeOf[u] /\ Account(S \ {u}) \in Nat
  BY Reserves
<1>2. (S \ {u}) \cup {u} = S /\ SizeOf[u] \in Nat
  BY ServicesAssumption
<1>3. Account(S) = Account(S \ {u}) + SizeOf[u]
  BY <1>1, <1>2
<1>. QED
  BY <1>1, <1>2, <1>3 DEF Upload!Released

-----------------------------------------------------------------------------
(* What is known of one upload: what the pipeline aims at has the upload's *)
(* name, and unless an upload was terminated whose pipeline releases it    *)
(* too, a termination on its way finds a reservation that nobody else will *)
(* release.                                                                *)
GoodUpload(x, cross) ==
    /\ x \in Upload!Upload
    /\ x.pc = "new" => ~x.over
    /\ x.pc # "new" => x.name \in Names
    /\ x.pc \in {"check", "move", "copy", "accepted"} =>
          x.target \in Upload!Paths /\ x.target[1] = x.name
    /\ ~cross /\ x.term = "sent" => x.pc \in {"created", "leaked"} /\ ~x.blob

(* The file that a copy creates stays its own until somebody is told to    *)
(* overwrite the name.                                                     *)
CopiesStay ==
    \A u \in Uploads : up[u].pc \in {"copy", "accepted"} =>
        lib[up[u].target] = u \/ Upload!Overwrites(up[u].name)

AccountGood ==
    /\ used <= Account(Upload!Charged)
    /\ ~crossed => used = Account(Upload!Charged)

UploadInv ==
    /\ used \in 0 .. Quota /\ lib \in [Upload!Paths -> Uploads \cup {None}]
    /\ xdev \in BOOLEAN /\ crossed \in BOOLEAN /\ crashed \in BOOLEAN
    /\ up \in [Uploads -> Upload!Upload]
    /\ \A u \in Uploads : GoodUpload(up[u], crossed)
    /\ AccountGood
    /\ xdev => CopiesStay

(* x takes the place of upload u.                                          *)
Moved(u, x) ==
    /\ up' = [up EXCEPT ![u] = x]
    /\ GoodUpload(x, crossed')
    /\ up[u].over => x.over /\ x.name = up[u].name
    /\ xdev' = xdev

LEMMA MovedShape ==
    ASSUME UploadInv, NEW u \in Uploads, NEW x, Moved(u, x)
    PROVE  /\ x \in Upload!Upload /\ up'[u] = x /\ \A v \in Uploads : v # u => up'[v] = up[v]
           /\ up' \in [Uploads -> Upload!Upload]
           /\ Upload!Charged' = IF x.pc \in {"new", "failed"} THEN Upload!Charged \ {u}
                                ELSE Upload!Charged \cup {u}
           /\ \A n : Upload!Overwrites(n) => Upload!Overwrites(n)'
<1>1. /\ x \in Upload!Upload /\ up'[u] = x /\ \A v \in Uploads : v # u => up'[v] = up[v]
      /\ up' \in [Uploads -> Upload!Upload]
  BY DEF Moved, GoodUpload, UploadInv
<1>2. Upload!Charged' = IF x.pc \in {"new", "failed"} THEN Upload!Charged \ {u}
                        ELSE Upload!Charged \cup {u}
  BY <1>1 DEF Upload!Charged
<1>3. ASSUME NEW n, Upload!Overwrites(n) PROVE Upload!Overwrites(n)'
  <2>1. PICK v \in Uploads : up[v].over /\ up[v].name = n
    BY <1>3 DEF Upload!Overwrites
  <2>2. up'[v].over /\ up'[v].name = n
    BY <1>1, <2>1 DEF Moved
  <2>. QED
    BY <2>2 DEF Upload!Overwrites
<1>. QED
  BY <1>1, <1>2, <1>3

(* A step of one upload: what remains to be shown.                         *)
LEMMA UploadMoves ==
    ASSUME UploadInv, NEW u \in Uploads, NEW x, Moved(u, x),
           crossed => crossed', crossed' \in BOOLEAN, crashed' \in BOOLEAN,
           used' \in 0 .. Quota, lib' \in [Upload!Paths -> Uploads \cup {None}],
           AccountGood', xdev => CopiesStay'
    PROVE  UploadInv'
<1>1. \A v \in Uploads : GoodUpload(up'[v], crossed')
  BY MovedShape DEF UploadInv, Moved, GoodUpload
<1>2. up' \in [Uploads -> Upload!Upload]
  BY MovedShape
<1>. QED
  BY <1>1, <1>2 DEF UploadInv, Moved

(* The account follows whether the upload is charged.                      *)
LEMMA AccountFollows ==
    ASSUME UploadInv, NEW u \in Uploads, NEW x, Moved(u, x), crossed => crossed',
           crossed' \in BOOLEAN,
           \/ used' = used /\ (u \in Upload!Charged <=> x.pc \notin {"new", "failed"})
           \/ used' = Upload!Released(u) /\ u \in Upload!Charged /\ x.pc \in {"new", "failed"}
           \/ used' = used + SizeOf[u] /\ u \notin Upload!Charged /\ x.pc \notin {"new", "failed"}
           \/ /\ used' = Upload!Released(u) /\ crossed'
              /\ (u \in Upload!Charged <=> x.pc \notin {"new", "failed"})
    PROVE  AccountGood'
<1>. DEFINE C == Upload!Charged
            D == Upload!Charged'
<1>1. /\ used \in Nat /\ used <= Account(C) /\ (~crossed => used = Account(C))
      /\ C \in SUBSET Uploads /\ SizeOf[u] \in Nat
  BY ServicesAssumption DEF UploadInv, AccountGood, Upload!Charged
<1>2. D = IF x.pc \in {"new", "failed"} THEN C \ {u} ELSE C \cup {u}
  BY MovedShape
<1>3. \A S \in SUBSET Uploads : Account(S) \in Nat
  BY BlocksFinite DEF Account
<1>4. Account(Upload!Charged)' = Account(D)
  BY DEF Account, Blocks, Upload!Bytes
<1>5. used' <= Account(D) /\ (~crossed' => used' = Account(D))
  <2>. HIDE DEF C, D
  <2>1. CASE used' = used /\ (u \in C <=> x.pc \notin {"new", "failed"})
    <3>1. D = C
      BY <1>2, <2>1
    <3>. QED
      BY <1>1, <2>1, <3>1
  <2>2. CASE used' = Upload!Released(u) /\ u \in C /\ x.pc \in {"new", "failed"}
    <3>1. D = C \ {u}
      BY <1>2, <2>2
    <3>. QED
      BY <1>1, <2>2, <3>1, Releases
  <2>3. CASE used' = used + SizeOf[u] /\ u \notin C /\ x.pc \notin {"new", "failed"}
    <3>1. D = C \cup {u} /\ Account(D) = Account(C) + SizeOf[u] /\ Account(C) \in Nat
      BY <1>1, <1>2, <2>3, Reserves
    <3>. QED
      BY <1>1, <2>3, <3>1
  <2>4. CASE /\ used' = Upload!Released(u) /\ crossed'
             /\ (u \in C <=> x.pc \notin {"new", "failed"})
    <3>1. D = C /\ Account(C) \in Nat
      BY <1>1, <1>2, <1>3, <2>4
    <3>. QED
      BY <1>1, <2>4, <3>1 DEF Upload!Released
  <2>. QED
    BY <2>1, <2>2, <2>3, <2>4 DEF C
<1>. QED
  BY <1>4, <1>5 DEF AccountGood

(* A file keeps its owner when the step writes nothing over it.            *)
LEMMA KeepsFollows ==
    ASSUME UploadInv, NEW u \in Uploads, NEW x, Moved(u, x), xdev,
           \A v \in Uploads \ {u} :
              up[v].pc \in {"copy", "accepted"} /\ lib[up[v].target] = v =>
                 lib'[up[v].target] = v \/ Upload!Overwrites(up[v].name)',
           x.pc \in {"copy", "accepted"} =>
              lib'[x.target] = u \/ Upload!Overwrites(x.name)'
    PROVE  CopiesStay'
BY MovedShape DEF UploadInv, CopiesStay

LEMMA UploadFacts ==
    ASSUME UploadInv, NEW u \in Uploads
    PROVE  /\ up[u] \in Upload!Upload /\ GoodUpload(up[u], crossed)
           /\ used \in Nat /\ SizeOf[u] \in Nat /\ Quota \in Nat
           /\ Upload!Released(u) \in 0 .. Quota /\ used \in 0 .. Quota
           /\ (u \in Upload!Charged <=> up[u].pc \notin {"new", "failed"})
           /\ None \notin Uploads
<1>1. used \in 0 .. Quota /\ SizeOf[u] \in Nat /\ Quota \in Nat /\ None \notin Uploads
  BY ServicesAssumption DEF UploadInv
<1>2. Upload!Released(u) \in 0 .. Quota
  BY <1>1 DEF Upload!Released
<1>. QED
  BY <1>1, <1>2 DEF UploadInv, Upload!Charged

(* A failure of the pipeline, which may remove the file it was writing.    *)
LEMMA FailMoves ==
    ASSUME UploadInv, NEW u \in Uploads, up[u].pc \in Upload!Pipeline, Upload!Fail(u),
           UNCHANGED <<xdev, crossed, crashed>>,
           \/ lib' = lib
           \/ up[u].pc = "copy" /\ lib' = [lib EXCEPT ![up[u].target] = None]
    PROVE  UploadInv'
<1>. PICK pc \in {"failed", "leaked"} :
         /\ used' = IF pc = "failed" THEN Upload!Released(u) ELSE used
         /\ up' = [up EXCEPT ![u].pc = pc, ![u].target = None]
  BY DEF Upload!Fail
<1>. DEFINE x == [up[u] EXCEPT !.pc = pc, !.target = None]
<1>0. up[u] \in Upload!Upload /\ GoodUpload(up[u], crossed)
  BY UploadFacts
<1>1. up' = [up EXCEPT ![u] = x]
  OBVIOUS
<1>2. /\ x \in Upload!Upload /\ x.pc = pc /\ x.name = up[u].name /\ x.term = up[u].term
      /\ (x.over <=> up[u].over) /\ (up[u].over => x.over)
  BY <1>0 DEF Upload!Upload
<1>. HIDE DEF x
<1>3. Moved(u, x)
  BY <1>0, <1>1, <1>2 DEF Moved, GoodUpload, Upload!Pipeline
<1>4. used' \in 0 .. Quota /\ u \in Upload!Charged
  BY UploadFacts DEF Upload!Pipeline
<1>5. AccountGood'
  BY <1>2, <1>3, <1>4, AccountFollows DEF UploadInv
<1>6. lib' \in [Upload!Paths -> Uploads \cup {None}]
  BY DEF UploadInv
<1>7. xdev => CopiesStay'
  <2>. SUFFICES ASSUME xdev PROVE CopiesStay'
    OBVIOUS
  <2>1. ASSUME NEW v \in Uploads \ {u}, up[v].pc \in {"copy", "accepted"}, lib[up[v].target] = v
        PROVE  lib'[up[v].target] = v \/ Upload!Overwrites(up[v].name)'
    <3>1. CASE lib' = lib
      BY <2>1, <3>1
    <3>2. CASE up[u].pc = "copy" /\ lib' = [lib EXCEPT ![up[u].target] = None]
      <4>1. CASE up[u].target = up[v].target
        <5>1. up[u].name = up[v].name /\ lib[up[u].target] # u
          BY <2>1, <3>2, <4>1 DEF UploadInv, GoodUpload
        <5>2. Upload!Overwrites(up[v].name)
          BY <3>2, <5>1 DEF UploadInv, CopiesStay
        <5>. QED
          BY <1>3, <5>2, MovedShape
      <4>2. CASE up[u].target # up[v].target
        BY <2>1, <3>2, <4>2 DEF UploadInv, GoodUpload
      <4>. QED
        BY <4>1, <4>2
    <3>. QED
      BY <3>1, <3>2
  <2>. QED
    BY <1>2, <1>3, <2>1, KeepsFollows
<1>. QED
  BY <1>3, <1>4, <1>5, <1>6, <1>7, UploadMoves DEF UploadInv

(* A step that leaves the account and the library alone.                   *)
LEMMA QuietMoves ==
    ASSUME UploadInv, NEW u \in Uploads, NEW x, Moved(u, x), UNCHANGED <<used, lib>>,
           crossed => crossed', crossed' \in BOOLEAN, crashed' \in BOOLEAN,
           up[u].pc \in {"new", "failed"} <=> x.pc \in {"new", "failed"},
           x.pc \in {"copy", "accepted"} =>
              up[u].pc \in {"copy", "accepted"} /\ x.target = up[u].target /\ x.name = up[u].name
    PROVE  UploadInv'
<1>1. used' \in 0 .. Quota /\ lib' \in [Upload!Paths -> Uploads \cup {None}]
  BY DEF UploadInv
<1>2. AccountGood'
  BY UploadFacts, AccountFollows
<1>3. xdev => CopiesStay'
  <2>. SUFFICES ASSUME xdev PROVE CopiesStay'
    OBVIOUS
  <2>1. x.pc \in {"copy", "accepted"} => lib'[x.target] = u \/ Upload!Overwrites(x.name)'
    BY MovedShape DEF UploadInv, CopiesStay
  <2>. QED
    BY <2>1, KeepsFollows
<1>. QED
  BY <1>1, <1>2, <1>3, UploadMoves

LEMMA PreCreateMoves ==
    ASSUME UploadInv, NEW u \in Uploads, Upload!PreCreate(u) PROVE UploadInv'
<1>1. PICK n \in Names, over \in BOOLEAN, pc \in {"created", "leaked"} :
         up' = [up EXCEPT ![u] = [Upload!NewUpload EXCEPT !.pc = pc, !.name = n, !.over = over,
                                                          !.blob = (pc = "created")]]
  BY DEF Upload!PreCreate
<1>. DEFINE x == [Upload!NewUpload EXCEPT !.pc = pc, !.name = n, !.over = over,
                                          !.blob = (pc = "created")]
<1>2. x \in Upload!Upload /\ x.pc = pc /\ x.name = n /\ x.term = "no"
  BY DEF Upload!NewUpload, Upload!Upload
<1>3. /\ up[u].pc = "new" /\ Upload!Fits(u) /\ used' = used + SizeOf[u]
      /\ UNCHANGED <<lib, xdev, crossed, crashed>> /\ up' = [up EXCEPT ![u] = x]
  BY <1>1 DEF Upload!PreCreate
<1>. HIDE DEF x
<1>4. Moved(u, x)
  BY <1>2, <1>3, UploadFacts DEF Moved, GoodUpload
<1>5. used' \in 0 .. Quota
  BY <1>3, UploadFacts DEF Upload!Fits
<1>6. AccountGood'
  BY <1>2, <1>3, <1>4, AccountFollows, UploadFacts DEF UploadInv
<1>7. xdev => CopiesStay'
  BY <1>2, <1>3, <1>4, KeepsFollows
<1>. QED
  BY <1>3, <1>4, <1>5, <1>6, <1>7, UploadMoves DEF UploadInv

LEMMA CompleteMoves ==
    ASSUME UploadInv, NEW u \in Uploads, Upload!Complete(u) PROVE UploadInv'
<1>. DEFINE x == [up[u] EXCEPT !.pc = "complete"]
<1>0. up[u] \in Upload!Upload /\ GoodUpload(up[u], crossed) /\ up[u].pc = "created"
      /\ up[u].term = "no"
  BY UploadFacts DEF Upload!Complete
<1>1. up' = [up EXCEPT ![u] = x] /\ UNCHANGED <<used, lib, xdev, crossed, crashed>>
  BY DEF Upload!Complete
<1>2. /\ x \in Upload!Upload /\ x.pc = "complete" /\ x.name = up[u].name /\ x.term = up[u].term
      /\ (x.over <=> up[u].over)
  BY <1>0 DEF Upload!Upload, Upload!Pipeline
<1>. HIDE DEF x
<1>3. Moved(u, x)
  BY <1>0, <1>1, <1>2 DEF Moved, GoodUpload
<1>. QED
  BY <1>0, <1>1, <1>2, <1>3, QuietMoves DEF UploadInv

LEMMA ValidateMoves ==
    ASSUME UploadInv, NEW u \in Uploads, Upload!Validate(u) PROVE UploadInv'
<1>. DEFINE x == [up[u] EXCEPT !.pc = "look"]
<1>0. up[u] \in Upload!Upload /\ GoodUpload(up[u], crossed) /\ up[u].pc = "complete"
      /\ UNCHANGED <<lib, xdev, crossed, crashed>>
  BY UploadFacts DEF Upload!Validate
<1>1. CASE Upload!Fail(u)
  BY <1>0, <1>1, FailMoves DEF Upload!Pipeline
<1>2. CASE up' = [up EXCEPT ![u].pc = "look"] /\ UNCHANGED used
  <2>1. up' = [up EXCEPT ![u] = x]
    BY <1>2
  <2>2. /\ x \in Upload!Upload /\ x.pc = "look" /\ x.name = up[u].name /\ x.term = up[u].term
        /\ (x.over <=> up[u].over)
    BY <1>0 DEF Upload!Upload, Upload!Pipeline
  <2>. HIDE DEF x
  <2>3. Moved(u, x)
    BY <1>0, <2>1, <2>2 DEF Moved, GoodUpload
  <2>. QED
    BY <1>0, <1>2, <2>2, <2>3, QuietMoves DEF UploadInv
<1>. QED
  BY <1>1, <1>2 DEF Upload!Validate

LEMMA CheckMoves ==
    ASSUME UploadInv, NEW u \in Uploads, Upload!Check(u) PROVE UploadInv'
<1>. DEFINE x == [up[u] EXCEPT !.pc = "move"]
<1>0. up[u] \in Upload!Upload /\ GoodUpload(up[u], crossed) /\ up[u].pc = "check"
      /\ UNCHANGED <<lib, xdev, crossed, crashed>>
  BY UploadFacts DEF Upload!Check
<1>1. CASE Upload!Fail(u)
  BY <1>0, <1>1, FailMoves DEF Upload!Pipeline
<1>2. CASE up' = [up EXCEPT ![u].pc = "move"] /\ UNCHANGED used
  <2>1. up' = [up EXCEPT ![u] = x]
    BY <1>2
  <2>2. /\ x \in Upload!Upload /\ x.pc = "move" /\ x.name = up[u].name /\ x.term = up[u].term
        /\ (x.over <=> up[u].over) /\ x.target = up[u].target
    BY <1>0 DEF Upload!Upload, Upload!Pipeline
  <2>. HIDE DEF x
  <2>3. Moved(u, x)
    BY <1>0, <2>1, <2>2 DEF Moved, GoodUpload
  <2>. QED
    BY <1>0, <1>2, <2>2, <2>3, QuietMoves DEF UploadInv
<1>. QED
  BY <1>1, <1>2 DEF Upload!Check

(* The target: a free name, or the name itself for who may overwrite it.   *)
LEMMA LookMoves ==
    ASSUME UploadInv, NEW u \in Uploads, Upload!Look(u) PROVE UploadInv'
<1>0. up[u] \in Upload!Upload /\ GoodUpload(up[u], crossed) /\ up[u].pc = "look"
      /\ UNCHANGED <<xdev, crossed, crashed>>
  BY UploadFacts DEF Upload!Look
<1>1. CASE Upload!Fail(u) /\ UNCHANGED lib
  BY <1>0, <1>1, FailMoves DEF Upload!Pipeline
<1>2. ASSUME NEW i \in 0 .. MaxSuffix, UNCHANGED used,
             up' = [up EXCEPT ![u].pc = "check", ![u].target = <<up[u].name, i>>],
             \/ lib' = lib
             \/ up[u].over /\ i = 0 /\ lib' = [lib EXCEPT ![<<up[u].name, 0>>] = None]
      PROVE  UploadInv'
  <2>. DEFINE p == <<up[u].name, i>>
              x == [up[u] EXCEPT !.pc = "check", !.target = p]
  <2>1. up' = [up EXCEPT ![u] = x]
    BY <1>2
  <2>2. p \in Upload!Paths /\ p[1] = up[u].name
    BY <1>0 DEF Upload!Paths, GoodUpload
  <2>3. /\ x \in Upload!Upload /\ x.pc = "check" /\ x.name = up[u].name /\ x.term = up[u].term
        /\ (x.over <=> up[u].over) /\ x.target = p
    BY <1>0, <2>2 DEF Upload!Upload, Upload!Pipeline
  <2>. HIDE DEF x
  <2>4. Moved(u, x)
    BY <1>0, <2>1, <2>2, <2>3 DEF Moved, GoodUpload
  <2>5. AccountGood'
    BY <1>0, <1>2, <2>3, <2>4, AccountFollows, UploadFacts DEF UploadInv
  <2>6. lib' \in [Upload!Paths -> Uploads \cup {None}] /\ used' \in 0 .. Quota
    BY <1>2 DEF UploadInv
  <2>7. xdev => CopiesStay'
    <3>. SUFFICES ASSUME xdev PROVE CopiesStay'
      OBVIOUS
    <3>1. ASSUME NEW v \in Uploads \ {u}, up[v].pc \in {"copy", "accepted"}, lib[up[v].target] = v
          PROVE  lib'[up[v].target] = v \/ Upload!Overwrites(up[v].name)'
      <4>0. up[v].target \in Upload!Paths /\ up[v].target[1] = up[v].name
        BY <3>1 DEF UploadInv, GoodUpload
      <4>1. CASE lib' = lib
        BY <3>1, <4>1
      <4>2. CASE up[u].over /\ lib' = [lib EXCEPT ![<<up[u].name, 0>>] = None]
        <5>1. CASE up[v].target = <<up[u].name, 0>>
          <6>1. up[v].name = up[u].name
            BY <4>0, <5>1
          <6>2. Upload!Overwrites(up[v].name)
            BY <4>2, <6>1 DEF Upload!Overwrites
          <6>. QED
            BY <2>4, <6>2, MovedShape
        <5>2. CASE up[v].target # <<up[u].name, 0>>
          BY <3>1, <4>0, <4>2, <5>2 DEF UploadInv
        <5>. QED
          BY <5>1, <5>2
      <4>. QED
        BY <1>2, <4>1, <4>2
    <3>. QED
      BY <2>3, <2>4, <3>1, KeepsFollows
  <2>. QED
    BY <1>0, <2>4, <2>5, <2>6, <2>7, UploadMoves DEF UploadInv
<1>3. ASSUME Upload!Free(up[u].name) # {}
      PROVE  Upload!Min(Upload!Free(up[u].name)) \in 0 .. MaxSuffix
  <2>. DEFINE F == Upload!Free(up[u].name)
  <2>1. F \in SUBSET Nat /\ F # {} /\ F \subseteq 0 .. MaxSuffix /\ MaxSuffix \in Nat
    BY <1>3, ServicesAssumption DEF Upload!Free
  <2>. HIDE DEF F
  <2>2. PICK n \in F : \A m \in F : <<m, n>> \notin OpToRel(<, Nat)
    BY <2>1, WFMin, NatLessThanWellFounded
  <2>3. \A m \in F : n <= m
    <3>1. \A m \in F : ~(m < n)
      BY <2>1, <2>2 DEF OpToRel
    <3>. QED
      BY <2>1, <3>1
  <2>4. Upload!Min(F) \in F
    BY <2>3 DEF Upload!Min
  <2>. QED
    BY <2>1, <2>4 DEF F
<1>. QED
  BY <1>0, <1>1, <1>2, <1>3, ServicesAssumption DEF Upload!Look

LEMMA RenameMoves ==
    ASSUME UploadInv, NEW u \in Uploads, Upload!Rename(u) PROVE UploadInv'
<1>. DEFINE x == [up[u] EXCEPT !.pc = "accepted", !.blob = FALSE]
<1>0. up[u] \in Upload!Upload /\ GoodUpload(up[u], crossed) /\ up[u].pc = "move" /\ ~xdev
      /\ UNCHANGED <<xdev, crossed, crashed>>
  BY UploadFacts DEF Upload!Rename
<1>1. CASE Upload!Fail(u) /\ UNCHANGED lib
  BY <1>0, <1>1, FailMoves DEF Upload!Pipeline
<1>2. CASE Upload!Accept(u) /\ lib' = [lib EXCEPT ![up[u].target] = u] /\ UNCHANGED used
  <2>1. up' = [up EXCEPT ![u] = x]
    BY <1>2 DEF Upload!Accept
  <2>2. /\ x \in Upload!Upload /\ x.pc = "accepted" /\ x.name = up[u].name
        /\ x.term = up[u].term /\ (x.over <=> up[u].over) /\ x.target = up[u].target
    BY <1>0 DEF Upload!Upload
  <2>. HIDE DEF x
  <2>3. Moved(u, x)
    BY <1>0, <2>1, <2>2 DEF Moved, GoodUpload
  <2>4. AccountGood'
    BY <1>0, <1>2, <2>2, <2>3, AccountFollows, UploadFacts DEF UploadInv
  <2>5. used' \in 0 .. Quota /\ lib' \in [Upload!Paths -> Uploads \cup {None}]
    BY <1>2 DEF UploadInv
  <2>. QED
    BY <1>0, <2>3, <2>4, <2>5, UploadMoves DEF UploadInv
<1>. QED
  BY <1>1, <1>2 DEF Upload!Rename

(* The copy begins: its file is new, so nobody who is on the disk with the *)
(* same path had it for himself.                                           *)
LEMMA CopyMoves ==
    ASSUME UploadInv, NEW u \in Uploads, Upload!Copy(u) PROVE UploadInv'
<1>. DEFINE x == [up[u] EXCEPT !.pc = "copy"]
<1>0. up[u] \in Upload!Upload /\ GoodUpload(up[u], crossed) /\ up[u].pc = "move" /\ xdev
      /\ UNCHANGED <<xdev, crossed, crashed>>
  BY UploadFacts DEF Upload!Copy
<1>1. CASE Upload!Fail(u) /\ UNCHANGED lib
  BY <1>0, <1>1, FailMoves DEF Upload!Pipeline
<1>2. CASE /\ Upload!Exclusive(u) /\ up' = [up EXCEPT ![u].pc = "copy"]
           /\ lib' = [lib EXCEPT ![up[u].target] = u] /\ UNCHANGED used
  <2>1. up' = [up EXCEPT ![u] = x]
    BY <1>2
  <2>2. /\ x \in Upload!Upload /\ x.pc = "copy" /\ x.name = up[u].name
        /\ x.term = up[u].term /\ (x.over <=> up[u].over) /\ x.target = up[u].target
    BY <1>0 DEF Upload!Upload, Upload!Pipeline
  <2>. HIDE DEF x
  <2>3. Moved(u, x)
    BY <1>0, <2>1, <2>2 DEF Moved, GoodUpload
  <2>4. AccountGood'
    BY <1>0, <1>2, <2>2, <2>3, AccountFollows, UploadFacts DEF UploadInv
  <2>5. used' \in 0 .. Quota /\ lib' \in [Upload!Paths -> Uploads \cup {None}]
    BY <1>2 DEF UploadInv
  <2>6. ASSUME NEW v \in Uploads \ {u}, up[v].pc \in {"copy", "accepted"}, lib[up[v].target] = v
        PROVE  lib'[up[v].target] = v
    <3>1. up[v].target # up[u].target
      BY <1>2, <2>6, UploadFacts DEF Upload!Exclusive
    <3>. QED
      BY <1>2, <2>6, <3>1 DEF UploadInv, GoodUpload
  <2>7. lib'[x.target] = u
    BY <1>0, <1>2, <2>2 DEF UploadInv, GoodUpload
  <2>8. CopiesStay'
    BY <1>0, <2>3, <2>6, <2>7, KeepsFollows
  <2>. QED
    BY <1>0, <2>3, <2>4, <2>5, <2>8, UploadMoves DEF UploadInv
<1>. QED
  BY <1>1, <1>2 DEF Upload!Copy

LEMMA CopyEndMoves ==
    ASSUME UploadInv, NEW u \in Uploads, Upload!CopyEnd(u) PROVE UploadInv'
<1>. DEFINE x == [up[u] EXCEPT !.pc = "accepted", !.blob = FALSE]
<1>0. up[u] \in Upload!Upload /\ GoodUpload(up[u], crossed) /\ up[u].pc = "copy"
      /\ UNCHANGED <<xdev, crossed, crashed>>
  BY UploadFacts DEF Upload!CopyEnd
<1>1. CASE Upload!Fail(u) /\ (lib' = lib \/ lib' = [lib EXCEPT ![up[u].target] = None])
  BY <1>0, <1>1, FailMoves DEF Upload!Pipeline
<1>2. CASE Upload!Accept(u) /\ UNCHANGED <<used, lib>>
  <2>1. up' = [up EXCEPT ![u] = x]
    BY <1>2 DEF Upload!Accept
  <2>2. /\ x \in Upload!Upload /\ x.pc = "accepted" /\ x.name = up[u].name
        /\ x.term = up[u].term /\ (x.over <=> up[u].over) /\ x.target = up[u].target
    BY <1>0 DEF Upload!Upload
  <2>. HIDE DEF x
  <2>3. Moved(u, x)
    BY <1>0, <2>1, <2>2 DEF Moved, GoodUpload
  <2>. QED
    BY <1>0, <1>2, <2>2, <2>3, QuietMoves DEF UploadInv
<1>. QED
  BY <1>1, <1>2 DEF Upload!CopyEnd

LEMMA TerminateMoves ==
    ASSUME UploadInv, NEW u \in Uploads, Upload!Terminate(u) PROVE UploadInv'
<1>. DEFINE x == [up[u] EXCEPT !.blob = FALSE, !.term = "sent"]
<1>0. /\ up[u] \in Upload!Upload /\ GoodUpload(up[u], crossed) /\ crossed \in BOOLEAN
      /\ UNCHANGED <<used, lib, xdev, crashed>> /\ crashed \in BOOLEAN
      /\ (crossed' <=> crossed \/ up[u].pc \notin {"created", "leaked"}) /\ crossed' \in BOOLEAN
  BY UploadFacts DEF Upload!Terminate, UploadInv
<1>1. up' = [up EXCEPT ![u] = x]
  BY DEF Upload!Terminate
<1>2. /\ x \in Upload!Upload /\ x.pc = up[u].pc /\ x.name = up[u].name
      /\ (x.over <=> up[u].over) /\ x.target = up[u].target /\ ~x.blob
  BY <1>0 DEF Upload!Upload
<1>. HIDE DEF x
<1>3. Moved(u, x)
  BY <1>0, <1>1, <1>2 DEF Moved, GoodUpload
<1>. QED
  BY <1>0, <1>2, <1>3, QuietMoves DEF UploadInv

(* A termination releases what was reserved, or fails to, unless the       *)
(* upload was terminated in its pipeline or after it, which releases too.  *)
LEMMA AbortedMoves ==
    ASSUME UploadInv, NEW u \in Uploads, Upload!Aborted(u) PROVE UploadInv'
<1>. PICK pc \in {"failed", "leaked"} :
         /\ used' = IF pc = "failed" THEN Upload!Released(u) ELSE used
         /\ up' = [up EXCEPT ![u].term = "done",
                             ![u].pc = IF @ \in {"created", "leaked"} THEN pc ELSE @]
  BY DEF Upload!Aborted
<1>. DEFINE to == IF up[u].pc \in {"created", "leaked"} THEN pc ELSE up[u].pc
            x == [up[u] EXCEPT !.term = "done", !.pc = to]
<1>0. /\ up[u] \in Upload!Upload /\ GoodUpload(up[u], crossed) /\ up[u].term = "sent"
      /\ UNCHANGED <<lib, xdev, crossed, crashed>> /\ crossed \in BOOLEAN
  BY UploadFacts DEF Upload!Aborted, UploadInv
<1>1. up' = [up EXCEPT ![u] = x]
  OBVIOUS
<1>2. /\ x \in Upload!Upload /\ x.pc = to /\ x.name = up[u].name /\ x.term = "done"
      /\ (x.over <=> up[u].over) /\ x.target = up[u].target
  BY <1>0 DEF Upload!Upload
<1>. HIDE DEF x
<1>3. Moved(u, x)
  BY <1>0, <1>1, <1>2 DEF Moved, GoodUpload
<1>4. AccountGood'
  <2>1. CASE up[u].pc \in {"created", "leaked"}
    BY <1>0, <1>2, <1>3, <2>1, AccountFollows, UploadFacts
  <2>2. CASE up[u].pc \notin {"created", "leaked"}
    <3>1. crossed' /\ x.pc = up[u].pc
      BY <1>0, <1>2, <2>2 DEF GoodUpload
    <3>. QED
      BY <1>0, <1>3, <3>1, AccountFollows, UploadFacts
  <2>. QED
    BY <2>1, <2>2
<1>5. xdev => CopiesStay'
  <2>1. xdev /\ x.pc \in {"copy", "accepted"} =>
           lib[x.target] = u \/ Upload!Overwrites(x.name)
    BY <1>2 DEF UploadInv, CopiesStay
  <2>2. \A n : Upload!Overwrites(n) => Upload!Overwrites(n)'
    BY <1>3, MovedShape
  <2>. QED
    BY <1>0, <1>3, <2>1, <2>2, KeepsFollows
<1>6. used' \in 0 .. Quota
  BY UploadFacts
<1>. QED
  BY <1>0, <1>3, <1>4, <1>5, <1>6, UploadMoves DEF UploadInv

LEMMA SweepMoves ==
    ASSUME UploadInv, NEW u \in Uploads, Upload!Sweep(u) PROVE UploadInv'
<1>. DEFINE to == IF up[u].pc = "created" THEN "leaked" ELSE up[u].pc
            x == [up[u] EXCEPT !.blob = FALSE, !.pc = to]
<1>0. /\ up[u] \in Upload!Upload /\ GoodUpload(up[u], crossed)
      /\ up[u].pc \in {"created", "failed", "leaked"} /\ up[u].blob
      /\ UNCHANGED <<used, lib, xdev, crossed, crashed>>
  BY UploadFacts DEF Upload!Sweep
<1>1. up' = [up EXCEPT ![u] = x]
  BY DEF Upload!Sweep
<1>2. /\ x \in Upload!Upload /\ x.pc = to /\ x.name = up[u].name /\ x.term = up[u].term
      /\ (x.over <=> up[u].over) /\ x.target = up[u].target
  BY <1>0 DEF Upload!Upload
<1>. HIDE DEF x
<1>3. Moved(u, x)
  BY <1>0, <1>1, <1>2 DEF Moved, GoodUpload
<1>. QED
  BY <1>0, <1>2, <1>3, QuietMoves DEF UploadInv

(* A restart: a pipeline that ran leaves its reservation charged for good. *)
LEMMA CrashMoves == ASSUME UploadInv, Upload!Crash PROVE UploadInv'
<1>0. /\ UNCHANGED <<used, lib, xdev, crossed>> /\ crashed' = TRUE
      /\ up \in [Uploads -> Upload!Upload]
  BY DEF Upload!Crash, UploadInv
<1>1. ASSUME NEW u \in Uploads
      PROVE  /\ GoodUpload(up'[u], crossed')
             /\ up'[u].over <=> up[u].over
             /\ up'[u].name = up[u].name /\ up'[u].target = up[u].target
             /\ up'[u].pc \in {"copy", "accepted"} => up'[u].pc = up[u].pc
             /\ up'[u].pc \in {"new", "failed"} <=> up[u].pc \in {"new", "failed"}
             /\ up'[u].pc # up[u].pc => up'[u].pc = "leaked"
  <2>0. up[u] \in Upload!Upload /\ GoodUpload(up[u], crossed)
    BY UploadFacts
  <2>. DEFINE pc == IF up[u].pc \in Upload!Pipeline \/ (up[u].pc = "created" /\ up[u].term = "sent")
                    THEN "leaked" ELSE up[u].pc
              term == IF up[u].term = "sent" THEN "done" ELSE up[u].term
              x == [up[u] EXCEPT !.pc = pc, !.term = term]
  <2>1. up'[u] = x
    BY <2>0 DEF Upload!Crash, Upload!Upload
  <2>2. /\ x \in Upload!Upload /\ x.pc = pc /\ x.term = term /\ x.name = up[u].name
        /\ x.target = up[u].target /\ (x.over <=> up[u].over)
    BY <2>0 DEF Upload!Upload
  <2>. HIDE DEF x
  <2>. QED
    BY <1>0, <2>0, <2>1, <2>2 DEF GoodUpload, Upload!Pipeline
<1>2. up' \in [Uploads -> Upload!Upload]
  <2>1. DOMAIN up' = Uploads /\ \E f : up' = [u \in Uploads |-> f[u]]
    <3>1. up' = [u \in Uploads |-> up'[u]]
      BY DEF Upload!Crash
    <3>. QED
      BY <3>1
  <2>. QED
    BY <1>1, <2>1 DEF GoodUpload
<1>3. Upload!Charged' = Upload!Charged
  BY <1>1 DEF Upload!Charged
<1>5. AccountGood'
  BY <1>0, <1>3 DEF UploadInv, AccountGood, Account, Blocks, Upload!Bytes
<1>6. \A n : Upload!Overwrites(n) => Upload!Overwrites(n)'
  BY <1>1 DEF Upload!Overwrites
<1>7. xdev => CopiesStay'
  BY <1>0, <1>1, <1>6 DEF UploadInv, CopiesStay
<1>. QED
  BY <1>0, <1>1, <1>2, <1>5, <1>7 DEF UploadInv

LEMMA UploadInit == Upload!Init => UploadInv
<1>. SUFFICES ASSUME Upload!Init PROVE UploadInv
  OBVIOUS
<1>1. Upload!NewUpload \in Upload!Upload
  BY DEF Upload!NewUpload, Upload!Upload
<1>2. \A u \in Uploads : up[u] = Upload!NewUpload
  BY DEF Upload!Init
<1>a. Upload!NewUpload.pc = "new" /\ Upload!NewUpload.term = "no" /\ ~Upload!NewUpload.over
  BY DEF Upload!NewUpload
<1>3. \A u \in Uploads : GoodUpload(up[u], crossed) /\ up[u].pc = "new"
  BY <1>1, <1>2, <1>a DEF GoodUpload
<1>4. Upload!Charged = {} /\ Blocks({}) = {}
  BY <1>3 DEF Upload!Charged, Blocks
<1>5. AccountGood
  BY <1>4, FS_EmptySet DEF Upload!Init, Account, AccountGood
<1>6. CopiesStay
  BY <1>3 DEF CopiesStay
<1>7. up \in [Uploads -> Upload!Upload] /\ lib \in [Upload!Paths -> Uploads \cup {None}]
  BY <1>1 DEF Upload!Init
<1>8. used \in 0 .. Quota
  BY ServicesAssumption DEF Upload!Init
<1>9. xdev \in BOOLEAN /\ crossed \in BOOLEAN /\ crashed \in BOOLEAN
  BY Zenon DEF Upload!Init
<1>. QED
  BY <1>3, <1>5, <1>6, <1>7, <1>8, <1>9 DEF UploadInv

LEMMA UploadStep ==
    ASSUME UploadInv, [Upload!Next]_(Upload!uploadVars) PROVE UploadInv'
<1>1. ASSUME NEW u \in Uploads,
             \/ Upload!PreCreate(u) \/ Upload!Complete(u) \/ Upload!Validate(u)
             \/ Upload!Look(u) \/ Upload!Check(u) \/ Upload!Rename(u)
      PROVE  UploadInv'
  BY <1>1, PreCreateMoves, CompleteMoves, ValidateMoves, LookMoves, CheckMoves, RenameMoves
<1>2. ASSUME NEW u \in Uploads,
             \/ Upload!Copy(u) \/ Upload!CopyEnd(u) \/ Upload!Terminate(u)
             \/ Upload!Aborted(u) \/ Upload!Sweep(u)
      PROVE  UploadInv'
  BY <1>2, CopyMoves, CopyEndMoves, TerminateMoves, AbortedMoves, SweepMoves
<1>3. CASE UNCHANGED Upload!uploadVars
  BY <1>3 DEF Upload!uploadVars, UploadInv, AccountGood, CopiesStay, Upload!Overwrites, Upload!Charged, Account,
              Blocks, Upload!Bytes
<1>. QED
  BY <1>1, <1>2, <1>3, CrashMoves DEF Upload!Next

LEMMA UploadHolds == Upload!Spec => []UploadInv
<1>1. UploadInv /\ [Upload!Next]_(Upload!uploadVars) => UploadInv'
  BY UploadStep
<1>. QED
  BY <1>1, UploadInit, PTL DEF Upload!Spec

(* Whatever becomes of an upload - chunks, a pipeline that fails at any    *)
(* point, a release that fails, a sweep, a termination, a restart - its    *)
(* reservation is released once or kept, as long as no client's DELETE     *)
(* meets a pipeline or an upload that failed; and the account never counts *)
(* more than what is reserved.                                             *)
THEOREM AccountIsExact == Upload!Spec => []QuotaExact
<1>1. UploadInv => QuotaExact
  BY UploadCardinality DEF UploadInv, AccountGood, QuotaExact, Upload!QuotaExact, Account, Blocks
<1>. QED
  BY <1>1, UploadHolds, PTL

(* Across filesystems, what two uploads of one name aim at is settled by   *)
(* the exclusive creation: no accepted file is replaced unless asked.      *)
THEOREM CopiesKeep == Upload!Spec => []CopyNeverOverwrites
<1>1. UploadInv => CopyNeverOverwrites
  BY DEF UploadInv, CopiesStay, CopyNeverOverwrites, Upload!CopyNeverOverwrites,
         Upload!NeverOverwritten, Upload!Accepted
<1>. QED
  BY <1>1, UploadHolds, PTL

-----------------------------------------------------------------------------
(* Torrents.  A count is made of the tasks that acquired the torrent, the  *)
(* session that the reaper has yet to release, and the session in the map. *)
LEMMA TorrentCardinality == \A S : Torrent!Cardinality(S) = Cardinality(S)
BY DEF Cardinality, Torrent!Cardinality

Reaping == [torrent : Torrents, dead : BOOLEAN, last : BOOLEAN]

HolderTasks(t) == {k \in Tasks : Torrent!Holding(k, t)}
Awaits(t) == \E r \in reaped : r.torrent = t /\ ~r.last

(* The reaper takes one session of a torrent at most, and a task that is   *)
(* under way has a source.                                                 *)
TorrentTypes ==
    /\ scratch \subseteq Torrents
    /\ holders \in [Torrents -> Nat]
    /\ active \in [Torrents -> Torrent!StreamSession \cup {None}]
    /\ alias \in [Sources -> Torrents \cup {None}]
    /\ task \in [Tasks -> Torrent!Task]
    /\ \A k \in Tasks : task[k].pc # "off" => task[k].src \in Sources
    /\ reaped \subseteq Reaping
    /\ \A r, q \in reaped : r.torrent = q.torrent => r = q
    /\ closed \in BOOLEAN
    /\ leaked \subseteq Torrents

Counted ==
    \A t \in Torrents :
        holders[t] = Cardinality(HolderTasks(t)) + (IF Awaits(t) THEN 1 ELSE 0)
                     + (IF active[t] # None THEN 1 ELSE 0)

TorrentInv ==
    TorrentTypes /\ Counted /\ Torrent!AliasesLive /\ Torrent!SessionsCapped
    /\ Torrent!ScratchRemoved

LEMMA HolderTasksFinite ==
    ASSUME NEW t PROVE IsFiniteSet(HolderTasks(t)) /\ Cardinality(HolderTasks(t)) \in Nat
                       /\ Cardinality(HolderTasks(t)) <= Cardinality(Tasks)
                       /\ Cardinality(Tasks) \in Nat
BY ServicesAssumption, FS_Subset, FS_CardinalityType DEF HolderTasks

(* A torrent that somebody holds has a count.                              *)
LEMMA HeldCounts ==
    ASSUME TorrentTypes, Counted, NEW t \in Torrents
    PROVE  /\ HolderTasks(t) # {} => holders[t] # 0
           /\ Awaits(t) => holders[t] # 0
           /\ active[t] # None => holders[t] # 0
<1>1. Cardinality(HolderTasks(t)) \in Nat /\ IsFiniteSet(HolderTasks(t))
  BY HolderTasksFinite
<1>2. HolderTasks(t) # {} => Cardinality(HolderTasks(t)) # 0
  BY <1>1, FS_EmptySet
<1>. QED
  BY <1>1, <1>2 DEF Counted

(* The reaped sessions of a torrent that were not released: one or none.   *)
LEMMA ReapedOne ==
    ASSUME TorrentTypes, NEW t
    PROVE  Cardinality({r \in reaped : r.torrent = t /\ ~r.last}) = IF Awaits(t) THEN 1 ELSE 0
<1>1. CASE Awaits(t)
  <2>1. PICK r \in reaped : r.torrent = t /\ ~r.last
    BY <1>1 DEF Awaits
  <2>2. {q \in reaped : q.torrent = t /\ ~q.last} = {r}
    BY <2>1 DEF TorrentTypes
  <2>. QED
    BY <1>1, <2>2, FS_Singleton
<1>2. CASE ~Awaits(t)
  <2>1. {q \in reaped : q.torrent = t /\ ~q.last} = {}
    BY <1>2 DEF Awaits
  <2>. QED
    BY <1>2, <2>1, FS_EmptySet
<1>. QED
  BY <1>1, <1>2

LEMMA TorrentSafety == TorrentInv => Torrent!TorrentsSafe /\ Torrent!TypeOK
<1>. SUFFICES ASSUME TorrentInv PROVE Torrent!TorrentsSafe /\ Torrent!TypeOK
  OBVIOUS
<1>1. TorrentTypes /\ Counted
  BY DEF TorrentInv
<1>2. ASSUME NEW t \in Torrents
      PROVE  /\ holders[t] = Torrent!Cardinality({k \in Tasks : Torrent!Holding(k, t)})
                             + Torrent!Cardinality({r \in reaped : r.torrent = t /\ ~r.last})
                             + (IF active[t] # None THEN 1 ELSE 0)
             /\ holders[t] \in 0 .. Torrent!MaxHolders
  <2>1. Cardinality({r \in reaped : r.torrent = t /\ ~r.last}) = IF Awaits(t) THEN 1 ELSE 0
    BY <1>1, ReapedOne
  <2>2. holders[t] = Cardinality(HolderTasks(t)) + (IF Awaits(t) THEN 1 ELSE 0)
                     + (IF active[t] # None THEN 1 ELSE 0)
    BY <1>1 DEF Counted
  <2>3. Torrent!MaxHolders = Cardinality(Tasks) + 2
    BY TorrentCardinality DEF Torrent!MaxHolders
  <2>. QED
    BY <2>1, <2>2, <2>3, HolderTasksFinite, TorrentCardinality DEF HolderTasks
<1>3. holders \in [Torrents -> 0 .. Torrent!MaxHolders]
  BY <1>1, <1>2 DEF TorrentTypes
<1>4. \A r \in reaped : r.torrent \in Torrents /\ r.dead \in BOOLEAN /\ r.last \in BOOLEAN
  BY <1>1 DEF TorrentTypes, Reaping
<1>5. Torrent!HoldersExact
  BY <1>2 DEF Torrent!HoldersExact
<1>6. Torrent!TypeOK
  BY <1>1, <1>3, <1>4 DEF TorrentTypes, Torrent!TypeOK
<1>. QED
  BY <1>5, <1>6 DEF TorrentInv, Torrent!TorrentsSafe

(* A step that takes and gives back no holder and no session.  A torrent   *)
(* that has data afterwards, and did not keep it because of a removal that *)
(* failed, is held or on its way, or it was so before.                     *)
Steady ==
    /\ holders' = holders /\ Torrent!Sessions' = Torrent!Sessions
    /\ \A t \in Torrents : HolderTasks(t)' = HolderTasks(t) /\ (Awaits(t)' <=> Awaits(t))
    /\ \A s \in Sources : \/ alias'[s] = alias[s]
                          \/ alias'[s] = TorrentOf[s] /\ TorrentOf[s] \in Torrent!Sessions
    /\ \A t \in scratch' \ leaked' :
          \/ HolderTasks(t) # {} \/ active[t] # None
          \/ \E k \in Tasks : Torrent!Has(k, t)'
          \/ \E q \in reaped' : q.torrent = t
          \/ /\ t \in scratch \ leaked
             /\ \A k \in Tasks : Torrent!Has(k, t) => Torrent!Has(k, t)'
             /\ \A r \in reaped : r.torrent = t => \E q \in reaped' : q.torrent = t

LEMMA SteadyKeeps == ASSUME TorrentInv, TorrentTypes', Steady PROVE TorrentInv'
<1>0. TorrentTypes /\ Counted /\ holders' = holders
  BY DEF TorrentInv, Steady
<1>1. \A t \in Torrents : (active'[t] # None) <=> (active[t] # None)
  BY DEF Steady, Torrent!Sessions
<1>2. Counted'
  BY <1>0, <1>1 DEF Counted, Steady
<1>3. Torrent!AliasesLive'
  <2>. SUFFICES ASSUME NEW s \in Sources, alias'[s] # None
                PROVE  alias'[s] = TorrentOf[s] /\ active'[alias'[s]] # None
    BY DEF Torrent!AliasesLive
  <2>1. TorrentOf[s] \in Torrents
    BY ServicesAssumption
  <2>2. CASE alias'[s] = alias[s]
    BY <1>1, <2>1, <2>2 DEF TorrentInv, Torrent!AliasesLive
  <2>3. CASE alias'[s] = TorrentOf[s] /\ TorrentOf[s] \in Torrent!Sessions
    BY <1>1, <2>1, <2>3 DEF Torrent!Sessions
  <2>. QED
    BY <2>2, <2>3 DEF Steady
<1>4. Torrent!SessionsCapped'
  <2>1. Cardinality(Torrent!Sessions) <= MaxActive
    BY TorrentCardinality DEF TorrentInv, Torrent!SessionsCapped
  <2>2. Cardinality(Torrent!Sessions') <= MaxActive
    BY <2>1 DEF Steady
  <2>. QED
    BY <2>2, TorrentCardinality DEF Torrent!SessionsCapped, Torrent!Sessions
<1>5. Torrent!ScratchRemoved'
  <2>. SUFFICES ASSUME NEW t \in Torrents, holders'[t] = 0, t \in scratch' \ leaked',
                       \A k \in Tasks : ~Torrent!Has(k, t)', \A r \in reaped' : r.torrent # t
                PROVE  FALSE
    BY DEF Torrent!ScratchRemoved
  <2>1. HolderTasks(t) = {} /\ active[t] = None
    BY <1>0, HeldCounts
  <2>2. /\ t \in scratch \ leaked
        /\ \A k \in Tasks : Torrent!Has(k, t) => Torrent!Has(k, t)'
        /\ \A r \in reaped : r.torrent = t => \E q \in reaped' : q.torrent = t
    BY <2>1 DEF Steady
  <2>. QED
    BY <1>0, <2>2 DEF TorrentInv, Torrent!ScratchRemoved
<1>. QED
  BY <1>2, <1>3, <1>4, <1>5 DEF TorrentInv

(* One task goes on, as x.                                                 *)
TaskBecomes(k, x) ==
    /\ x \in Torrent!Task /\ (x.pc # "off" => x.src \in Sources)
    /\ task' = [task EXCEPT ![k] = x]

LEMMA TakesShape ==
    ASSUME TorrentTypes, NEW k \in Tasks, NEW x, TaskBecomes(k, x)
    PROVE  /\ task' \in [Tasks -> Torrent!Task] /\ task'[k] = x
           /\ \A j \in Tasks : j # k => task'[j] = task[j]
           /\ \A j \in Tasks : task'[j].pc # "off" => task'[j].src \in Sources
           /\ \A j \in Tasks : \A t : j # k =>
                /\ Torrent!Has(j, t)' <=> Torrent!Has(j, t)
                /\ Torrent!Holding(j, t)' <=> Torrent!Holding(j, t)
           /\ \A t : Torrent!Has(k, t)' <=> x.pc \notin {"off", "touch", "add"} /\ TorrentOf[x.src] = t
           /\ \A t : Torrent!Holding(k, t)' <=>
                        x.pc \in {"info", "fetch", "release"} /\ TorrentOf[x.src] = t
           /\ \A t : HolderTasks(t)' = IF x.pc \in {"info", "fetch", "release"} /\ TorrentOf[x.src] = t
                                       THEN HolderTasks(t) \cup {k} ELSE HolderTasks(t) \ {k}
<1>1. /\ task' \in [Tasks -> Torrent!Task] /\ task'[k] = x
      /\ \A j \in Tasks : j # k => task'[j] = task[j]
  BY DEF TaskBecomes, TorrentTypes
<1>2. \A j \in Tasks : task'[j].pc # "off" => task'[j].src \in Sources
  BY <1>1 DEF TaskBecomes, TorrentTypes
<1>3. \A j \in Tasks : \A t : j # k =>
                /\ Torrent!Has(j, t)' <=> Torrent!Has(j, t)
                /\ Torrent!Holding(j, t)' <=> Torrent!Holding(j, t)
  BY <1>1 DEF Torrent!Has, Torrent!Holding, Torrent!Of
<1>4. /\ \A t : Torrent!Has(k, t)' <=> x.pc \notin {"off", "touch", "add"} /\ TorrentOf[x.src] = t
      /\ \A t : Torrent!Holding(k, t)' <=>
                   x.pc \in {"info", "fetch", "release"} /\ TorrentOf[x.src] = t
  BY <1>1 DEF Torrent!Has, Torrent!Holding, Torrent!Of
<1>5. ASSUME NEW t
      PROVE  HolderTasks(t)' = IF x.pc \in {"info", "fetch", "release"} /\ TorrentOf[x.src] = t
                               THEN HolderTasks(t) \cup {k} ELSE HolderTasks(t) \ {k}
  <2>1. \A j \in Tasks : Torrent!Holding(j, t)' <=>
           IF j = k THEN x.pc \in {"info", "fetch", "release"} /\ TorrentOf[x.src] = t
           ELSE Torrent!Holding(j, t)
    BY <1>3, <1>4
  <2>. QED
    BY <2>1 DEF HolderTasks
<1>. QED
  BY <1>1, <1>2, <1>3, <1>4, <1>5

(* A task that changes its place with x.                                   *)
LEMMA GotoTakes ==
    ASSUME TorrentTypes, NEW k \in Tasks, task[k].pc # "off",
           NEW pc \in {"acquire", "info", "fetch", "release", "drop"}, Torrent!Goto(k, pc)
    PROVE  \E x : TaskBecomes(k, x) /\ x.pc = pc /\ x.src = task[k].src /\ x.src \in Sources
<1>. DEFINE x == [task[k] EXCEPT !.pc = pc]
<1>1. task[k] \in Torrent!Task /\ task[k].src \in Sources
  BY DEF TorrentTypes
<1>2. x \in Torrent!Task /\ x.pc = pc /\ x.src = task[k].src
  BY <1>1 DEF Torrent!Task
<1>3. task' = [task EXCEPT ![k] = x]
  BY DEF Torrent!Goto
<1>. HIDE DEF x
<1>. QED
  BY <1>1, <1>2, <1>3 DEF TaskBecomes

LEMMA FinishTakes ==
    ASSUME NEW k \in Tasks, Torrent!Finish(k)
    PROVE  \E x : TaskBecomes(k, x) /\ x.pc = "off"
<1>1. Torrent!OffTask \in Torrent!Task /\ Torrent!OffTask.pc = "off"
  BY DEF Torrent!OffTask, Torrent!Task
<1>. QED
  BY <1>1 DEF TaskBecomes, Torrent!Finish

(* A task that goes on holds what it held.                                 *)
LEMMA HoldingKept ==
    ASSUME TorrentTypes, NEW k \in Tasks, NEW x, TaskBecomes(k, x),
           task[k].pc \in {"info", "fetch", "release"} <=> x.pc \in {"info", "fetch", "release"},
           task[k].pc \notin {"off", "touch", "add"} => x.pc \notin {"off", "touch", "add"} /\ x.src = task[k].src
    PROVE  /\ \A t \in Torrents : HolderTasks(t)' = HolderTasks(t)
           /\ \A t : \A j \in Tasks : Torrent!Has(j, t) => Torrent!Has(j, t)'
<1>1. ASSUME NEW t \in Torrents PROVE HolderTasks(t)' = HolderTasks(t)
  <2>1. k \in HolderTasks(t) <=> x.pc \in {"info", "fetch", "release"} /\ TorrentOf[x.src] = t
    BY DEF HolderTasks, Torrent!Holding, Torrent!Of
  <2>2. HolderTasks(t)' = IF x.pc \in {"info", "fetch", "release"} /\ TorrentOf[x.src] = t
                          THEN HolderTasks(t) \cup {k} ELSE HolderTasks(t) \ {k}
    BY TakesShape
  <2>3. CASE k \in HolderTasks(t)
    <3>1. HolderTasks(t) \cup {k} = HolderTasks(t)
      BY <2>3
    <3>. QED
      BY <2>1, <2>2, <2>3, <3>1
  <2>4. CASE k \notin HolderTasks(t)
    <3>1. HolderTasks(t) \ {k} = HolderTasks(t)
      BY <2>4
    <3>. QED
      BY <2>1, <2>2, <2>4, <3>1
  <2>. QED
    BY <2>3, <2>4
<1>2. ASSUME NEW t, NEW j \in Tasks, Torrent!Has(j, t) PROVE Torrent!Has(j, t)'
  <2>1. CASE j = k
    <3>1. x.pc \notin {"off", "touch", "add"} /\ TorrentOf[x.src] = t
      BY <1>2, <2>1 DEF Torrent!Has, Torrent!Of
    <3>. QED
      BY <2>1, <3>1, TakesShape
  <2>. QED
    BY <1>2, <2>1, TakesShape
<1>. QED
  BY <1>1, <1>2

(* A task goes on and nothing else changes.                                *)
LEMMA TaskSteady ==
    ASSUME TorrentInv, NEW k \in Tasks, NEW x, TaskBecomes(k, x),
           UNCHANGED <<scratch, holders, active, alias, reaped, closed, leaked>>,
           task[k].pc \in {"info", "fetch", "release"} <=> x.pc \in {"info", "fetch", "release"},
           task[k].pc \notin {"off", "touch", "add"} => x.pc \notin {"off", "touch", "add"} /\ x.src = task[k].src
    PROVE  TorrentInv'
<1>0. TorrentTypes
  BY DEF TorrentInv
<1>1. TorrentTypes'
  BY <1>0, TakesShape DEF TorrentTypes
<1>2. /\ \A t \in Torrents : HolderTasks(t)' = HolderTasks(t)
      /\ \A t : \A j \in Tasks : Torrent!Has(j, t) => Torrent!Has(j, t)'
  BY <1>0, HoldingKept
<1>3. scratch' = scratch /\ leaked' = leaked /\ scratch \subseteq Torrents
  BY <1>0 DEF TorrentTypes
<1>4. Steady
  BY <1>2, <1>3 DEF Steady, Awaits, Torrent!Sessions
<1>. QED
  BY <1>1, <1>4, SteadyKeeps

LEMMA TasksGoOn ==
    ASSUME TorrentInv, NEW k \in Tasks,
           \/ Torrent!NoInfo(k) \/ Torrent!EndDownload(k) \/ Torrent!Add(k)
           \/ Torrent!Download(k) \/ Torrent!Touch(k)
           \/ /\ task[k].pc = "info" /\ Torrent!Goto(k, "release")
              /\ UNCHANGED <<scratch, holders, active, alias, reaped, closed, leaked>>
    PROVE  TorrentInv'
<1>0. TorrentTypes
  BY DEF TorrentInv
<1>1. UNCHANGED <<scratch, holders, active, alias, reaped, closed, leaked>>
  BY DEF Torrent!NoInfo, Torrent!EndDownload, Torrent!Add, Torrent!Download, Torrent!Touch
<1>2. CASE task[k].pc \in {"info", "fetch"} /\ Torrent!Goto(k, "release")
  <2>1. PICK x : TaskBecomes(k, x) /\ x.pc = "release" /\ x.src = task[k].src
    BY <1>0, <1>2, GotoTakes
  <2>. QED
    BY <1>1, <1>2, <2>1, TaskSteady
<1>3. CASE task[k].pc = "add" /\ Torrent!Goto(k, "acquire")
  <2>1. PICK x : TaskBecomes(k, x) /\ x.pc = "acquire"
    BY <1>0, <1>3, GotoTakes
  <2>. QED
    BY <1>1, <1>3, <2>1, TaskSteady
<1>4. CASE task[k].pc = "info" /\ Torrent!Goto(k, "fetch")
  <2>1. PICK x : TaskBecomes(k, x) /\ x.pc = "fetch" /\ x.src = task[k].src
    BY <1>0, <1>4, GotoTakes
  <2>. QED
    BY <1>1, <1>4, <2>1, TaskSteady
<1>5. CASE task[k].pc \in {"touch", "add"} /\ Torrent!Finish(k)
  <2>1. PICK x : TaskBecomes(k, x) /\ x.pc = "off"
    BY <1>5, FinishTakes
  <2>. QED
    BY <1>1, <1>5, <2>1, TaskSteady
<1>. QED
  BY <1>2, <1>3, <1>4, <1>5
     DEF Torrent!NoInfo, Torrent!EndDownload, Torrent!Add, Torrent!Download, Torrent!Touch

(* A task that sets out for a source.                                      *)
LEMMA StartSteady ==
    ASSUME TorrentInv, NEW k \in Tasks, NEW s \in Sources, NEW kind \in {"stream", "download"},
           \/ kind = "stream" /\ Torrent!Lookup(k, s)
           \/ Torrent!Begin(k, s, kind)
    PROVE  TorrentInv'
<1>0. /\ task[k].pc = "off" /\ UNCHANGED <<scratch, holders, active, alias, reaped, closed, leaked>>
      /\ \E pc \in {"touch", "add"} : Torrent!Starts(k, s, kind, pc)
  BY DEF Torrent!Begin, Torrent!Lookup
<1>1. PICK pc \in {"touch", "add"} : Torrent!Starts(k, s, kind, pc)
  BY <1>0
<1>. DEFINE x == [pc |-> pc, kind |-> kind, src |-> s, dead |-> FALSE]
<1>2. x \in Torrent!Task /\ x.pc = pc /\ x.src = s
  BY DEF Torrent!Task
<1>3. task' = [task EXCEPT ![k] = x]
  BY <1>1 DEF Torrent!Starts
<1>. HIDE DEF x
<1>4. TaskBecomes(k, x)
  BY <1>2, <1>3 DEF TaskBecomes
<1>. QED
  BY <1>0, <1>1, <1>2, <1>4, TaskSteady

(* The client writes for who has an object that is alive.                  *)
LEMMA FetchSteady ==
    ASSUME TorrentInv, NEW t \in Torrents, Torrent!Fetch(t) PROVE TorrentInv'
<1>0. /\ TorrentTypes /\ Torrent!Alive(t) /\ scratch' = scratch \cup {t}
      /\ UNCHANGED <<holders, active, alias, task, reaped, closed, leaked>>
  BY DEF TorrentInv, Torrent!Fetch
<1>1. TorrentTypes'
  BY <1>0 DEF TorrentTypes
<1>2. /\ \A j \in Tasks : \A u : Torrent!Has(j, u)' <=> Torrent!Has(j, u)
      /\ \A u : HolderTasks(u)' = HolderTasks(u) /\ (Awaits(u)' <=> Awaits(u))
      /\ Torrent!Sessions' = Torrent!Sessions
  BY <1>0 DEF HolderTasks, Torrent!Holding, Torrent!Has, Torrent!Of, Awaits, Torrent!Sessions
<1>3. \/ active[t] # None \/ \E k \in Tasks : Torrent!Has(k, t)'
      \/ \E q \in reaped' : q.torrent = t
  BY <1>0, <1>2 DEF Torrent!Alive
<1>4. Steady
  BY <1>0, <1>2, <1>3 DEF Steady
<1>. QED
  BY <1>1, <1>4, SteadyKeeps

LEMMA CloseSteady ==
    ASSUME TorrentInv, Torrent!Close \/ UNCHANGED Torrent!torrentVars PROVE TorrentInv'
<1>1. UNCHANGED <<scratch, holders, active, alias, task, reaped, leaked>> /\ closed' \in BOOLEAN /\ TorrentTypes
  BY DEF TorrentInv, TorrentTypes, Torrent!Close, Torrent!torrentVars
<1>2. TorrentTypes'
  BY <1>1 DEF TorrentTypes
<1>3. Steady
  BY <1>1 DEF Steady, HolderTasks, Torrent!Holding, Torrent!Has, Torrent!Of, Awaits, Torrent!Sessions
<1>. QED
  BY <1>2, <1>3, SteadyKeeps

LEMMA JoinSteady ==
    ASSUME TorrentInv, NEW k \in Tasks, NEW t \in Torrents, t = Torrent!Of(k),
           task[k].pc = "info", active[t] # None,
           alias' = [alias EXCEPT ![task[k].src] = t], Torrent!AfterJoin(k),
           UNCHANGED <<scratch, holders, active, reaped, closed, leaked>>
    PROVE  TorrentInv'
<1>0. TorrentTypes /\ task[k].src \in Sources
  BY DEF TorrentInv, TorrentTypes
<1>1. PICK x : TaskBecomes(k, x) /\ x.pc = "release" /\ x.src = task[k].src
  BY <1>0, GotoTakes DEF Torrent!AfterJoin
<1>2. Torrent!Sessions' = Torrent!Sessions
  BY DEF Torrent!Sessions
<1>3. /\ alias' \in [Sources -> Torrents \cup {None}] /\ t \in Torrent!Sessions
      /\ \A s \in Sources : alias'[s] = alias[s] \/ (s = task[k].src /\ alias'[s] = t)
  BY <1>0 DEF TorrentTypes, Torrent!Sessions
<1>4. TorrentTypes'
  BY <1>0, <1>1, <1>2, <1>3, TakesShape DEF TorrentTypes
<1>5. /\ \A u \in Torrents : HolderTasks(u)' = HolderTasks(u)
      /\ \A u : \A j \in Tasks : Torrent!Has(j, u) => Torrent!Has(j, u)'
  BY <1>0, <1>1, HoldingKept
<1>6. scratch' = scratch /\ leaked' = leaked /\ scratch \subseteq Torrents
  BY <1>0 DEF TorrentTypes
<1>7. Steady
  BY <1>2, <1>3, <1>5, <1>6 DEF Steady, Awaits, Torrent!Of
<1>. QED
  BY <1>4, <1>7, SteadyKeeps

LEMMA OfTorrent ==
    ASSUME TorrentTypes, NEW k \in Tasks, task[k].pc # "off"
    PROVE  Torrent!Of(k) \in Torrents
BY ServicesAssumption DEF TorrentTypes, Torrent!Of

(* Dropping the object of t: who has it learns that it is dead.            *)
LEMMA DroppedSessions ==
    ASSUME TorrentTypes, NEW t \in Torrents, Torrent!Drop(t)
    PROVE  /\ active' \in [Torrents -> Torrent!StreamSession \cup {None}]
           /\ Torrent!Sessions' = Torrent!Sessions
<1>. DEFINE s == IF active[t] = None THEN None ELSE [active[t] EXCEPT !.dead = TRUE]
<1>1. /\ s \in Torrent!StreamSession \cup {None} /\ (s = None <=> active[t] = None)
      /\ active \in [Torrents -> Torrent!StreamSession \cup {None}]
  BY AbsentAssumption DEF TorrentTypes, Torrent!StreamSession
<1>2. active' = [active EXCEPT ![t] = s]
  BY DEF Torrent!Drop
<1>. HIDE DEF s
<1>3. active' \in [Torrents -> Torrent!StreamSession \cup {None}]
  BY <1>1, <1>2
<1>4. \A u \in Torrents : active'[u] = None <=> active[u] = None
  BY <1>1, <1>2
<1>. QED
  BY <1>3, <1>4 DEF Torrent!Sessions

LEMMA DroppedTasks ==
    ASSUME TorrentTypes, NEW t, Torrent!Drop(t)
    PROVE  /\ task' \in [Tasks -> Torrent!Task]
           /\ \A k \in Tasks : task'[k].pc = task[k].pc /\ task'[k].src = task[k].src
<1>1. ASSUME NEW k \in Tasks
      PROVE  /\ task'[k] \in Torrent!Task
             /\ task'[k].pc = task[k].pc /\ task'[k].src = task[k].src
  <2>1. task[k] \in Torrent!Task
    BY DEF TorrentTypes
  <2>2. /\ [task[k] EXCEPT !.dead = TRUE] \in Torrent!Task
        /\ [task[k] EXCEPT !.dead = TRUE].pc = task[k].pc
        /\ [task[k] EXCEPT !.dead = TRUE].src = task[k].src
    BY <2>1 DEF Torrent!Task
  <2>3. task'[k] = IF Torrent!Has(k, t) THEN [task[k] EXCEPT !.dead = TRUE] ELSE task[k]
    BY DEF Torrent!Drop
  <2>. QED
    BY <2>1, <2>2, <2>3
<1>2. task' = [k \in Tasks |-> task'[k]]
  BY DEF Torrent!Drop
<1>3. task' \in [Tasks -> Torrent!Task]
  BY <1>1, <1>2
<1>. QED
  BY <1>1, <1>3

LEMMA DroppedReaped ==
    ASSUME TorrentTypes, NEW t, Torrent!Drop(t)
    PROVE  /\ reaped' \subseteq Reaping
           /\ \A r, q \in reaped' : r.torrent = q.torrent => r = q
           /\ \A r \in reaped : \E q \in reaped' : q.torrent = r.torrent /\ (q.last <=> r.last)
           /\ \A q \in reaped' : \E r \in reaped : q.torrent = r.torrent /\ (q.last <=> r.last)
<1>. DEFINE d(r) == [r EXCEPT !.dead = r.dead \/ r.torrent = t]
<1>1. ASSUME NEW r \in reaped
      PROVE  d(r) \in Reaping /\ d(r).torrent = r.torrent /\ (d(r).last <=> r.last)
  <2>1. r \in Reaping
    BY DEF TorrentTypes
  <2>. QED
    BY <2>1 DEF Reaping
<1>2. reaped' = {d(r) : r \in reaped}
  BY DEF Torrent!Drop
<1>. HIDE DEF d
<1>3. \A r, q \in reaped' : r.torrent = q.torrent => r = q
  BY <1>1, <1>2 DEF TorrentTypes
<1>. QED
  BY <1>1, <1>2, <1>3

LEMMA DropSteady ==
    ASSUME TorrentInv, NEW t \in Torrents, Torrent!Drop(t) PROVE TorrentInv'
<1>0. /\ TorrentTypes /\ scratch \subseteq Torrents
      /\ UNCHANGED <<scratch, holders, alias, closed, leaked>>
  BY DEF TorrentInv, TorrentTypes, Torrent!Drop
<1>1. /\ active' \in [Torrents -> Torrent!StreamSession \cup {None}]
      /\ Torrent!Sessions' = Torrent!Sessions
  BY <1>0, DroppedSessions
<1>2. /\ task' \in [Tasks -> Torrent!Task]
      /\ \A k \in Tasks : task'[k].pc = task[k].pc /\ task'[k].src = task[k].src
  BY <1>0, DroppedTasks
<1>3. /\ reaped' \subseteq Reaping /\ \A r, q \in reaped' : r.torrent = q.torrent => r = q
      /\ \A r \in reaped : \E q \in reaped' : q.torrent = r.torrent /\ (q.last <=> r.last)
      /\ \A q \in reaped' : \E r \in reaped : q.torrent = r.torrent /\ (q.last <=> r.last)
  BY <1>0, DroppedReaped
<1>4. TorrentTypes'
  BY <1>0, <1>1, <1>2, <1>3 DEF TorrentTypes
<1>5. ASSUME NEW u \in Torrents
      PROVE  HolderTasks(u)' = HolderTasks(u) /\ (Awaits(u)' <=> Awaits(u))
  <2>1. \A j \in Tasks : Torrent!Holding(j, u)' <=> Torrent!Holding(j, u)
    BY <1>2 DEF Torrent!Holding, Torrent!Of
  <2>2. Awaits(u)' <=> Awaits(u)
    BY <1>3 DEF Awaits
  <2>. QED
    BY <2>1, <2>2 DEF HolderTasks
<1>6. \A u : \A j \in Tasks : Torrent!Has(j, u) => Torrent!Has(j, u)'
  BY <1>2 DEF Torrent!Has, Torrent!Of
<1>7. Steady
  BY <1>0, <1>1, <1>3, <1>5, <1>6 DEF Steady
<1>. QED
  BY <1>4, <1>7, SteadyKeeps

(* Whatever becomes of the removal, the directory does not stay unnoticed. *)
LEMMA RemovedScratch ==
    ASSUME TorrentTypes, NEW t, Torrent!RemoveScratch(t)
    PROVE  /\ scratch' \subseteq Torrents /\ leaked' \subseteq Torrents
           /\ scratch' \ leaked' \subseteq (scratch \ leaked) \ {t}
BY DEF TorrentTypes, Torrent!RemoveScratch

LEMMA RemoveLastSteady ==
    ASSUME TorrentInv, NEW k \in Tasks, Torrent!RemoveLast(k) PROVE TorrentInv'
<1>. DEFINE t == Torrent!Of(k)
<1>0. /\ TorrentTypes /\ task[k].pc = "drop" /\ Torrent!RemoveScratch(t)
      /\ Torrent!Finish(k) /\ UNCHANGED <<holders, active, alias, reaped, closed>>
  BY DEF TorrentInv, Torrent!RemoveLast
<1>1. PICK x : TaskBecomes(k, x) /\ x.pc = "off"
  BY <1>0, FinishTakes
<1>2. /\ scratch' \subseteq Torrents /\ leaked' \subseteq Torrents
      /\ scratch' \ leaked' \subseteq (scratch \ leaked) \ {t}
  BY <1>0, RemovedScratch
<1>. HIDE DEF t
<1>3. TorrentTypes'
  BY <1>0, <1>1, <1>2, TakesShape DEF TorrentTypes
<1>4. ASSUME NEW u \in Torrents PROVE HolderTasks(u)' = HolderTasks(u)
  <2>1. k \notin HolderTasks(u)
    BY <1>0 DEF HolderTasks, Torrent!Holding
  <2>2. HolderTasks(u)' = HolderTasks(u) \ {k}
    BY <1>0, <1>1, TakesShape
  <2>. QED
    BY <2>1, <2>2
<1>5. ASSUME NEW u \in scratch' \ leaked', NEW j \in Tasks, Torrent!Has(j, u)
      PROVE  Torrent!Has(j, u)'
  <2>1. j # k
    BY <1>2, <1>5 DEF Torrent!Has, t
  <2>. QED
    BY <1>0, <1>1, <1>5, <2>1, TakesShape
<1>6. (\A u : Awaits(u)' <=> Awaits(u)) /\ Torrent!Sessions' = Torrent!Sessions
  BY <1>0 DEF Awaits, Torrent!Sessions
<1>7. Steady
  BY <1>0, <1>2, <1>4, <1>5, <1>6 DEF Steady
<1>. QED
  BY <1>3, <1>7, SteadyKeeps

LEMMA RemoveReapedSteady ==
    ASSUME TorrentInv, NEW r \in reaped, Torrent!RemoveReaped(r) PROVE TorrentInv'
<1>0. /\ TorrentTypes /\ r.last /\ Torrent!RemoveScratch(r.torrent)
      /\ reaped' = reaped \ {r} /\ UNCHANGED <<holders, active, alias, task, closed>>
  BY DEF TorrentInv, Torrent!RemoveReaped
<1>1. /\ scratch' \subseteq Torrents /\ leaked' \subseteq Torrents
      /\ scratch' \ leaked' \subseteq (scratch \ leaked) \ {r.torrent}
  BY <1>0, RemovedScratch
<1>2. TorrentTypes'
  BY <1>0, <1>1 DEF TorrentTypes
<1>3. /\ \A j \in Tasks : \A u : Torrent!Has(j, u)' <=> Torrent!Has(j, u)
      /\ \A u : HolderTasks(u)' = HolderTasks(u)
      /\ Torrent!Sessions' = Torrent!Sessions
  BY <1>0 DEF HolderTasks, Torrent!Holding, Torrent!Has, Torrent!Of, Torrent!Sessions
<1>4. \A u : Awaits(u)' <=> Awaits(u)
  BY <1>0 DEF Awaits
<1>5. \A u \in scratch' \ leaked' : \A q \in reaped : q.torrent = u => q \in reaped'
  BY <1>0, <1>1
<1>6. Steady
  BY <1>0, <1>1, <1>3, <1>4, <1>5 DEF Steady
<1>. QED
  BY <1>2, <1>6, SteadyKeeps

-----------------------------------------------------------------------------
(* The steps that count.                                                   *)
LEMMA HolderGains ==
    ASSUME NEW t, NEW k \in Tasks, NEW S, S = HolderTasks(t) \cup {k}, k \notin HolderTasks(t)
    PROVE  Cardinality(S) = Cardinality(HolderTasks(t)) + 1
BY HolderTasksFinite, FS_AddElement

LEMMA HolderLoses ==
    ASSUME NEW t, NEW k \in HolderTasks(t), NEW S, S = HolderTasks(t) \ {k}
    PROVE  Cardinality(S) = Cardinality(HolderTasks(t)) - 1
BY HolderTasksFinite, FS_RemoveElement

LEMMA AcquireCounts ==
    ASSUME TorrentInv, NEW k \in Tasks, Torrent!Acquire(k) PROVE TorrentInv'
<1>a. PICK t \in Torrents : t = Torrent!Of(k)
  BY OfTorrent DEF TorrentInv, Torrent!Acquire
<1>0. /\ TorrentTypes /\ Counted /\ task[k].pc = "acquire"
      /\ holders' = [holders EXCEPT ![t] = holders[t] + 1]
      /\ UNCHANGED <<scratch, active, alias, reaped, closed, leaked>>
  BY <1>a DEF TorrentInv, Torrent!Acquire
<1>1. PICK x : TaskBecomes(k, x) /\ x.pc = "info" /\ x.src = task[k].src
  BY <1>0, GotoTakes DEF Torrent!Acquire
<1>2. /\ k \notin HolderTasks(t) /\ HolderTasks(t)' = HolderTasks(t) \cup {k}
      /\ \A u : u # t => HolderTasks(u)' = HolderTasks(u) \ {k} /\ k \notin HolderTasks(u)
      /\ \A u : \A j \in Tasks : Torrent!Has(j, u) => Torrent!Has(j, u)'
  <2>1. \A u : k \notin HolderTasks(u)
    BY <1>0 DEF HolderTasks, Torrent!Holding
  <2>2. t = TorrentOf[x.src]
    BY <1>a, <1>1 DEF Torrent!Of
  <2>3. \A u : Torrent!Has(k, u) => u = t
    BY <1>a DEF Torrent!Has
  <2>4. HolderTasks(t)' = HolderTasks(t) \cup {k}
    BY <1>0, <1>1, <2>2, TakesShape
  <2>5. \A u : u # t => HolderTasks(u)' = HolderTasks(u) \ {k}
    BY <1>0, <1>1, <2>2, TakesShape
  <2>6. ASSUME NEW u, NEW j \in Tasks, Torrent!Has(j, u) PROVE Torrent!Has(j, u)'
    BY <1>0, <1>1, <2>2, <2>3, <2>6, TakesShape
  <2>. QED
    BY <2>1, <2>4, <2>5, <2>6
<1>3. holders' \in [Torrents -> Nat] /\ holders'[t] = holders[t] + 1 /\ holders[t] \in Nat
      /\ \A u \in Torrents : u # t => holders'[u] = holders[u]
  BY <1>0 DEF TorrentTypes
<1>4. TorrentTypes'
  BY <1>0, <1>1, <1>3, TakesShape DEF TorrentTypes
<1>5. Counted'
  <2>. SUFFICES ASSUME NEW u \in Torrents
                PROVE  holders'[u] = Cardinality(HolderTasks(u)') + (IF Awaits(u) THEN 1 ELSE 0)
                                     + (IF active[u] # None THEN 1 ELSE 0)
    BY <1>0 DEF Counted, Awaits
  <2>1. CASE u = t
    <3>1. Cardinality(HolderTasks(t)') = Cardinality(HolderTasks(t)) + 1
      BY <1>2, HolderGains
    <3>2. Cardinality(HolderTasks(t)) \in Nat
      BY HolderTasksFinite
    <3>3. holders[t] = Cardinality(HolderTasks(t)) + (IF Awaits(t) THEN 1 ELSE 0)
                       + (IF active[t] # None THEN 1 ELSE 0)
      BY <1>0 DEF Counted
    <3>4. holders'[t] = Cardinality(HolderTasks(t)') + (IF Awaits(t) THEN 1 ELSE 0)
                        + (IF active[t] # None THEN 1 ELSE 0)
      BY <1>3, <3>1, <3>2, <3>3
    <3>. QED
      BY <2>1, <3>4
  <2>2. CASE u # t
    <3>1. HolderTasks(u)' = HolderTasks(u)
      BY <1>2, <2>2
    <3>. QED
      BY <1>0, <1>3, <2>2, <3>1 DEF Counted
  <2>. QED
    BY <2>1, <2>2
<1>6. Torrent!AliasesLive' /\ Torrent!SessionsCapped'
  BY <1>0 DEF TorrentInv, Torrent!AliasesLive, Torrent!SessionsCapped, Torrent!Sessions
<1>7. Torrent!ScratchRemoved'
  BY <1>0, <1>2, <1>3 DEF TorrentInv, Torrent!ScratchRemoved
<1>. QED
  BY <1>4, <1>5, <1>6, <1>7 DEF TorrentInv

LEMMA ReleaseCounts ==
    ASSUME TorrentInv, NEW k \in Tasks, Torrent!Release(k) PROVE TorrentInv'
<1>a. PICK t \in Torrents : t = Torrent!Of(k)
  BY OfTorrent DEF TorrentInv, Torrent!Release
<1>0. /\ TorrentTypes /\ Counted /\ task[k].pc = "release"
      /\ holders' = [holders EXCEPT ![t] = holders[t] - 1]
      /\ UNCHANGED <<scratch, active, alias, reaped, closed, leaked>>
  BY <1>a DEF TorrentInv, Torrent!Release
<1>1. PICK x : /\ TaskBecomes(k, x) /\ x.pc \in {"off", "drop"}
               /\ holders[t] = 1 => x.pc = "drop" /\ x.src = task[k].src
  <2>1. CASE holders[t] = 1 /\ Torrent!Goto(k, "drop")
    BY <1>0, <2>1, GotoTakes
  <2>2. CASE holders[t] # 1 /\ Torrent!Finish(k)
    BY <2>2, FinishTakes
  <2>. QED
    BY <1>a, <2>1, <2>2 DEF Torrent!Release, Torrent!Last
<1>2. /\ k \in HolderTasks(t) /\ HolderTasks(t)' = HolderTasks(t) \ {k}
      /\ \A u : u # t => HolderTasks(u)' = HolderTasks(u)
      /\ \A u : u # t => \A j \in Tasks : Torrent!Has(j, u) => Torrent!Has(j, u)'
      /\ holders[t] = 1 => Torrent!Has(k, t)'
  <2>1. k \in HolderTasks(t) /\ \A u : u # t => k \notin HolderTasks(u)
    BY <1>0, <1>a DEF HolderTasks, Torrent!Holding
  <2>2. \A u : HolderTasks(u)' = HolderTasks(u) \ {k}
    BY <1>0, <1>1, TakesShape
  <2>3. ASSUME NEW u, u # t, NEW j \in Tasks, Torrent!Has(j, u) PROVE Torrent!Has(j, u)'
    <3>1. j # k
      BY <1>a, <2>3 DEF Torrent!Has
    <3>. QED
      BY <1>0, <1>1, <2>3, <3>1, TakesShape
  <2>4. holders[t] = 1 => Torrent!Has(k, t)'
    <3>1. TorrentOf[task[k].src] = t
      BY <1>a DEF Torrent!Of
    <3>. QED
      BY <1>0, <1>1, <3>1, TakesShape
  <2>5. \A u : u # t => HolderTasks(u)' = HolderTasks(u)
    BY <2>1, <2>2
  <2>. QED
    BY <2>1, <2>2, <2>3, <2>4, <2>5
<1>3. /\ holders' \in [Torrents -> Nat] /\ holders'[t] = holders[t] - 1
      /\ holders[t] \in Nat /\ holders[t] # 0
      /\ \A u \in Torrents : u # t => holders'[u] = holders[u]
  <2>1. holders[t] # 0 /\ holders[t] \in Nat
    BY <1>0, <1>2, HeldCounts DEF TorrentTypes
  <2>. QED
    BY <1>0, <2>1 DEF TorrentTypes
<1>4. TorrentTypes'
  BY <1>0, <1>1, <1>3, TakesShape DEF TorrentTypes
<1>5. Counted'
  <2>. SUFFICES ASSUME NEW u \in Torrents
                PROVE  holders'[u] = Cardinality(HolderTasks(u)') + (IF Awaits(u) THEN 1 ELSE 0)
                                     + (IF active[u] # None THEN 1 ELSE 0)
    BY <1>0 DEF Counted, Awaits
  <2>1. CASE u = t
    <3>1. Cardinality(HolderTasks(t)') = Cardinality(HolderTasks(t)) - 1
      BY <1>2, HolderLoses
    <3>2. Cardinality(HolderTasks(t)) \in Nat
      BY HolderTasksFinite
    <3>3. holders[t] = Cardinality(HolderTasks(t)) + (IF Awaits(t) THEN 1 ELSE 0)
                       + (IF active[t] # None THEN 1 ELSE 0)
      BY <1>0 DEF Counted
    <3>4. holders'[t] = Cardinality(HolderTasks(t)') + (IF Awaits(t) THEN 1 ELSE 0)
                        + (IF active[t] # None THEN 1 ELSE 0)
      BY <1>3, <3>1, <3>2, <3>3
    <3>. QED
      BY <2>1, <3>4
  <2>2. CASE u # t
    BY <1>0, <1>2, <1>3, <2>2 DEF Counted
  <2>. QED
    BY <2>1, <2>2
<1>6. Torrent!AliasesLive' /\ Torrent!SessionsCapped'
  BY <1>0 DEF TorrentInv, Torrent!AliasesLive, Torrent!SessionsCapped, Torrent!Sessions
<1>7. Torrent!ScratchRemoved'
  <2>. SUFFICES ASSUME NEW u \in Torrents, holders'[u] = 0, u \in scratch \ leaked,
                       \A j \in Tasks : ~Torrent!Has(j, u)', \A r \in reaped : r.torrent # u
                PROVE  FALSE
    BY <1>0 DEF Torrent!ScratchRemoved
  <2>1. CASE u = t
    BY <1>2, <1>3, <2>1
  <2>2. CASE u # t
    BY <1>2, <1>3, <2>2 DEF TorrentInv, Torrent!ScratchRemoved
  <2>. QED
    BY <2>1, <2>2
<1>. QED
  BY <1>4, <1>5, <1>6, <1>7 DEF TorrentInv

(* The holder of the task becomes that of the session.                     *)
LEMMA BecomeCounts ==
    ASSUME TorrentInv, NEW k \in Tasks, NEW t \in Torrents, t = Torrent!Of(k),
           task[k].pc = "info", active[t] = None, ~Torrent!Full,
           active' = [active EXCEPT ![t] = [dead |-> task[k].dead]],
           alias' = [alias EXCEPT ![task[k].src] = t],
           Torrent!Finish(k), UNCHANGED <<scratch, holders, reaped, closed, leaked>>
    PROVE  TorrentInv'
<1>. DEFINE s == [dead |-> task[k].dead]
<1>0. TorrentTypes /\ Counted /\ task[k].src \in Sources
  BY DEF TorrentInv, TorrentTypes
<1>1. PICK x : TaskBecomes(k, x) /\ x.pc = "off"
  BY FinishTakes
<1>2. s \in Torrent!StreamSession /\ None \notin Torrent!StreamSession
  BY <1>0, AbsentAssumption DEF TorrentTypes, Torrent!Task, Torrent!StreamSession
<1>3. active' = [active EXCEPT ![t] = s]
  OBVIOUS
<1>. HIDE DEF s
<1>4. /\ active' \in [Torrents -> Torrent!StreamSession \cup {None}] /\ active'[t] # None
      /\ \A u \in Torrents : u # t => active'[u] = active[u]
  BY <1>0, <1>2, <1>3 DEF TorrentTypes
<1>5. /\ alias' \in [Sources -> Torrents \cup {None}]
      /\ \A q \in Sources : alias'[q] = alias[q] \/ (q = task[k].src /\ alias'[q] = t)
  BY <1>0 DEF TorrentTypes
<1>6. TorrentTypes'
  BY <1>0, <1>1, <1>4, <1>5, TakesShape DEF TorrentTypes
<1>7. /\ k \in HolderTasks(t) /\ HolderTasks(t)' = HolderTasks(t) \ {k}
      /\ \A u : u # t => HolderTasks(u)' = HolderTasks(u)
      /\ \A u : u # t => \A j \in Tasks : Torrent!Has(j, u) => Torrent!Has(j, u)'
  <2>1. k \in HolderTasks(t) /\ \A u : u # t => k \notin HolderTasks(u)
    BY <1>0 DEF HolderTasks, Torrent!Holding
  <2>2. \A u : HolderTasks(u)' = HolderTasks(u) \ {k}
    BY <1>0, <1>1, TakesShape
  <2>3. ASSUME NEW u, u # t, NEW j \in Tasks, Torrent!Has(j, u) PROVE Torrent!Has(j, u)'
    <3>1. j # k
      BY <2>3 DEF Torrent!Has
    <3>. QED
      BY <1>0, <1>1, <2>3, <3>1, TakesShape
  <2>4. \A u : u # t => HolderTasks(u)' = HolderTasks(u)
    BY <2>1, <2>2
  <2>. QED
    BY <2>1, <2>2, <2>3, <2>4
<1>8. holders[t] # 0
  BY <1>0, <1>7, HeldCounts
<1>9. Counted'
  <2>. SUFFICES ASSUME NEW u \in Torrents
                PROVE  holders[u] = Cardinality(HolderTasks(u)') + (IF Awaits(u) THEN 1 ELSE 0)
                                     + (IF active'[u] # None THEN 1 ELSE 0)
    BY DEF Counted, Awaits
  <2>1. CASE u = t
    <3>1. Cardinality(HolderTasks(t)') = Cardinality(HolderTasks(t)) - 1
      BY <1>7, HolderLoses
    <3>2. Cardinality(HolderTasks(t)) \in Nat
      BY HolderTasksFinite
    <3>3. holders[t] = Cardinality(HolderTasks(t)) + (IF Awaits(t) THEN 1 ELSE 0)
      BY <1>0, <3>2 DEF Counted
    <3>4. holders[t] = Cardinality(HolderTasks(t)') + (IF Awaits(t) THEN 1 ELSE 0) + 1
      BY <3>1, <3>2, <3>3
    <3>. QED
      BY <1>4, <2>1, <3>4
  <2>2. CASE u # t
    BY <1>0, <1>4, <1>7, <2>2 DEF Counted
  <2>. QED
    BY <2>1, <2>2
<1>10. Torrent!AliasesLive'
  BY <1>4, <1>5, ServicesAssumption DEF TorrentInv, Torrent!AliasesLive, Torrent!Of
<1>11. Torrent!SessionsCapped'
  <2>1. Torrent!Sessions' = Torrent!Sessions \cup {t} /\ t \notin Torrent!Sessions
    BY <1>4 DEF Torrent!Sessions
  <2>2. /\ IsFiniteSet(Torrent!Sessions) /\ Cardinality(Torrent!Sessions) \in Nat
        /\ ~(Cardinality(Torrent!Sessions) >= MaxActive) /\ MaxActive \in Nat
    <3>1. IsFiniteSet(Torrents) /\ Torrent!Sessions \subseteq Torrents
      BY ServicesAssumption DEF Torrent!Sessions
    <3>. QED
      BY <3>1, FS_Subset, FS_CardinalityType, TorrentCardinality, ServicesAssumption DEF Torrent!Full
  <2>3. Cardinality(Torrent!Sessions') = Cardinality(Torrent!Sessions) + 1
    BY <2>1, <2>2, FS_AddElement
  <2>4. Cardinality(Torrent!Sessions') <= MaxActive
    BY <2>2, <2>3
  <2>. QED
    BY <2>4, TorrentCardinality DEF Torrent!SessionsCapped, Torrent!Sessions
<1>12. Torrent!ScratchRemoved'
  BY <1>7, <1>8 DEF TorrentInv, Torrent!ScratchRemoved
<1>. QED
  BY <1>6, <1>9, <1>10, <1>11, <1>12 DEF TorrentInv

LEMMA StreamCounts ==
    ASSUME TorrentInv, NEW k \in Tasks, Torrent!Stream(k) PROVE TorrentInv'
<1>1. PICK t \in Torrents : t = Torrent!Of(k)
  BY OfTorrent DEF TorrentInv, Torrent!Stream
<1>. QED
  BY <1>1, JoinSteady, TasksGoOn, BecomeCounts DEF Torrent!Stream

(* The reaper takes sessions: their holders await the release.             *)
LEMMA ReapCounts ==
    ASSUME TorrentInv, NEW S \in SUBSET Torrent!Sessions, Torrent!Reap(S) PROVE TorrentInv'
<1>0. /\ TorrentTypes /\ Counted /\ reaped = {} /\ S \subseteq Torrents
      /\ \A t \in S : active[t] # None
      /\ reaped' = {[torrent |-> t, dead |-> active[t].dead, last |-> FALSE] : t \in S}
      /\ active' = [t \in Torrents |-> IF t \in S THEN None ELSE active[t]]
      /\ alias' = [s \in Sources |-> IF alias[s] \in S THEN None ELSE alias[s]]
      /\ UNCHANGED <<scratch, holders, task, closed, leaked>>
  BY DEF TorrentInv, Torrent!Reap, Torrent!Sessions, Torrent!AliasesWithout
<1>2. \A t \in S : active[t].dead \in BOOLEAN
  BY <1>0 DEF TorrentTypes, Torrent!StreamSession
<1>3. /\ reaped' \subseteq Reaping
      /\ \A r, q \in reaped' : r.torrent = q.torrent => r = q
      /\ \A t \in S : \E r \in reaped' : r.torrent = t /\ ~r.last
      /\ \A r \in reaped' : r.torrent \in S
  <2>. DEFINE d(t) == [torrent |-> t, dead |-> active[t].dead, last |-> FALSE]
  <2>1. \A t \in S : d(t) \in Reaping /\ d(t).torrent = t /\ ~d(t).last
    BY <1>0, <1>2 DEF Reaping
  <2>2. reaped' = {d(t) : t \in S}
    BY <1>0
  <2>. HIDE DEF d
  <2>. QED
    BY <2>1, <2>2
<1>4. /\ active' \in [Torrents -> Torrent!StreamSession \cup {None}]
      /\ alias' \in [Sources -> Torrents \cup {None}]
      /\ \A t \in Torrents : active'[t] = IF t \in S THEN None ELSE active[t]
      /\ \A s \in Sources : alias'[s] = IF alias[s] \in S THEN None ELSE alias[s]
  BY <1>0 DEF TorrentTypes
<1>5. TorrentTypes'
  BY <1>0, <1>3, <1>4 DEF TorrentTypes
<1>6. \A t : HolderTasks(t)' = HolderTasks(t) /\ ~Awaits(t) /\ (Awaits(t)' <=> t \in S)
  BY <1>0, <1>3 DEF HolderTasks, Torrent!Holding, Torrent!Of, Awaits
<1>7. Counted'
  <2>. SUFFICES ASSUME NEW t \in Torrents
                PROVE  holders[t] = Cardinality(HolderTasks(t)) + (IF t \in S THEN 1 ELSE 0)
                                    + (IF active'[t] # None THEN 1 ELSE 0)
    BY <1>0, <1>6 DEF Counted
  <2>1. holders[t] = Cardinality(HolderTasks(t)) + (IF active[t] # None THEN 1 ELSE 0)
    BY <1>0, <1>6, HolderTasksFinite DEF Counted
  <2>. QED
    BY <1>0, <1>4, <2>1, HolderTasksFinite
<1>8. Torrent!AliasesLive'
  <2>. SUFFICES ASSUME NEW s \in Sources, alias'[s] # None
                PROVE  alias'[s] = TorrentOf[s] /\ active'[alias'[s]] # None
    BY DEF Torrent!AliasesLive
  <2>1. alias'[s] = alias[s] /\ alias[s] \notin S
    BY <1>4
  <2>2. alias[s] = TorrentOf[s] /\ active[alias[s]] # None /\ alias[s] \in Torrents
    BY <2>1, ServicesAssumption DEF TorrentInv, Torrent!AliasesLive
  <2>. QED
    BY <1>4, <2>1, <2>2
<1>9. Torrent!SessionsCapped'
  <2>1. Torrent!Sessions' \subseteq Torrent!Sessions
    BY <1>4 DEF Torrent!Sessions
  <2>2. IsFiniteSet(Torrent!Sessions) /\ Cardinality(Torrent!Sessions) <= MaxActive
    <3>1. IsFiniteSet(Torrents) /\ Torrent!Sessions \subseteq Torrents
      BY ServicesAssumption DEF Torrent!Sessions
    <3>. QED
      BY <3>1, FS_Subset, TorrentCardinality DEF TorrentInv, Torrent!SessionsCapped
  <2>3. /\ Cardinality(Torrent!Sessions') <= Cardinality(Torrent!Sessions)
        /\ Cardinality(Torrent!Sessions') \in Nat /\ Cardinality(Torrent!Sessions) \in Nat
    BY <2>1, <2>2, FS_Subset, FS_CardinalityType
  <2>4. Cardinality(Torrent!Sessions') <= MaxActive
    BY <2>2, <2>3, ServicesAssumption
  <2>. QED
    BY <2>4, TorrentCardinality DEF Torrent!SessionsCapped, Torrent!Sessions
<1>10. Torrent!ScratchRemoved'
  <2>1. \A t : \A j \in Tasks : Torrent!Has(j, t)' <=> Torrent!Has(j, t)
    BY <1>0 DEF Torrent!Has, Torrent!Of
  <2>. QED
    BY <1>0, <2>1 DEF TorrentInv, Torrent!ScratchRemoved
<1>. QED
  BY <1>5, <1>7, <1>8, <1>9, <1>10 DEF TorrentInv

LEMMA ReleaseReapedCounts ==
    ASSUME TorrentInv, NEW r \in reaped, Torrent!ReleaseReaped(r) PROVE TorrentInv'
<1>. DEFINE last == [r EXCEPT !.last = TRUE]
<1>a. PICK t \in Torrents : t = r.torrent
  BY DEF TorrentInv, TorrentTypes, Reaping
<1>0. /\ TorrentTypes /\ Counted /\ ~r.last /\ Awaits(t)
      /\ holders' = [holders EXCEPT ![t] = holders[t] - 1]
      /\ reaped' = (reaped \ {r}) \cup (IF holders[t] = 1 THEN {last} ELSE {})
      /\ UNCHANGED <<scratch, active, alias, task, closed, leaked>>
  BY <1>a DEF TorrentInv, Awaits, Torrent!ReleaseReaped, Torrent!Last
<1>1. last \in Reaping /\ last.torrent = t /\ last.last
  BY <1>a, <1>0 DEF TorrentTypes, Reaping
<1>. HIDE DEF last
<1>2. /\ reaped' \subseteq Reaping
      /\ \A p, q \in reaped' : p.torrent = q.torrent => p = q
      /\ \A q \in reaped' : q.torrent = t => q.last
      /\ holders[t] = 1 => \E q \in reaped' : q.torrent = t
      /\ \A u : u # t => (Awaits(u)' <=> Awaits(u))
      /\ \A u : u # t => \A q \in reaped : q.torrent = u => q \in reaped'
      /\ ~Awaits(t)'
  BY <1>a, <1>0, <1>1 DEF TorrentTypes, Awaits
<1>3. /\ holders' \in [Torrents -> Nat] /\ holders'[t] = holders[t] - 1
      /\ holders[t] \in Nat /\ holders[t] # 0
      /\ \A u \in Torrents : u # t => holders'[u] = holders[u]
  <2>1. holders[t] # 0 /\ holders[t] \in Nat
    BY <1>0, HeldCounts DEF TorrentTypes
  <2>. QED
    BY <1>0, <2>1 DEF TorrentTypes
<1>4. TorrentTypes'
  BY <1>0, <1>2, <1>3 DEF TorrentTypes
<1>5. \A u : HolderTasks(u)' = HolderTasks(u)
  BY <1>0 DEF HolderTasks, Torrent!Holding, Torrent!Of
<1>6. Counted'
  <2>. SUFFICES ASSUME NEW u \in Torrents
                PROVE  holders'[u] = Cardinality(HolderTasks(u)) + (IF Awaits(u)' THEN 1 ELSE 0)
                                     + (IF active[u] # None THEN 1 ELSE 0)
    BY <1>0, <1>5 DEF Counted
  <2>1. CASE u = t
    <3>1. holders[t] = Cardinality(HolderTasks(t)) + 1 + (IF active[t] # None THEN 1 ELSE 0)
      BY <1>0 DEF Counted
    <3>2. holders'[t] = Cardinality(HolderTasks(t)) + (IF active[t] # None THEN 1 ELSE 0)
      BY <1>3, <3>1, HolderTasksFinite
    <3>3. holders'[t] = Cardinality(HolderTasks(t)) + (IF Awaits(t)' THEN 1 ELSE 0)
                        + (IF active[t] # None THEN 1 ELSE 0)
      BY <1>2, <3>2, HolderTasksFinite
    <3>. QED
      BY <2>1, <3>3
  <2>2. CASE u # t
    <3>1. holders'[u] = holders[u] /\ (Awaits(u)' <=> Awaits(u))
      BY <1>2, <1>3, <2>2
    <3>. QED
      BY <1>0, <3>1 DEF Counted
  <2>. QED
    BY <2>1, <2>2
<1>7. Torrent!AliasesLive' /\ Torrent!SessionsCapped'
  BY <1>0 DEF TorrentInv, Torrent!AliasesLive, Torrent!SessionsCapped, Torrent!Sessions
<1>8. Torrent!ScratchRemoved'
  <2>. SUFFICES ASSUME NEW u \in Torrents, holders'[u] = 0, u \in scratch \ leaked,
                       \A j \in Tasks : ~Torrent!Has(j, u)', \A q \in reaped' : q.torrent # u
                PROVE  FALSE
    BY <1>0 DEF Torrent!ScratchRemoved
  <2>1. \A j \in Tasks : ~Torrent!Has(j, u)
    BY <1>0 DEF Torrent!Has, Torrent!Of
  <2>2. CASE u = t
    BY <1>2, <1>3, <2>2
  <2>3. CASE u # t
    BY <1>2, <1>3, <2>1, <2>3 DEF TorrentInv, Torrent!ScratchRemoved
  <2>. QED
    BY <2>2, <2>3
<1>. QED
  BY <1>4, <1>6, <1>7, <1>8 DEF TorrentInv

LEMMA TorrentInit == Torrent!Init => TorrentInv
<1>. SUFFICES ASSUME Torrent!Init PROVE TorrentInv
  OBVIOUS
<1>0. /\ \A k \in Tasks : task[k] = Torrent!OffTask
      /\ Torrent!OffTask \in Torrent!Task /\ Torrent!OffTask.pc = "off"
      /\ task \in [Tasks -> Torrent!Task]
      /\ reaped = {} /\ scratch = {} /\ closed = FALSE /\ leaked = {}
  BY DEF Torrent!Init, Torrent!OffTask, Torrent!Task
<1>1. TorrentTypes
  BY <1>0 DEF Torrent!Init, TorrentTypes
<1>2. \A t : HolderTasks(t) = {} /\ ~Awaits(t)
  BY <1>0 DEF HolderTasks, Torrent!Holding, Awaits
<1>3. Counted
  BY <1>2, FS_EmptySet DEF Torrent!Init, Counted
<1>4. Torrent!SessionsCapped
  <2>1. Torrent!Sessions = {}
    BY DEF Torrent!Init, Torrent!Sessions
  <2>. QED
    BY <2>1, FS_EmptySet, TorrentCardinality, ServicesAssumption DEF Torrent!SessionsCapped
<1>5. Torrent!AliasesLive /\ Torrent!ScratchRemoved
  BY <1>0 DEF Torrent!Init, Torrent!AliasesLive, Torrent!ScratchRemoved
<1>. QED
  BY <1>1, <1>3, <1>4, <1>5 DEF TorrentInv

LEMMA TorrentStep ==
    ASSUME TorrentInv, [Torrent!Next]_(Torrent!torrentVars) PROVE TorrentInv'
<1>0. \A k \in Tasks : task[k].pc # "off" => Torrent!Of(k) \in Torrents
  BY OfTorrent DEF TorrentInv
<1>1. ASSUME NEW k \in Tasks, Torrent!TaskStep(k) PROVE TorrentInv'
  <2>1. CASE Torrent!DropLast(k)
    BY <1>0, <2>1, DropSteady DEF Torrent!DropLast
  <2>. QED
    BY <1>1, <2>1, TasksGoOn, AcquireCounts, StreamCounts, ReleaseCounts, RemoveLastSteady
       DEF Torrent!TaskStep
<1>2. ASSUME NEW k \in Tasks, NEW s \in Sources,
             \/ Torrent!Lookup(k, s)
             \/ \E kind \in {"stream", "download"} : Torrent!Begin(k, s, kind)
      PROVE  TorrentInv'
  BY <1>2, StartSteady
<1>3. ASSUME NEW t \in Torrents, Torrent!Fetch(t) PROVE TorrentInv'
  BY <1>3, FetchSteady
<1>4. ASSUME NEW r \in reaped,
             Torrent!ReleaseReaped(r) \/ Torrent!DropReaped(r) \/ Torrent!RemoveReaped(r)
      PROVE  TorrentInv'
  <2>1. CASE Torrent!DropReaped(r)
    <3>1. r.torrent \in Torrents
      BY DEF TorrentInv, TorrentTypes, Reaping
    <3>. QED
      BY <2>1, <3>1, DropSteady DEF Torrent!DropReaped
  <2>. QED
    BY <1>4, <2>1, ReleaseReapedCounts, RemoveReapedSteady
<1>5. ASSUME NEW S \in SUBSET Torrent!Sessions, Torrent!Reap(S) PROVE TorrentInv'
  BY <1>5, ReapCounts
<1>6. CASE Torrent!Close \/ UNCHANGED Torrent!torrentVars
  BY <1>6, CloseSteady
<1>. QED
  BY <1>1, <1>2, <1>3, <1>4, <1>5, <1>6 DEF Torrent!Next

LEMMA TorrentHolds == Torrent!Spec => []TorrentInv
<1>1. TorrentInv /\ [Torrent!Next]_(Torrent!torrentVars) => TorrentInv'
  BY TorrentStep
<1>. QED
  BY <1>1, TorrentInit, PTL DEF Torrent!Spec

(* For any number of requests and downloads at a time, and whatever the    *)
(* order of joins, refusals, failures, reaps and drops outside the lock.   *)
THEOREM TorrentsCorrect == Torrent!Spec => []TorrentsSafe
<1>1. TorrentInv => TorrentsSafe
  BY TorrentSafety DEF TorrentsSafe
<1>. QED
  BY <1>1, TorrentHolds, PTL

-----------------------------------------------------------------------------
(* Transcodes of a torrent.  What refers to what: one request decides a    *)
(* slot, a Stop has a slot from its take to its end, and the watcher of a  *)
(* slot calls Stop after the request that filled the slot stopped starting.*)
Starting == {"probe", "mkdir", "start", "fill"}
Decides(r, s) == req[r].slot = s /\ req[r].pc # "await"

RequestGood(r) ==
    /\ req[r].pc = "off" <=> req[r].slot = None
    /\ req[r].slot # None => ses[req[r].slot].st # "free"
    /\ req[r].pc \in Starting => ses[req[r].slot].watch = "off" /\ stops[req[r].slot].pc = "off"
    /\ req[r].pc \in {"wait", "stop", "keep"} => ses[req[r].slot].st = "filled"
    /\ stops[r].pc # "off" => req[r].pc = "stop"

OneDecider ==
    \A r, q \in Requests, s \in Slots : Decides(r, s) /\ Decides(q, s) => q = r

RequestsInv == OneDecider /\ \A r \in Requests : RequestGood(r)

StopsInv ==
    /\ \A a \in Vod!Agents : (stops[a].slot = None) <=> stops[a].pc \in {"off", "take"}
    /\ \A a \in Vod!Agents : stops[a].pc = "clean" => ses[stops[a].slot].stopping
    /\ \A s \in Slots : stops[s].pc # "off" => ses[s].watch = "off"
    /\ ~down => stops[Closer].pc = "off"

(* A slot that left the map is being stopped, was, or will start nothing.  *)
LeftInv ==
    \A r \in Requests :
        /\ req[r].pc \in {"probe", "mkdir", "start"} /\ cur # req[r].slot =>
              ses[req[r].slot].stopping \/ Vod!BeingStopped(req[r].slot)
        /\ req[r].pc \in {"probe", "mkdir", "start"} => ~ses[req[r].slot].run
        /\ req[r].pc = "drop" /\ cur = req[r].slot => ~ses[req[r].slot].run
        /\ req[r].pc = "stop" /\ stops[r].pc \in {"kill", "clean"} => cur # req[r].slot

(* The session in the map is being decided, or was kept; who waits has an  *)
(* answer, or somebody who will give it.                                   *)
Decided(s) == \E p \in Requests : Decides(p, s)

KeptInv ==
    \A s \in Slots : cur = s => Decided(s) \/ (ses[s].st = "filled" /\ ses[s].ready)

AnsweredInv ==
    \A q \in Requests, s \in Slots :
        req[q].pc = "await" /\ req[q].slot = s => ses[s].ready \/ Decided(s)

VodInv ==
    /\ Vod!TypeOK /\ RequestsInv /\ StopsInv /\ LeftInv
    /\ Vod!OrphansWereStopped /\ KeptInv /\ AnsweredInv

RequestRecord == [ pc : {"off", "await", "probe", "mkdir", "start", "fill", "wait", "stop",
                         "drop", "keep"},
                   slot : Slots \cup {None} ]
StopRecord == [pc : {"off", "take", "kill", "clean"}, slot : Slots \cup {None}]

(* What one request, one slot, one Stop are after a step that leaves the   *)
(* others alone.                                                           *)
RequestIs(r, pc, slot) ==
    /\ req' \in [Requests -> RequestRecord] /\ req'[r].pc = pc /\ req'[r].slot = slot
    /\ \A q \in Requests : q # r => req'[q] = req[q]

OthersStay(s) == \A z \in Slots : z # s => ses'[z] = ses[z]

StopIs(a, pc, slot) ==
    /\ stops' \in [Vod!Agents -> StopRecord] /\ stops'[a].pc = pc /\ stops'[a].slot = slot
    /\ \A b \in Vod!Agents : b # a => stops'[b] = stops[b]

LEMMA VodFacts ==
    ASSUME VodInv
    PROVE  /\ Vod!TypeOK /\ RequestsInv /\ StopsInv /\ LeftInv
           /\ Vod!OrphansWereStopped /\ KeptInv /\ AnsweredInv
           /\ req \in [Requests -> RequestRecord] /\ stops \in [Vod!Agents -> StopRecord]
           /\ ses \in [Slots -> Vod!Slot] /\ cur \in Slots \cup {None}
           /\ None \notin Slots /\ Slots \subseteq Vod!Agents /\ Requests \subseteq Vod!Agents
           /\ Reaper \in Vod!Agents /\ Closer \in Vod!Agents
           /\ \A r \in Requests : r \notin Slots \cup {Reaper, Closer}
           /\ \A s \in Slots : s \notin {Reaper, Closer}
           /\ Reaper # Closer
BY ServicesAssumption DEF VodInv, Vod!TypeOK, Vod!Agents, RequestRecord, StopRecord

LEMMA VodSafety ==
    VodInv => Vod!PlaysSafe /\ Vod!TypeOK
<1>. SUFFICES ASSUME VodInv PROVE Vod!PlaysSafe /\ Vod!TypeOK
  OBVIOUS
<1>. USE VodFacts
<1>1. ASSUME NEW s \in Slots, Decided(s) PROVE Vod!Decider(s) # {}
  BY <1>1 DEF Decided, Decides, Vod!Decider
<1>2. Vod!RegisteredDecided
  BY <1>1 DEF KeptInv, Vod!RegisteredDecided
<1>3. Vod!WaitersAnswered
  <2>1. SUFFICES ASSUME NEW q \in Requests, req[q].pc = "await"
                 PROVE  ses[req[q].slot].ready \/ Vod!Decider(req[q].slot) # {}
    BY DEF Vod!WaitersAnswered, Vod!Own
  <2>2. req[q].slot \in Slots
    BY <2>1 DEF RequestsInv, RequestGood, RequestRecord
  <2>. QED
    BY <1>1, <2>1, <2>2 DEF AnsweredInv
<1>. QED
  BY <1>2, <1>3 DEF Vod!PlaysSafe

LEMMA GotoRequest ==
    ASSUME VodInv, NEW r \in Requests,
           NEW pc \in {"mkdir", "start", "fill", "wait", "stop", "drop", "keep"},
           Vod!Goto(r, pc)
    PROVE  RequestIs(r, pc, req[r].slot)
BY VodFacts DEF Vod!Goto, RequestIs, RequestRecord

LEMMA EndRequest ==
    ASSUME VodInv, NEW r \in Requests, req' = [req EXCEPT ![r] = Vod!NoRequest]
    PROVE  RequestIs(r, "off", None)
BY VodFacts DEF Vod!NoRequest, RequestIs, RequestRecord

LEMMA StopGoes ==
    ASSUME VodInv, NEW a \in Vod!Agents, NEW pc \in {"take", "kill", "clean"}, Vod!StopPc(a, pc)
    PROVE  StopIs(a, pc, stops[a].slot)
BY VodFacts DEF Vod!StopPc, StopIs, StopRecord

(* The slots, the map and the Stops stay: one request waits no longer, or  *)
(* goes on deciding.                                                       *)
LEMMA WaitEnds ==
    ASSUME VodInv, NEW r \in Requests, req[r].pc = "await",
           req' = [req EXCEPT ![r] = Vod!NoRequest],
           UNCHANGED <<cur, reader, dir, ses, stops, down>>
    PROVE  VodInv'
<1>. USE VodFacts
<1>1. RequestIs(r, "off", None)
  BY EndRequest
<1>2. Vod!TypeOK'
  BY <1>1 DEF RequestIs, Vod!TypeOK, RequestRecord
<1>3. RequestsInv'
  BY <1>1 DEF RequestIs, RequestsInv, RequestGood, OneDecider, Decides, Starting
<1>4. StopsInv'
  BY DEF StopsInv
<1>5. LeftInv'
  BY <1>1 DEF RequestIs, LeftInv, Vod!BeingStopped
<1>7. Vod!OrphansWereStopped'
  BY DEF Vod!OrphansWereStopped, Vod!BeingStopped
<1>6. ASSUME NEW s \in Slots, NEW q \in Requests, Decides(q, s) PROVE Decides(q, s)'
  BY <1>1, <1>6 DEF RequestIs, Decides
<1>8. KeptInv'
  BY <1>6 DEF KeptInv, Decided
<1>9. AnsweredInv'
  BY <1>1, <1>6 DEF RequestIs, AnsweredInv, Decided
<1>. QED
  BY <1>2, <1>3, <1>4, <1>5, <1>7, <1>8, <1>9 DEF VodInv

LEMMA JoinsSlot ==
    ASSUME VodInv, NEW r \in Requests, req[r].pc = "off", cur # None,
           req' = [req EXCEPT ![r] = [pc |-> "await", slot |-> cur]],
           UNCHANGED <<cur, reader, dir, ses, stops, down>>
    PROVE  VodInv'
<1>. USE VodFacts
<1>1. RequestIs(r, "await", cur)
  BY DEF RequestIs, RequestRecord
<1>2. Vod!TypeOK'
  BY <1>1 DEF RequestIs, Vod!TypeOK, RequestRecord
<1>3. ses[cur].st # "free" /\ (ses[cur].ready \/ \E q \in Requests : Decides(q, cur))
  BY DEF KeptInv, Decided, RequestsInv, RequestGood, Decides
<1>4. RequestsInv'
  BY <1>1, <1>3 DEF RequestIs, RequestsInv, RequestGood, OneDecider, Decides, Starting
<1>5. StopsInv'
  BY DEF StopsInv
<1>6. LeftInv'
  BY <1>1 DEF RequestIs, LeftInv, Vod!BeingStopped
<1>7. Vod!OrphansWereStopped'
  BY DEF Vod!OrphansWereStopped, Vod!BeingStopped
<1>8. ASSUME NEW s \in Slots, NEW q \in Requests, Decides(q, s) PROVE Decides(q, s)'
  BY <1>1, <1>8 DEF RequestIs, Decides, RequestsInv, RequestGood
<1>9. KeptInv'
  BY <1>8 DEF KeptInv, Decided
<1>10. AnsweredInv'
  BY <1>1, <1>3, <1>8 DEF RequestIs, AnsweredInv, Decided
<1>. QED
  BY <1>2, <1>4, <1>5, <1>6, <1>7, <1>9, <1>10 DEF VodInv

(* A request that decides goes on: what it may do next is known.           *)
LEMMA DecisionGoes ==
    ASSUME VodInv, NEW r \in Requests, NEW pc, <<req[r].pc, pc>> \in
               {<<"probe", "mkdir">>, <<"mkdir", "start">>, <<"probe", "drop">>,
                <<"mkdir", "drop">>, <<"start", "drop">>, <<"wait", "keep">>},
           Vod!Goto(r, pc), UNCHANGED <<cur, reader, ses, stops, down>>,
           dir' \in {"none", "empty", "segment"}
    PROVE  VodInv'
<1>. USE VodFacts
<1>0. pc \in {"mkdir", "start", "drop", "keep"} /\ req[r].pc \in {"probe", "mkdir", "start", "wait"}
  OBVIOUS
<1>1. RequestIs(r, pc, req[r].slot)
  BY <1>0, GotoRequest
<1>2. Vod!TypeOK'
  BY <1>1 DEF RequestIs, Vod!TypeOK, RequestRecord
<1>4. RequestsInv'
  BY <1>0, <1>1 DEF RequestIs, RequestsInv, RequestGood, OneDecider, Decides, Starting
<1>5. StopsInv'
  BY DEF StopsInv
<1>6. LeftInv'
  BY <1>0, <1>1 DEF RequestIs, LeftInv, Vod!BeingStopped
<1>7. Vod!OrphansWereStopped'
  BY DEF Vod!OrphansWereStopped, Vod!BeingStopped
<1>8. ASSUME NEW s \in Slots, NEW q \in Requests, Decides(q, s) PROVE Decides(q, s)'
  BY <1>0, <1>1, <1>8 DEF RequestIs, Decides
<1>9. KeptInv'
  BY <1>8 DEF KeptInv, Decided
<1>10. AnsweredInv'
  BY <1>0, <1>1, <1>8 DEF RequestIs, AnsweredInv, Decided
<1>. QED
  BY <1>2, <1>4, <1>5, <1>6, <1>7, <1>9, <1>10 DEF VodInv

LEMMA NoSegmentStep ==
    ASSUME VodInv, NEW r \in Requests, Vod!NoSegment(r) PROVE VodInv'
<1>. USE VodFacts
<1>0. req[r].pc = "wait" /\ UNCHANGED <<cur, reader, dir, ses, down>>
  BY DEF Vod!NoSegment
<1>1. RequestIs(r, "stop", req[r].slot)
  BY GotoRequest DEF Vod!NoSegment, Vod!FailedStart
<1>2. /\ StopIs(r, "take", stops[r].slot) /\ stops[r].pc = "off" /\ stops[r].slot = None
  <2>1. stops[r].pc = "off"
    BY <1>0 DEF RequestsInv, RequestGood
  <2>2. stops[r].slot = None
    BY <2>1 DEF StopsInv
  <2>. QED
    BY <2>1, <2>2, StopGoes DEF Vod!NoSegment, Vod!FailedStart
<1>3. Vod!TypeOK'
  BY <1>0, <1>1, <1>2 DEF RequestIs, StopIs, Vod!TypeOK, RequestRecord, StopRecord
<1>4. RequestsInv'
  <2>1. OneDecider'
    BY <1>0, <1>1 DEF RequestIs, RequestsInv, OneDecider, Decides
  <2>2. ASSUME NEW q \in Requests PROVE RequestGood(q)'
    <3>1. \A s \in Slots : stops'[s] = stops[s]
      BY <1>2 DEF StopIs
    <3>2. CASE q = r
      BY <1>0, <1>1, <3>2 DEF RequestIs, RequestsInv, RequestGood, Starting
    <3>3. CASE q # r
      <4>1. req'[q] = req[q] /\ stops'[q] = stops[q] /\ RequestGood(q)
        BY <1>1, <1>2, <3>3 DEF RequestIs, StopIs, RequestsInv
      <4>2. req[q].slot \in Slots \cup {None} /\ (req[q].slot = None => req[q].pc = "off")
        BY <4>1 DEF RequestGood, RequestRecord
      <4>. QED
        BY <1>0, <3>1, <4>1, <4>2 DEF RequestGood, Starting
    <3>. QED
      BY <3>2, <3>3
  <2>. QED
    BY <2>1, <2>2 DEF RequestsInv
<1>5. StopsInv'
  BY <1>0, <1>2 DEF StopIs, StopsInv
<1>6. \A s \in Slots : Vod!BeingStopped(s)' <=> Vod!BeingStopped(s)
  BY <1>2 DEF StopIs, Vod!BeingStopped
<1>7. LeftInv'
  BY <1>0, <1>1, <1>2, <1>6 DEF RequestIs, StopIs, LeftInv, Vod!BeingStopped, RequestsInv, RequestGood
<1>8. Vod!OrphansWereStopped'
  BY <1>0, <1>6 DEF Vod!OrphansWereStopped
<1>9. ASSUME NEW s \in Slots, NEW q \in Requests, Decides(q, s) PROVE Decides(q, s)'
  BY <1>0, <1>1, <1>9 DEF RequestIs, Decides
<1>10. KeptInv'
  BY <1>0, <1>9 DEF KeptInv, Decided
<1>11. AnsweredInv'
  BY <1>0, <1>1, <1>9 DEF RequestIs, AnsweredInv, Decided
<1>. QED
  BY <1>3, <1>4, <1>5, <1>7, <1>8, <1>10, <1>11 DEF VodInv

(* A new placeholder takes a slot that nothing refers to.                  *)
LEMMA RegistersPlaceholder ==
    ASSUME VodInv, NEW r \in Requests, req[r].pc = "off", cur = None, NEW s \in Slots,
           ~Vod!Referred(s), cur' = s,
           ses' = [ses EXCEPT ![s] = [Vod!FreeSlot EXCEPT !.st = "placeholder"]],
           req' = [req EXCEPT ![r] = [pc |-> "probe", slot |-> s]],
           reader' = TRUE, UNCHANGED <<dir, stops, down>>
    PROVE  VodInv'
<1>. USE VodFacts
<1>1. RequestIs(r, "probe", s)
  BY DEF RequestIs, RequestRecord
<1>2. /\ ses' \in [Slots -> Vod!Slot] /\ OthersStay(s)
      /\ ses'[s] = [st |-> "placeholder", ready |-> FALSE, stopping |-> FALSE, run |-> FALSE,
                    watch |-> "off"]
  BY DEF Vod!FreeSlot, Vod!Slot, OthersStay
<1>3. /\ \A q \in Requests : req[q].slot # s
      /\ \A a \in Vod!Agents : stops[a].slot # s
      /\ stops[s].pc = "off" /\ stops[r].pc = "off"
  BY DEF Vod!Referred, RequestsInv, RequestGood
<1>4. Vod!TypeOK'
  BY <1>1, <1>2 DEF RequestIs, OthersStay, Vod!TypeOK, RequestRecord
<1>5. RequestsInv'
  <2>1. OneDecider'
    BY <1>1, <1>3 DEF RequestIs, RequestsInv, OneDecider, Decides
  <2>2. ASSUME NEW q \in Requests PROVE RequestGood(q)'
    <3>1. CASE q = r
      BY <1>1, <1>2, <1>3, <3>1 DEF RequestIs, RequestGood
    <3>2. CASE q # r
      <4>1. req'[q] = req[q] /\ RequestGood(q) /\ req[q].slot \in Slots \cup {None}
        BY <1>1, <3>2 DEF RequestIs, RequestsInv, RequestRecord
      <4>2. req[q].slot # None => ses'[req[q].slot] = ses[req[q].slot]
        BY <1>2, <1>3, <4>1 DEF OthersStay
      <4>. QED
        BY <4>1, <4>2 DEF RequestGood, Starting
    <3>. QED
      BY <3>1, <3>2
  <2>. QED
    BY <2>1, <2>2 DEF RequestsInv
<1>6. StopsInv'
  <2>1. ASSUME NEW a \in Vod!Agents, stops[a].pc = "clean" PROVE ses'[stops[a].slot].stopping
    BY <1>2, <1>3, <2>1 DEF OthersStay, StopsInv, StopRecord
  <2>2. ASSUME NEW z \in Slots, stops[z].pc # "off" PROVE ses'[z].watch = "off"
    BY <1>2, <1>3, <2>2 DEF OthersStay, StopsInv
  <2>. QED
    BY <2>1, <2>2 DEF StopsInv
<1>7. LeftInv'
  <2>1. SUFFICES ASSUME NEW q \in Requests, q # r
                 PROVE  /\ req[q].pc \in {"probe", "mkdir", "start"} /\ cur' # req[q].slot =>
                            \/ ses'[req[q].slot].stopping
                            \/ \E a \in Vod!Agents : stops[a].slot = req[q].slot
                        /\ req[q].pc \in {"probe", "mkdir", "start"} => ~ses'[req[q].slot].run
                        /\ req[q].pc = "drop" /\ cur' = req[q].slot => ~ses'[req[q].slot].run
                        /\ req[q].pc = "stop" /\ stops[q].pc \in {"kill", "clean"} =>
                              cur' # req[q].slot
    BY <1>1, <1>2 DEF RequestIs, LeftInv, Vod!BeingStopped
  <2>2. /\ req[q].pc # "off" => req[q].slot \in Slots
        /\ req[q].pc # "off" => ses'[req[q].slot] = ses[req[q].slot]
    BY <1>2, <1>3 DEF RequestsInv, RequestGood, RequestRecord, OthersStay
  <2>. QED
    BY <1>3, <2>2 DEF LeftInv, Vod!BeingStopped
<1>8. Vod!OrphansWereStopped'
  BY <1>2 DEF OthersStay, Vod!OrphansWereStopped, Vod!BeingStopped
<1>9. KeptInv'
  BY <1>1 DEF RequestIs, KeptInv, Decided, Decides
<1>10. AnsweredInv'
  <2>1. SUFFICES ASSUME NEW q \in Requests, NEW z \in Slots, req'[q].pc = "await",
                        req'[q].slot = z
                 PROVE  ses'[z].ready \/ Decided(z)'
    BY DEF AnsweredInv
  <2>2. q # r /\ z # s /\ req[q] = req'[q] /\ ses'[z] = ses[z]
    BY <1>1, <1>2, <1>3, <2>1 DEF RequestIs, OthersStay
  <2>3. ASSUME NEW p \in Requests, Decides(p, z) PROVE Decides(p, z)'
    BY <1>1, <2>3 DEF RequestIs, Decides, RequestsInv, RequestGood
  <2>. QED
    BY <2>1, <2>2, <2>3 DEF AnsweredInv, Decided
<1>. QED
  BY <1>4, <1>5, <1>6, <1>7, <1>8, <1>9, <1>10 DEF VodInv

LEMMA FFmpegStarts ==
    ASSUME VodInv, NEW r \in Requests, req[r].pc = "start", Vod!Goto(r, "fill"),
           ses' = [ses EXCEPT ![req[r].slot].run = TRUE],
           UNCHANGED <<cur, reader, dir, stops, down>>
    PROVE  VodInv'
<1>. USE VodFacts
<1>1. RequestIs(r, "fill", req[r].slot)
  BY GotoRequest
<1>2. PICK s \in Slots : s = req[r].slot
  BY DEF RequestsInv, RequestGood, RequestRecord
<1>3. /\ ses' \in [Slots -> Vod!Slot] /\ OthersStay(s)
      /\ ses'[s].st = ses[s].st /\ ses'[s].ready = ses[s].ready
      /\ ses'[s].stopping = ses[s].stopping /\ ses'[s].watch = ses[s].watch
  <2>1. ses[s] \in Vod!Slot /\ ses' = [ses EXCEPT ![s] = [ses[s] EXCEPT !.run = TRUE]]
    BY <1>2
  <2>2. [ses[s] EXCEPT !.run = TRUE] \in Vod!Slot
    BY <2>1 DEF Vod!Slot
  <2>3. ses'[s] = [ses[s] EXCEPT !.run = TRUE]
    BY <2>1
  <2>4. ses' \in [Slots -> Vod!Slot] /\ OthersStay(s)
    BY <2>1, <2>2 DEF OthersStay
  <2>5. ses'[s].st = ses[s].st
    BY <2>1, <2>3 DEF Vod!Slot
  <2>6. ses'[s].ready = ses[s].ready
    BY <2>1, <2>3 DEF Vod!Slot
  <2>7. ses'[s].stopping = ses[s].stopping
    BY <2>1, <2>3 DEF Vod!Slot
  <2>8. ses'[s].watch = ses[s].watch
    BY <2>1, <2>3 DEF Vod!Slot
  <2>. QED
    BY <2>4, <2>5, <2>6, <2>7, <2>8
<1>4. \A z \in Slots : /\ ses'[z].st = ses[z].st /\ ses'[z].ready = ses[z].ready
                       /\ ses'[z].stopping = ses[z].stopping /\ ses'[z].watch = ses[z].watch
  BY <1>3 DEF OthersStay
<1>5. ASSUME NEW q \in Requests, q # r, req[q].pc \notin {"off", "await"} PROVE req[q].slot # s
  BY <1>2, <1>5 DEF RequestsInv, OneDecider, Decides
<1>6. Vod!TypeOK'
  BY <1>1, <1>2, <1>3 DEF RequestIs, OthersStay, Vod!TypeOK, RequestRecord, RequestsInv, RequestGood
<1>7. RequestsInv'
  <2>1. OneDecider'
    BY <1>1 DEF RequestIs, RequestsInv, OneDecider, Decides
  <2>2. ASSUME NEW q \in Requests PROVE RequestGood(q)'
    <3>1. RequestGood(q) /\ req[q].slot \in Slots \cup {None} /\ req'[q].slot = req[q].slot
      BY <1>1 DEF RequestIs, RequestsInv, RequestRecord
    <3>2. req'[q] = req[q] \/ (q = r /\ req'[q].pc = "fill" /\ req[q].pc = "start")
      BY <1>1 DEF RequestIs
    <3>. QED
      BY <1>4, <3>1, <3>2 DEF RequestGood, Starting
  <2>. QED
    BY <2>1, <2>2 DEF RequestsInv
<1>8. StopsInv'
  BY <1>4 DEF StopsInv, StopRecord
<1>9. LeftInv'
  <2>1. SUFFICES ASSUME NEW q \in Requests, q # r, req[q].pc \notin {"off", "await"}
                 PROVE  /\ req[q].pc \in {"probe", "mkdir", "start"} /\ cur # req[q].slot =>
                            \/ ses'[req[q].slot].stopping
                            \/ \E a \in Vod!Agents : stops[a].slot = req[q].slot
                        /\ req[q].pc \in {"probe", "mkdir", "start"} => ~ses'[req[q].slot].run
                        /\ req[q].pc = "drop" /\ cur = req[q].slot => ~ses'[req[q].slot].run
                        /\ req[q].pc = "stop" /\ stops[q].pc \in {"kill", "clean"} =>
                              cur # req[q].slot
    BY <1>1 DEF RequestIs, LeftInv, Vod!BeingStopped
  <2>2. ses'[req[q].slot] = ses[req[q].slot]
    BY <1>3, <1>5, <2>1 DEF RequestsInv, RequestGood, RequestRecord, OthersStay
  <2>. QED
    BY <2>1, <2>2 DEF LeftInv, Vod!BeingStopped
<1>10. Vod!OrphansWereStopped'
  BY <1>2, <1>3, <1>4 DEF OthersStay, Vod!OrphansWereStopped, Vod!BeingStopped, LeftInv
<1>11. ASSUME NEW z \in Slots, NEW q \in Requests, Decides(q, z) PROVE Decides(q, z)'
  BY <1>1, <1>11 DEF RequestIs, Decides
<1>12. KeptInv'
  BY <1>4, <1>11 DEF KeptInv, Decided
<1>13. AnsweredInv'
  BY <1>1, <1>4, <1>11 DEF RequestIs, AnsweredInv, Decided
<1>. QED
  BY <1>6, <1>7, <1>8, <1>9, <1>10, <1>12, <1>13 DEF VodInv

(* A decider other than r decides another slot.                            *)
LEMMA DecidesAlone ==
    ASSUME VodInv, NEW r \in Requests, req[r].pc \notin {"off", "await"}
    PROVE  /\ req[r].slot \in Slots
           /\ \A q \in Requests : q # r /\ req[q].pc \notin {"off", "await"} =>
                  req[q].slot \in Slots \ {req[r].slot}
<1>. USE VodFacts
<1>1. \A q \in Requests : req[q].pc # "off" => req[q].slot \in Slots
  BY DEF RequestsInv, RequestGood, RequestRecord
<1>2. ASSUME NEW q \in Requests, q # r, req[q].pc \notin {"off", "await"},
             req[q].slot = req[r].slot
      PROVE  FALSE
  BY <1>1, <1>2 DEF RequestsInv, OneDecider, Decides
<1>. QED
  BY <1>1, <1>2

LEMMA FillStep ==
    ASSUME VodInv, NEW r \in Requests, Vod!Fill(r) PROVE VodInv'
<1>. USE VodFacts
<1>0. req[r].pc = "fill" /\ UNCHANGED <<cur, reader, dir, stops, down>>
  BY DEF Vod!Fill
<1>1. RequestIs(r, "wait", req[r].slot)
  BY GotoRequest DEF Vod!Fill
<1>2. PICK s \in Slots : s = req[r].slot
  BY <1>0, DecidesAlone
<1>3. ses' \in [Slots -> Vod!Slot] /\ OthersStay(s)
      /\ ses'[s].st = "filled" /\ ses'[s].watch = "on" /\ ses'[s].ready = ses[s].ready
      /\ ses'[s].stopping = ses[s].stopping /\ ses'[s].run = ses[s].run
  <2>. DEFINE f == [ses[s] EXCEPT !.st = "filled", !.watch = "on"]
  <2>1. ses[s] \in Vod!Slot
    BY <1>2
  <2>2. ses' = [ses EXCEPT ![s] = f]
    BY <1>2 DEF Vod!Fill, Vod!Own
  <2>3. f \in Vod!Slot
    BY <2>1 DEF Vod!Slot
  <2>4. f.st = "filled" /\ f.watch = "on"
    BY <2>1 DEF Vod!Slot
  <2>5. f.ready = ses[s].ready
    BY <2>1 DEF Vod!Slot
  <2>6. f.stopping = ses[s].stopping
    BY <2>1 DEF Vod!Slot
  <2>7. f.run = ses[s].run
    BY <2>1 DEF Vod!Slot
  <2>8. ses'[s] = f
    BY <1>2, <2>2
  <2>. HIDE DEF f
  <2>9. ses' \in [Slots -> Vod!Slot] /\ OthersStay(s)
    BY <2>2, <2>3 DEF OthersStay
  <2>. QED
    BY <2>4, <2>5, <2>6, <2>7, <2>8, <2>9
<1>4. \A z \in Slots : /\ ses'[z].ready = ses[z].ready /\ ses'[z].run = ses[z].run
                       /\ ses'[z].stopping = ses[z].stopping
                       /\ ses'[z].st \in {ses[z].st, "filled"}
  BY <1>3 DEF OthersStay
<1>5. \A q \in Requests : q # r /\ req[q].pc \notin {"off", "await"} =>
          req[q].slot \in Slots /\ req[q].slot # s /\ ses'[req[q].slot] = ses[req[q].slot]
  BY <1>0, <1>2, <1>3, DecidesAlone DEF OthersStay
<1>6. Vod!TypeOK'
  BY <1>0, <1>1, <1>3, <1>4 DEF RequestIs, Vod!TypeOK, RequestRecord
<1>7. RequestsInv'
  <2>1. OneDecider'
    BY <1>0, <1>1 DEF RequestIs, RequestsInv, OneDecider, Decides
  <2>2. ASSUME NEW q \in Requests PROVE RequestGood(q)'
    <3>1. RequestGood(q) /\ req[q].slot \in Slots \cup {None} /\ req'[q].slot = req[q].slot
      BY <1>1 DEF RequestIs, RequestsInv, RequestRecord
    <3>2. CASE q = r
      BY <1>0, <1>1, <1>2, <1>3, <3>1, <3>2 DEF RequestIs, RequestGood, Starting
    <3>3. CASE q # r
      <4>1. req'[q] = req[q]
        BY <1>1, <3>3 DEF RequestIs
      <4>2. req[q].slot # None => ses'[req[q].slot].st # "free"
        BY <1>4, <3>1 DEF RequestGood
      <4>3. req[q].pc \notin {"off", "await"} => ses'[req[q].slot] = ses[req[q].slot]
        BY <1>5, <3>3
      <4>. QED
        BY <1>0, <3>1, <4>1, <4>2, <4>3 DEF RequestGood, Starting
    <3>. QED
      BY <3>2, <3>3
  <2>. QED
    BY <2>1, <2>2 DEF RequestsInv
<1>8. StopsInv'
  <2>1. stops[s].pc = "off"
    BY <1>0, <1>2 DEF RequestsInv, RequestGood, Starting
  <2>2. ASSUME NEW z \in Slots, stops[z].pc # "off" PROVE ses'[z].watch = "off"
    BY <1>3, <2>1, <2>2 DEF OthersStay, StopsInv
  <2>3. ASSUME NEW a \in Vod!Agents, stops[a].pc = "clean" PROVE ses'[stops[a].slot].stopping
    BY <1>4, <2>3 DEF StopsInv, StopRecord
  <2>. QED
    BY <1>0, <2>2, <2>3 DEF StopsInv
<1>9. LeftInv'
  BY <1>0, <1>1, <1>5 DEF RequestIs, LeftInv, Vod!BeingStopped
<1>10. Vod!OrphansWereStopped'
  BY <1>0, <1>4 DEF Vod!OrphansWereStopped, Vod!BeingStopped
<1>11. ASSUME NEW z \in Slots, NEW q \in Requests, Decides(q, z) PROVE Decides(q, z)'
  BY <1>1, <1>11 DEF RequestIs, Decides
<1>12. KeptInv'
  BY <1>0, <1>3, <1>4, <1>11 DEF KeptInv, Decided
<1>13. AnsweredInv'
  BY <1>0, <1>1, <1>4, <1>11 DEF RequestIs, AnsweredInv, Decided
<1>. QED
  BY <1>6, <1>7, <1>8, <1>9, <1>10, <1>12, <1>13 DEF VodInv

LEMMA PublishStep ==
    ASSUME VodInv, NEW r \in Requests, Vod!Publish(r) PROVE VodInv'
<1>. USE VodFacts
<1>0. /\ req[r].pc \in {"drop", "keep"} /\ UNCHANGED <<dir, stops, down>>
      /\ reader' \in BOOLEAN
      /\ req[r].pc = "drop" => cur' = IF cur = req[r].slot THEN None ELSE cur
      /\ req[r].pc = "keep" => cur' = cur
  BY DEF Vod!Publish, Vod!Own, Vod!TypeOK
<1>1. RequestIs(r, "off", None)
  BY EndRequest DEF Vod!Publish
<1>2. PICK s \in Slots : s = req[r].slot
  BY <1>0, DecidesAlone
<1>c. /\ cur' \in Slots \cup {None} /\ (cur' = cur \/ (cur = s /\ cur' = None))
      /\ req[r].pc = "drop" => cur' # s
  BY <1>0, <1>2
<1>3. ses' \in [Slots -> Vod!Slot] /\ OthersStay(s)
      /\ ses'[s].st = ses[s].st /\ ses'[s].watch = ses[s].watch /\ ses'[s].ready
      /\ ses'[s].stopping = ses[s].stopping /\ ses'[s].run = ses[s].run
  <2>. DEFINE f == [ses[s] EXCEPT !.ready = TRUE]
  <2>1. ses[s] \in Vod!Slot
    BY <1>2
  <2>2. ses' = [ses EXCEPT ![s] = f]
    BY <1>2 DEF Vod!Publish, Vod!Own
  <2>3. f \in Vod!Slot
    BY <2>1 DEF Vod!Slot
  <2>4. f.ready
    BY <2>1 DEF Vod!Slot
  <2>5. f.st = ses[s].st /\ f.watch = ses[s].watch
    BY <2>1 DEF Vod!Slot
  <2>6. f.stopping = ses[s].stopping
    BY <2>1 DEF Vod!Slot
  <2>7. f.run = ses[s].run
    BY <2>1 DEF Vod!Slot
  <2>8. ses'[s] = f
    BY <1>2, <2>2
  <2>. HIDE DEF f
  <2>9. ses' \in [Slots -> Vod!Slot] /\ OthersStay(s)
    BY <2>2, <2>3 DEF OthersStay
  <2>. QED
    BY <2>4, <2>5, <2>6, <2>7, <2>8, <2>9
<1>4. \A z \in Slots : /\ ses'[z].st = ses[z].st /\ ses'[z].run = ses[z].run
                       /\ ses'[z].stopping = ses[z].stopping
                       /\ ses'[z].watch = ses[z].watch
                       /\ ses[z].ready => ses'[z].ready
  BY <1>3 DEF OthersStay
<1>5. \A q \in Requests : q # r /\ req[q].pc \notin {"off", "await"} =>
          req[q].slot \in Slots /\ req[q].slot # s
  BY <1>0, <1>2, DecidesAlone
<1>6. Vod!TypeOK'
  BY <1>0, <1>1, <1>c, <1>3, <1>4 DEF RequestIs, Vod!TypeOK, RequestRecord
<1>7. RequestsInv'
  <2>1. OneDecider'
    BY <1>0, <1>1 DEF RequestIs, RequestsInv, OneDecider, Decides
  <2>2. ASSUME NEW q \in Requests PROVE RequestGood(q)'
    <3>2. CASE q = r
      BY <1>0, <1>1, <3>2 DEF RequestIs, RequestsInv, RequestGood, Starting
    <3>3. CASE q # r
      <4>1. req'[q] = req[q] /\ RequestGood(q) /\ req[q].slot \in Slots \cup {None}
        BY <1>1, <3>3 DEF RequestIs, RequestsInv, RequestRecord
      <4>. QED
        BY <1>0, <1>4, <4>1 DEF RequestGood, Starting
    <3>. QED
      BY <3>2, <3>3
  <2>. QED
    BY <2>1, <2>2 DEF RequestsInv
<1>8. StopsInv'
  BY <1>0, <1>4 DEF StopsInv, StopRecord
<1>9. LeftInv'
  BY <1>0, <1>1, <1>c, <1>4, <1>5 DEF RequestIs, LeftInv, Vod!BeingStopped
<1>10. Vod!OrphansWereStopped'
  BY <1>0, <1>2, <1>4 DEF Vod!OrphansWereStopped, Vod!BeingStopped, LeftInv
<1>11. ASSUME NEW z \in Slots, NEW q \in Requests, Decides(q, z), z # s PROVE Decides(q, z)'
  BY <1>1, <1>2, <1>11 DEF RequestIs, Decides
<1>12. KeptInv'
  <2>1. SUFFICES ASSUME NEW z \in Slots, cur' = z
                 PROVE  Decided(z)' \/ (ses'[z].st = "filled" /\ ses'[z].ready)
    BY DEF KeptInv
  <2>2. cur = z
    BY <1>c, <2>1
  <2>3. CASE z = s
    BY <1>0, <1>2, <1>c, <1>3, <1>4, <2>1, <2>3 DEF RequestsInv, RequestGood
  <2>4. CASE z # s
    BY <1>4, <1>11, <2>2, <2>4 DEF KeptInv, Decided
  <2>. QED
    BY <2>3, <2>4
<1>13. AnsweredInv'
  <2>1. SUFFICES ASSUME NEW q \in Requests, NEW z \in Slots, req'[q].pc = "await",
                        req'[q].slot = z
                 PROVE  ses'[z].ready \/ Decided(z)'
    BY DEF AnsweredInv
  <2>2. req'[q] = req[q]
    BY <1>1, <2>1 DEF RequestIs
  <2>3. CASE z = s
    BY <1>3, <2>3
  <2>4. CASE z # s
    BY <1>4, <1>11, <2>1, <2>2, <2>4 DEF AnsweredInv, Decided
  <2>. QED
    BY <2>3, <2>4
<1>. QED
  BY <1>6, <1>7, <1>8, <1>9, <1>10, <1>12, <1>13 DEF VodInv

LEMMA SegmentWritten ==
    ASSUME VodInv, NEW s \in Slots, Vod!Segment(s) PROVE VodInv'
<1>1. dir' = "segment" /\ UNCHANGED <<cur, reader, ses, req, stops, down>>
  BY DEF Vod!Segment
<1>. QED
  BY <1>1 DEF VodInv, Vod!TypeOK, RequestsInv, OneDecider, RequestGood, Decides, Starting, StopsInv,
              LeftInv, Vod!BeingStopped, Vod!OrphansWereStopped, KeptInv, AnsweredInv, Decided

(* A process or its watcher ends: nothing else changes.                    *)
LEMMA ProcessEnds ==
    ASSUME VodInv, NEW s \in Slots, NEW end \in {"off", "crashed"},
           ses[s].watch # "off",
           OthersStay(s), ses' \in [Slots -> Vod!Slot],
           ses'[s].st = ses[s].st, ses'[s].ready = ses[s].ready,
           ses'[s].stopping = ses[s].stopping, ses'[s].watch = end, ses'[s].run => ses[s].run,
           UNCHANGED <<cur, reader, dir, req, stops, down>>
    PROVE  VodInv'
<1>. USE VodFacts
<1>4. \A z \in Slots : /\ ses'[z].st = ses[z].st /\ ses'[z].ready = ses[z].ready
                       /\ ses'[z].stopping = ses[z].stopping
                       /\ ses'[z].run => ses[z].run
  BY DEF OthersStay
<1>6. Vod!TypeOK'
  BY <1>4 DEF Vod!TypeOK
<1>7. RequestsInv'
  <2>1. OneDecider'
    BY DEF RequestsInv, OneDecider, Decides
  <2>2. ASSUME NEW q \in Requests PROVE RequestGood(q)'
    <3>1. RequestGood(q) /\ req[q].slot \in Slots \cup {None}
      BY DEF RequestsInv, RequestRecord
    <3>2. req[q].pc \in Starting => ses'[req[q].slot].watch = "off"
      <4>1. SUFFICES ASSUME req[q].pc \in Starting PROVE ses'[req[q].slot].watch = "off"
        OBVIOUS
      <4>2. req[q].slot \in Slots /\ req[q].slot # s
        BY <3>1, <4>1 DEF RequestGood, Starting
      <4>. QED
        BY <3>1, <4>1, <4>2 DEF RequestGood, OthersStay
    <3>. QED
      BY <1>4, <3>1, <3>2 DEF RequestGood
  <2>. QED
    BY <2>1, <2>2 DEF RequestsInv
<1>8. StopsInv'
  <2>2. ASSUME NEW z \in Slots, stops[z].pc # "off" PROVE ses'[z].watch = "off"
    BY <2>2 DEF OthersStay, StopsInv
  <2>3. ASSUME NEW a \in Vod!Agents, stops[a].pc = "clean" PROVE ses'[stops[a].slot].stopping
    BY <1>4, <2>3 DEF StopsInv, StopRecord
  <2>. QED
    BY <2>2, <2>3 DEF StopsInv
<1>9. LeftInv'
  BY <1>4 DEF LeftInv, Vod!BeingStopped, RequestsInv, RequestGood, RequestRecord
<1>10. Vod!OrphansWereStopped'
  BY <1>4 DEF Vod!OrphansWereStopped, Vod!BeingStopped
<1>11. ASSUME NEW z \in Slots, NEW q \in Requests, Decides(q, z) PROVE Decides(q, z)'
  BY <1>11 DEF Decides
<1>12. KeptInv'
  BY <1>4, <1>11 DEF KeptInv, Decided
<1>13. AnsweredInv'
  BY <1>4, <1>11 DEF AnsweredInv, Decided
<1>. QED
  BY <1>6, <1>7, <1>8, <1>9, <1>10, <1>12, <1>13 DEF VodInv

LEMMA ExitStep ==
    ASSUME VodInv, NEW s \in Slots, Vod!Exit(s) PROVE VodInv'
<1>. USE VodFacts
<1>1. PICK end \in {"off", "crashed"} :
          ses' = [ses EXCEPT ![s] = [ses[s] EXCEPT !.run = FALSE, !.watch = end]]
  BY DEF Vod!Exit
<1>. DEFINE f == [ses[s] EXCEPT !.run = FALSE, !.watch = end]
<1>2. ses[s] \in Vod!Slot
  OBVIOUS
<1>3. f \in Vod!Slot
  BY <1>2 DEF Vod!Slot
<1>4. f.watch = end /\ ~f.run
  BY <1>2 DEF Vod!Slot
<1>5. f.st = ses[s].st
  BY <1>2 DEF Vod!Slot
<1>6. f.ready = ses[s].ready
  BY <1>2 DEF Vod!Slot
<1>7. f.stopping = ses[s].stopping
  BY <1>2 DEF Vod!Slot
<1>8. ses' = [ses EXCEPT ![s] = f] /\ ses'[s] = f
  BY <1>1
<1>. HIDE DEF f
<1>9. ses' \in [Slots -> Vod!Slot] /\ OthersStay(s)
  BY <1>3, <1>8 DEF OthersStay
<1>10. ses[s].watch # "off" /\ UNCHANGED <<cur, reader, dir, req, stops, down>>
  BY DEF Vod!Exit
<1>. QED
  BY <1>4, <1>5, <1>6, <1>7, <1>8, <1>9, <1>10, ProcessEnds

(* The watcher that saw a crash ends, and begins to stop what its infohash *)
(* has.                                                                    *)
LEMMA WatchExitStep ==
    ASSUME VodInv, NEW s \in Slots, Vod!WatchExit(s) PROVE VodInv'
<1>. USE VodFacts
<1>0. ses[s].watch = "crashed" /\ UNCHANGED <<cur, reader, dir, req, down>>
  BY DEF Vod!WatchExit
<1>1. ses' \in [Slots -> Vod!Slot] /\ OthersStay(s)
      /\ ses'[s].st = ses[s].st /\ ses'[s].watch = "off" /\ ses'[s].ready = ses[s].ready
      /\ ses'[s].stopping = ses[s].stopping /\ ses'[s].run = ses[s].run
  <2>. DEFINE f == [ses[s] EXCEPT !.watch = "off"]
  <2>1. ses[s] \in Vod!Slot
    OBVIOUS
  <2>2. ses' = [ses EXCEPT ![s] = f]
    BY DEF Vod!WatchExit
  <2>3. f \in Vod!Slot
    BY <2>1 DEF Vod!Slot
  <2>4. f.ready = ses[s].ready
    BY <2>1 DEF Vod!Slot
  <2>5. f.st = ses[s].st /\ f.watch = "off"
    BY <2>1 DEF Vod!Slot
  <2>6. f.stopping = ses[s].stopping
    BY <2>1 DEF Vod!Slot
  <2>7. f.run = ses[s].run
    BY <2>1 DEF Vod!Slot
  <2>8. ses'[s] = f
    BY <2>2
  <2>. HIDE DEF f
  <2>9. ses' \in [Slots -> Vod!Slot] /\ OthersStay(s)
    BY <2>2, <2>3 DEF OthersStay
  <2>. QED
    BY <2>4, <2>5, <2>6, <2>7, <2>8, <2>9
<1>2. CASE UNCHANGED stops
  BY <1>0, <1>1, <1>2, ProcessEnds
<1>3. CASE Vod!StopPc(s, "take")
  <2>1. stops[s].pc = "off" /\ stops[s].slot = None
    BY <1>0 DEF StopsInv
  <2>2. StopIs(s, "take", None)
    BY <1>3, <2>1, StopGoes
  <2>3. \A z \in Slots : /\ ses'[z].st = ses[z].st /\ ses'[z].ready = ses[z].ready
                         /\ ses'[z].stopping = ses[z].stopping
                         /\ ses'[z].run = ses[z].run
                         /\ ses'[z].watch \in {"off", ses[z].watch}
    BY <1>1 DEF OthersStay
  <2>4. Vod!TypeOK'
    BY <1>0, <1>1, <2>2, <2>3 DEF StopIs, Vod!TypeOK, StopRecord
  <2>5. RequestsInv'
    <3>1. OneDecider'
      BY <1>0 DEF RequestsInv, OneDecider, Decides
    <3>2. ASSUME NEW q \in Requests PROVE RequestGood(q)'
      <4>1. RequestGood(q) /\ req[q].slot \in Slots \cup {None} /\ stops'[q] = stops[q]
        BY <2>2 DEF RequestsInv, RequestRecord, StopIs
      <4>2. req[q].pc \in Starting => req[q].slot \in Slots \ {s}
        BY <1>0, <4>1 DEF RequestGood, Starting
      <4>3. req[q].pc \in Starting => stops'[req[q].slot] = stops[req[q].slot]
        BY <2>2, <4>2 DEF StopIs
      <4>. QED
        BY <1>0, <2>3, <4>1, <4>2, <4>3 DEF RequestGood
    <3>. QED
      BY <3>1, <3>2 DEF RequestsInv
  <2>6. StopsInv'
    <3>1. ASSUME NEW z \in Slots, stops'[z].pc # "off" PROVE ses'[z].watch = "off"
      <4>1. CASE z = s
        BY <1>1, <4>1
      <4>2. CASE z # s
        BY <1>1, <2>2, <3>1, <4>2 DEF StopIs, OthersStay, StopsInv
      <4>. QED
        BY <4>1, <4>2
    <3>2. ASSUME NEW a \in Vod!Agents, stops'[a].pc = "clean" PROVE ses'[stops'[a].slot].stopping
      <4>1. a # s /\ stops'[a] = stops[a]
        BY <2>2, <3>2 DEF StopIs
      <4>2. stops[a].slot \in Slots
        BY <3>2, <4>1 DEF StopsInv, StopRecord
      <4>. QED
        BY <2>3, <3>2, <4>1, <4>2 DEF StopsInv
    <3>3. ASSUME NEW a \in Vod!Agents
          PROVE  stops'[a].slot = None <=> stops'[a].pc \in {"off", "take"}
      BY <2>2 DEF StopIs, StopsInv
    <3>4. ~down => stops'[Closer].pc = "off"
      BY <2>2 DEF StopIs, StopsInv
    <3>. QED
      BY <1>0, <3>1, <3>2, <3>3, <3>4 DEF StopsInv
  <2>7. \A z \in Slots : Vod!BeingStopped(z)' <=> Vod!BeingStopped(z)
    BY <2>1, <2>2 DEF StopIs, Vod!BeingStopped
  <2>8. LeftInv'
    <3>1. \A q \in Requests : stops'[q] = stops[q]
      BY <2>2 DEF StopIs
    <3>2. \A q \in Requests : req[q].pc # "off" => req[q].slot \in Slots
      BY DEF RequestsInv, RequestGood, RequestRecord
    <3>. QED
      BY <1>0, <2>3, <2>7, <3>1, <3>2 DEF LeftInv
  <2>9. Vod!OrphansWereStopped'
    BY <1>0, <2>3, <2>7 DEF Vod!OrphansWereStopped
  <2>10. KeptInv' /\ AnsweredInv'
    BY <1>0, <2>3 DEF KeptInv, AnsweredInv, Decided, Decides
  <2>. QED
    BY <2>4, <2>5, <2>6, <2>8, <2>9, <2>10 DEF VodInv
<1>. QED
  BY <1>2, <1>3 DEF Vod!WatchExit

(* Whoever asked for the Stop goes on; a request drops what it registered. *)
LEMMA AfterStop ==
    ASSUME VodInv, NEW a \in Vod!Agents, stops[a].pc # "off", Vod!After(a)
    PROVE  /\ req' \in [Requests -> RequestRecord]
           /\ \A q \in Requests : /\ q # a => req'[q] = req[q]
                                  /\ req'[q].slot = req[q].slot
                                  /\ q = a => req[q].pc = "stop" /\ req'[q].pc = "drop"
           /\ \A q \in Requests, s \in Slots : Decides(q, s)' <=> Decides(q, s)
<1>. USE VodFacts
<1>1. CASE a \in Requests
  <2>1. req[a].pc = "stop" /\ Vod!Goto(a, "drop")
    BY <1>1 DEF RequestsInv, RequestGood, Vod!After, Vod!Goto
  <2>2. RequestIs(a, "drop", req[a].slot)
    BY <1>1, <2>1, GotoRequest
  <2>. QED
    BY <2>1, <2>2 DEF RequestIs, Decides
<1>2. CASE a \notin Requests
  BY <1>2 DEF Vod!After, Decides
<1>. QED
  BY <1>1, <1>2

(* Take of an infohash without a session.                                  *)
LEMMA TakesNothing ==
    ASSUME VodInv, NEW a \in Vod!Agents, stops[a].pc = "take", cur = None,
           stops' = [stops EXCEPT ![a] = Vod!NoStop], Vod!After(a),
           cur' = None, reader' = FALSE, UNCHANGED <<dir, ses, down>>
    PROVE  VodInv'
<1>. USE VodFacts
<1>1. StopIs(a, "off", None) /\ stops[a].slot = None
  BY DEF StopIs, StopRecord, Vod!NoStop, StopsInv
<1>2. /\ req' \in [Requests -> RequestRecord]
      /\ \A q \in Requests : /\ q # a => req'[q] = req[q]
                             /\ req'[q].slot = req[q].slot
                             /\ q = a => req[q].pc = "stop" /\ req'[q].pc = "drop"
      /\ \A q \in Requests, s \in Slots : Decides(q, s)' <=> Decides(q, s)
  BY AfterStop
<1>3. Vod!TypeOK'
  BY <1>1, <1>2 DEF StopIs, Vod!TypeOK, RequestRecord, StopRecord
<1>4. \A b \in Vod!Agents : stops'[b].pc # "off" => b # a /\ stops'[b] = stops[b]
  BY <1>1 DEF StopIs
<1>5. RequestsInv'
  <2>1. OneDecider'
    BY <1>2 DEF RequestsInv, OneDecider
  <2>2. ASSUME NEW q \in Requests PROVE RequestGood(q)'
    <3>1. RequestGood(q) /\ req[q].slot \in Slots \cup {None}
      BY DEF RequestsInv, RequestRecord
    <3>2. req[q].pc \in Starting => stops'[req[q].slot].pc = "off"
      BY <1>4, <3>1 DEF RequestGood, Starting
    <3>3. CASE q = a
      BY <1>1, <1>2, <3>1, <3>3 DEF StopIs, RequestGood, Starting
    <3>4. CASE q # a
      BY <1>2, <1>4, <3>1, <3>2, <3>4 DEF RequestGood
    <3>. QED
      BY <3>3, <3>4
  <2>. QED
    BY <2>1, <2>2 DEF RequestsInv
<1>6. StopsInv'
  <2>1. ASSUME NEW b \in Vod!Agents
        PROVE  /\ (stops'[b].slot = None) <=> stops'[b].pc \in {"off", "take"}
               /\ stops'[b].pc = "clean" => ses[stops'[b].slot].stopping
    <3>1. CASE b = a
      BY <1>1, <3>1 DEF StopIs
    <3>2. CASE b # a
      BY <1>1, <3>2 DEF StopIs, StopsInv
    <3>. QED
      BY <3>1, <3>2
  <2>. QED
    BY <1>4, <2>1 DEF StopsInv
<1>7. \A z \in Slots : Vod!BeingStopped(z)' <=> Vod!BeingStopped(z)
  BY <1>1 DEF StopIs, Vod!BeingStopped
<1>8. LeftInv'
  <2>1. SUFFICES ASSUME NEW q \in Requests, req'[q].pc # "off"
                 PROVE  /\ req'[q].pc \in {"probe", "mkdir", "start"} =>
                              ses[req[q].slot].stopping \/ Vod!BeingStopped(req[q].slot)'
                        /\ req'[q].pc \in {"probe", "mkdir", "start"} => ~ses[req[q].slot].run
                        /\ cur' # req'[q].slot
    BY <1>2 DEF LeftInv
  <2>2. req[q].slot \in Slots
    BY <1>2, <2>1 DEF RequestsInv, RequestGood, RequestRecord
  <2>. QED
    BY <1>2, <1>7, <2>1, <2>2 DEF LeftInv
<1>9. Vod!OrphansWereStopped'
  BY <1>7 DEF Vod!OrphansWereStopped
<1>10. KeptInv'
  BY DEF KeptInv
<1>11. AnsweredInv'
  <2>1. \A q \in Requests : req'[q].pc = "await" => req'[q] = req[q]
    BY <1>2
  <2>. QED
    BY <1>2, <2>1 DEF AnsweredInv, Decided
<1>. QED
  BY <1>3, <1>5, <1>6, <1>8, <1>9, <1>10, <1>11 DEF VodInv

(* Take of the session in the map.                                         *)
LEMMA TakesSession ==
    ASSUME VodInv, NEW a \in Vod!Agents, stops[a].pc = "take", NEW s \in Slots, cur = s,
           stops' = [stops EXCEPT ![a] = [pc |-> "kill", slot |-> s]],
           cur' = None, reader' = FALSE, UNCHANGED <<dir, ses, req, down>>
    PROVE  VodInv'
<1>. USE VodFacts
<1>1. StopIs(a, "kill", s) /\ stops[a].slot = None
  BY DEF StopIs, StopRecord, StopsInv
<1>3. Vod!TypeOK'
  BY <1>1 DEF StopIs, Vod!TypeOK, RequestRecord, StopRecord
<1>4. \A b \in Vod!Agents : stops'[b].pc # "off" => stops[b].pc # "off"
  BY <1>1 DEF StopIs
<1>5. RequestsInv'
  <2>1. OneDecider'
    BY DEF RequestsInv, OneDecider, Decides
  <2>2. ASSUME NEW q \in Requests PROVE RequestGood(q)'
    <3>1. RequestGood(q) /\ req[q].slot \in Slots \cup {None}
      BY DEF RequestsInv, RequestRecord
    <3>2. req[q].pc \in Starting => stops'[req[q].slot].pc = "off"
      <4>1. SUFFICES ASSUME req[q].pc \in Starting PROVE stops'[req[q].slot].pc = "off"
        OBVIOUS
      <4>2. req[q].slot \in Slots /\ stops[req[q].slot].pc = "off"
        BY <3>1, <4>1 DEF RequestGood, Starting
      <4>. QED
        BY <1>4, <4>2
    <3>. QED
      BY <1>4, <3>1, <3>2 DEF RequestGood
  <2>. QED
    BY <2>1, <2>2 DEF RequestsInv
<1>6. StopsInv'
  <2>1. ASSUME NEW b \in Vod!Agents
        PROVE  /\ (stops'[b].slot = None) <=> stops'[b].pc \in {"off", "take"}
               /\ stops'[b].pc = "clean" => ses[stops'[b].slot].stopping
    <3>1. CASE b = a
      BY <1>1, <3>1 DEF StopIs
    <3>2. CASE b # a
      BY <1>1, <3>2 DEF StopIs, StopsInv
    <3>. QED
      BY <3>1, <3>2
  <2>2. ASSUME NEW z \in Slots, stops'[z].pc # "off" PROVE ses[z].watch = "off"
    BY <1>4, <2>2 DEF StopsInv
  <2>3. ~down => stops'[Closer].pc = "off"
    <3>1. SUFFICES ASSUME ~down PROVE stops'[Closer].pc = "off"
      OBVIOUS
    <3>2. stops[Closer].pc = "off"
      BY <3>1 DEF StopsInv
    <3>. QED
      BY <1>4, <3>2
  <2>. QED
    BY <2>1, <2>2, <2>3 DEF StopsInv
<1>7. \A z \in Slots : Vod!BeingStopped(z)' <=> (Vod!BeingStopped(z) \/ z = s)
  BY <1>1 DEF StopIs, Vod!BeingStopped
<1>8. LeftInv'
  <2>1. SUFFICES ASSUME NEW q \in Requests, req[q].pc # "off"
                 PROVE  /\ req[q].pc \in {"probe", "mkdir", "start"} =>
                              ses[req[q].slot].stopping \/ Vod!BeingStopped(req[q].slot)'
                        /\ req[q].pc \in {"probe", "mkdir", "start"} => ~ses[req[q].slot].run
                        /\ cur' # req[q].slot
    BY DEF LeftInv
  <2>2. req[q].slot \in Slots
    BY <2>1 DEF RequestsInv, RequestGood, RequestRecord
  <2>. QED
    BY <1>7, <2>1, <2>2 DEF LeftInv
<1>9. Vod!OrphansWereStopped'
  BY <1>7 DEF Vod!OrphansWereStopped
<1>10. KeptInv'
  BY DEF KeptInv
<1>11. AnsweredInv'
  BY DEF AnsweredInv, Decided, Decides
<1>. QED
  BY <1>3, <1>5, <1>6, <1>8, <1>9, <1>10, <1>11 DEF VodInv

LEMMA KillStep ==
    ASSUME VodInv, NEW a \in Vod!Agents, Vod!Kill(a) PROVE VodInv'
<1>. USE VodFacts
<1>0. stops[a].pc = "kill" /\ UNCHANGED <<cur, reader, dir, req, down>>
  BY DEF Vod!Kill
<1>1. PICK s \in Slots : s = stops[a].slot
  BY <1>0 DEF StopsInv, StopRecord
<1>2. StopIs(a, "clean", s)
  BY <1>1, StopGoes DEF Vod!Kill
<1>3. PICK f : /\ f \in Vod!Slot /\ ses' = [ses EXCEPT ![s] = f]
               /\ f.st = ses[s].st /\ f.ready = ses[s].ready /\ f.stopping
               /\ (f.run => ses[s].run) /\ f.watch \in {"off", ses[s].watch}
  <2>0. ses[s] \in Vod!Slot
    OBVIOUS
  <2>1. CASE ses[s].st = "filled"
    <3>. DEFINE w == IF ses[s].watch = "on" THEN "off" ELSE ses[s].watch
                g == [ses[s] EXCEPT !.stopping = TRUE, !.run = FALSE, !.watch = w]
    <3>1. ses' = [ses EXCEPT ![s] = g]
      BY <1>1, <2>1 DEF Vod!Kill
    <3>2. w \in {"off", ses[s].watch} /\ w \in {"off", "on", "crashed"}
      BY <2>0 DEF Vod!Slot
    <3>. HIDE DEF w
    <3>3. g \in Vod!Slot
      BY <2>0, <3>2 DEF Vod!Slot
    <3>4. g.st = ses[s].st
      BY <2>0 DEF Vod!Slot
    <3>5. g.ready = ses[s].ready
      BY <2>0 DEF Vod!Slot
    <3>6. g.stopping /\ ~g.run /\ g.watch = w
      BY <2>0 DEF Vod!Slot
    <3>. HIDE DEF g
    <3>. QED
      BY <3>1, <3>2, <3>3, <3>4, <3>5, <3>6
  <2>2. CASE ses[s].st # "filled"
    <3>. DEFINE g == [ses[s] EXCEPT !.stopping = TRUE]
    <3>1. ses' = [ses EXCEPT ![s] = g]
      BY <1>1, <2>2 DEF Vod!Kill
    <3>3. g \in Vod!Slot
      BY <2>0 DEF Vod!Slot
    <3>4. g.st = ses[s].st
      BY <2>0 DEF Vod!Slot
    <3>5. g.ready = ses[s].ready
      BY <2>0 DEF Vod!Slot
    <3>6. g.stopping /\ g.watch = ses[s].watch
      BY <2>0 DEF Vod!Slot
    <3>7. g.run = ses[s].run
      BY <2>0 DEF Vod!Slot
    <3>. HIDE DEF g
    <3>. QED
      BY <3>1, <3>3, <3>4, <3>5, <3>6, <3>7
  <2>. QED
    BY <2>1, <2>2
<1>4. ses' \in [Slots -> Vod!Slot] /\ OthersStay(s) /\ ses'[s] = f
  BY <1>3 DEF OthersStay
<1>5. \A z \in Slots : /\ ses'[z].st = ses[z].st /\ ses'[z].ready = ses[z].ready
                       /\ ses[z].stopping => ses'[z].stopping
                       /\ ses'[z].run => ses[z].run
                       /\ ses'[z].watch \in {"off", ses[z].watch}
  BY <1>3, <1>4 DEF OthersStay
<1>6. Vod!TypeOK'
  BY <1>0, <1>2, <1>4, <1>5 DEF StopIs, Vod!TypeOK, StopRecord
<1>7. \A b \in Vod!Agents : stops'[b].pc # "off" => stops[b].pc # "off"
  BY <1>0, <1>2 DEF StopIs
<1>8. RequestsInv'
  <2>1. OneDecider'
    BY <1>0 DEF RequestsInv, OneDecider, Decides
  <2>2. ASSUME NEW q \in Requests PROVE RequestGood(q)'
    <3>1. RequestGood(q) /\ req[q].slot \in Slots \cup {None}
      BY DEF RequestsInv, RequestRecord
    <3>2. req[q].pc \in Starting => req[q].slot \in Slots /\ stops'[req[q].slot].pc = "off"
      <4>1. SUFFICES ASSUME req[q].pc \in Starting
                     PROVE  req[q].slot \in Slots /\ stops'[req[q].slot].pc = "off"
        OBVIOUS
      <4>2. req[q].slot \in Slots /\ stops[req[q].slot].pc = "off"
        BY <3>1, <4>1 DEF RequestGood, Starting
      <4>. QED
        BY <1>7, <4>2
    <3>. QED
      BY <1>0, <1>5, <1>7, <3>1, <3>2 DEF RequestGood
  <2>. QED
    BY <2>1, <2>2 DEF RequestsInv
<1>9. StopsInv'
  <2>1. ASSUME NEW b \in Vod!Agents
        PROVE  /\ (stops'[b].slot = None) <=> stops'[b].pc \in {"off", "take"}
               /\ stops'[b].pc = "clean" => ses'[stops'[b].slot].stopping
    <3>1. CASE b = a
      BY <1>2, <1>3, <1>4, <3>1 DEF StopIs
    <3>2. CASE b # a
      BY <1>2, <1>5, <3>2 DEF StopIs, StopsInv, StopRecord
    <3>. QED
      BY <3>1, <3>2
  <2>2. ASSUME NEW z \in Slots, stops'[z].pc # "off" PROVE ses'[z].watch = "off"
    BY <1>5, <1>7, <2>2 DEF StopsInv
  <2>3. ~down => stops'[Closer].pc = "off"
    BY <1>7 DEF StopsInv
  <2>. QED
    BY <1>0, <2>1, <2>2, <2>3 DEF StopsInv
<1>10. \A z \in Slots : Vod!BeingStopped(z)' <=> Vod!BeingStopped(z)
  BY <1>1, <1>2 DEF StopIs, Vod!BeingStopped
<1>11. LeftInv'
  <2>1. SUFFICES ASSUME NEW q \in Requests, req[q].pc # "off"
                 PROVE  /\ req[q].pc \in {"probe", "mkdir", "start"} /\ cur # req[q].slot =>
                              ses'[req[q].slot].stopping \/ Vod!BeingStopped(req[q].slot)'
                        /\ req[q].pc \in {"probe", "mkdir", "start"} => ~ses'[req[q].slot].run
                        /\ req[q].pc = "drop" /\ cur = req[q].slot => ~ses'[req[q].slot].run
                        /\ req[q].pc = "stop" /\ stops'[q].pc \in {"kill", "clean"} =>
                              cur # req[q].slot
    BY <1>0 DEF LeftInv
  <2>2. req[q].slot \in Slots
    BY <2>1 DEF RequestsInv, RequestGood, RequestRecord
  <2>3. stops'[q].pc \in {"kill", "clean"} => stops[q].pc \in {"kill", "clean"}
    BY <1>0, <1>2 DEF StopIs
  <2>. QED
    BY <1>0, <1>5, <1>10, <2>1, <2>2, <2>3 DEF LeftInv
<1>12. Vod!OrphansWereStopped'
  BY <1>0, <1>5, <1>10 DEF Vod!OrphansWereStopped
<1>13. KeptInv' /\ AnsweredInv'
  BY <1>0, <1>5 DEF KeptInv, AnsweredInv, Decided, Decides
<1>. QED
  BY <1>6, <1>8, <1>9, <1>11, <1>12, <1>13 DEF VodInv

LEMMA CleanStep ==
    ASSUME VodInv, NEW a \in Vod!Agents, Vod!Clean(a) PROVE VodInv'
<1>. USE VodFacts
<1>0. stops[a].pc = "clean" /\ UNCHANGED <<cur, reader, ses, down>>
      /\ stops' = [stops EXCEPT ![a] = Vod!NoStop] /\ dir' \in {"none", dir} /\ Vod!After(a)
  BY DEF Vod!Clean
<1>1. StopIs(a, "off", None)
  BY <1>0 DEF StopIs, StopRecord, Vod!NoStop
<1>s. PICK s \in Slots : s = stops[a].slot /\ ses[s].stopping
  BY <1>0 DEF StopsInv, StopRecord
<1>2. /\ req' \in [Requests -> RequestRecord]
      /\ \A q \in Requests : /\ q # a => req'[q] = req[q]
                             /\ req'[q].slot = req[q].slot
                             /\ q = a => req[q].pc = "stop" /\ req'[q].pc = "drop"
      /\ \A q \in Requests, z \in Slots : Decides(q, z)' <=> Decides(q, z)
  BY <1>0, AfterStop
<1>3. Vod!TypeOK'
  BY <1>0, <1>1, <1>2 DEF StopIs, Vod!TypeOK, RequestRecord, StopRecord
<1>4. \A b \in Vod!Agents : stops'[b].pc # "off" => b # a /\ stops'[b] = stops[b]
  BY <1>1 DEF StopIs
<1>5. RequestsInv'
  <2>1. OneDecider'
    BY <1>2 DEF RequestsInv, OneDecider
  <2>2. ASSUME NEW q \in Requests PROVE RequestGood(q)'
    <3>1. RequestGood(q) /\ req[q].slot \in Slots \cup {None}
      BY DEF RequestsInv, RequestRecord
    <3>2. req[q].pc \in Starting => stops'[req[q].slot].pc = "off"
      BY <1>4, <3>1 DEF RequestGood, Starting
    <3>3. CASE q = a
      BY <1>0, <1>1, <1>2, <3>1, <3>3 DEF StopIs, RequestGood, Starting
    <3>4. CASE q # a
      BY <1>0, <1>2, <1>4, <3>1, <3>2, <3>4 DEF RequestGood
    <3>. QED
      BY <3>3, <3>4
  <2>. QED
    BY <2>1, <2>2 DEF RequestsInv
<1>6. StopsInv'
  <2>1. ASSUME NEW b \in Vod!Agents
        PROVE  /\ (stops'[b].slot = None) <=> stops'[b].pc \in {"off", "take"}
               /\ stops'[b].pc = "clean" => ses[stops'[b].slot].stopping
    <3>1. CASE b = a
      BY <1>1, <3>1 DEF StopIs
    <3>2. CASE b # a
      BY <1>1, <3>2 DEF StopIs, StopsInv
    <3>. QED
      BY <3>1, <3>2
  <2>. QED
    BY <1>0, <1>4, <2>1 DEF StopsInv
<1>7. \A z \in Slots : Vod!BeingStopped(z) => Vod!BeingStopped(z)' \/ ses[z].stopping
  BY <1>s, <1>1 DEF StopIs, Vod!BeingStopped
<1>8. LeftInv'
  <2>1. SUFFICES ASSUME NEW q \in Requests, req'[q].pc # "off"
                 PROVE  /\ req'[q].pc \in {"probe", "mkdir", "start"} /\ cur # req[q].slot =>
                              ses[req[q].slot].stopping \/ Vod!BeingStopped(req[q].slot)'
                        /\ req'[q].pc \in {"probe", "mkdir", "start"} => ~ses[req[q].slot].run
                        /\ req'[q].pc = "drop" /\ cur = req[q].slot => ~ses[req[q].slot].run
                        /\ req'[q].pc = "stop" /\ stops'[q].pc \in {"kill", "clean"} =>
                              cur # req[q].slot
    BY <1>0, <1>2 DEF LeftInv
  <2>2. req[q].slot \in Slots
    BY <1>2, <2>1 DEF RequestsInv, RequestGood, RequestRecord
  <2>3. CASE q = a
    BY <1>0, <1>2, <2>2, <2>3 DEF LeftInv
  <2>4. CASE q # a
    BY <1>2, <1>4, <1>7, <2>2, <2>4 DEF LeftInv
  <2>. QED
    BY <2>3, <2>4
<1>9. Vod!OrphansWereStopped'
  BY <1>0, <1>7 DEF Vod!OrphansWereStopped
<1>10. KeptInv'
  BY <1>0, <1>2 DEF KeptInv, Decided
<1>11. AnsweredInv'
  <2>1. \A q \in Requests : req'[q].pc = "await" => req'[q] = req[q]
    BY <1>2
  <2>. QED
    BY <1>0, <1>2, <2>1 DEF AnsweredInv, Decided
<1>. QED
  BY <1>3, <1>5, <1>6, <1>8, <1>9, <1>10, <1>11 DEF VodInv

(* The reaper and Shutdown begin a Stop.                                   *)
LEMMA StopBegins ==
    ASSUME VodInv, NEW a \in {Reaper, Closer}, stops[a].pc = "off",
           Vod!StopPc(a, "take") \/ UNCHANGED stops, down' \in BOOLEAN, down => down',
           a = Closer => down',
           UNCHANGED <<cur, reader, dir, ses, req>>
    PROVE  VodInv'
<1>. USE VodFacts
<1>1. CASE UNCHANGED stops
  BY <1>1 DEF VodInv, Vod!TypeOK, RequestsInv, OneDecider, RequestGood, Decides, Starting, StopsInv,
              LeftInv, Vod!BeingStopped, Vod!OrphansWereStopped, KeptInv, AnsweredInv, Decided
<1>2. CASE Vod!StopPc(a, "take")
  <2>1. StopIs(a, "take", None) /\ stops[a].slot = None
    BY <1>2, StopGoes DEF StopsInv
  <2>2. \A q \in Requests : stops'[q] = stops[q]
    BY <2>1 DEF StopIs
  <2>3. \A s \in Slots : stops'[s] = stops[s]
    BY <2>1 DEF StopIs
  <2>4. Vod!TypeOK'
    BY <2>1 DEF StopIs, Vod!TypeOK, StopRecord
  <2>5. RequestsInv'
    <3>1. OneDecider'
      BY DEF RequestsInv, OneDecider, Decides
    <3>2. ASSUME NEW q \in Requests PROVE RequestGood(q)'
      <4>1. RequestGood(q) /\ req[q].slot \in Slots \cup {None}
        BY DEF RequestsInv, RequestRecord
      <4>2. req[q].pc \in Starting => req[q].slot \in Slots
        BY <4>1 DEF RequestGood, Starting
      <4>. QED
        BY <2>2, <2>3, <4>1, <4>2 DEF RequestGood
    <3>. QED
      BY <3>1, <3>2 DEF RequestsInv
  <2>6. StopsInv'
    <3>1. ASSUME NEW b \in Vod!Agents
          PROVE  /\ (stops'[b].slot = None) <=> stops'[b].pc \in {"off", "take"}
                 /\ stops'[b].pc = "clean" => ses[stops'[b].slot].stopping
      <4>1. CASE b = a
        BY <2>1, <4>1 DEF StopIs
      <4>2. CASE b # a
        BY <2>1, <4>2 DEF StopIs, StopsInv
      <4>. QED
        BY <4>1, <4>2
    <3>2. ~down' => stops'[Closer].pc = "off"
      BY <2>1 DEF StopIs, StopsInv
    <3>. QED
      BY <2>3, <3>1, <3>2 DEF StopsInv
  <2>7. \A z \in Slots : Vod!BeingStopped(z)' <=> Vod!BeingStopped(z)
    BY <2>1 DEF StopIs, Vod!BeingStopped
  <2>8. LeftInv'
    <3>1. \A q \in Requests : req[q].pc # "off" => req[q].slot \in Slots
      BY DEF RequestsInv, RequestGood, RequestRecord
    <3>. QED
      BY <2>2, <2>7, <3>1 DEF LeftInv
  <2>9. Vod!OrphansWereStopped'
    BY <2>7 DEF Vod!OrphansWereStopped
  <2>10. KeptInv' /\ AnsweredInv'
    BY DEF KeptInv, AnsweredInv, Decided, Decides
  <2>. QED
    BY <2>4, <2>5, <2>6, <2>8, <2>9, <2>10 DEF VodInv
<1>. QED
  BY <1>1, <1>2

LEMMA VodInit == Vod!Init => VodInv
<1>. SUFFICES ASSUME Vod!Init PROVE VodInv
  OBVIOUS
<1>. USE ServicesAssumption DEF Vod!Init
<1>1. Vod!TypeOK
  BY DEF Vod!TypeOK, Vod!Slot, Vod!FreeSlot, Vod!NoRequest, Vod!NoStop
<1>2. /\ \A r \in Requests : req[r].pc = "off" /\ req[r].slot = None
      /\ \A a \in Vod!Agents : stops[a].pc = "off" /\ stops[a].slot = None
      /\ \A s \in Slots : ~ses[s].run /\ ses[s].watch = "off"
      /\ Requests \subseteq Vod!Agents /\ Slots \subseteq Vod!Agents /\ Closer \in Vod!Agents
  BY DEF Vod!NoRequest, Vod!NoStop, Vod!FreeSlot, Vod!Agents
<1>. QED
  BY <1>1, <1>2 DEF VodInv, RequestsInv, OneDecider, RequestGood, Decides, Starting, StopsInv,
              LeftInv, Vod!OrphansWereStopped, KeptInv, AnsweredInv

LEMMA RequestSteps ==
    ASSUME VodInv, NEW r \in Requests, Vod!RequestStep(r) PROVE VodInv'
<1>. USE VodFacts
<1>1. CASE Vod!Await(r)
  BY <1>1, WaitEnds DEF Vod!Await
<1>2. CASE Vod!Probe(r)
  BY <1>2, DecisionGoes DEF Vod!Probe, Vod!TypeOK
<1>3. CASE Vod!Mkdir(r)
  BY <1>3, DecisionGoes DEF Vod!Mkdir
<1>4. CASE Vod!StartFFmpeg(r)
  <2>1. CASE dir' = "none" /\ Vod!Goto(r, "drop") /\ UNCHANGED ses
    BY <1>4, <2>1, DecisionGoes DEF Vod!StartFFmpeg
  <2>2. CASE ses' = [ses EXCEPT ![Vod!Own(r)].run = TRUE] /\ Vod!Goto(r, "fill") /\ UNCHANGED dir
    BY <1>4, <2>2, FFmpegStarts DEF Vod!StartFFmpeg, Vod!Own
  <2>. QED
    BY <1>4, <2>1, <2>2 DEF Vod!StartFFmpeg
<1>5. CASE Vod!FirstSegment(r)
  BY <1>5, DecisionGoes DEF Vod!FirstSegment, Vod!TypeOK
<1>. QED
  BY <1>1, <1>2, <1>3, <1>4, <1>5, FillStep, NoSegmentStep, PublishStep DEF Vod!RequestStep

LEMMA PrepareStep ==
    ASSUME VodInv, NEW r \in Requests, Vod!Prepare(r) PROVE VodInv'
<1>1. CASE Vod!Joinable
  BY <1>1, JoinsSlot DEF Vod!Prepare, Vod!Joinable
<1>2. CASE ~Vod!Joinable
  <2>1. PICK s \in Slots : ~Vod!Referred(s) /\ cur' = s
    BY <1>2 DEF Vod!Prepare, Vod!UnusedSlots
  <2>. QED
    BY <1>2, <2>1, RegistersPlaceholder DEF Vod!Prepare, Vod!Joinable
<1>. QED
  BY <1>1, <1>2

LEMMA TakeStep ==
    ASSUME VodInv, NEW a \in Vod!Agents, Vod!Take(a) PROVE VodInv'
<1>1. CASE cur = None
  BY <1>1, TakesNothing DEF Vod!Take
<1>2. CASE cur # None
  BY <1>2, TakesSession, VodFacts DEF Vod!Take
<1>. QED
  BY <1>1, <1>2

LEMMA VodStep ==
    ASSUME VodInv, [Vod!Next]_(Vod!vodVars) PROVE VodInv'
<1>. USE VodFacts
<1>1. ASSUME NEW r \in Requests, Vod!LeaveAwait(r) PROVE VodInv'
  BY <1>1, WaitEnds DEF Vod!LeaveAwait
<1>2. CASE Vod!ReapIdle
  BY <1>2, StopBegins DEF Vod!ReapIdle, Vod!TypeOK
<1>3. CASE Vod!Shutdown
  BY <1>3, StopBegins DEF Vod!Shutdown, StopsInv
<1>4. CASE UNCHANGED Vod!vodVars
  BY <1>4 DEF Vod!vodVars, VodInv, Vod!TypeOK, RequestsInv, OneDecider, RequestGood, Decides,
              Starting, StopsInv, LeftInv, Vod!BeingStopped, Vod!OrphansWereStopped, KeptInv,
              AnsweredInv, Decided
<1>5. ASSUME NEW a \in Vod!Agents, Vod!StopStep(a) PROVE VodInv'
  BY <1>5, TakeStep, KillStep, CleanStep DEF Vod!StopStep
<1>6. ASSUME NEW r \in Requests, Vod!Prepare(r) \/ Vod!RequestStep(r) \/ Vod!LeaveAwait(r)
      PROVE  VodInv'
  BY <1>1, <1>6, PrepareStep, RequestSteps
<1>7. ASSUME NEW s \in Slots, Vod!Segment(s) \/ Vod!Exit(s) \/ Vod!WatchExit(s) PROVE VodInv'
  BY <1>7, SegmentWritten, ExitStep, WatchExitStep
<1>. QED
  BY <1>2, <1>3, <1>4, <1>5, <1>6, <1>7 DEF Vod!Next

LEMMA VodHolds == Vod!Spec => []VodInv
<1>1. VodInv /\ [Vod!Next]_(Vod!vodVars) => VodInv'
  BY VodStep
<1>. QED
  BY VodInit, <1>1, PTL DEF Vod!Spec

(* Prepare and Stop of a torrent's transcoder: an ffmpeg that left the map *)
(* is being stopped, or its session was stopped while it was a placeholder *)
(* without a process to kill; the session in the map is being decided or   *)
(* was kept; and whoever waits for one has an answer or somebody who will  *)
(* give it, on every path of finish, Stop and Shutdown.                    *)
THEOREM PlaysCorrect == Vod!Spec => []PlaysSafe
<1>1. VodInv => PlaysSafe
  BY VodSafety DEF PlaysSafe
<1>. QED
  BY <1>1, VodHolds, PTL

-----------------------------------------------------------------------------
(* The services together.  A step of ServicesNext is a step of one part    *)
(* and a stutter of the others, so its behaviours are behaviours of each.  *)
LEMMA ServicesParts ==
    ASSUME [ServicesNext]_vars
    PROVE  /\ [Torrent!Next]_(Torrent!torrentVars)
           /\ [Vod!Next]_(Vod!vodVars)
           /\ [Upload!Next]_(Upload!uploadVars)
           /\ [Watcher!Next]_(Watcher!watcherVars)
           /\ [Scanner!Next]_(Scanner!scanVars)
           /\ [Next]_refreshVars
           /\ [PreviewsNext]_trickplayVars
           /\ focus' = focus
<1>. USE DEF vars, torrentVars, vodVars, uploadVars, watcherVars, scanVars, Torrent!torrentVars,
             Vod!vodVars, Upload!uploadVars, Watcher!watcherVars, Scanner!scanVars
<1>1. CASE UNCHANGED vars
  BY <1>1
<1>2. CASE ServicesNext
  BY <1>2 DEF ServicesNext
<1>. QED
  BY <1>1, <1>2

LEMMA ServiceInFocus == ServicesSpec => [](focus \in Parts)
<1>1. ServicesInit => focus \in Parts
  BY DEF ServicesInit
<1>2. focus \in Parts /\ [ServicesNext]_vars => (focus \in Parts)'
  BY ServicesParts
<1>. QED
  BY <1>1, <1>2, PTL DEF ServicesSpec

LEMMA ServicesComponents ==
    ServicesSpec => /\ Torrent!Spec /\ Vod!Spec /\ Upload!Spec /\ Watcher!Spec /\ Scanner!Spec
                    /\ Spec /\ PreviewsSpec
<1>1. ServicesInit => /\ Torrent!Init /\ Vod!Init /\ Upload!Init /\ Watcher!Init /\ Scanner!Init
                      /\ Init /\ PreviewsInit
  BY DEF ServicesInit
<1>2. [ServicesNext]_vars => /\ [Torrent!Next]_(Torrent!torrentVars)
                             /\ [Vod!Next]_(Vod!vodVars)
                             /\ [Upload!Next]_(Upload!uploadVars)
                             /\ [Watcher!Next]_(Watcher!watcherVars)
                             /\ [Scanner!Next]_(Scanner!scanVars)
                             /\ [Next]_refreshVars
                             /\ [PreviewsNext]_trickplayVars
  BY ServicesParts
<1>. QED
  BY <1>1, <1>2, PTL DEF ServicesSpec, Torrent!Spec, Vod!Spec, Upload!Spec, Watcher!Spec,
                         Scanner!Spec, Spec, PreviewsSpec

(* The types of the state of the seven services, along any behaviour of the  *)
(* composition: each from its own inductive invariant.                     *)
THEOREM ServicesTyped == ServicesSpec => []ServicesTypeOK
<1>1. TorrentInv => Torrent!TypeOK
  BY TorrentSafety
<1>2. VodInv => Vod!TypeOK
  BY DEF VodInv
<1>3. UploadInv => Upload!TypeOK
  BY DEF UploadInv, Upload!TypeOK
<1>4. (TreeInv => Watcher!TypeOK) /\ (ScannerInv => Scanner!TypeOK)
  BY DEF TreeInv, ScannerInv
<1>5. /\ focus \in Parts
      /\ TorrentInv /\ VodInv /\ UploadInv /\ TreeInv /\ ScannerInv /\ TypeOK
      /\ PreviewsTypeOK
      => ServicesTypeOK
  BY <1>1, <1>2, <1>3, <1>4, ServicesAssumption DEF ServicesTypeOK
<1>. QED
  BY <1>5, ServiceInFocus, ServicesComponents, TorrentHolds, VodHolds, UploadHolds,
     TreeHolds, ScannerHolds, RefreshTyped, PreviewsTyped, PTL

(* What the services run checks of each service, for all of them at once   *)
(* and every value of the constants: the torrent manager's sessions, cap   *)
(* and scratch files, the transcoder's map, the account of the quota and   *)
(* the library's files, the watcher's tree and the scan, the guide's       *)
(* refreshes, and the previews.                                            *)
THEOREM ServicesCorrect ==
    ServicesSpec => /\ []TorrentsSafe /\ []PlaysSafe /\ []QuotaExact /\ []CopyNeverOverwrites
                    /\ []DirsCovered /\ ScanCatchesUp /\ []RefreshSafe /\ []PreviewsSafe
BY ServicesComponents, TorrentsCorrect, PlaysCorrect, AccountIsExact, CopiesKeep, WatchesCover,
   ScanIsFaithful, RefreshSafety, PreviewsSafety, PTL
=============================================================================
