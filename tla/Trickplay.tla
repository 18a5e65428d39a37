------------------------------ MODULE Trickplay ------------------------------
(***************************************************************************)
(* Preview sprites of the seek bar (handlers/media/item_trickplay_handler, *)
(* imaging/trickplay.go).  A request that finds no current sprite starts   *)
(* ffmpeg in the background and is told to come back; the files of an item *)
(* are its sprite, a manifest with the version of the generator, and a     *)
(* marker left by a failure.  They outlive the process, which may be a     *)
(* newer version after a restart.                                          *)
(***************************************************************************)
EXTENDS Naturals, FiniteSets

CONSTANTS
    Items,
    Viewers,       \* requests at a time
    GenSlots       \* capacity of genSlots

VARIABLES
    sprite,        \* item -> sprite.png; "partial" while ffmpeg writes it
    manifest,      \* item -> manifest.json
    marker,        \* item -> failed.marker; "old" past trickplayFailedTTL
    lock,          \* items whose mutex is held
    making,        \* item -> progress of its generation
    viewer         \* request -> item and progress

trickplayVars == <<sprite, manifest, marker, lock, making, viewer>>

GenStates == {"off", "queued", "ffmpeg", "manifest", "failing", "unlock"}
NoItem == "none"
IdleViewer == [item |-> NoItem, pc |-> "idle"]

SlotHolders == {i \in Items : making[i] \notin {"off", "queued"}}

PreviewsTypeOK ==
    /\ sprite \in [Items -> {"none", "partial", "whole"}]
    /\ manifest \in [Items -> {"none", "old", "current"}]
    /\ marker \in [Items -> {"none", "recent", "old"}]
    /\ lock \subseteq Items
    /\ making \in [Items -> GenStates]
    /\ viewer \in [Viewers -> {IdleViewer} \cup [item : Items, pc : {"looked", "locked"}]]
    /\ Cardinality(SlotHolders) <= GenSlots

PreviewsInit ==
    /\ sprite = [i \in Items |-> "none"]
    /\ manifest = [i \in Items |-> "none"]
    /\ marker = [i \in Items |-> "none"]
    /\ lock = {}
    /\ making = [i \in Items |-> "off"]
    /\ viewer = [v \in Viewers |-> IdleViewer]

(* trickplayCacheFresh: there is a sprite, and the manifest says current.  *)
Fresh(i) == sprite[i] # "none" /\ manifest[i] = "current"

(* A request is between TryLock and the second look.                       *)
Holds(v, i) == viewer[v].pc = "locked" /\ viewer[v].item = i

-----------------------------------------------------------------------------
(* ensureTrickplay looks at the files ...                                  *)
Look(v, i) ==
    /\ viewer[v] = IdleViewer
    /\ ~Fresh(i) /\ marker[i] # "recent"
    /\ viewer' = [viewer EXCEPT ![v] = [item |-> i, pc |-> "looked"]]
    /\ UNCHANGED <<sprite, manifest, marker, lock, making>>

(* ... tries the item's lock, or answers that one is on its way ...        *)
Try(v) ==
    LET i == viewer[v].item IN
    /\ viewer[v].pc = "looked"
    /\ IF i \in lock
       THEN viewer' = [viewer EXCEPT ![v] = IdleViewer] /\ UNCHANGED lock
       ELSE /\ lock' = lock \cup {i}
            /\ viewer' = [viewer EXCEPT ![v].pc = "locked"]
    /\ UNCHANGED <<sprite, manifest, marker, making>>

(* Variant with a bug: what was seen before the lock is trusted under it.  *)
NoSecondLook(i) == FALSE

FreshNow(i) == Fresh(i)

GiveBack(i) == lock \ {i}

(* ... and looks again under the lock, which the generation then owns.  It *)
(* gives the lock back when the files are fresh by now, or the item has no *)
(* file to make them of.                                                   *)
Recheck(v) ==
    LET i == viewer[v].item IN
    /\ viewer[v].pc = "locked"
    /\ viewer' = [viewer EXCEPT ![v] = IdleViewer]
    /\ \/ lock' = GiveBack(i) /\ UNCHANGED making
       \/ ~FreshNow(i) /\ making' = [making EXCEPT ![i] = "queued"] /\ UNCHANGED lock
    /\ UNCHANGED <<sprite, manifest, marker>>

-----------------------------------------------------------------------------
Becomes(i, pc) == making' = [making EXCEPT ![i] = pc]

(* A slot, and ffmpeg starts to overwrite the sprite.                      *)
Generate(i) ==
    /\ making[i] = "queued"
    /\ Cardinality(SlotHolders) < GenSlots
    /\ Becomes(i, "ffmpeg")
    /\ sprite' = [sprite EXCEPT ![i] = "partial"]
    /\ UNCHANGED <<manifest, marker, lock, viewer>>

(* ffmpeg is done; or it fails or runs out of time and the sprite goes.    *)
FFmpegEnds(i) ==
    /\ making[i] = "ffmpeg"
    /\ \/ Becomes(i, "manifest") /\ sprite' = [sprite EXCEPT ![i] = "whole"]
       \/ Becomes(i, "failing") /\ sprite' = [sprite EXCEPT ![i] = "none"]
    /\ UNCHANGED <<manifest, marker, lock, viewer>>

(* The manifest replaces the old one at once; then the marker goes.        *)
WriteManifest(i) ==
    /\ making[i] = "manifest"
    /\ \/ Becomes(i, "unlock") /\ manifest' = [manifest EXCEPT ![i] = "current"]
       \/ Becomes(i, "failing") /\ UNCHANGED manifest
    /\ UNCHANGED <<sprite, marker, lock, viewer>>

MarkFailed(i) ==
    /\ making[i] = "failing"
    /\ Becomes(i, "off") /\ lock' = lock \ {i}
    /\ \E m \in {"recent", marker[i]} : marker' = [marker EXCEPT ![i] = m]
    /\ UNCHANGED <<sprite, manifest, viewer>>

(* The lock is given back by the last of the deferred calls.               *)
Unlock(i) ==
    /\ making[i] = "unlock"
    /\ Becomes(i, "off") /\ lock' = lock \ {i}
    /\ marker' = [marker EXCEPT ![i] = "none"]
    /\ UNCHANGED <<sprite, manifest, viewer>>

-----------------------------------------------------------------------------
MarkerExpires(i) ==
    /\ marker[i] = "recent"
    /\ marker' = [marker EXCEPT ![i] = "old"]
    /\ UNCHANGED <<sprite, manifest, lock, making, viewer>>

(* Locks, goroutines and ffmpeg end with the process, or its container;    *)
(* the files stay as they are.                                             *)
Restart ==
    /\ lock' = {}
    /\ making' = [i \in Items |-> "off"]
    /\ viewer' = [v \in Viewers |-> IdleViewer]
    /\ UNCHANGED <<sprite, manifest, marker>>

(* The next version has a higher TrickplayManifestVersion.                 *)
Upgrade ==
    /\ lock' = {}
    /\ making' = [i \in Items |-> "off"]
    /\ viewer' = [v \in Viewers |-> IdleViewer]
    /\ manifest' = [i \in Items |-> IF manifest[i] = "none" THEN "none" ELSE "old"]
    /\ UNCHANGED <<sprite, marker>>

PreviewsNext ==
    \/ \E v \in Viewers : Try(v) \/ Recheck(v) \/ \E i \in Items : Look(v, i)
    \/ \E i \in Items : Generate(i) \/ FFmpegEnds(i) \/ WriteManifest(i)
                        \/ MarkFailed(i) \/ Unlock(i) \/ MarkerExpires(i)
    \/ Restart \/ Upgrade

PreviewsSpec == PreviewsInit /\ [][PreviewsNext]_trickplayVars

-----------------------------------------------------------------------------
(* PROPERTIES *)

(* What counts as fresh is served: never a sprite that ffmpeg is writing,  *)
(* or has left half written at a crash, whatever the manifest beside it    *)
(* said before an upgrade (the order of GenerateTrickplay and the second   *)
(* look of ensureTrickplay).  The version is the manifest's alone, so the  *)
(* property says nothing of sprites that a later version made.             *)
ServedWhole == \A i \in Items : Fresh(i) => sprite[i] = "whole"

(* "No duplicate ffmpegs": the lock is held by the generation or by one    *)
(* request about to start it, and by nobody else, or the item would never  *)
(* be generated.                                                           *)
LockExact ==
    /\ \A i \in Items : i \in lock <=> making[i] # "off" \/ \E v \in Viewers : Holds(v, i)
    /\ \A i \in Items, v \in Viewers :
          Holds(v, i) => making[i] = "off" /\ \A w \in Viewers : Holds(w, i) => w = v

(* What the previews promise together.                                     *)
PreviewsSafe == ServedWhole /\ LockExact
=============================================================================
