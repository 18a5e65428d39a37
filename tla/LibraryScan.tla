----------------------------- MODULE LibraryScan -----------------------------
(***************************************************************************)
(* The scan of one library (internal/scanner, internal/library service.go  *)
(* and scheduler.go): the items of the database are reconciled with the    *)
(* files while the files change.  The watcher's timer, the scheduler and   *)
(* an administrator ask for a scan at any time.                            *)
(***************************************************************************)
EXTENDS Naturals, FiniteSets

CONSTANTS
    Files,         \* media files
    MaxVersion,    \* contents that a file can have; 0 is absent
    None

VARIABLES
    disk,          \* file -> 0 or its content
    item,          \* file -> its item, or None
    scan,          \* the scan that runs
    moved          \* history: files changed, or failed, since the scan began

scanVars == <<disk, item, scan, moved>>

Item == [version : 1 .. MaxVersion, available : BOOLEAN]

\* known: paths listed at the start; todo: still to walk; seen: walked.
Scan == [ pc : {"off", "list", "walk", "mark"},
          known : SUBSET Files, todo : SUBSET Files, seen : SUBSET Files ]

NoScan == [pc |-> "off", known |-> {}, todo |-> {}, seen |-> {}]

TypeOK ==
    /\ disk \in [Files -> 0 .. MaxVersion]
    /\ item \in [Files -> Item \cup {None}]
    /\ scan \in Scan
    /\ moved \subseteq Files

Init ==
    /\ disk = [f \in Files |-> 0]
    /\ item = [f \in Files |-> None]
    /\ scan = NoScan
    /\ moved = {}

-----------------------------------------------------------------------------
(* A file appears, changes or goes.                                        *)
Write(f) ==
    /\ \E v \in (0 .. MaxVersion) \ {disk[f]} : disk' = [disk EXCEPT ![f] = v]
    /\ moved' = IF scan.pc = "off" THEN moved ELSE moved \cup {f}
    /\ UNCHANGED <<item, scan>>

(* Service.Scan: one at a time per library; a request that comes during a  *)
(* scan is refused and, from the watcher, forgotten.                       *)
StartScan ==
    /\ scan.pc = "off" /\ scan' = [NoScan EXCEPT !.pc = "list"]
    /\ UNCHANGED <<disk, item, moved>>

StopScan == scan' = NoScan /\ moved' = {}

(* ScanLibrary.  The paths it knows, available or not, without which there *)
(* is no scan,                                                             *)
List ==
    /\ scan.pc = "list"
    /\ \/ StopScan
       \/ /\ scan' = [pc |-> "walk", known |-> {f \in Files : item[f] # None}, todo |-> Files,
                      seen |-> {}]
          /\ UNCHANGED moved
    /\ UNCHANGED <<disk, item>>

(* Variant with a bug: a file that has an item already is left as it is.   *)
HasItem(f) == item[f] # None

UpToDate(f) == item[f] = [version |-> disk[f], available |-> TRUE]

(* the files it meets, one by one: an unchanged one is left, another is    *)
(* probed and written, or fails and is left to the next scan,              *)
Walk(f) ==
    /\ scan.pc = "walk" /\ f \in scan.todo
    /\ \/ disk[f] = 0          \* not there, or under what cannot be read
          /\ scan' = [scan EXCEPT !.todo = @ \ {f}]
          /\ UNCHANGED <<item, moved>>
       \/ /\ disk[f] # 0
          /\ scan' = [scan EXCEPT !.todo = @ \ {f}, !.seen = @ \cup {f}]
          /\ \/ UpToDate(f) /\ UNCHANGED <<item, moved>>
             \/ /\ ~UpToDate(f)
                /\ item' = [item EXCEPT ![f] = [version |-> disk[f], available |-> TRUE]]
                /\ UNCHANGED moved
             \/ /\ ~UpToDate(f)
                /\ moved' = moved \cup {f} /\ UNCHANGED item
       \/ /\ disk[f] # 0       \* unreadable: skipped as if it were not there
          /\ scan' = [scan EXCEPT !.todo = @ \ {f}]
          /\ moved' = moved \cup {f} /\ UNCHANGED item
    /\ UNCHANGED disk

EndWalk ==
    /\ scan.pc = "walk" /\ scan.todo = {}
    /\ scan' = [scan EXCEPT !.pc = "mark"]
    /\ UNCHANGED <<disk, item, moved>>

(* and those that it knew and did not meet, which become unavailable if    *)
(* the item can be read and written; else they are left to the next scan.  *)
Missing == scan.known \ scan.seen

Mark(f) ==
    /\ scan.pc = "mark" /\ f \in Missing
    /\ scan' = [scan EXCEPT !.known = @ \ {f}]
    /\ \/ item' = [item EXCEPT ![f].available = FALSE] /\ UNCHANGED moved
       \/ moved' = moved \cup {f} /\ UNCHANGED item
    /\ UNCHANGED disk

EndScan ==
    /\ scan.pc = "mark" /\ Missing = {}
    /\ StopScan
    /\ UNCHANGED <<disk, item>>

Next ==
    \/ \E f \in Files : Write(f) \/ Walk(f) \/ Mark(f)
    \/ StartScan \/ List \/ EndWalk \/ EndScan

Spec == Init /\ [][Next]_scanVars

-----------------------------------------------------------------------------
(* PROPERTIES *)

Current(f) ==
    IF disk[f] = 0 THEN item[f] = None \/ ~item[f].available
    ELSE item[f] = [version |-> disk[f], available |-> TRUE]

(* When a scan ends, every file that stayed as it was while the scan ran,  *)
(* and that no step of the scan failed for, is in the catalogue as it is   *)
(* on disk: present with its content, or unavailable (ScanLibrary: the     *)
(* paths listed before the walk, what the walk saw, and the marks after it *)
(* fit together).                                                          *)
ScanCatchesUp == [][EndScan => \A f \in Files \ moved : Current(f)]_scanVars
==============================================================================
