---------------------------- MODULE LibraryWatcher ----------------------------
(***************************************************************************)
(* The watcher of one library (internal/library/watcher.go): it subscribes *)
(* to every directory, walks over the new ones, and turns events into a    *)
(* debounced request for a scan (LibraryScan, which accepts a request at   *)
(* any time at which no scan runs).                                        *)
(*                                                                         *)
(* The kernel and the fsnotify library are external: a watched directory   *)
(* reports what happens in it, into a queue that drops what does not fit,  *)
(* and a directory that is removed loses its watch.                        *)
(***************************************************************************)
EXTENDS Naturals, Sequences, FiniteSets

CONSTANTS
    Dirs, Root,    \* directories; Root always exists
    Parent,        \* directory -> its parent; of Root, itself
    MaxEvents,     \* events that the queue holds
    None

VARIABLES
    dirs,          \* directories that exist
    kernel,        \* directories with a watch
    watched,       \* FSWatcher.watchedRoots
    events,        \* events that were not handled yet
    timer,         \* the debounce timer is set
    auto,          \* scan_mode of the library in the database
    seenAuto,      \* the library is in lastSeen
    tree,          \* the walk over directories that the watcher is in
    spared         \* history: directories that the watcher does not promise to cover

watcherVars == <<dirs, kernel, watched, events, timer, auto, seenAuto, tree, spared>>

Event == [dir : Dirs, new : Dirs \cup {None}]

\* todo: still to visit; open: visited, its entries not read yet; kick: for an event.
Tree == [todo : SUBSET Dirs, open : Dirs \cup {None}, kick : BOOLEAN]

NoTree == [todo |-> {}, open |-> None, kick |-> FALSE]

TypeOK ==
    /\ Root \in dirs /\ dirs \subseteq Dirs /\ kernel \subseteq dirs
    /\ watched \subseteq Dirs /\ spared \subseteq Dirs
    /\ events \in Seq(Event) /\ Len(events) <= MaxEvents
    /\ tree \in Tree
    /\ {timer, auto, seenAuto} \subseteq BOOLEAN

(* The process starts with an empty library, which the first reconcile     *)
(* already watches.                                                        *)
Init ==
    /\ dirs = {Root}
    /\ auto \in BOOLEAN /\ seenAuto = auto
    /\ kernel = (IF auto THEN {Root} ELSE {}) /\ watched = kernel
    /\ events = <<>> /\ timer = FALSE
    /\ tree = NoTree
    /\ spared = {}

-----------------------------------------------------------------------------
(* The directory tree changes, and the kernel reports it.                  *)
Report(d, new) ==
    events' = IF d \in kernel /\ Len(events) < MaxEvents
              THEN Append(events, [dir |-> d, new |-> new]) ELSE events

Dropped(d) == d \in kernel /\ Len(events) >= MaxEvents

FileChange(d) ==
    /\ d \in dirs /\ Report(d, None)
    /\ UNCHANGED <<dirs, kernel, watched, timer, auto, seenAuto, tree, spared>>

Mkdir(d) ==
    /\ d \notin dirs /\ Parent[d] \in dirs
    /\ dirs' = dirs \cup {d}
    /\ Report(Parent[d], d)
    /\ spared' = IF Dropped(Parent[d]) THEN spared \cup {d} ELSE spared
    /\ UNCHANGED <<kernel, watched, timer, auto, seenAuto, tree>>

\* What was watched stays in the watcher's map, and if it comes back it has no watch.
Rmdir(d) ==
    /\ d \in dirs \ {Root}
    /\ \A c \in dirs \ {d} : Parent[c] # d
    /\ dirs' = dirs \ {d}
    /\ kernel' = kernel \ {d}
    /\ spared' = IF d \in watched THEN spared \cup {d} ELSE spared
    /\ Report(Parent[d], None)
    /\ UNCHANGED <<watched, timer, auto, seenAuto, tree>>

-----------------------------------------------------------------------------
(* FSWatcher, one goroutine: while it walks over directories it handles    *)
(* nothing else.  For each directory that is not in its map it asks for a  *)
(* watch, and then it reads the entries, if it can.  What fails is logged, *)
(* and the walk goes on with the rest.                                     *)
WalkFrom(d, kick) == [todo |-> {d}, open |-> None, kick |-> kick]

Subscribe(d) ==
    /\ tree.open = None /\ d \in tree.todo
    /\ tree' = [tree EXCEPT !.todo = @ \ {d}, !.open = d]
    /\ \/ d \in watched /\ UNCHANGED <<kernel, watched, spared>>
       \/ /\ d \in dirs \ watched
          /\ kernel' = kernel \cup {d} /\ watched' = watched \cup {d} /\ UNCHANGED spared
       \/ /\ d \notin watched
          /\ spared' = spared \cup ({d} \cap dirs) /\ UNCHANGED <<kernel, watched>>
    /\ UNCHANGED <<dirs, events, timer, auto, seenAuto>>

(* Variant with a bug: only the directory of the event gets a watch.       *)
NoChildren(d) == {}

Children(d) == {c \in dirs \ {d} : Parent[c] = d}

\* The last entries end the walk; one for an event then starts the timer anew.
ReadDir(found) ==
    LET todo == tree.todo \cup found IN
    /\ tree' = IF todo = {} THEN NoTree ELSE [tree EXCEPT !.todo = todo, !.open = None]
    /\ timer' = (timer \/ (todo = {} /\ tree.kick))
    /\ UNCHANGED <<dirs, kernel, watched, events, auto, seenAuto>>

Entries ==
    /\ tree.open # None
    /\ \/ ReadDir(Children(tree.open)) /\ UNCHANGED spared
       \/ ReadDir({}) /\ spared' = spared \cup ({tree.open} \cap dirs)

(* handleEvent: a new directory is walked (if it cannot be looked at, it   *)
(* is not), and the timer starts anew.                                     *)
HandleEvent ==
    LET e == Head(events) IN
    /\ events # <<>> /\ tree = NoTree
    /\ events' = Tail(events)
    /\ \/ e.dir \notin watched /\ UNCHANGED <<timer, tree, spared>>
       \/ /\ e.dir \in watched /\ e.new \in dirs
          /\ tree' = WalkFrom(e.new, TRUE) /\ UNCHANGED <<timer, spared>>
       \/ /\ e.dir \in watched
          /\ timer' = TRUE /\ spared' = spared \cup ({e.new} \cap dirs) /\ UNCHANGED tree
    /\ UNCHANGED <<dirs, kernel, watched, auto, seenAuto>>

(* reconcile: a library that became automatic is walked; one that is no    *)
(* longer is forgotten.  One that stayed as it was costs nothing.          *)
Reconcile ==
    /\ auto # seenAuto /\ tree = NoTree
    /\ seenAuto' = auto
    /\ IF auto
       THEN tree' = WalkFrom(Root, FALSE) /\ UNCHANGED <<kernel, watched>>
       ELSE kernel' = {} /\ watched' = {} /\ UNCHANGED tree
    /\ spared' = {}
    /\ UNCHANGED <<dirs, events, timer, auto>>

SetMode ==
    /\ auto' = ~auto
    /\ UNCHANGED <<dirs, kernel, watched, events, timer, seenAuto, tree, spared>>

(* The timer fires: a scan is asked for, and whatever comes of it is only  *)
(* logged.                                                                 *)
Fire ==
    /\ timer /\ timer' = FALSE
    /\ UNCHANGED <<dirs, kernel, watched, events, auto, seenAuto, tree, spared>>

Next ==
    \/ \E d \in Dirs : FileChange(d) \/ Mkdir(d) \/ Rmdir(d) \/ Subscribe(d)
    \/ Entries \/ HandleEvent \/ Reconcile \/ SetMode \/ Fire

Spec == Init /\ [][Next]_watcherVars

-----------------------------------------------------------------------------
(* PROPERTIES *)

(* A directory of a library that is watched has a watch, or is on its way  *)
(* to one, by an event or by the walk under way, in whatever order the     *)
(* directories appear while events are handled and directories are walked  *)
(* (handleEvent, "mkdir -p").  Not promised are, with what is below them,  *)
(* a directory whose watch or whose entries were refused, which the code   *)
(* only logs; one whose creation the kernel dropped; and one that was      *)
(* removed while it was watched, which stays in the watcher's map.         *)
Above(d) == {d, Parent[d], Parent[Parent[d]]}

Announced == {events[i].new : i \in DOMAIN events}

OnItsWay(d) ==
    \/ Above(d) \cap (Announced \cup tree.todo) # {}
    \/ tree.open \in Above(d) \ {d}

DirsCovered ==
    auto /\ seenAuto =>
        \A d \in dirs : d \in kernel \/ OnItsWay(d) \/ Above(d) \cap spared # {}
==============================================================================
