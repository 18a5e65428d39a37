------------------------------- MODULE Services -------------------------------
(***************************************************************************)
(* Seven services that share no state: a behaviour of this specification   *)
(* is one of one of those in Parts, which focus names, and the others stay *)
(* as they are.  The refreshes (Init, Next, RefreshSafe) and the previews  *)
(* are extended rather than instantiated: the theorems about them state    *)
(* the definitions that are checked here.                                  *)
(***************************************************************************)
EXTENDS Naturals, Sequences, FiniteSets, IptvRefresh, Trickplay

CONSTANTS Parts,
          Torrents, Sources, TorrentOf, MaxActive,
          Requests, Slots, Reaper, Closer,
          Uploads, Names, SizeOf, Quota, MaxSuffix,
          Dirs, Root, Parent, MaxEvents,
          Files, MaxVersion

(* What runs at a time is finite, the limits are numbers, and what is      *)
(* absent or asks for a Stop is not confused with anything else.  A        *)
(* library's directories are two deep below its root, a bound of the model.*)
ASSUME ServicesAssumption ==
    /\ Parts \subseteq {"torrent", "vod", "upload", "watcher", "scanner", "refresh", "preview"}
    /\ IsFiniteSet(Tasks) /\ IsFiniteSet(Torrents) /\ MaxActive \in Nat
    /\ TorrentOf \in [Sources -> Torrents] /\ None \notin Torrents
    /\ None \notin Requests \cup Slots
    /\ Requests \cap Slots = {} /\ {Reaper, Closer} \cap (Requests \cup Slots) = {}
    /\ Reaper # Closer
    /\ IsFiniteSet(Uploads) /\ SizeOf \in [Uploads -> Nat] /\ Quota \in Nat
    /\ MaxSuffix \in Nat /\ None \notin Uploads
    /\ Root \in Dirs /\ Parent \in [Dirs -> Dirs] /\ Parent[Root] = Root
    /\ \A d \in Dirs : Parent[Parent[d]] = Root
    /\ None \notin Dirs
    /\ MaxVersion \in Nat /\ MaxEvents \in Nat
    /\ MaxImports \in Nat /\ IsFiniteSet(Items) /\ GenSlots \in Nat

VARIABLES
    focus,
    scratch, holders, active, alias, task, reaped, closed, leaked,
    cur, reader, dir, ses, req, stops, down,
    used, up, lib, xdev, crossed, crashed,
    dirs, kernel, watched, events, timer, auto, seenAuto, tree, spared,
    disk, item, scan, moved

Torrent == INSTANCE TorrentManager
Vod == INSTANCE VODTransmux
Upload == INSTANCE UploadService
Watcher == INSTANCE LibraryWatcher
Scanner == INSTANCE LibraryScan

ASSUME AbsentAssumption == None \notin Torrent!StreamSession \cup Scanner!Item

torrentVars == <<scratch, holders, active, alias, task, reaped, closed, leaked>>
vodVars == <<cur, reader, dir, ses, req, stops, down>>
uploadVars == <<used, up, lib, xdev, crossed, crashed>>
watcherVars == <<dirs, kernel, watched, events, timer, auto, seenAuto, tree, spared>>
scanVars == <<disk, item, scan, moved>>
vars == <<focus, torrentVars, vodVars, uploadVars, watcherVars, scanVars, refreshVars,
          trickplayVars>>

ServicesInit ==
    /\ focus \in Parts
    /\ Torrent!Init /\ Vod!Init /\ Upload!Init /\ Watcher!Init
    /\ Scanner!Init /\ Init /\ PreviewsInit
    /\ xdev => focus = "upload"
    /\ auto => focus = "watcher"

ServicesNext ==
    /\ UNCHANGED focus
    /\ \/ /\ focus = "torrent" /\ Torrent!Next
          /\ UNCHANGED <<vodVars, uploadVars, watcherVars, scanVars, refreshVars,
                         trickplayVars>>
       \/ /\ focus = "vod" /\ Vod!Next
          /\ UNCHANGED <<torrentVars, uploadVars, watcherVars, scanVars, refreshVars,
                         trickplayVars>>
       \/ /\ focus = "upload" /\ Upload!Next
          /\ UNCHANGED <<torrentVars, vodVars, watcherVars, scanVars, refreshVars,
                         trickplayVars>>
       \/ /\ focus = "watcher" /\ Watcher!Next
          /\ UNCHANGED <<torrentVars, vodVars, uploadVars, scanVars, refreshVars,
                         trickplayVars>>
       \/ /\ focus = "scanner" /\ Scanner!Next
          /\ UNCHANGED <<torrentVars, vodVars, uploadVars, watcherVars, refreshVars,
                         trickplayVars>>
       \/ /\ focus = "refresh" /\ Next
          /\ UNCHANGED <<torrentVars, vodVars, uploadVars, watcherVars, scanVars,
                         trickplayVars>>
       \/ /\ focus = "preview" /\ PreviewsNext
          /\ UNCHANGED <<torrentVars, vodVars, uploadVars, watcherVars, scanVars,
                         refreshVars>>

ServicesSpec == ServicesInit /\ [][ServicesNext]_vars

-----------------------------------------------------------------------------
(* The parts that are not in focus are in their initial state.             *)
ServicesTypeOK ==
    CASE focus = "torrent" -> Torrent!TypeOK
      [] focus = "vod" -> Vod!TypeOK
      [] focus = "upload" -> Upload!TypeOK
      [] focus = "watcher" -> Watcher!TypeOK
      [] focus = "scanner" -> Scanner!TypeOK
      [] focus = "refresh" -> TypeOK
      [] focus = "preview" -> PreviewsTypeOK

TorrentsSafe == Torrent!TorrentsSafe
PlaysSafe == Vod!PlaysSafe
OneTranscoder == Vod!OneTranscoder
QuotaExact == Upload!QuotaExact
CopyNeverOverwrites == Upload!CopyNeverOverwrites
NeverOverwritten == Upload!NeverOverwritten
DirsCovered == Watcher!DirsCovered
ScanCatchesUp == Scanner!ScanCatchesUp
=============================================================================
