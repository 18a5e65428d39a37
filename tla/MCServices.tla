----------------------------- MODULE MCServices -----------------------------
(***************************************************************************)
(* Small instances of the services: two torrents, one of which has two     *)
(* sources; three uploads of which one is as large as the quota; a library *)
(* directory with a directory in a directory.                              *)
(***************************************************************************)
EXTENDS Services, TLC

CONSTANTS t1, t2, magnet, link, torrentFile, u1, u2, u3, root, series, season

MCTorrents == {t1, t2}
MCSources == {magnet, link, torrentFile}
MCTorrentOf == [s \in MCSources |-> IF s = torrentFile THEN t2 ELSE t1]

MCUploads == {u1, u2, u3}
MCSizeOf == [u \in MCUploads |-> IF u = u3 THEN 2 ELSE 1]

MCDirs == {root, series, season}
MCParent == [d \in MCDirs |-> IF d = season THEN series ELSE root]

(* Tasks, requests and the small uploads are alike, and so are the sources *)
(* of t1.  The first three never meet, so that one permutation swaps all   *)
(* of them: TLC tries each permutation on every state.                     *)
Swapped(S) == [x \in S |-> CHOOSE y \in S : y # x]

Symmetry ==
    {Swapped(Tasks) @@ Swapped(Requests) @@ Swapped({u1, u2})}
        \cup Permutations({magnet, link})
=============================================================================
