------------------------------ MODULE KeyStore ------------------------------
(***************************************************************************)
(* The store of JWT signing keys (internal/auth/keystore.go) with its      *)
(* table and its cache.  The two admin calls, Rotate and Prune, run in     *)
(* HTTP handlers that nothing serialises; each ends with Reload, which     *)
(* reads the table twice and then replaces the cache.                      *)
(*                                                                         *)
(* Keys are numbered in the order of their insertion, which is also the    *)
(* order of created_at.                                                    *)
(***************************************************************************)
EXTENDS Naturals, FiniteSets, FiniteSetsExt

CONSTANTS
    Admins,        \* admin calls that may run at a time
    MaxKeys        \* bound of the model: keys ever made

VARIABLES
    keys,          \* jwt_signing_keys: key -> "unborn", "active", "overlap" (retired at
                   \* a later time), "retired", "pruned"
    cache,         \* KeyStore.active, retired and primary
    admin          \* admin call -> its progress

keyVars == <<keys, cache, admin>>

Kids == 1 .. MaxKeys
Cache == [active : SUBSET Kids, retired : SUBSET Kids, primary : 0 .. MaxKeys]

AdminCall == [ pc     : {"idle", "retire", "set", "active", "all", "store"},
               key    : 0 .. MaxKeys,     \* the key it made or is to retire
               active : SUBSET Kids,      \* what ListActive returned
               retired : SUBSET Kids ]    \* retired ones of what ListAll returned

IdleAdmin == [pc |-> "idle", key |-> 0, active |-> {}, retired |-> {}]

TypeOK ==
    /\ keys \in [Kids -> {"unborn", "active", "overlap", "retired", "pruned"}]
    /\ cache \in Cache
    /\ admin \in [Admins -> AdminCall]

Active == {k \in Kids : keys[k] = "active"}
Retired == {k \in Kids : keys[k] \in {"overlap", "retired"}}

(* What Reload makes of what it read: the newest active key is primary.    *)
Cached(active, retired) ==
    [active |-> active, retired |-> retired,
     primary |-> IF active = {} THEN 0 ELSE Max(active)]

(* Bootstrap has inserted the first key and NewKeyStore loaded it.         *)
Init ==
    /\ keys = [k \in Kids |-> IF k = 1 THEN "active" ELSE "unborn"]
    /\ cache = Cached({1}, {})
    /\ admin = [a \in Admins |-> IdleAdmin]

-----------------------------------------------------------------------------
(* Rotate inserts a key ...                                                *)
Insert(a) ==
    /\ admin[a].pc = "idle"
    /\ \E k \in Kids :
          /\ keys[k] = "unborn" /\ \A j \in 1 .. k - 1 : keys[j] # "unborn"
          /\ keys' = [keys EXCEPT ![k] = "active"]
          /\ admin' = [admin EXCEPT ![a].pc = "retire", ![a].key = k]
    /\ UNCHANGED cache

(* Variant with a bug: as its comment has it, every key that was active.   *)
AllVictims(a) == Active \ {admin[a].key}

(* ... retires the one that is primary in the cache ...                    *)
Victims(a) == {cache.primary}

PickVictim(a) ==
    /\ admin[a].pc = "retire"
    /\ admin' = [admin EXCEPT ![a].pc = "set", ![a].active = Victims(a)]
    /\ UNCHANGED <<keys, cache>>

(* ... now or at the end of an overlap; a key that is gone is an error,    *)
(* and the cache is left as it is.                                         *)
SetRetired(a) ==
    /\ admin[a].pc = "set"
    /\ \/ /\ \E k \in admin[a].active : keys[k] = "pruned"
          /\ admin' = [admin EXCEPT ![a] = IdleAdmin]
          /\ UNCHANGED keys
       \/ /\ \A k \in admin[a].active : keys[k] # "pruned"
          /\ \E when \in {"overlap", "retired"} :
                keys' = [k \in Kids |-> IF k \in admin[a].active THEN when ELSE keys[k]]
          /\ admin' = [admin EXCEPT ![a] = [IdleAdmin EXCEPT !.pc = "active"]]
    /\ UNCHANGED cache

(* Prune deletes what was retired before now, or before some time earlier, *)
(* and reloads if there was anything.                                      *)
Prune(a) ==
    /\ admin[a].pc = "idle"
    /\ \E gone \in SUBSET {k \in Kids : keys[k] = "retired"} :
          /\ gone # {}
          /\ keys' = [k \in Kids |-> IF k \in gone THEN "pruned" ELSE keys[k]]
    /\ admin' = [admin EXCEPT ![a].pc = "active"]
    /\ UNCHANGED cache

(* Reload: ListActive, ListAll, and the cache under its lock.              *)
ListActive(a) ==
    /\ admin[a].pc = "active"
    /\ admin' = [admin EXCEPT ![a].pc = "all", ![a].active = Active]
    /\ UNCHANGED <<keys, cache>>

ListAll(a) ==
    /\ admin[a].pc = "all"
    /\ admin' = [admin EXCEPT ![a].pc = "store", ![a].retired = Retired]
    /\ UNCHANGED <<keys, cache>>

Store(a) ==
    /\ admin[a].pc = "store"
    /\ cache' = Cached(admin[a].active, admin[a].retired)
    /\ admin' = [admin EXCEPT ![a] = IdleAdmin]
    /\ UNCHANGED keys

(* Time: the overlap of a key is over.                                     *)
OverlapEnds ==
    /\ \E k \in Kids : keys[k] = "overlap" /\ keys' = [keys EXCEPT ![k] = "retired"]
    /\ UNCHANGED <<cache, admin>>

(* The process ends at any point and is started again: Bootstrap inserts   *)
(* nothing, because the table is not empty, and NewKeyStore loads it.      *)
Restart ==
    /\ cache' = Cached(Active, Retired)
    /\ admin' = [a \in Admins |-> IdleAdmin]
    /\ UNCHANGED keys

Next ==
    \/ \E a \in Admins : \/ Insert(a) \/ PickVictim(a) \/ SetRetired(a) \/ Prune(a)
                         \/ ListActive(a) \/ ListAll(a) \/ Store(a)
    \/ OverlapEnds \/ Restart

Spec == Init /\ [][Next]_keyVars

-----------------------------------------------------------------------------
(* PROPERTIES *)

(* However rotations, prunes and crashes overlap, the table has a key that *)
(* is not retired and so has the cache: the server can issue tokens and    *)
(* starts again (NewKeyStore refuses to start without such a key).         *)
CanSign == Active # {} /\ cache.primary # 0
=============================================================================
