---------------------------- MODULE UploadService ----------------------------
(***************************************************************************)
(* Uploads of one user (internal/upload): the quota that PreCreate         *)
(* reserves, the blob in the staging directory, the pipeline that Finish   *)
(* runs after the last chunk and that ends with the file in a library      *)
(* directory, cancellation (Aborted), the staging garbage collector, and a *)
(* restart, which forgets the pipelines.                                   *)
(*                                                                         *)
(* The library directory is a function from paths <<name, suffix>> to the  *)
(* upload whose bytes are there.  The tus protocol library is external: it *)
(* stores chunks, deletes a terminated upload, and reports both.           *)
(***************************************************************************)
EXTENDS Naturals, FiniteSets, FiniteSetsExt

CONSTANTS
    Uploads,
    Names,         \* sanitized file names
    SizeOf,        \* upload -> bytes
    Quota,         \* upload_quota_bytes
    MaxSuffix,     \* suffixes that resolveTargetPath tries (1000 in the code)
    None

VARIABLES
    used,          \* users.upload_used_bytes
    up,            \* upload -> its progress
    lib,           \* library path -> upload, or None
    xdev,          \* staging and library are different filesystems
    crossed,       \* history: an upload was terminated that is released by its pipeline too
    crashed        \* the restart happened (at most one)

uploadVars == <<used, up, lib, xdev, crossed, crashed>>

Paths == Names \X (0 .. MaxSuffix)

Pipeline == {"complete", "look", "check", "move", "copy"}

Upload == [ pc     : {"new", "created", "leaked", "failed", "accepted"} \cup Pipeline,
            name   : Names \cup {None},
            over   : BOOLEAN,             \* the client asked to overwrite
            blob   : BOOLEAN,             \* it is in the staging directory
            term   : {"no", "sent", "done"},
            target : Paths \cup {None} ]

NewUpload == [pc |-> "new", name |-> None, over |-> FALSE, blob |-> FALSE, term |-> "no",
              target |-> None]

TypeOK ==
    /\ used \in 0 .. Quota
    /\ up \in [Uploads -> Upload]
    /\ lib \in [Paths -> Uploads \cup {None}]
    /\ {xdev, crossed, crashed} \subseteq BOOLEAN

Init ==
    /\ used = 0
    /\ up = [u \in Uploads |-> NewUpload]
    /\ lib = [p \in Paths |-> None]
    /\ xdev \in BOOLEAN
    /\ crossed = FALSE /\ crashed = FALSE

-----------------------------------------------------------------------------
(* ReserveUploadBytes checks and adds in one statement; ReleaseUploadBytes *)
(* stops at zero.                                                          *)
(* Variant with a bug: the check looks at the bytes already used only.     *)
FitsSoFar(u) == used < Quota

Fits(u) == used + SizeOf[u] <= Quota

Released(u) == IF used > SizeOf[u] THEN used - SizeOf[u] ELSE 0

(* PreCreate, then the storage that the tus library creates.  If our own   *)
(* directory fails the reservation is rolled back, and nothing was; if the *)
(* rollback fails, or theirs does, the reservation stays.                  *)
PreCreate(u) ==
    /\ up[u].pc = "new" /\ Fits(u)
    /\ \E n \in Names, over \in BOOLEAN :
        LET Created(pc) == [NewUpload EXCEPT !.pc = pc, !.name = n, !.over = over,
                                             !.blob = (pc = "created")]
        IN  \E pc \in {"created", "leaked"} : up' = [up EXCEPT ![u] = Created(pc)]
    /\ used' = used + SizeOf[u]
    /\ UNCHANGED <<lib, xdev, crossed, crashed>>

(* The last chunk: consumeCompletes starts the pipeline.                   *)
Complete(u) ==
    /\ up[u].pc = "created" /\ up[u].term = "no"
    /\ up' = [up EXCEPT ![u].pc = "complete"]
    /\ UNCHANGED <<used, lib, xdev, crossed, crashed>>

(* finalize of a failure releases the reservation and ignores an error of  *)
(* that; the blob stays where it is.                                       *)
(* Variant with a bug: only a pipeline that has no target yet releases.    *)
SilentFailure(u) ==
    /\ used' = IF up[u].target = None THEN Released(u) ELSE used
    /\ up' = [up EXCEPT ![u].pc = "failed", ![u].target = None]

Fail(u) ==
    \E pc \in {"failed", "leaked"} :
        /\ used' = IF pc = "failed" THEN Released(u) ELSE used
        /\ up' = [up EXCEPT ![u].pc = pc, ![u].target = None]

(* Phases 1 and 2: sniff and probe the blob, which has to be there.        *)
Validate(u) ==
    /\ up[u].pc = "complete"
    /\ \/ Fail(u)
       \/ up[u].blob /\ up' = [up EXCEPT ![u].pc = "look"] /\ UNCHANGED used
    /\ UNCHANGED <<lib, xdev, crossed, crashed>>

(* Phase 3, the target: with overwrite, the file there is removed; without *)
(* it, resolveTargetPath looks for a free name.                            *)
Free(n) == {i \in 0 .. MaxSuffix : lib[<<n, i>>] = None}

Look(u) ==
    LET n == up[u].name
        Aim(i) == up' = [up EXCEPT ![u].pc = "check", ![u].target = <<n, i>>]
    IN
    /\ up[u].pc = "look"
    /\ \/ up[u].over /\ Aim(0) /\ lib' = [lib EXCEPT ![<<n, 0>>] = None] /\ UNCHANGED used
       \/ ~up[u].over /\ Free(n) # {} /\ Aim(Min(Free(n))) /\ UNCHANGED <<used, lib>>
       \/ Fail(u) /\ UNCHANGED lib       \* no library, no directory, no free name
    /\ UNCHANGED <<xdev, crossed, crashed>>

(* MoveTo: the target must not exist...                                    *)
Check(u) ==
    /\ up[u].pc = "check"
    /\ IF lib[up[u].target] # None
       THEN Fail(u)
       ELSE up' = [up EXCEPT ![u].pc = "move"] /\ UNCHANGED used
    /\ UNCHANGED <<lib, xdev, crossed, crashed>>

Accept(u) == up' = [up EXCEPT ![u].pc = "accepted", ![u].blob = FALSE]

(* ...then a rename, which replaces whatever is there by now,              *)
Rename(u) ==
    /\ up[u].pc = "move" /\ ~xdev
    /\ IF up[u].blob
       THEN Accept(u) /\ lib' = [lib EXCEPT ![up[u].target] = u] /\ UNCHANGED used
       ELSE Fail(u) /\ UNCHANGED lib
    /\ UNCHANGED <<xdev, crossed, crashed>>

(* or, across filesystems, a copy into a file that must be new.            *)
(* Variant with a bug: the copy truncates a file that is there.            *)
Truncates(u) == TRUE
Exclusive(u) == lib[up[u].target] = None

Copy(u) ==
    /\ up[u].pc = "move" /\ xdev
    /\ IF up[u].blob /\ Exclusive(u)
       THEN /\ up' = [up EXCEPT ![u].pc = "copy"]
            /\ lib' = [lib EXCEPT ![up[u].target] = u] /\ UNCHANGED used
       ELSE Fail(u) /\ UNCHANGED lib
    /\ UNCHANGED <<xdev, crossed, crashed>>

(* The copy fails, and its file is removed; or the blob cannot be removed, *)
(* which is a failure too but leaves the file; or all is well.             *)
CopyEnd(u) ==
    /\ up[u].pc = "copy"
    /\ \/ Fail(u) /\ lib' = [lib EXCEPT ![up[u].target] = None]
       \/ Fail(u) /\ UNCHANGED lib
       \/ up[u].blob /\ Accept(u) /\ UNCHANGED <<used, lib>>
    /\ UNCHANGED <<xdev, crossed, crashed>>

-----------------------------------------------------------------------------
(* The client deletes the upload: the tus library removes the blob, and    *)
(* consumeTerminations then runs Aborted.  Nothing stops a pipeline, and   *)
(* an upload that failed is still there to be deleted.                     *)
Terminate(u) ==
    /\ up[u].blob /\ up[u].term = "no"
    /\ up' = [up EXCEPT ![u].blob = FALSE, ![u].term = "sent"]
    /\ crossed' = (crossed \/ up[u].pc \notin {"created", "leaked"})
    /\ UNCHANGED <<used, lib, xdev, crashed>>

(* Aborted releases the reservation, and only logs an error of that.       *)
Aborted(u) ==
    /\ up[u].term = "sent"
    /\ \E pc \in {"failed", "leaked"} :
        /\ used' = IF pc = "failed" THEN Released(u) ELSE used
        /\ up' = [up EXCEPT ![u].term = "done",
                            ![u].pc = IF @ \in {"created", "leaked"} THEN pc ELSE @]
    /\ UNCHANGED <<lib, xdev, crossed, crashed>>

(* The garbage collector: an upload without activity for a day.  What was  *)
(* reserved for it stays reserved.                                         *)
Sweep(u) ==
    /\ up[u].pc \in {"created", "failed", "leaked"} /\ up[u].blob
    /\ up' = [up EXCEPT ![u].blob = FALSE,
                        ![u].pc = IF @ = "created" THEN "leaked" ELSE @]
    /\ UNCHANGED <<used, lib, xdev, crossed, crashed>>

(* A restart loses the pipelines and the reports on their way.  What the   *)
(* pipelines leave in the staging directory can still be deleted.          *)
Crash ==
    /\ ~crashed /\ crashed' = TRUE
    /\ up' = [u \in Uploads |->
                [up[u] EXCEPT
                    !.pc = IF @ \in Pipeline \/ (@ = "created" /\ up[u].term = "sent")
                           THEN "leaked" ELSE @,
                    !.term = IF @ = "sent" THEN "done" ELSE @]]
    /\ UNCHANGED <<used, lib, xdev, crossed>>

Next ==
    \/ \E u \in Uploads :
        \/ PreCreate(u) \/ Complete(u) \/ Validate(u) \/ Look(u) \/ Check(u)
        \/ Rename(u) \/ Copy(u) \/ CopyEnd(u) \/ Terminate(u) \/ Aborted(u) \/ Sweep(u)
    \/ Crash

Spec == Init /\ [][Next]_uploadVars

-----------------------------------------------------------------------------
(* PROPERTIES *)

Accepted(u) == up[u].pc = "accepted"

(* The user's account is exactly the uploads under way, the accepted ones, *)
(* and those whose reservation is known to leak: a restart and a sweep     *)
(* (gc.go:34), a failure of the tus store, a release that fails.  Whatever *)
(* path the pipeline takes, it releases a failed upload once and an        *)
(* accepted one never.  Where a client's DELETE meets a pipeline, or comes *)
(* after it failed, both release: then the account is too low, but it      *)
(* never counts what is not there.                                         *)
Bytes(u) == {u} \X (1 .. SizeOf[u])
Charged == {u \in Uploads : up[u].pc \notin {"new", "failed"}}

QuotaExact ==
    LET total == Cardinality(UNION {Bytes(u) : u \in Charged}) IN
    used <= total /\ (~crossed => used = total)

(* service.go:268: without the client's word a file is never overwritten,  *)
(* not even by a race: an accepted upload stays in the library as long as  *)
(* nobody is told to overwrite that name.                                  *)
Overwrites(n) == \E v \in Uploads : up[v].over /\ up[v].name = n

NeverOverwritten ==
    \A u \in Uploads : Accepted(u) => lib[up[u].target] = u \/ Overwrites(up[u].name)

(* The same, which does hold where the library is another filesystem: the  *)
(* copy creates its file exclusively (staging.go, copyFile).               *)
CopyNeverOverwrites == xdev => NeverOverwritten
==============================================================================
