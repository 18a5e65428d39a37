---------------------------- MODULE AuthSessions ----------------------------
(***************************************************************************)
(* The sessions of one user (internal/auth: sessionIssuer.issue,           *)
(* LoginService.RefreshToken, Logout, RevokeSession, ResetPassword and the *)
(* session cleaner) over the sessions table.  Every statement is a step of *)
(* its own: nothing puts two of them into one transaction, and each of     *)
(* them may fail.                                                          *)
(*                                                                         *)
(* A refresh token is a number, in the order in which tokens are minted; a *)
(* session's identifier is its first token.  The statement that writes a   *)
(* token into a row also sets its last_active_at, and no other does, so    *)
(* the least recently active session is the one with the lowest token.     *)
(***************************************************************************)
EXTENDS Naturals, FiniteSets

CONSTANTS
    Callers,       \* requests that may run at a time
    MaxSessions,   \* cfg.MaxSessionsPerUser, at least 1
    MaxTokens,     \* bound of the model: tokens ever minted
    MaxFaults      \* bound of the model: failures that are counted

VARIABLES
    rows,          \* the sessions table
    minted,        \* tokens minted so far
    caller,        \* caller -> the request it makes
    \* History, for the properties:
    unevicted,     \* evictions that failed, the login going on
    unrevoked      \* requests that failed in the detection of a reuse

faults == <<unevicted, unrevoked>>
sessionVars == <<rows, minted, caller, unevicted, unrevoked>>

Row == [ id : 1 .. MaxTokens, token : 1 .. MaxTokens,
         prev : 0 .. MaxTokens, expired : BOOLEAN ]

Caller == [ pc    : {"idle", "count", "evict", "create", "find", "reuse", "rotate", "remove"},
            token : 0 .. MaxTokens,       \* the token it presents
            id    : 0 .. MaxTokens,       \* the session it found
            count : 0 .. MaxTokens ]      \* sessions it believes there are

IdleCaller == [pc |-> "idle", token |-> 0, id |-> 0, count |-> 0]

TypeOK ==
    /\ rows \subseteq Row
    /\ minted \in 0 .. MaxTokens
    /\ caller \in [Callers -> Caller]
    /\ unevicted \in 0 .. MaxFaults /\ unrevoked \in 0 .. MaxFaults

Init ==
    /\ rows = {}
    /\ minted = 0
    /\ caller = [c \in Callers |-> IdleCaller]
    /\ unevicted = 0 /\ unrevoked = 0

Without(id) == {row \in rows : row.id # id}
Return(c) == caller' = [caller EXCEPT ![c] = IdleCaller]

-----------------------------------------------------------------------------
(* issue: count the sessions, evict the least recently active ones until   *)
(* the count is below the limit, insert.                                   *)
Login(c) ==
    /\ caller[c].pc = "idle"
    /\ caller' = [caller EXCEPT ![c].pc = "count"]
    /\ UNCHANGED <<rows, minted, faults>>

Crowded(count) == count >= MaxSessions

Count(c) ==
    /\ caller[c].pc = "count"
    /\ caller' = [caller EXCEPT ![c].count = Cardinality(rows),
                                ![c].pc = IF Crowded(Cardinality(rows)) THEN "evict"
                                          ELSE "create"]
    /\ UNCHANGED <<rows, minted, faults>>

DeleteOldest(c) ==
    /\ caller[c].pc = "evict"
    /\ rows' = {row \in rows : \E older \in rows : older.token < row.token}
    /\ caller' = [caller EXCEPT ![c].count = @ - 1,
                                ![c].pc = IF Crowded(caller[c].count - 1) THEN "evict"
                                          ELSE "create"]
    /\ UNCHANGED <<minted, faults>>

Create(c) ==
    LET t == minted + 1 IN
    /\ caller[c].pc = "create" /\ t <= MaxTokens
    /\ minted' = t
    /\ rows' = rows \cup {[id |-> t, token |-> t, prev |-> 0, expired |-> FALSE]}
    /\ Return(c)
    /\ UNCHANGED faults

-----------------------------------------------------------------------------
(* RefreshToken with any token that was ever handed out: look for the      *)
(* session of which it is the current one, else for one of which it was    *)
(* the previous one.                                                       *)
Refresh(c, t) ==
    /\ caller[c].pc = "idle"
    /\ caller' = [caller EXCEPT ![c].pc = "find", ![c].token = t]
    /\ UNCHANGED <<rows, minted, faults>>

(* An account that is disabled or whose access window is over gets nothing. *)
Find(c) ==
    /\ caller[c].pc = "find"
    /\ \/ /\ \A row \in rows : row.token # caller[c].token
          /\ caller' = [caller EXCEPT ![c].pc = "reuse"]
       \/ \E row \in rows :
             /\ row.token = caller[c].token
             /\ \/ caller' = [caller EXCEPT ![c].pc = IF row.expired THEN "remove" ELSE "rotate",
                                            ![c].id = row.id]
                \/ ~row.expired /\ Return(c)
    /\ UNCHANGED <<rows, minted, faults>>

Reused(t) == {row \in rows : row.prev = t}

FindReused(c) ==
    /\ caller[c].pc = "reuse"
    /\ \/ Reused(caller[c].token) = {} /\ Return(c)
       \/ \E row \in Reused(caller[c].token) :
             caller' = [caller EXCEPT ![c].pc = "remove", ![c].id = row.id]
    /\ UNCHANGED <<rows, minted, faults>>

DeleteFound(c) ==
    /\ caller[c].pc = "remove"
    /\ rows' = Without(caller[c].id)
    /\ Return(c)
    /\ UNCHANGED <<minted, faults>>

(* Variant with a bug: the session is written whether or not it is there.  *)
RotatedAnyway(id, t) ==
    Without(id) \cup {[id |-> id, token |-> t, prev |-> 0, expired |-> FALSE]}

(* UPDATE ... WHERE id = ?: of a session that is gone, nothing.            *)
Rotated(id, t) ==
    Without(id) \cup {[row EXCEPT !.prev = row.token, !.token = t, !.expired = FALSE] :
                          row \in rows \ Without(id)}

Rotate(c) ==
    /\ caller[c].pc = "rotate" /\ minted < MaxTokens
    /\ minted' = minted + 1
    /\ rows' = Rotated(caller[c].id, minted + 1)
    /\ Return(c)
    /\ UNCHANGED faults

-----------------------------------------------------------------------------
(* A statement fails, or the process ends: the request is over, and what   *)
(* it had still to write is not written.  A reuse whose row cannot be read *)
(* is taken for an unknown token, and of a revocation that fails there is  *)
(* only a line in the log.                                                 *)
Abandon(c) ==
    /\ caller[c].pc # "idle"
    /\ IF caller[c].pc \in {"reuse", "remove"}
       THEN unrevoked < MaxFaults /\ unrevoked' = unrevoked + 1
       ELSE UNCHANGED unrevoked
    /\ Return(c)
    /\ UNCHANGED <<rows, minted, unevicted>>

(* issue logs that it cannot evict, and inserts all the same.              *)
EvictionFails(c) ==
    /\ caller[c].pc = "evict" /\ unevicted < MaxFaults
    /\ unevicted' = unevicted + 1
    /\ caller' = [caller EXCEPT ![c].pc = "create"]
    /\ UNCHANGED <<rows, minted, unrevoked>>

-----------------------------------------------------------------------------
(* Logout deletes by the current token, RevokeSession by the identifier,   *)
(* ResetPassword all of them, the cleaner those that are expired.          *)
Logout(t) ==
    /\ rows' = {row \in rows : row.token # t}
    /\ UNCHANGED <<minted, caller, faults>>

Revoke ==
    /\ \E row \in rows : rows' = Without(row.id)
    /\ UNCHANGED <<minted, caller, faults>>

DeleteAll == rows' = {} /\ UNCHANGED <<minted, caller, faults>>

Expire ==
    /\ \E row \in rows : rows' = Without(row.id) \cup {[row EXCEPT !.expired = TRUE]}
    /\ UNCHANGED <<minted, caller, faults>>

Clean ==
    /\ rows' = {row \in rows : ~row.expired}
    /\ UNCHANGED <<minted, caller, faults>>

Next ==
    \/ \E c \in Callers : \/ Login(c) \/ Count(c) \/ DeleteOldest(c) \/ Create(c)
                          \/ Find(c) \/ FindReused(c) \/ DeleteFound(c) \/ Rotate(c)
                          \/ Abandon(c) \/ EvictionFails(c)
    \/ \E t \in 1 .. minted : Logout(t) \/ \E c \in Callers : Refresh(c, t)
    \/ Revoke \/ DeleteAll \/ Expire \/ Clean

Spec == Init /\ [][Next]_sessionVars

-----------------------------------------------------------------------------
(* PROPERTIES *)

(* Counting, evicting and inserting are three statements, so concurrent    *)
(* logins exceed the limit, but never by more than the logins that overlap *)
(* and by one more for every eviction that failed: else, however they      *)
(* repeat, the excess does not add up (issue).                             *)
SessionsBounded ==
    Cardinality(rows) <= MaxSessions + Cardinality(Callers) - 1 + unevicted

(* A session that was revoked, evicted, logged out or wiped by a password  *)
(* reset does not come back: the rotation of a refresh that found it       *)
(* before writes nothing (RotateRefreshToken).                             *)
RevokedStaysRevoked ==
    [][\A r \in rows' :
          (\A old \in rows : old.id # r.id) => r.id > minted]_sessionVars

(* A token that was rotated away and comes back ends its session: when     *)
(* the refresh is over, no session has it as its previous token, whatever  *)
(* other refreshes did meanwhile, unless one of its own statements failed  *)
(* (reuse detection).                                                      *)
ReuseEndsSession ==
    [][\A c \in Callers :
          (caller[c].pc \in {"reuse", "remove"} /\ caller'[c].pc = "idle"
              /\ unrevoked' = unrevoked)
              => \A r \in rows' : r.prev # caller[c].token]_sessionVars

(* What the sessions of a user promise together.                           *)
SessionsSafe == []SessionsBounded /\ RevokedStaysRevoked /\ ReuseEndsSession
=============================================================================
