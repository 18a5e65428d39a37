----------------------------- MODULE DeviceCode -----------------------------
(***************************************************************************)
(* One code pair of the device login (internal/auth/device.go), from       *)
(* StartDevice to its expiry: users approve it, the device polls for its   *)
(* token.  Polls and approvals read the row, decide, and write it with     *)
(* statements of their own.                                                *)
(***************************************************************************)
EXTENDS Naturals, FiniteSets

CONSTANTS
    Polls,         \* polls of the device that may run at a time
    Approvers,     \* users who may approve the code
    MaxFaults,     \* bound of the model: failures that are counted
    None

VARIABLES
    code,          \* the device_codes row
    poll,          \* poll -> its progress
    approval,      \* approvals that read the row while it was pending
    tokens,        \* sessions issued for the code
    unconsumed     \* history: of these, how many left the code as it was

deviceVars == <<code, poll, approval, tokens, unconsumed>>

Code == [ user : Approvers \cup {None}, consumed : BOOLEAN, expired : BOOLEAN,
          recent : BOOLEAN ]           \* polled less than minPollGap ago

MaxIssued == Cardinality(Polls) + MaxFaults + 1    \* bound of the model

TypeOK ==
    /\ code \in Code
    /\ poll \in [Polls -> {"idle", "early", "pending", "issue", "consume"}]
    /\ approval \subseteq Approvers
    /\ tokens \in 0 .. MaxIssued /\ unconsumed \in 0 .. MaxFaults

Init ==
    /\ code = [user |-> None, consumed |-> FALSE, expired |-> FALSE, recent |-> FALSE]
    /\ poll = [p \in Polls |-> "idle"]
    /\ approval = {}
    /\ tokens = 0 /\ unconsumed = 0

-----------------------------------------------------------------------------
(* ApproveDevice: of a code that is approved or expired, nothing more.     *)
ReadForApproval(u) ==
    /\ u \notin approval /\ ~code.expired /\ code.user = None
    /\ approval' = approval \cup {u}
    /\ UNCHANGED <<code, poll, tokens, unconsumed>>

(* Variant with a bug: the update does not ask whether the code is pending. *)
AnyCode == ~code.expired

Pending == code.user = None /\ ~code.expired

(* ... WHERE user_id IS NULL AND expires_at > now.                         *)
Approve(u) ==
    /\ u \in approval
    /\ code' = IF Pending THEN [code EXCEPT !.user = u] ELSE code
    /\ approval' = approval \ {u}
    /\ UNCHANGED <<poll, tokens, unconsumed>>

-----------------------------------------------------------------------------
(* PollDevice: what it reads decides what it does after it has touched     *)
(* last_polled_at.                                                         *)
Usable == ~code.expired /\ ~code.consumed

Read(p) ==
    /\ poll[p] = "idle" /\ Usable
    /\ poll' = [poll EXCEPT ![p] = IF code.recent THEN "early"
                                   ELSE IF code.user = None THEN "pending" ELSE "issue"]
    /\ UNCHANGED <<code, approval, tokens, unconsumed>>

(* That the touch fails is ignored.                                        *)
Touched == code' \in {code, [code EXCEPT !.recent = TRUE]}

(* slow_down and authorization_pending.                                    *)
Touch(p) ==
    /\ poll[p] \in {"early", "pending"}
    /\ Touched
    /\ poll' = [poll EXCEPT ![p] = "idle"]
    /\ UNCHANGED <<approval, tokens, unconsumed>>

(* The session is created, unless the account is disabled or its window    *)
(* over, a statement fails or the process ends.                            *)
Issue(p) ==
    /\ poll[p] = "issue"
    /\ Touched
    /\ \/ tokens < MaxIssued /\ tokens' = tokens + 1 /\ poll' = [poll EXCEPT ![p] = "consume"]
       \/ UNCHANGED tokens /\ poll' = [poll EXCEPT ![p] = "idle"]
    /\ UNCHANGED <<approval, unconsumed>>

Consume(p) ==
    /\ poll[p] = "consume"
    /\ code' = [code EXCEPT !.consumed = TRUE]
    /\ poll' = [poll EXCEPT ![p] = "idle"]
    /\ UNCHANGED <<approval, tokens, unconsumed>>

(* That it fails is a warning, for the token is issued; and the process    *)
(* may end before it: the code stays approved, for any later poll.         *)
NotConsumed(p) ==
    /\ poll[p] = "consume" /\ unconsumed < MaxFaults
    /\ unconsumed' = unconsumed + 1
    /\ poll' = [poll EXCEPT ![p] = "idle"]
    /\ UNCHANGED <<code, approval, tokens>>

(* Time: minPollGap has passed since the last poll; the code has expired.  *)
GapPasses ==
    /\ code.recent /\ code' = [code EXCEPT !.recent = FALSE]
    /\ UNCHANGED <<poll, approval, tokens, unconsumed>>

Expire ==
    /\ ~code.expired /\ code' = [code EXCEPT !.expired = TRUE]
    /\ UNCHANGED <<poll, approval, tokens, unconsumed>>

PollStep(p) == Read(p) \/ Touch(p) \/ Issue(p) \/ Consume(p) \/ NotConsumed(p)

Next ==
    \/ \E u \in Approvers : ReadForApproval(u) \/ Approve(u)
    \/ \E p \in Polls : PollStep(p)
    \/ GapPasses \/ Expire

Spec == Init /\ [][Next]_deviceVars

-----------------------------------------------------------------------------
(* PROPERTIES *)

(* A code logs one user in: the first whose approval is written, whichever *)
(* approvals overlap (ApproveDeviceCode's WHERE).                          *)
OneApprover == [][code.user # None => code'.user = code.user]_deviceVars

(* The token is issued before the code is consumed, so polls that overlap  *)
(* may each get one, and one more for every consumption that failed; but   *)
(* none that begins after one that did not ("a consumed code cannot issue  *)
(* tokens again").                                                         *)
TokensBounded == tokens <= Cardinality(Polls) + unconsumed

(* What a device code promises together.                                   *)
DeviceSafe == []TokensBounded /\ OneApprover
=============================================================================
