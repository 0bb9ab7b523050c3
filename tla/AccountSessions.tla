-------------------------- MODULE AccountSessions --------------------------
(***************************************************************************)
(* The login sessions of one personal account of the identity server       *)
(* (src/services/identity-server): login, takeover of the account by a     *)
(* pending login, cancellation, securing the account, logout, and the      *)
(* account recoveries, over the table identity_sessions in PostgreSQL.     *)
(*                                                                         *)
(* A request is one call of the auth service.  Its statements are separate *)
(* steps, other requests run in between, and it may fail at each of them.  *)
(* Transactions that decide about the account take an advisory lock first; *)
(* the recoveries and the logout do not.                                   *)
(***************************************************************************)
EXTENDS FiniteSets

CONSTANTS Requests,     \* calls of the auth service
          First,        \* the session of the account's registration
          Grants,       \* recovery transactions of the account
          None

ASSUME FirstIsNoRequest == First \notin Requests /\ None \notin Requests

(* A request creates at most one session; the session has its name.        *)
Sessions == Requests \cup {First}

VARIABLES session,      \* the rows of identity_sessions
          request,      \* the calls and their local variables
          lock,         \* holder of the account's advisory lock
          grant         \* state of each recovery transaction

vars == <<session, request, lock, grant>>

(* "expired" tells that the time that bounds a row has passed:             *)
(* pending_expires_at of a pending one, expires_at of the others.          *)
(* "direct" tells rows inserted by createSession from those of a login.    *)
Row == [status : {"none", "pending", "active", "revoked"},
        revoked : BOOLEAN, expired : BOOLEAN, direct : BOOLEAN]
NoRow == [status |-> "none", revoked |-> FALSE, expired |-> FALSE, direct |-> FALSE]
Fresh(status, direct) == [NoRow EXCEPT !.status = status, !.direct = direct]

Decisions == {"takeover", "secure", "cancel"}
Recoveries == {"recover", "support"}
Request == [op : {"none", "login", "logout"} \cup Decisions \cup Recoveries,
            pc : {"idle", "lock", "read", "write", "spend", "start", "revoke", "create", "ended"},
            on : Sessions,                \* the session the token belongs to
            by : Grants \cup {None},      \* the recovery transaction
            row : Row,                    \* the row that was read
            busy : BOOLEAN,               \* an active session was found
            saw : SUBSET Sessions]        \* rows a revocation has to reach
Idle == [op |-> "none", pc |-> "idle", on |-> First, by |-> None, row |-> NoRow,
         busy |-> FALSE, saw |-> {}]

(* "password": a support password is out; "open": the recovery may be      *)
(* completed; "spent": completed or expired.                               *)
GrantStates == {"password", "open", "spent"}

Exists(s) == session[s].status # "none"
Live(s) == Exists(s) /\ ~session[s].revoked

(* resolve_session_token: the cookie of s gives access to the account.     *)
Usable(s) == Live(s) /\ session[s].status # "pending" /\ ~session[s].expired

(* isUsablePendingSession *)
UsablePending(row) == row.status = "pending" /\ ~row.revoked /\ ~row.expired

Revoked(row) == [row EXCEPT !.status = "revoked", !.revoked = TRUE]

(* mutant: the pending row is read without FOR UPDATE                      *)
RowLockedNever(s) == FALSE

(* SELECT ... FOR UPDATE holds the row until the transaction ends.         *)
RowLocked(s) == \E r \in Requests : /\ request[r].op \in Decisions
                                    /\ request[r].pc = "write"
                                    /\ request[r].on = s

Init == /\ session = [s \in Sessions |-> IF s = First THEN Fresh("active", TRUE) ELSE NoRow]
        /\ request = [r \in Requests |-> Idle]
        /\ lock = None
        /\ grant \in [Grants -> {"password", "open"}]

-----------------------------------------------------------------------------
(* Control of a request *)

At(r, ops, pc) == request[r].op \in ops /\ request[r].pc = pc

Goto(r, pc) == request' = [request EXCEPT ![r].pc = pc]

(* The call returns; what it remembered is gone, only what a finished      *)
(* revocation had to reach is kept, to speak about it.                     *)
Return(r) == request' = [request EXCEPT ![r] =
                           [Idle EXCEPT !.pc = "ended", !.saw = request[r].saw]]

Unlock(r) == lock' = IF lock = r THEN None ELSE lock

(* The statement or the connection fails: nothing of an open transaction   *)
(* stays, and its locks go with it.                                        *)
Fail(r) == /\ request[r].pc \notin {"idle", "ended"}
           /\ request' = [request EXCEPT ![r] = [Idle EXCEPT !.pc = "ended"]]
           /\ Unlock(r)
           /\ UNCHANGED <<session, grant>>

Begin(r, op, s, g, pc) ==
    /\ request[r].pc = "idle"
    /\ request' = [request EXCEPT ![r] = [Idle EXCEPT !.op = op, !.pc = pc, !.on = s, !.by = g]]
    /\ UNCHANGED <<session, lock, grant>>

-----------------------------------------------------------------------------
(* Login and the decisions about a pending login *)

(* The credentials were right: createInteractiveSessionResponse.           *)
AskLogin(r) == Begin(r, "login", First, None, "lock")

(* The dialog of a pending login is answered, perhaps more than once.      *)
AskDecision(r, op, s) == Exists(s) /\ Begin(r, op, s, None, "lock")

(* mutant: the transaction does not wait for the account lock              *)
LockAccountShared(r) == /\ request[r].pc = "lock"
                        /\ lock' = r
                        /\ Goto(r, "read")
                        /\ UNCHANGED <<session, grant>>

(* pg_advisory_xact_lock *)
LockAccount(r) == /\ request[r].pc = "lock"
                  /\ lock = None
                  /\ lock' = r
                  /\ Goto(r, "read")
                  /\ UNCHANGED <<session, grant>>

LookForActive(r) ==
    /\ At(r, {"login"}, "read")
    /\ request' = [request EXCEPT ![r].busy = \E s \in Sessions : Usable(s), ![r].pc = "write"]
    /\ UNCHANGED <<session, lock, grant>>

(* mutant: the login renews the expiry of the account's other rows         *)
InsertLoginRenewing(r) ==
    /\ At(r, {"login"}, "write")
    /\ session' = [s \in Sessions |->
                     IF s = r THEN Fresh(IF request[r].busy THEN "pending" ELSE "active", FALSE)
                     ELSE [session[s] EXCEPT !.expired = FALSE]]
    /\ Return(r) /\ Unlock(r)
    /\ UNCHANGED grant

(* An earlier pending login is superseded, the new one is inserted: active *)
(* when no session was found active, else waiting for a decision.          *)
InsertLogin(r) ==
    /\ At(r, {"login"}, "write")
    /\ session' = [s \in Sessions |->
                     IF s = r THEN Fresh(IF request[r].busy THEN "pending" ELSE "active", FALSE)
                     ELSE IF Live(s) /\ session[s].status = "pending" THEN Revoked(session[s])
                     ELSE session[s]]
    /\ Return(r) /\ Unlock(r)
    /\ UNCHANGED grant

(* mutant: the refusal does not roll the transaction back                  *)
ReadPendingNoRollback(r) ==
    /\ At(r, Decisions, "read")
    /\ IF UsablePending(session[request[r].on])
       THEN request' = [request EXCEPT ![r].row = session[request[r].on], ![r].pc = "write"]
       ELSE Return(r)
    /\ UNCHANGED <<session, lock, grant>>

(* The row is read again under the locks: it must still be decidable.      *)
ReadPending(r) ==
    /\ At(r, Decisions, "read")
    /\ IF UsablePending(session[request[r].on])
       THEN /\ request' = [request EXCEPT ![r].row = session[request[r].on], ![r].pc = "write"]
            /\ UNCHANGED lock
       ELSE Return(r) /\ Unlock(r)
    /\ UNCHANGED <<session, grant>>

(* The row that was read is written back as the active one.                *)
Activated(row) == [row EXCEPT !.status = "active", !.expired = FALSE]

(* mutant: the other sessions are revoked in a transaction of their own    *)
ActivateAfterwards(r) ==
    LET others == {s \in Sessions \ {request[r].on} : Live(s) /\ session[s].status = "active"} IN
    /\ At(r, {"takeover", "secure"}, "write")
    /\ IF others # {}
       THEN /\ session' = [s \in Sessions |-> IF s \in others THEN Revoked(session[s])
                                              ELSE session[s]]
            /\ UNCHANGED <<request, lock>>
       ELSE /\ session' = [session EXCEPT ![request[r].on] = Activated(request[r].row)]
            /\ Return(r) /\ Unlock(r)
    /\ UNCHANGED grant

(* activatePendingSessionByTokenHash: the active sessions end;             *)
(* secureAccountByPendingTokenHash: every other session ends.              *)
Activate(r) ==
    /\ At(r, {"takeover", "secure"}, "write")
    /\ session' = [s \in Sessions |->
                     IF s = request[r].on THEN Activated(request[r].row)
                     ELSE IF Live(s) /\ (session[s].status = "active" \/ request[r].op = "secure")
                          THEN Revoked(session[s])
                     ELSE session[s]]
    /\ Return(r) /\ Unlock(r)
    /\ UNCHANGED grant

Cancel(r) == /\ At(r, {"cancel"}, "write")
             /\ session' = [session EXCEPT ![request[r].on] = Revoked(request[r].row)]
             /\ Return(r) /\ Unlock(r)
             /\ UNCHANGED grant

-----------------------------------------------------------------------------
(* Logout: a read and a write of the whole row, without the account lock *)

\* of an active session, or of one that still waits for its takeover
AskLogout(r, s) == Live(s) /\ Begin(r, "logout", s, None, "write")

Logout(r) == /\ At(r, {"logout"}, "write")
             /\ ~RowLocked(request[r].on)
             /\ session' = [session EXCEPT ![request[r].on] = Revoked(@)]
             /\ Return(r)
             /\ UNCHANGED <<lock, grant>>

-----------------------------------------------------------------------------
(* Recovery of the account: also without the account lock *)

(* complete_offline_recovery, complete_support_recovery: the transaction   *)
(* is found valid ...                                                      *)
AskRecovery(r, g) == grant[g] = "open" /\ Begin(r, "recover", First, g, "spend")

(* mutant: the state is written under another name                         *)
SpendGrantUsed(r) == /\ At(r, {"recover"}, "spend")
                     /\ grant' = [grant EXCEPT ![request[r].by] = "used"]
                     /\ Goto(r, "start")
                     /\ UNCHANGED <<session, lock>>

(* ... and marked used later.                                              *)
SpendGrant(r) == /\ At(r, {"recover"}, "spend")
                 /\ grant' = [grant EXCEPT ![request[r].by] = "spent"]
                 /\ Goto(r, "start")
                 /\ UNCHANGED <<session, lock>>

(* login_support_recovery: the password is consumed by one conditional     *)
(* UPDATE and becomes the right to complete the recovery.                  *)
ConsumePassword(r, g) ==
    /\ request[r].pc = "idle" /\ grant[g] = "password"
    /\ grant' = [grant EXCEPT ![g] = "open"]
    /\ request' = [request EXCEPT ![r] = [Idle EXCEPT !.op = "support", !.pc = "start", !.by = g]]
    /\ UNCHANGED <<session, lock>>

(* revokeSessionsByUserId: one UPDATE sees the rows committed when it      *)
(* starts, waits for those another transaction has locked, and marks them. *)
StartRevocation(r) ==
    /\ At(r, Recoveries, "start")
    /\ request' = [request EXCEPT ![r].saw = {s \in Sessions : Live(s)}, ![r].pc = "revoke"]
    /\ UNCHANGED <<session, lock, grant>>

RevokeSessions(r) ==
    /\ At(r, Recoveries, "revoke")
    /\ \A s \in request[r].saw : ~RowLocked(s)
    /\ session' = [s \in Sessions |-> [session[s] EXCEPT !.revoked = @ \/ s \in request[r].saw]]
    /\ IF request[r].op = "recover" THEN Goto(r, "create") ELSE Return(r)
    /\ UNCHANGED <<lock, grant>>

(* createSessionResponse: an active session, whatever the others are.      *)
CreateSession(r) == /\ At(r, {"recover"}, "create")
                    /\ session' = [session EXCEPT ![r] = Fresh("active", TRUE)]
                    /\ Return(r)
                    /\ UNCHANGED <<lock, grant>>

-----------------------------------------------------------------------------
(* Time *)

Expire(s) == /\ Live(s) /\ ~session[s].expired
             /\ session' = [session EXCEPT ![s].expired = TRUE]
             /\ UNCHANGED <<request, lock, grant>>

ExpireGrant(g) == /\ grant[g] # "spent"
                  /\ grant' = [grant EXCEPT ![g] = "spent"]
                  /\ UNCHANGED <<session, request, lock>>

-----------------------------------------------------------------------------
(* What the server does on its own once a request has come in *)
Serve(r) == \/ LockAccount(r) \/ LookForActive(r) \/ InsertLogin(r)
            \/ ReadPending(r) \/ Activate(r) \/ Cancel(r) \/ Logout(r)
            \/ SpendGrant(r) \/ StartRevocation(r) \/ RevokeSessions(r) \/ CreateSession(r)

Ask(r) == \/ AskLogin(r)
          \/ \E s \in Sessions : AskLogout(r, s) \/ \E op \in Decisions : AskDecision(r, op, s)
          \/ \E g \in Grants : AskRecovery(r, g) \/ ConsumePassword(r, g)

Next == \/ \E r \in Requests : Ask(r) \/ Serve(r) \/ Fail(r)
        \/ \E s \in Sessions : Expire(s)
        \/ \E g \in Grants : ExpireGrant(g)

Fairness == \A r \in Requests : WF_vars(Serve(r))
SafetySpec == Init /\ [][Next]_vars
Spec == SafetySpec /\ Fairness

-----------------------------------------------------------------------------
(* Properties *)

TypeOK == /\ session \in [Sessions -> Row]
          /\ request \in [Requests -> Request]
          /\ lock \in Requests \cup {None}
          /\ grant \in [Grants -> GrantStates]

(* Of the sessions that came from a login at most one gives access to the  *)
(* account, whatever logins, takeovers and recoveries cross each other     *)
(* (createLoginSession, activatePendingSessionByTokenHash,                 *)
(* secureAccountByPendingTokenHash under lockAccountSessions).             *)
OneInteractive == \A s, t \in Sessions :
    Usable(s) /\ Usable(t) /\ ~session[s].direct /\ ~session[t].direct => s = t

(* The document's rule for all sessions of the account: at most one is     *)
(* active.  The recoveries insert theirs without the account lock.         *)
OneActiveSession == \A s, t \in Sessions : Usable(s) /\ Usable(t) => s = t

(* A recovery ends every session that was there when its revocation began, *)
(* and no takeover that was under way brings one of them back              *)
(* (revokeSessionsByUserId against the row lock of the takeover).          *)
RecoveryEndsSessions == \A r \in Requests :
    request[r].pc \in {"create", "ended"} =>
        \A s \in request[r].saw : session[s].revoked

(* The account lock is held by the call that is in its transaction, and by  *)
(* nobody else: a call that was refused, failed or crashed leaves no lock  *)
(* behind that would shut the account (lockAccountSessions, rollback).     *)
LockEndsWithTransaction == \A r \in Requests :
    lock = r <=> /\ request[r].op \in {"login"} \cup Decisions
                 /\ request[r].pc \in {"read", "write"}

(* A session that gives access is taken away only by its own logout, by a  *)
(* recovery, or in the same step that gives access to its successor: a     *)
(* cancelled, failed or crashed takeover leaves it alone.                  *)
Acts(r) == request'[r].pc # request[r].pc
OnlyASuccessorDisplaces == [][
    \A s \in Sessions : Usable(s) /\ session'[s].revoked =>
        \/ \E t \in Sessions \ {s} : ~Usable(t) /\ Usable(t)'
        \/ \E r \in Requests : Acts(r) /\ (\/ request[r].op \in Recoveries
                                           \/ request[r].op = "logout" /\ request[r].on = s)]_vars

(* The interactive sessions implement the slot of the account.             *)
slotOf == [s \in Sessions |-> IF session[s].revoked \/ (session[s].status = "active" /\ session[s].expired)
                              THEN "over"
                              ELSE IF Usable(s) /\ ~session[s].direct THEN "held" ELSE "new"]
Slot == INSTANCE SessionSlot WITH slot <- slotOf
SlotSpec == Slot!Spec

(* Every request is answered: a failed, refused or crashed transaction     *)
(* leaves no lock behind that would shut the account.                      *)
RequestsEnd == \A r \in Requests : request[r].pc # "idle" ~> request[r].pc = "ended"
=============================================================================
