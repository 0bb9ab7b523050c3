----------------------- MODULE AccountSessionsProofs -----------------------
(***************************************************************************)
(* Proofs about AccountSessions, for any number of requests and recovery   *)
(* transactions.  The argument: who decides about the account holds its    *)
(* lock, so the session found active, or the pending row read under the    *)
(* row lock, is still so when the transaction writes; and a row's          *)
(* revocation is never taken back, because only a row that is locked and   *)
(* not revoked is written back as active.                                  *)
(***************************************************************************)
EXTENDS AccountSessions, TLAPS

(* Who has read under the account lock holds it.                           *)
Holds(r) == \/ request[r].pc = "read"
            \/ request[r].pc = "write" /\ request[r].op # "logout"
Holders == \A r \in Requests : Holds(r) => lock = r

(* A request that has not ended has not made its session.                  *)
Unborn == \A r \in Requests : request[r].pc # "ended" => session[r] = NoRow

(* The row a decision has read is still pending and not revoked.           *)
LockedRows == \A r \in Requests : At(r, Decisions, "write") =>
    /\ session[request[r].on].status = "pending"
    /\ ~session[request[r].on].revoked
    /\ request[r].row.status = "pending"
    /\ ~request[r].row.revoked
    /\ request[r].row.direct = session[request[r].on].direct

(* A login that found no session active will still be alone.               *)
NothingActive == \A r \in Requests : At(r, {"login"}, "write") /\ ~request[r].busy =>
    \A s \in Sessions : Usable(s) => session[s].direct

(* The status "revoked" comes with the mark.                               *)
Marks == \A s \in Sessions : session[s].status = "revoked" => session[s].revoked

(* Only rows that exist are seen, and only by a revocation.                *)
Reached == \A r \in Requests :
    /\ \A s \in request[r].saw : Exists(s)
    /\ request[r].pc \notin {"revoke", "create", "ended"} => request[r].saw = {}

(* The token of a logout belongs to a row.                                 *)
Named == \A r \in Requests : request[r].op = "logout" => Exists(request[r].on)

Inv == /\ TypeOK /\ Holders /\ Unborn /\ LockedRows /\ NothingActive
       /\ Marks /\ Reached /\ Named /\ OneInteractive /\ RecoveryEndsSessions

(* A row is never lost and its revocation never taken back.                *)
Monotone == \A s \in Sessions : /\ Exists(s) => Exists(s)'
                                /\ session[s].revoked => session'[s].revoked

LEMMA RowTypes ==
    /\ NoRow \in Row /\ NoRow.status = "none" /\ ~NoRow.revoked
    /\ \A x \in {"pending", "active"}, d \in BOOLEAN :
          /\ Fresh(x, d) \in Row
          /\ Fresh(x, d).status = x /\ ~Fresh(x, d).revoked /\ Fresh(x, d).direct = d
    /\ \A x \in Row : /\ Revoked(x) \in Row /\ Revoked(x).revoked
                      /\ Revoked(x).status = "revoked" /\ Revoked(x).direct = x.direct
                      /\ Activated(x) \in Row /\ Activated(x).status = "active"
                      /\ Activated(x).revoked = x.revoked /\ Activated(x).direct = x.direct
  BY DEF Row, NoRow, Fresh, Revoked, Activated

LEMMA IdleFields == /\ Idle \in Request
                    /\ Idle.op = "none" /\ Idle.pc = "idle" /\ Idle.saw = {}
  BY RowTypes DEF Idle, Request, Sessions

-----------------------------------------------------------------------------
(* What a step of one request has to meet *)

(* r becomes q; the rows of the others are left as they rely on.           *)
Step(r, q) ==
    /\ q \in Request
    /\ request' = [request EXCEPT ![r] = q]
    /\ session' \in [Sessions -> Row]
    /\ lock' \in Requests \cup {None}
    /\ grant' \in [Grants -> GrantStates]
    /\ \A p \in Requests \ {r} : lock = p => lock' = p
    /\ q.pc = "read" \/ (q.pc = "write" /\ q.op # "logout") => lock' = r
    /\ Monotone

LEMMA StepInv ==
  ASSUME Inv, NEW r \in Requests, NEW q, Step(r, q),
         Marks', OneInteractive',
         request[r].pc # "ended",
         \A p \in Requests \ {r} : request[p].pc # "ended" => session'[p] = session[p],
         q.pc # "ended" => session'[r] = NoRow,
         \A p \in Requests \ {r} : At(p, Decisions, "write") =>
            /\ session'[request[p].on].status = session[request[p].on].status
            /\ session'[request[p].on].revoked = session[request[p].on].revoked
            /\ session'[request[p].on].direct = session[request[p].on].direct,
         q.op \in Decisions /\ q.pc = "write" =>
            /\ session'[q.on].status = "pending" /\ ~session'[q.on].revoked
            /\ q.row.status = "pending" /\ ~q.row.revoked
            /\ q.row.direct = session'[q.on].direct,
         \A p \in Requests \ {r} : At(p, {"login"}, "write") =>
            \A s \in Sessions : Usable(s)' => \/ session'[s].direct
                                              \/ Usable(s) /\ session'[s].direct = session[s].direct,
         q.op = "login" /\ q.pc = "write" /\ ~q.busy =>
            \A s \in Sessions : Usable(s)' => session'[s].direct,
         q.op = "logout" => Exists(q.on)',
         \A s \in q.saw : Exists(s)',
         q.pc \notin {"revoke", "create", "ended"} => q.saw = {},
         q.pc \in {"create", "ended"} => \A s \in q.saw : session'[s].revoked
  PROVE  Inv'
<1> USE DEF Step
<1>0. /\ request'[r] = q
      /\ \A p \in Requests \ {r} : request'[p] = request[p]
      /\ \A p \in Requests : request[p] \in Request
  BY DEF Inv, TypeOK
<1>1. TypeOK' BY DEF Inv, TypeOK
<1>2. Holders' BY <1>0 DEF Inv, Holders, Holds
<1>3. Unborn' BY <1>0 DEF Inv, Unborn
<1>4. LockedRows' BY <1>0 DEF Inv, LockedRows, At
<1>5. NothingActive' BY <1>0 DEF Inv, NothingActive, At
<1>6. Reached'
  <2> SUFFICES ASSUME NEW p \in Requests
               PROVE /\ \A s \in request'[p].saw : Exists(s)'
                     /\ request'[p].pc \notin {"revoke", "create", "ended"} => request'[p].saw = {}
    BY DEF Reached
  <2>1. CASE p = r BY <2>1, <1>0
  <2>2. CASE p # r
    <3>1. \A s \in request[p].saw : s \in Sessions BY <1>0 DEF Request
    <3> QED BY <2>2, <3>1, <1>0 DEF Inv, Reached, Monotone
  <2> QED BY <2>1, <2>2
<1>7. RecoveryEndsSessions'
  <2> SUFFICES ASSUME NEW p \in Requests, request'[p].pc \in {"create", "ended"},
                      NEW s \in request'[p].saw
               PROVE session'[s].revoked
    BY DEF RecoveryEndsSessions
  <2>1. CASE p = r BY <2>1, <1>0
  <2>2. CASE p # r
    <3>1. s \in Sessions BY <2>2, <1>0 DEF Request
    <3> QED BY <2>2, <3>1, <1>0 DEF Inv, RecoveryEndsSessions, Monotone
  <2> QED BY <2>1, <2>2
<1>8. Named'
  <2> SUFFICES ASSUME NEW p \in Requests, request'[p].op = "logout"
               PROVE Exists(request[p].on)'
    BY DEF Named
  <2>1. CASE p = r BY <2>1, <1>0 DEF Exists
  <2>2. CASE p # r
    <3>1. request[p].on \in Sessions BY <1>0 DEF Request
    <3> QED BY <2>2, <3>1, <1>0 DEF Inv, Named, Monotone, Exists
  <2> QED BY <2>1, <2>2
<1> QED BY <1>1, <1>2, <1>3, <1>4, <1>5, <1>6, <1>7, <1>8 DEF Inv

(* The same for a step that leaves the rows alone.                         *)
LEMMA QuietInv ==
  ASSUME Inv, NEW r \in Requests, NEW q \in Request,
         request' = [request EXCEPT ![r] = q], session' = session,
         lock' \in Requests \cup {None}, grant' \in [Grants -> GrantStates],
         \A p \in Requests \ {r} : lock = p => lock' = p,
         q.pc = "read" \/ (q.pc = "write" /\ q.op # "logout") => lock' = r,
         request[r].pc # "ended",
         q.op \in Decisions /\ q.pc = "write" =>
            /\ session[q.on].status = "pending" /\ ~session[q.on].revoked
            /\ q.row.status = "pending" /\ ~q.row.revoked
            /\ q.row.direct = session[q.on].direct,
         q.op = "login" /\ q.pc = "write" /\ ~q.busy =>
            \A s \in Sessions : Usable(s) => session[s].direct,
         q.op = "logout" => Exists(q.on),
         \A s \in q.saw : Exists(s),
         q.pc \notin {"revoke", "create", "ended"} => q.saw = {},
         q.pc \in {"create", "ended"} => \A s \in q.saw : session[s].revoked
  PROVE  Inv'
<1>1. \A s \in Sessions : (Usable(s)' <=> Usable(s)) /\ (Exists(s)' <=> Exists(s))
  BY DEF Usable, Live, Exists
<1>2. Step(r, q) BY <1>1 DEF Step, Inv, TypeOK, Monotone
<1>3. Marks' /\ OneInteractive' BY <1>1 DEF Inv, Marks, OneInteractive
<1>4. (\A s \in q.saw : Exists(s)') /\ (q.op = "logout" => Exists(q.on)') BY DEF Exists
<1>5. q.pc # "ended" => session'[r] = NoRow BY DEF Inv, Unborn
<1> QED BY <1>1, <1>2, <1>3, <1>4, <1>5, StepInv

-----------------------------------------------------------------------------
(* The initial state *)

LEMMA InitInv == Init => Inv
<1> SUFFICES ASSUME Init PROVE Inv OBVIOUS
<1> USE DEF Init
<1>0. Fresh("active", TRUE) \in Row BY RowTypes
<1>1. TypeOK
  <2>1. session \in [Sessions -> Row] BY <1>0, RowTypes
  <2>2. request \in [Requests -> Request] BY IdleFields
  <2>3. grant \in [Grants -> GrantStates] BY DEF GrantStates
  <2> QED BY <2>1, <2>2, <2>3 DEF TypeOK
<1>2. Holders BY IdleFields DEF Holders, Holds
<1>3. Unborn BY FirstIsNoRequest DEF Unborn, Sessions
<1>4. LockedRows /\ NothingActive /\ Reached /\ Named /\ RecoveryEndsSessions
  BY IdleFields DEF LockedRows, NothingActive, Reached, Named, RecoveryEndsSessions, At
<1>5. Marks /\ OneInteractive
  BY RowTypes DEF Marks, OneInteractive, Usable, Live, Exists
<1> QED BY <1>1, <1>2, <1>3, <1>4, <1>5 DEF Inv

-----------------------------------------------------------------------------
(* Steps that leave the rows alone *)

LEMMA BeginInv ==
  ASSUME Inv, NEW r \in Requests, NEW s \in Sessions, NEW g \in Grants \cup {None},
         NEW op \in {"login", "logout", "recover"} \cup Decisions,
         NEW pc \in {"lock", "write", "spend"},
         pc = "write" => op = "logout",
         op = "logout" => Exists(s),
         Begin(r, op, s, g, pc)
  PROVE  Inv'
<1> DEFINE q == [Idle EXCEPT !.op = op, !.pc = pc, !.on = s, !.by = g]
<1>1. q \in Request /\ q.op = op /\ q.pc = pc /\ q.on = s /\ q.saw = {}
  BY IdleFields DEF Request, Decisions, Recoveries
<1>2. request' = [request EXCEPT ![r] = q] /\ UNCHANGED <<session, lock, grant>>
      /\ request[r].pc = "idle"
  BY DEF Begin
<1> HIDE DEF q
<1> QED BY <1>1, <1>2, QuietInv DEF Inv, TypeOK, Decisions

LEMMA AskInv == ASSUME Inv, NEW r \in Requests, Ask(r) PROVE Inv'
<1>0. First \in Sessions BY DEF Sessions
<1>1. CASE AskLogin(r) BY <1>0, <1>1, BeginInv DEF AskLogin
<1>2. ASSUME NEW s \in Sessions, AskLogout(r, s) PROVE Inv'
  BY <1>2, BeginInv DEF AskLogout, Live
<1>3. ASSUME NEW s \in Sessions, NEW op \in Decisions, AskDecision(r, op, s) PROVE Inv'
  <2>1. op # "logout" BY DEF Decisions
  <2> QED BY <1>3, <2>1, BeginInv DEF AskDecision
<1>4. ASSUME NEW g \in Grants, AskRecovery(r, g) PROVE Inv'
  BY <1>0, <1>4, BeginInv DEF AskRecovery
<1>5. ASSUME NEW g \in Grants, ConsumePassword(r, g) PROVE Inv'
  <2> DEFINE q == [Idle EXCEPT !.op = "support", !.pc = "start", !.by = g]
  <2>1. q \in Request /\ q.op = "support" /\ q.pc = "start" /\ q.saw = {}
    BY IdleFields DEF Request, Recoveries
  <2>2. /\ request' = [request EXCEPT ![r] = q] /\ UNCHANGED <<session, lock>>
        /\ grant' \in [Grants -> GrantStates] /\ request[r].pc = "idle"
    BY <1>5 DEF ConsumePassword, Inv, TypeOK, GrantStates
  <2> HIDE DEF q
  <2> QED BY <2>1, <2>2, QuietInv DEF Inv, TypeOK, Decisions
<1> QED BY <1>1, <1>2, <1>3, <1>4, <1>5 DEF Ask

LEMMA FailInv == ASSUME Inv, NEW r \in Requests, Fail(r) PROVE Inv'
<1> DEFINE q == [Idle EXCEPT !.pc = "ended"]
<1>1. q \in Request /\ q.op = "none" /\ q.pc = "ended" /\ q.saw = {}
  BY IdleFields DEF Request
<1>2. /\ request' = [request EXCEPT ![r] = q] /\ UNCHANGED <<session, grant>>
      /\ request[r].pc # "ended"
  BY DEF Fail
<1>3. /\ lock' \in Requests \cup {None}
      /\ \A p \in Requests \ {r} : lock = p => lock' = p
  BY DEF Fail, Unlock, Inv, TypeOK
<1> HIDE DEF q
<1> QED BY <1>1, <1>2, <1>3, QuietInv DEF Inv, TypeOK, Decisions

LEMMA LockAccountInv == ASSUME Inv, NEW r \in Requests, LockAccount(r) PROVE Inv'
<1> DEFINE q == [request[r] EXCEPT !.pc = "read"]
<1>1. request[r] \in Request BY DEF Inv, TypeOK
<1>2. /\ q \in Request /\ q.pc = "read" /\ q.saw = request[r].saw
      /\ q.op = request[r].op /\ q.on = request[r].on
  BY <1>1 DEF Request
<1>3. /\ request' = [request EXCEPT ![r] = q] /\ UNCHANGED <<session, grant>>
      /\ request[r].pc = "lock" /\ lock = None /\ lock' = r
  BY DEF LockAccount, Goto
<1>4. q.saw = {} /\ (q.op = "logout" => Exists(q.on)) BY <1>2, <1>3 DEF Inv, Reached, Named
<1>5. \A p \in Requests : lock # p BY <1>3, FirstIsNoRequest
<1> HIDE DEF q
<1> QED BY <1>2, <1>3, <1>4, <1>5, QuietInv DEF Inv, TypeOK

LEMMA LookForActiveInv == ASSUME Inv, NEW r \in Requests, LookForActive(r) PROVE Inv'
<1> DEFINE q == [request[r] EXCEPT !.busy = \E s \in Sessions : Usable(s), !.pc = "write"]
<1>1. request[r] \in Request BY DEF Inv, TypeOK
<1>2. /\ q \in Request /\ q.pc = "write" /\ q.saw = request[r].saw /\ q.op = request[r].op
      /\ q.busy = \E s \in Sessions : Usable(s)
  BY <1>1 DEF Request
<1>3. /\ request' = [request EXCEPT ![r] = q] /\ UNCHANGED <<session, lock, grant>>
      /\ request[r].pc = "read" /\ request[r].op = "login"
  BY <1>1 DEF LookForActive, At, Inv, TypeOK, Request
<1>4. q.saw = {} /\ lock = r BY <1>2, <1>3 DEF Inv, Reached, Holders, Holds
<1> HIDE DEF q
<1> QED BY <1>2, <1>3, <1>4, QuietInv DEF Inv, TypeOK, Decisions

(* What a returning request keeps.                                         *)
Returned(r) == [Idle EXCEPT !.pc = "ended", !.saw = request[r].saw]

LEMMA ReturnFields ==
  ASSUME Inv, NEW r \in Requests
  PROVE  /\ Returned(r) \in Request /\ Returned(r).op = "none" /\ Returned(r).pc = "ended"
         /\ Returned(r).saw = request[r].saw /\ request[r].saw \subseteq Sessions
<1>1. request[r] \in Request BY DEF Inv, TypeOK
<1>2. request[r].saw \subseteq Sessions BY <1>1 DEF Request
<1> QED BY <1>2, IdleFields DEF Returned, Request

LEMMA ReadPendingInv == ASSUME Inv, NEW r \in Requests, ReadPending(r) PROVE Inv'
<1>1. request[r] \in Request /\ request[r].on \in Sessions BY DEF Inv, TypeOK, Request
<1>2. /\ request[r].pc = "read" /\ request[r].op \in Decisions /\ UNCHANGED <<session, grant>>
  BY DEF ReadPending, At
<1>3. request[r].saw = {} /\ lock = r BY <1>2 DEF Inv, Reached, Holders, Holds
<1>4. CASE UsablePending(session[request[r].on])
  <2> DEFINE q == [request[r] EXCEPT !.row = session[request[r].on], !.pc = "write"]
  <2>1. session[request[r].on] \in Row BY <1>1 DEF Inv, TypeOK
  <2>2. /\ q \in Request /\ q.pc = "write" /\ q.saw = {} /\ q.op \in Decisions
        /\ q.on = request[r].on /\ q.row = session[request[r].on]
    BY <1>1, <1>2, <1>3, <2>1 DEF Request
  <2>3. request' = [request EXCEPT ![r] = q] /\ UNCHANGED lock
    BY <1>1, <1>4 DEF ReadPending, Inv, TypeOK, Request
  <2>4. q.row.status = "pending" /\ ~q.row.revoked BY <1>4, <2>2 DEF UsablePending
  <2> HIDE DEF q
  <2> QED BY <1>2, <1>3, <2>2, <2>3, <2>4, QuietInv DEF Inv, TypeOK, Decisions
<1>5. CASE ~UsablePending(session[request[r].on])
  <2>1. request' = [request EXCEPT ![r] = Returned(r)] /\ lock' = None
    BY <1>3, <1>5 DEF ReadPending, Return, Unlock, Returned
  <2> QED BY <1>2, <1>3, <2>1, ReturnFields, QuietInv DEF Inv, TypeOK, Decisions
<1> QED BY <1>4, <1>5

LEMMA SpendGrantInv == ASSUME Inv, NEW r \in Requests, SpendGrant(r) PROVE Inv'
<1> DEFINE q == [request[r] EXCEPT !.pc = "start"]
<1>1. request[r] \in Request BY DEF Inv, TypeOK
<1>2. q \in Request /\ q.pc = "start" /\ q.saw = request[r].saw /\ q.op = request[r].op
  BY <1>1 DEF Request
<1>3. /\ request' = [request EXCEPT ![r] = q] /\ UNCHANGED <<session, lock>>
      /\ request[r].pc = "spend" /\ request[r].op = "recover" /\ grant' \in [Grants -> GrantStates]
  BY DEF SpendGrant, Goto, At, Inv, TypeOK, GrantStates
<1>4. q.saw = {} BY <1>2, <1>3 DEF Inv, Reached
<1> HIDE DEF q
<1> QED BY <1>2, <1>3, <1>4, QuietInv DEF Inv, TypeOK

LEMMA StartRevocationInv == ASSUME Inv, NEW r \in Requests, StartRevocation(r) PROVE Inv'
<1> DEFINE q == [request[r] EXCEPT !.saw = {s \in Sessions : Live(s)}, !.pc = "revoke"]
<1>1. request[r] \in Request BY DEF Inv, TypeOK
<1>2. /\ q \in Request /\ q.pc = "revoke" /\ q.saw = {s \in Sessions : Live(s)}
      /\ q.op = request[r].op
  BY <1>1 DEF Request
<1>3. /\ request' = [request EXCEPT ![r] = q] /\ UNCHANGED <<session, lock, grant>>
      /\ request[r].pc = "start" /\ request[r].op # "logout"
  BY <1>1 DEF StartRevocation, At, Recoveries, Inv, TypeOK, Request
<1>4. \A s \in q.saw : Exists(s) BY <1>2 DEF Live
<1> HIDE DEF q
<1> QED BY <1>2, <1>3, <1>4, QuietInv DEF Inv, TypeOK

-----------------------------------------------------------------------------
(* Steps that write rows *)

(* Nobody but login sessions that were usable before is usable.            *)
NoNewcomer == \A s \in Sessions :
    Usable(s)' => \/ session'[s].direct
                  \/ Usable(s) /\ session'[s].direct = session[s].direct

LEMMA NoNewcomerAlone == ASSUME Inv, NoNewcomer PROVE OneInteractive'
  BY DEF Inv, OneInteractive, NoNewcomer

(* The holder of the account lock is the only one who decides.             *)
LEMMA HolderAlone ==
  ASSUME Inv, NEW r \in Requests, Holds(r), NEW p \in Requests \ {r}
  PROVE  ~At(p, Decisions, "write") /\ ~At(p, {"login"}, "write")
  BY DEF Inv, Holders, Holds, At, Decisions

(* A row written by a request that does not hold the account lock.         *)
LEMMA UnlockedInv ==
  ASSUME Inv, NEW r \in Requests, NEW q, Step(r, q), Marks', NoNewcomer,
         request[r].pc # "ended",
         \A p \in Requests \ {r} : request[p].pc # "ended" => session'[p] = session[p],
         q.pc # "ended" => session'[r] = NoRow,
         \A p \in Requests \ {r} : At(p, Decisions, "write") =>
            /\ session'[request[p].on].status = session[request[p].on].status
            /\ session'[request[p].on].revoked = session[request[p].on].revoked
            /\ session'[request[p].on].direct = session[request[p].on].direct,
         q.op \in {"none", "recover"}, q.pc \in {"create", "ended"},
         \A s \in q.saw : Exists(s)' /\ session'[s].revoked
  PROVE  Inv'
<1>1. OneInteractive' BY NoNewcomerAlone
<1>2. \A p \in Requests \ {r} : At(p, {"login"}, "write") =>
        \A s \in Sessions : Usable(s)' => \/ session'[s].direct
                                          \/ Usable(s) /\ session'[s].direct = session[s].direct
  BY DEF NoNewcomer
<1>3. /\ q.op \notin Decisions /\ q.op # "login" /\ q.op # "logout" /\ q.pc # "write"
      /\ q.pc \in {"revoke", "create", "ended"}
  BY DEF Decisions
<1>4. (\A s \in q.saw : Exists(s)') /\ (\A s \in q.saw : session'[s].revoked)
  OBVIOUS
<1> QED BY <1>1, <1>2, <1>3, <1>4, StepInv

LEMMA InsertLoginInv == ASSUME Inv, NEW r \in Requests, InsertLogin(r) PROVE Inv'
<1> DEFINE q == Returned(r)
           new == Fresh(IF request[r].busy THEN "pending" ELSE "active", FALSE)
<1>1. /\ request[r].op = "login" /\ request[r].pc = "write" /\ Holds(r) /\ lock = r
      /\ request[r].saw = {} /\ session[r] = NoRow /\ r \in Sessions
  BY DEF InsertLogin, At, Holds, Inv, Holders, Reached, Unborn, Sessions
<1>2. request' = [request EXCEPT ![r] = q] /\ lock' = None /\ UNCHANGED grant
  BY <1>1 DEF InsertLogin, Return, Unlock, Returned
<1>3. /\ new \in Row /\ ~new.revoked /\ ~new.direct
      /\ new.status = IF request[r].busy THEN "pending" ELSE "active"
  <2>1. FALSE \in BOOLEAN OBVIOUS
  <2>2. CASE request[r].busy BY <2>1, <2>2, RowTypes
  <2>3. CASE ~request[r].busy BY <2>1, <2>3, RowTypes
  <2> QED BY <2>2, <2>3
<1> HIDE DEF q, new
<1>4. /\ session' \in [Sessions -> Row] /\ session'[r] = new
      /\ \A s \in Sessions \ {r} :
            \/ session'[s] = session[s]
            \/ session'[s] = Revoked(session[s])
  BY <1>1, <1>3, RowTypes DEF InsertLogin, Inv, TypeOK, new
<1>5. \A s \in Sessions : session[s] \in Row BY DEF Inv, TypeOK
<1>6. /\ \A s \in Sessions \ {r} :
            (Usable(s)' => Usable(s)) /\ session'[s].direct = session[s].direct
      /\ Marks' /\ Monotone
  BY <1>1, <1>3, <1>4, <1>5, RowTypes DEF Usable, Live, Exists, Inv, Marks, Monotone
<1>7. OneInteractive'
  <2>1. CASE request[r].busy
    <3>1. ~Usable(r)' BY <1>3, <1>4, <2>1 DEF Usable
    <3> QED BY <1>6, <3>1, NoNewcomerAlone DEF NoNewcomer
  <2>2. CASE ~request[r].busy
    <3>1. \A s \in Sessions : Usable(s) => session[s].direct
      BY <1>1, <2>2 DEF Inv, NothingActive, At
    <3> QED BY <1>6, <3>1 DEF OneInteractive
  <2> QED BY <2>1, <2>2
<1>8. \A p \in Requests \ {r} : request[p].pc # "ended" => session'[p] = session[p]
  <2> SUFFICES ASSUME NEW p \in Requests \ {r}, request[p].pc # "ended"
               PROVE session'[p] = session[p]
    OBVIOUS
  <2>1. session[p] = NoRow /\ p \in Sessions BY DEF Inv, Unborn, Sessions
  <2> QED BY <2>1, RowTypes DEF InsertLogin, Live, Exists
<1>9. Step(r, q)
  BY <1>1, <1>2, <1>4, <1>6, ReturnFields, FirstIsNoRequest DEF Step, q, Inv, TypeOK
<1> QED BY <1>1, <1>2, <1>6, <1>7, <1>8, <1>9, ReturnFields, HolderAlone, StepInv DEF q, Decisions

LEMMA ActivateInv == ASSUME Inv, NEW r \in Requests, Activate(r) PROVE Inv'
<1> DEFINE q == Returned(r)
           a == request[r].on
<1>1. /\ request[r].op \in {"takeover", "secure"} /\ request[r].pc = "write"
      /\ Holds(r) /\ lock = r /\ request[r].saw = {} /\ request[r] \in Request
      /\ a \in Sessions /\ request[r].row \in Row
  BY DEF Activate, At, Holds, Inv, Holders, Reached, TypeOK, Request
<1>2. request' = [request EXCEPT ![r] = q] /\ lock' = None /\ UNCHANGED grant
  BY <1>1 DEF Activate, Return, Unlock, Returned
<1>3. /\ session[a].status = "pending" /\ ~session[a].revoked
      /\ ~request[r].row.revoked /\ request[r].row.direct = session[a].direct
  BY <1>1 DEF Inv, LockedRows, At, Decisions
<1>4. /\ session'[a].status = "active" /\ ~session'[a].revoked
      /\ session'[a].direct = session[a].direct
      /\ session' \in [Sessions -> Row]
      /\ \A s \in Sessions \ {a} :
            \/ session'[s] = session[s] /\ ~(Live(s) /\ session[s].status = "active")
            \/ session'[s] = Revoked(session[s]) /\ Live(s)
  BY <1>1, <1>3, RowTypes DEF Activate, Inv, TypeOK
<1> HIDE DEF q, a
<1>5. \A s \in Sessions : session[s] \in Row BY DEF Inv, TypeOK
<1>6. /\ \A s \in Sessions \ {a} : ~Usable(s)' /\ session'[s].direct = session[s].direct
      /\ Marks' /\ Monotone
  BY <1>1, <1>3, <1>4, <1>5, RowTypes DEF Usable, Live, Exists, Inv, Marks, Monotone, Row
<1>7. OneInteractive' BY <1>6 DEF OneInteractive
<1>8. \A p \in Requests \ {r} : request[p].pc # "ended" => session'[p] = session[p]
  <2> SUFFICES ASSUME NEW p \in Requests \ {r}, request[p].pc # "ended"
               PROVE session'[p] = session[p]
    OBVIOUS
  <2>1. session[p] = NoRow /\ p \in Sessions BY DEF Inv, Unborn, Sessions
  <2> QED BY <1>3, <1>4, <2>1, RowTypes DEF Live, Exists
<1>9. Step(r, q)
  BY <1>1, <1>2, <1>4, <1>6, ReturnFields, FirstIsNoRequest DEF Step, q, Inv, TypeOK
<1> QED BY <1>1, <1>2, <1>6, <1>7, <1>8, <1>9, ReturnFields, HolderAlone, StepInv DEF q, Decisions

LEMMA CancelInv == ASSUME Inv, NEW r \in Requests, Cancel(r) PROVE Inv'
<1> DEFINE q == Returned(r)
           a == request[r].on
<1>1. /\ request[r].op = "cancel" /\ request[r].pc = "write"
      /\ Holds(r) /\ lock = r /\ request[r].saw = {} /\ request[r] \in Request
      /\ a \in Sessions /\ request[r].row \in Row
  BY DEF Cancel, At, Holds, Inv, Holders, Reached, TypeOK, Request
<1>2. request' = [request EXCEPT ![r] = q] /\ lock' = None /\ UNCHANGED grant
  BY <1>1 DEF Cancel, Return, Unlock, Returned
<1>3. session[a].status = "pending" /\ request[r].row.direct = session[a].direct
  BY <1>1 DEF Inv, LockedRows, At, Decisions
<1>4. /\ session'[a] = Revoked(request[r].row) /\ session' \in [Sessions -> Row]
      /\ \A s \in Sessions \ {a} : session'[s] = session[s]
  BY <1>1, RowTypes DEF Cancel, Inv, TypeOK
<1> HIDE DEF q, a
<1>5. NoNewcomer /\ Marks' /\ Monotone
  BY <1>1, <1>3, <1>4, RowTypes DEF NoNewcomer, Usable, Live, Exists, Inv, Marks, Monotone
<1>6. \A p \in Requests \ {r} : request[p].pc # "ended" => session'[p] = session[p]
  <2> SUFFICES ASSUME NEW p \in Requests \ {r}, request[p].pc # "ended"
               PROVE session'[p] = session[p]
    OBVIOUS
  <2>1. session[p] = NoRow /\ p \in Sessions BY DEF Inv, Unborn, Sessions
  <2> QED BY <1>3, <1>4, <2>1, RowTypes
<1>7. Step(r, q)
  BY <1>1, <1>2, <1>4, <1>5, ReturnFields, FirstIsNoRequest DEF Step, q, Inv, TypeOK
<1> QED BY <1>1, <1>2, <1>5, <1>6, <1>7, NoNewcomerAlone, ReturnFields, HolderAlone, StepInv
        DEF q, Decisions

LEMMA LogoutInv == ASSUME Inv, NEW r \in Requests, Logout(r) PROVE Inv'
<1> DEFINE q == Returned(r)
           a == request[r].on
<1>1. /\ request[r].op = "logout" /\ request[r].pc = "write" /\ request[r].saw = {}
      /\ a \in Sessions /\ session[a].status # "none" /\ session[a] \in Row
  BY DEF Logout, At, Inv, Reached, Named, Exists, TypeOK, Request
<1>2. request' = [request EXCEPT ![r] = q] /\ UNCHANGED <<lock, grant>>
  BY DEF Logout, Return, Returned
<1>3. \A p \in Requests : At(p, Decisions, "write") => request[p].on \in Sessions \ {a}
  BY DEF Logout, RowLocked, At, Inv, TypeOK, Request
<1>4. /\ session'[a] = Revoked(session[a]) /\ session' \in [Sessions -> Row]
      /\ \A s \in Sessions \ {a} : session'[s] = session[s]
  BY <1>1, RowTypes DEF Logout, Inv, TypeOK
<1> HIDE DEF q, a
<1>5. NoNewcomer /\ Marks' /\ Monotone
  BY <1>1, <1>4, RowTypes DEF NoNewcomer, Usable, Live, Exists, Inv, Marks, Monotone
<1>6. \A p \in Requests \ {r} : request[p].pc # "ended" => session'[p] = session[p]
  <2> SUFFICES ASSUME NEW p \in Requests \ {r}, request[p].pc # "ended"
               PROVE session'[p] = session[p]
    OBVIOUS
  <2>1. session[p] = NoRow /\ p \in Sessions BY DEF Inv, Unborn, Sessions
  <2> QED BY <1>1, <1>4, <2>1, RowTypes
<1>7. Step(r, q) BY <1>2, <1>4, <1>5, ReturnFields DEF Step, q, Inv, TypeOK
<1>8. q.pc = "ended" /\ q.op = "none" /\ q.saw = {} BY <1>1, ReturnFields DEF q
<1>9. \A p \in Requests : At(p, Decisions, "write") => session'[request[p].on] = session[request[p].on]
  BY <1>3, <1>4
<1>10. request[r].pc # "ended" BY <1>1
<1> QED BY <1>5, <1>6, <1>7, <1>8, <1>9, <1>10, UnlockedInv

LEMMA RevokeSessionsInv == ASSUME Inv, NEW r \in Requests, RevokeSessions(r) PROVE Inv'
<1>1. /\ request[r].op \in Recoveries /\ request[r].pc = "revoke" /\ request[r] \in Request
      /\ request[r].saw \subseteq Sessions /\ (\A s \in request[r].saw : Exists(s))
      /\ UNCHANGED <<lock, grant>>
  BY DEF RevokeSessions, At, Inv, Reached, TypeOK, Request
<1>2. \A s \in Sessions : session[s] \in Row BY DEF Inv, TypeOK
<1>3. /\ session' \in [Sessions -> Row]
      /\ \A s \in Sessions :
            /\ session'[s].status = session[s].status
            /\ session'[s].expired = session[s].expired
            /\ session'[s].direct = session[s].direct
            /\ session'[s].revoked = (session[s].revoked \/ s \in request[r].saw)
  BY <1>2 DEF RevokeSessions, Row
<1>4. NoNewcomer /\ Marks' /\ Monotone
  BY <1>3 DEF NoNewcomer, Usable, Live, Exists, Inv, Marks, Monotone
<1>5. \A p \in Requests : request[p].pc # "ended" => session'[p] = session[p]
  <2> SUFFICES ASSUME NEW p \in Requests, request[p].pc # "ended"
               PROVE session'[p] = session[p]
    OBVIOUS
  <2>1. session[p] = NoRow /\ p \in Sessions BY DEF Inv, Unborn, Sessions
  <2>2. p \notin request[r].saw BY <1>1, <2>1, RowTypes DEF Exists
  <2>3. session'[p] = [session[p] EXCEPT !.revoked = session[p].revoked \/ p \in request[r].saw]
    BY <2>1 DEF RevokeSessions
  <2> QED BY <1>2, <2>1, <2>2, <2>3 DEF Row
<1>6. \A p \in Requests : At(p, Decisions, "write") =>
        request[p].on \in Sessions /\ request[p].on \notin request[r].saw
  BY <1>1 DEF RevokeSessions, RowLocked, At, Inv, TypeOK, Request
<1>9. \A p \in Requests : At(p, Decisions, "write") =>
        /\ session'[request[p].on].status = session[request[p].on].status
        /\ session'[request[p].on].revoked = session[request[p].on].revoked
        /\ session'[request[p].on].direct = session[request[p].on].direct
  <2> SUFFICES ASSUME NEW p \in Requests, At(p, Decisions, "write")
               PROVE /\ session'[request[p].on].status = session[request[p].on].status
                     /\ session'[request[p].on].revoked = session[request[p].on].revoked
                     /\ session'[request[p].on].direct = session[request[p].on].direct
    OBVIOUS
  <2>1. request[p].on \in Sessions /\ request[p].on \notin request[r].saw BY <1>6
  <2>2. session[request[p].on] \in Row BY <1>2, <2>1
  <2> QED BY <1>3, <2>1, <2>2 DEF Row
<1>7. CASE request[r].op = "recover"
  <2> DEFINE q == [request[r] EXCEPT !.pc = "create"]
  <2>1. q \in Request /\ q.pc = "create" /\ q.saw = request[r].saw /\ q.op = "recover"
    BY <1>1, <1>7 DEF Request
  <2>2. request' = [request EXCEPT ![r] = q] BY <1>7 DEF RevokeSessions, Goto
  <2> HIDE DEF q
  <2>3. Step(r, q) BY <1>1, <1>3, <1>4, <2>1, <2>2 DEF Step, Inv, TypeOK
  <2>4. \A s \in q.saw : Exists(s)' /\ session'[s].revoked BY <1>1, <1>3, <2>1 DEF Exists
  <2>5. session'[r] = NoRow BY <1>1, <1>5 DEF Inv, Unborn
  <2>6. request[r].pc # "ended" BY <1>1
  <2> QED BY <1>4, <1>5, <1>9, <2>1, <2>3, <2>4, <2>5, <2>6, UnlockedInv
<1>8. CASE request[r].op # "recover"
  <2> DEFINE q == Returned(r)
  <2>1. /\ q \in Request /\ q.pc = "ended" /\ q.saw = request[r].saw /\ q.op = "none"
    BY ReturnFields
  <2>2. request' = [request EXCEPT ![r] = q] BY <1>8 DEF RevokeSessions, Return, Returned
  <2> HIDE DEF q
  <2>3. Step(r, q) BY <1>1, <1>3, <1>4, <2>1, <2>2 DEF Step, Inv, TypeOK
  <2>4. \A s \in q.saw : Exists(s)' /\ session'[s].revoked BY <1>1, <1>3, <2>1 DEF Exists
  <2>5. request[r].pc # "ended" BY <1>1
  <2> QED BY <1>4, <1>5, <1>9, <2>1, <2>3, <2>4, <2>5, UnlockedInv
<1> QED BY <1>7, <1>8

LEMMA CreateSessionInv == ASSUME Inv, NEW r \in Requests, CreateSession(r) PROVE Inv'
<1> DEFINE q == Returned(r)
<1>1. /\ request[r].op = "recover" /\ request[r].pc = "create" /\ session[r] = NoRow
      /\ r \in Sessions /\ (\A s \in request[r].saw : session[s].revoked /\ Exists(s))
  BY DEF CreateSession, At, Inv, Unborn, RecoveryEndsSessions, Reached, Sessions
<1>2. request' = [request EXCEPT ![r] = q] /\ UNCHANGED <<lock, grant>>
  BY DEF CreateSession, Return, Returned
<1>3. /\ Fresh("active", TRUE) \in Row /\ Fresh("active", TRUE).status = "active"
      /\ ~Fresh("active", TRUE).revoked /\ Fresh("active", TRUE).direct
  BY RowTypes
<1>4. /\ session'[r] = Fresh("active", TRUE) /\ session' \in [Sessions -> Row]
      /\ \A s \in Sessions \ {r} : session'[s] = session[s]
  BY <1>1, <1>3 DEF CreateSession, Inv, TypeOK
<1> HIDE DEF q
<1>5. NoNewcomer /\ Marks' /\ Monotone
  <2>1. session[r].status = "none" /\ ~session[r].revoked BY <1>1, RowTypes
  <2>2. NoNewcomer BY <1>3, <1>4 DEF NoNewcomer, Usable, Live, Exists
  <2>3. Marks' BY <1>3, <1>4 DEF Inv, Marks
  <2>4. Monotone BY <1>4, <2>1 DEF Monotone, Exists
  <2> QED BY <2>2, <2>3, <2>4
<1>6. \A p \in Requests \ {r} : session'[p] = session[p] BY <1>4 DEF Sessions
<1>7. \A p \in Requests : At(p, Decisions, "write") => request[p].on \in Sessions \ {r}
  <2> SUFFICES ASSUME NEW p \in Requests, At(p, Decisions, "write")
               PROVE request[p].on \in Sessions \ {r}
    OBVIOUS
  <2>1. request[p].on \in Sessions /\ session[request[p].on].status = "pending"
    BY DEF Inv, TypeOK, Request, LockedRows
  <2> QED BY <1>1, <2>1, RowTypes
<1>8. /\ q \in Request /\ q.pc = "ended" /\ q.saw = request[r].saw /\ q.op = "none"
      /\ q.saw \subseteq Sessions
  BY ReturnFields DEF q
<1>9. Step(r, q) BY <1>2, <1>4, <1>5, <1>8 DEF Step, Inv, TypeOK
<1>10. \A s \in q.saw : Exists(s)' /\ session'[s].revoked BY <1>1, <1>5, <1>8 DEF Monotone
<1>11. request[r].pc # "ended" BY <1>1
<1>12. \A p \in Requests : At(p, Decisions, "write") => session'[request[p].on] = session[request[p].on]
  BY <1>4, <1>7
<1> QED BY <1>5, <1>6, <1>8, <1>9, <1>10, <1>11, <1>12, UnlockedInv

-----------------------------------------------------------------------------
(* Steps of time, and the invariant *)

LEMMA ExpireInv == ASSUME Inv, NEW s \in Sessions, Expire(s) PROVE Inv'
<1>1. /\ session[s] \in Row /\ Live(s) /\ UNCHANGED <<request, lock, grant>>
      /\ session' = [session EXCEPT ![s] = [session[s] EXCEPT !.expired = TRUE]]
  BY DEF Expire, Inv, TypeOK
<1>2. /\ session' \in [Sessions -> Row]
      /\ \A t \in Sessions :
            /\ session'[t].status = session[t].status
            /\ session'[t].revoked = session[t].revoked
            /\ session'[t].direct = session[t].direct
            /\ (Usable(t)' => Usable(t))
      /\ \A t \in Sessions \ {s} : session'[t] = session[t]
  BY <1>1 DEF Inv, TypeOK, Row, Usable, Live, Exists
<1>3. \A r \in Requests : request[r].on \in Sessions /\ request[r].saw \subseteq Sessions
  BY DEF Inv, TypeOK, Request
<1>4. TypeOK' BY <1>1, <1>2 DEF Inv, TypeOK
<1>5. Holders' /\ Marks' /\ OneInteractive'
  BY <1>1, <1>2 DEF Inv, Holders, Holds, Marks, OneInteractive
<1>6. Unborn'
  <2>1. \A r \in Requests : request[r].pc # "ended" => r # s
    BY <1>1, RowTypes DEF Inv, Unborn, Live, Exists
  <2> QED BY <1>1, <1>2, <2>1 DEF Inv, Unborn, Sessions
<1>7. LockedRows' BY <1>1, <1>2, <1>3 DEF Inv, LockedRows, At
<1>8. NothingActive' BY <1>1, <1>2 DEF Inv, NothingActive, At
<1>9. Reached' /\ Named' /\ RecoveryEndsSessions'
  BY <1>1, <1>2, <1>3 DEF Inv, Reached, Named, RecoveryEndsSessions, Exists
<1> QED BY <1>4, <1>5, <1>6, <1>7, <1>8, <1>9 DEF Inv

LEMMA SameRowsInv ==
  ASSUME Inv, UNCHANGED <<session, request, lock>>, grant' \in [Grants -> GrantStates]
  PROVE  Inv'
<1>1. TypeOK' BY DEF Inv, TypeOK
<1>2. Holders' /\ Unborn' /\ LockedRows' /\ Marks' /\ Reached' /\ Named'
  BY DEF Inv, Holders, Holds, Unborn, LockedRows, At, Marks, Reached, Named, Exists
<1>3. NothingActive' /\ OneInteractive' /\ RecoveryEndsSessions'
  BY DEF Inv, NothingActive, OneInteractive, RecoveryEndsSessions, At, Usable, Live, Exists
<1> QED BY <1>1, <1>2, <1>3 DEF Inv

LEMMA NextInv == Inv /\ [Next]_vars => Inv'
<1> SUFFICES ASSUME Inv, [Next]_vars PROVE Inv' OBVIOUS
<1>1. ASSUME NEW r \in Requests, Serve(r) PROVE Inv'
  BY <1>1, LockAccountInv, LookForActiveInv, InsertLoginInv, ReadPendingInv, ActivateInv,
     CancelInv, LogoutInv, SpendGrantInv, StartRevocationInv, RevokeSessionsInv,
     CreateSessionInv DEF Serve
<1>2. ASSUME NEW g \in Grants, ExpireGrant(g) PROVE Inv'
  <2>1. grant' \in [Grants -> GrantStates]
    BY <1>2 DEF ExpireGrant, Inv, TypeOK, GrantStates
  <2> QED BY <1>2, <2>1, SameRowsInv DEF ExpireGrant
<1>3. CASE UNCHANGED vars
  <2>1. grant' \in [Grants -> GrantStates] BY <1>3 DEF vars, Inv, TypeOK
  <2> QED BY <1>3, <2>1, SameRowsInv DEF vars
<1> QED BY <1>1, <1>2, <1>3, AskInv, FailInv, ExpireInv DEF Next

(* The inductive invariant holds of every behaviour of the server.         *)
THEOREM Inductive == SafetySpec => []Inv
BY InitInv, NextInv, PTL DEF SafetySpec

(* Every variable keeps its type.                                          *)
THEOREM SessionTypes == SafetySpec => []TypeOK
<1>1. Inv => TypeOK BY DEF Inv
<1> QED BY <1>1, Inductive, PTL

(* At most one session that came from a login gives access to the account. *)
THEOREM OneInteractiveSession == SafetySpec => []OneInteractive
<1>1. Inv => OneInteractive BY DEF Inv
<1> QED BY <1>1, Inductive, PTL

(* What a recovery found when it began to revoke stays revoked.            *)
THEOREM RecoveriesEndSessions == SafetySpec => []RecoveryEndsSessions
<1>1. Inv => RecoveryEndsSessions BY DEF Inv
<1> QED BY <1>1, Inductive, PTL

-----------------------------------------------------------------------------
(* Who displaces a session *)

Displaced == \A s \in Sessions : Usable(s) /\ session'[s].revoked =>
    \/ \E t \in Sessions \ {s} : ~Usable(t) /\ Usable(t)'
    \/ \E r \in Requests : Acts(r) /\ (\/ request[r].op \in Recoveries
                                       \/ request[r].op = "logout" /\ request[r].on = s)

LEMMA KeptMarks ==
  ASSUME \A s \in Sessions : session'[s].revoked => session[s].revoked \/ ~Usable(s)
  PROVE  Displaced
  BY DEF Displaced, Usable, Live

LEMMA ServeDisplaced == ASSUME Inv, NEW r \in Requests, Serve(r) PROVE Displaced
<1>0. \A q \in Requests : request[q] \in Request BY DEF Inv, TypeOK
<1>1. CASE UNCHANGED session BY <1>1, KeptMarks
<1>2. CASE InsertLogin(r)
  <2>1. r \in Sessions /\ session[r] = NoRow BY <1>2 DEF InsertLogin, At, Inv, Unborn, Sessions
  <2>2. ~Usable(r) BY <2>1, RowTypes DEF Usable, Live, Exists
  <2>3. \A s \in Sessions \ {r} : session'[s].revoked => session[s].revoked \/ ~Usable(s)
    BY <1>2 DEF InsertLogin, Usable
  <2> QED BY <2>2, <2>3, KeptMarks
<1>3. CASE Activate(r)
  <2>1. /\ request[r].on \in Sessions /\ request[r].row \in Row
        /\ session[request[r].on].status = "pending" /\ ~request[r].row.revoked
    BY <1>0, <1>3 DEF Activate, At, Inv, LockedRows, Request, Decisions
  <2>2. PICK a \in Sessions : a = request[r].on BY <2>1
  <2>3. session'[a] = Activated(request[r].row) BY <1>3, <2>2 DEF Activate
  <2>4. ~Usable(a) BY <2>1, <2>2 DEF Usable
  <2>5. Usable(a)' BY <2>1, <2>3 DEF Usable, Live, Exists, Activated, Row
  <2>6. \A s \in Sessions : Usable(s) => a # s BY <2>4
  <2> QED BY <2>4, <2>5, <2>6 DEF Displaced
<1>4. CASE Cancel(r)
  <2>1. request[r].on \in Sessions /\ session[request[r].on].status = "pending"
    BY <1>0, <1>4 DEF Cancel, At, Inv, LockedRows, Request, Decisions
  <2>2. \A s \in Sessions \ {request[r].on} : session'[s] = session[s]
    BY <1>4, <2>1 DEF Cancel, Inv, TypeOK
  <2> QED BY <2>1, <2>2, KeptMarks DEF Usable
<1>5. CASE Logout(r)
  <2>1. request[r].op = "logout" /\ request[r].pc = "write" /\ request[r].on \in Sessions
    BY <1>0, <1>5 DEF Logout, At, Request
  <2>2. request'[r].pc = "ended"
    BY <1>5, ReturnFields DEF Logout, Return, Returned, Inv, TypeOK
  <2>3. \A s \in Sessions \ {request[r].on} : session'[s] = session[s]
    BY <1>5, <2>1 DEF Logout, Inv, TypeOK
  <2> QED BY <2>1, <2>2, <2>3 DEF Displaced, Acts, Usable, Live
<1>6. CASE RevokeSessions(r)
  <2>1. request[r].op \in Recoveries /\ request[r].pc = "revoke"
    BY <1>6 DEF RevokeSessions, At
  <2>2. request'[r].pc # "revoke"
    <3>1. CASE request[r].op = "recover"
      BY <1>0, <1>6, <3>1 DEF RevokeSessions, Goto, Inv, TypeOK, Request
    <3>2. CASE request[r].op # "recover"
      <4>1. request' = [request EXCEPT ![r] = Returned(r)]
        BY <1>6, <3>2 DEF RevokeSessions, Return, Returned
      <4> QED BY <4>1, ReturnFields DEF Inv, TypeOK
    <3> QED BY <3>1, <3>2
  <2> QED BY <2>1, <2>2 DEF Displaced, Acts
<1>7. CASE CreateSession(r)
  <2>1. r \in Sessions /\ session[r] = NoRow
    BY <1>7 DEF CreateSession, At, Inv, Unborn, Sessions
  <2>2. ~Usable(r) BY <2>1, RowTypes DEF Usable, Live, Exists
  <2>3. \A s \in Sessions \ {r} : session'[s] = session[s]
    BY <1>7, <2>1 DEF CreateSession, Inv, TypeOK
  <2> QED BY <2>2, <2>3, KeptMarks
<1> QED BY <1>1, <1>2, <1>3, <1>4, <1>5, <1>6, <1>7
        DEF Serve, LockAccount, LookForActive, ReadPending, SpendGrant, StartRevocation

LEMMA QuietRequests ==
  ASSUME NEW r \in Requests, Ask(r) \/ Fail(r)
  PROVE  UNCHANGED session
  BY DEF Ask, AskLogin, AskLogout, AskDecision, AskRecovery, ConsumePassword, Begin, Fail

(* A session loses its access only to its successor, a recovery or its own *)
(* logout.                                                                 *)
THEOREM SuccessorDisplaces == SafetySpec => OnlyASuccessorDisplaces
<1>1. ASSUME Inv, [Next]_vars PROVE Displaced
  <2>1. ASSUME NEW s \in Sessions, Expire(s) PROVE Displaced
    BY <1>1, <2>1, KeptMarks DEF Expire, Inv, TypeOK, Row
  <2>2. ASSUME NEW g \in Grants, ExpireGrant(g) PROVE Displaced
    BY <2>2, KeptMarks DEF ExpireGrant
  <2>3. CASE UNCHANGED vars BY <2>3, KeptMarks DEF vars
  <2>4. ASSUME NEW r \in Requests, Ask(r) \/ Fail(r) PROVE Displaced
    BY <2>4, QuietRequests, KeptMarks
  <2> QED BY <1>1, <2>1, <2>2, <2>3, <2>4, ServeDisplaced DEF Next
<1>2. Inv /\ [Next]_vars => [Displaced]_vars BY <1>1
<1> QED BY <1>2, Inductive, PTL DEF SafetySpec, OnlyASuccessorDisplaces, Displaced

-----------------------------------------------------------------------------
(* The slot of the account *)

(* The slot of a session that is not the account's new holder.             *)
LEMMA SlotEnds ==
  ASSUME \A s \in Sessions : slotOf'[s] \in {slotOf[s], "over"}
  PROVE  Slot!Next
<1> DEFINE old == {s \in Sessions : slotOf'[s] = "over"}
<1>1. old \in SUBSET Sessions OBVIOUS
<1>2. slotOf' = [s \in Sessions |-> IF s \in old THEN "over" ELSE slotOf[s]]
  BY DEF slotOf
<1> QED BY <1>1, <1>2 DEF Slot!Next, Slot!End

LEMMA SlotEntered ==
  ASSUME NEW a \in Sessions, slotOf[a] = "new", slotOf'[a] = "held",
         \A s \in Sessions \ {a} : /\ slotOf'[s] \in {slotOf[s], "over"}
                                 /\ slotOf'[s] # "held"
  PROVE  Slot!Next
<1> DEFINE old == {s \in Sessions : slotOf'[s] = "over"}
<1>1. old \in SUBSET Sessions /\ a \notin old OBVIOUS
<1>2. Slot!Held \subseteq old BY DEF Slot!Held
<1>3. slotOf' = [s \in Sessions |-> IF s = a THEN "held"
                                   ELSE IF s \in old THEN "over" ELSE slotOf[s]]
  BY DEF slotOf
<1> QED BY <1>1, <1>2, <1>3 DEF Slot!Next, Slot!Enter

LEMMA SlotOfRow == \A s \in Sessions :
    slotOf[s] = IF session[s].revoked \/ (session[s].status = "active" /\ session[s].expired)
                THEN "over"
                ELSE IF Usable(s) /\ ~session[s].direct THEN "held" ELSE "new"
  BY DEF slotOf

LEMMA SameSlots == ASSUME UNCHANGED session PROVE Slot!Next
<1>1. slotOf' = slotOf BY DEF slotOf, Usable, Live, Exists
<1> QED BY <1>1, SlotEnds

LEMMA ServeSlot == ASSUME Inv, NEW r \in Requests, Serve(r) PROVE Slot!Next
<1>0. /\ \A q \in Requests : request[q] \in Request
      /\ \A s \in Sessions : session[s] \in Row
      /\ session \in [Sessions -> Row]
  BY DEF Inv, TypeOK
<1> USE SlotOfRow
<1>1. CASE UNCHANGED session BY <1>1, SameSlots
<1>2. CASE InsertLogin(r)
  <2>1. r \in Sessions /\ session[r] = NoRow /\ request[r].op = "login" /\ request[r].pc = "write"
    BY <1>2 DEF InsertLogin, At, Inv, Unborn, Sessions
  <2>2. slotOf[r] = "new" BY <2>1, RowTypes DEF Usable, Live, Exists, NoRow
  <2>3. \A s \in Sessions \ {r} : \/ session'[s] = session[s]
                                 \/ session'[s] = Revoked(session[s])
    BY <1>2 DEF InsertLogin
  <2>4. \A s \in Sessions \ {r} : slotOf'[s] \in {slotOf[s], "over"}
    BY <1>0, <2>3, RowTypes DEF slotOf, Usable, Live, Exists
  <2>5. CASE request[r].busy
    <3>1. session'[r] = Fresh("pending", FALSE) BY <1>2, <2>1, <2>5 DEF InsertLogin
    <3>2. slotOf'[r] = "new"
      BY <2>1, <3>1 DEF slotOf, Fresh, NoRow, Usable, Live, Exists
    <3> QED BY <2>2, <2>4, <3>2, SlotEnds
  <2>6. CASE ~request[r].busy
    <3>1. session'[r] = Fresh("active", FALSE) BY <1>2, <2>1, <2>6 DEF InsertLogin
    <3>2. slotOf'[r] = "held"
      BY <2>1, <3>1 DEF slotOf, Fresh, NoRow, Usable, Live, Exists
    <3>3. \A s \in Sessions : slotOf[s] # "held"
      BY <2>1, <2>6 DEF Inv, NothingActive, At
    <3> QED BY <2>1, <2>2, <2>4, <3>2, <3>3, SlotEntered
  <2> QED BY <2>5, <2>6
<1>3. CASE Activate(r)
  <2>1. /\ request[r].on \in Sessions /\ request[r].row \in Row
        /\ session[request[r].on].status = "pending" /\ ~session[request[r].on].revoked
        /\ ~request[r].row.revoked
    BY <1>0, <1>3 DEF Activate, At, Inv, LockedRows, Request, Decisions
  <2>2. PICK a \in Sessions : a = request[r].on BY <2>1
  <2>3. session'[a] = Activated(request[r].row) BY <1>3, <2>2 DEF Activate
  <2>4. slotOf[a] = "new" BY <2>1, <2>2 DEF Usable
  <2>5. slotOf'[a] \in {"new", "held"}
    BY <2>1, <2>3 DEF slotOf, Usable, Live, Exists, Activated, Row
  <2>6. \A s \in Sessions \ {a} :
          \/ session'[s] = session[s] /\ ~(Live(s) /\ session[s].status = "active")
          \/ session'[s] = Revoked(session[s])
    BY <1>3, <2>2 DEF Activate
  <2>7. \A s \in Sessions \ {a} : slotOf'[s] \in {slotOf[s], "over"} /\ slotOf'[s] # "held"
    BY <1>0, <2>6, RowTypes DEF slotOf, Usable, Live, Exists, Inv, Marks, Row
  <2> QED BY <2>4, <2>5, <2>7, SlotEnds, SlotEntered
<1>4. CASE Cancel(r)
  <2>1. PICK a \in Sessions : a = request[r].on BY <1>0 DEF Request
  <2>2. request[r].row \in Row BY <1>0 DEF Request
  <2>3. session'[a] = Revoked(request[r].row) /\ \A s \in Sessions \ {a} : session'[s] = session[s]
    BY <1>0, <1>4, <2>1 DEF Cancel
  <2> QED BY <2>2, <2>3, RowTypes, SlotEnds DEF slotOf, Usable, Live, Exists
<1>5. CASE Logout(r)
  <2>1. PICK a \in Sessions : a = request[r].on BY <1>0 DEF Request
  <2>2. session'[a] = Revoked(session[a]) /\ \A s \in Sessions \ {a} : session'[s] = session[s]
    BY <1>0, <1>5, <2>1 DEF Logout
  <2> QED BY <1>0, <2>2, RowTypes, SlotEnds DEF slotOf, Usable, Live, Exists
<1>6. CASE RevokeSessions(r)
  <2>1. \A s \in Sessions :
          /\ session'[s].status = session[s].status
          /\ session'[s].expired = session[s].expired
          /\ session'[s].direct = session[s].direct
          /\ session'[s].revoked = (session[s].revoked \/ s \in request[r].saw)
    BY <1>0, <1>6 DEF RevokeSessions, Row
  <2>2. \A s \in Sessions : slotOf'[s] \in {slotOf[s], "over"}
    BY <2>1 DEF slotOf, Usable, Live, Exists
  <2> QED BY <2>2, SlotEnds
<1>7. CASE CreateSession(r)
  <2>1. r \in Sessions /\ session[r] = NoRow
    BY <1>7 DEF CreateSession, At, Inv, Unborn, Sessions
  <2>2. slotOf[r] = "new" BY <2>1, RowTypes DEF Usable, Live, Exists, NoRow
  <2>3. session'[r] = Fresh("active", TRUE) /\ \A s \in Sessions \ {r} : session'[s] = session[s]
    BY <1>0, <1>7, <2>1 DEF CreateSession
  <2>4. slotOf'[r] = "new" BY <2>1, <2>3 DEF slotOf, Fresh, NoRow, Usable, Live, Exists
  <2>5. \A s \in Sessions \ {r} : slotOf'[s] = slotOf[s]
    BY <2>3 DEF slotOf, Usable, Live, Exists
  <2> QED BY <2>2, <2>4, <2>5, SlotEnds
<1> QED BY <1>1, <1>2, <1>3, <1>4, <1>5, <1>6, <1>7
        DEF Serve, LockAccount, LookForActive, ReadPending, SpendGrant, StartRevocation

(* The interactive sessions implement the slot of the account.             *)
THEOREM SlotImplemented == SafetySpec => SlotSpec
<1>1. Init => Slot!Init
  <2> SUFFICES ASSUME Init PROVE Slot!Init OBVIOUS
  <2>1. \A s \in Sessions : slotOf[s] = "new"
    BY RowTypes DEF Init, slotOf, Fresh, NoRow, Usable, Live, Exists
  <2> QED BY <2>1 DEF Slot!Init, Slot!Held, slotOf
<1>2. Inv /\ [Next]_vars => [Slot!Next]_slotOf
  <2> SUFFICES ASSUME Inv, [Next]_vars PROVE Slot!Next OBVIOUS
  <2>1. ASSUME NEW s \in Sessions, Expire(s) PROVE Slot!Next
    <3>1. /\ session[s] \in Row
          /\ session' = [session EXCEPT ![s] = [session[s] EXCEPT !.expired = TRUE]]
      BY <2>1 DEF Expire, Inv, TypeOK
    <3>2. \A t \in Sessions : slotOf'[t] \in {slotOf[t], "over"}
      BY <3>1 DEF slotOf, Usable, Live, Exists, Inv, TypeOK, Row, Marks
    <3> QED BY <3>2, SlotEnds
  <2>2. ASSUME NEW g \in Grants, ExpireGrant(g) PROVE Slot!Next
    BY <2>2, SameSlots DEF ExpireGrant
  <2>3. CASE UNCHANGED vars BY <2>3, SameSlots DEF vars
  <2>4. ASSUME NEW r \in Requests, Ask(r) \/ Fail(r) PROVE Slot!Next
    BY <2>4, QuietRequests, SameSlots
  <2> QED BY <2>1, <2>2, <2>3, <2>4, ServeSlot DEF Next
<1> QED BY <1>1, <1>2, Inductive, PTL DEF SafetySpec, SlotSpec, Slot!Spec

-----------------------------------------------------------------------------
(* Who holds the account lock *)

Interactive == {"login"} \cup Decisions
Uses(q) == q.op \in Interactive /\ q.pc \in {"read", "write"}

(* Only logins and decisions ask for the account lock, and who has it is    *)
(* in its transaction.                                                     *)
LockUsed ==
    /\ \A r \in Requests : request[r].pc \in {"lock", "read"} => request[r].op \in Interactive
    /\ lock # None => Uses(request[lock])

LEMMA UsedStep ==
  ASSUME TypeOK, LockUsed, NEW r \in Requests, NEW q,
         request' = [request EXCEPT ![r] = q],
         q.pc \in {"lock", "read"} => q.op \in Interactive,
         \/ lock' = None
         \/ lock' = r /\ Uses(q)
         \/ lock' = lock /\ lock # r
  PROVE  LockUsed'
<1>1. request'[r] = q /\ \A p \in Requests \ {r} : request'[p] = request[p]
  BY DEF TypeOK
<1>2. lock \in Requests \cup {None} /\ None \notin Requests
  BY FirstIsNoRequest DEF TypeOK
<1> QED BY <1>1, <1>2 DEF LockUsed

(* A call that has not the account lock changes its place.                  *)
LEMMA GotoUsed ==
  ASSUME TypeOK, LockUsed, NEW r \in Requests, ~Uses(request[r]), lock' = lock,
         NEW pc \in {"start", "create", "ended"}, Goto(r, pc)
  PROVE  LockUsed'
<1> DEFINE q == [request[r] EXCEPT !.pc = pc]
<1>1. request[r] \in Request BY DEF TypeOK
<1>2. q.pc = pc BY <1>1 DEF Request
<1>3. request' = [request EXCEPT ![r] = q] BY DEF Goto
<1>4. lock # r BY FirstIsNoRequest DEF LockUsed
<1> HIDE DEF q
<1> QED BY <1>2, <1>3, <1>4, UsedStep

LEMMA ReturnUsed ==
  ASSUME Inv, LockUsed, NEW r \in Requests, Return(r),
         Unlock(r) \/ (lock' = lock /\ ~Uses(request[r]))
  PROVE  LockUsed'
<1>1. request' = [request EXCEPT ![r] = Returned(r)] BY DEF Return, Returned
<1>2. Returned(r).pc = "ended" BY ReturnFields
<1>3. lock' = None \/ (lock' = lock /\ lock # r)
  BY FirstIsNoRequest DEF Unlock, LockUsed
<1> QED BY <1>1, <1>2, <1>3, UsedStep DEF Inv

LEMMA AskUsed == ASSUME Inv, LockUsed, NEW r \in Requests, Ask(r) PROVE LockUsed'
<1>1. ASSUME NEW op \in {"login", "logout", "recover"} \cup Decisions, NEW s \in Sessions,
             NEW g \in Grants \cup {None}, NEW pc \in {"lock", "write", "spend"},
             pc = "lock" => op \in Interactive, Begin(r, op, s, g, pc)
      PROVE  LockUsed'
  <2> DEFINE q == [Idle EXCEPT !.op = op, !.pc = pc, !.on = s, !.by = g]
  <2>1. q.op = op /\ q.pc = pc BY IdleFields DEF Idle
  <2>2. request' = [request EXCEPT ![r] = q] /\ lock' = lock /\ request[r].pc = "idle"
    BY <1>1 DEF Begin
  <2>3. lock # r BY <2>2, FirstIsNoRequest DEF LockUsed, Uses
  <2> HIDE DEF q
  <2> QED BY <1>1, <2>1, <2>2, <2>3, UsedStep DEF Inv
<1>2. First \in Sessions BY DEF Sessions
<1>3. CASE AskLogin(r) BY <1>1, <1>2, <1>3 DEF AskLogin, Interactive
<1>4. ASSUME NEW s \in Sessions, AskLogout(r, s) PROVE LockUsed'
  BY <1>1, <1>4 DEF AskLogout
<1>5. ASSUME NEW s \in Sessions, NEW op \in Decisions, AskDecision(r, op, s) PROVE LockUsed'
  BY <1>1, <1>5 DEF AskDecision, Interactive
<1>6. ASSUME NEW g \in Grants, AskRecovery(r, g) PROVE LockUsed'
  BY <1>1, <1>2, <1>6 DEF AskRecovery
<1>7. ASSUME NEW g \in Grants, ConsumePassword(r, g) PROVE LockUsed'
  <2> DEFINE q == [Idle EXCEPT !.op = "support", !.pc = "start", !.by = g]
  <2>1. q.pc = "start" BY DEF Idle
  <2>2. request' = [request EXCEPT ![r] = q] /\ lock' = lock /\ request[r].pc = "idle"
    BY <1>7 DEF ConsumePassword
  <2>3. lock # r BY <2>2, FirstIsNoRequest DEF LockUsed, Uses
  <2> HIDE DEF q
  <2> QED BY <2>1, <2>2, <2>3, UsedStep DEF Inv
<1> QED BY <1>3, <1>4, <1>5, <1>6, <1>7 DEF Ask

LEMMA FailUsed == ASSUME Inv, LockUsed, NEW r \in Requests, Fail(r) PROVE LockUsed'
<1> DEFINE q == [Idle EXCEPT !.pc = "ended"]
<1>1. q.pc = "ended" BY DEF Idle
<1>2. request' = [request EXCEPT ![r] = q] /\ Unlock(r) BY DEF Fail
<1>3. lock' = None \/ (lock' = lock /\ lock # r) BY <1>2 DEF Unlock
<1> HIDE DEF q
<1> QED BY <1>1, <1>2, <1>3, UsedStep DEF Inv

LEMMA ServeUsed == ASSUME Inv, LockUsed, NEW r \in Requests, Serve(r) PROVE LockUsed'
<1>0. request[r] \in Request /\ TypeOK BY DEF Inv, TypeOK
<1>1. CASE LockAccount(r)
  <2> DEFINE q == [request[r] EXCEPT !.pc = "read"]
  <2>1. q.pc = "read" /\ q.op = request[r].op BY <1>0 DEF Request
  <2>2. request' = [request EXCEPT ![r] = q] /\ request[r].pc = "lock" /\ lock' = r
    BY <1>1 DEF LockAccount, Goto
  <2> HIDE DEF q
  <2>3. q.op \in Interactive BY <2>1, <2>2 DEF LockUsed
  <2> QED BY <1>0, <2>1, <2>2, <2>3, UsedStep DEF Uses
<1>2. CASE LookForActive(r)
  <2> DEFINE q == [request[r] EXCEPT !.busy = \E s \in Sessions : Usable(s), !.pc = "write"]
  <2>1. q.pc = "write" /\ q.op = request[r].op BY <1>0 DEF Request
  <2>2. /\ request' = [request EXCEPT ![r] = q] /\ lock' = lock
        /\ request[r].op = "login" /\ request[r].pc = "read"
    BY <1>0, <1>2 DEF LookForActive, At, TypeOK, Request
  <2>3. lock = r BY <2>2 DEF Inv, Holders, Holds
  <2> HIDE DEF q
  <2> QED BY <1>0, <2>1, <2>2, <2>3, UsedStep DEF Uses, Interactive
<1>3. CASE InsertLogin(r) \/ Activate(r) \/ Cancel(r)
  BY <1>3, ReturnUsed DEF InsertLogin, Activate, Cancel
<1>4. CASE ReadPending(r)
  <2>1. CASE UsablePending(session[request[r].on])
    <3> DEFINE q == [request[r] EXCEPT !.row = session[request[r].on], !.pc = "write"]
    <3>1. q.pc = "write" /\ q.op = request[r].op BY <1>0 DEF Request
    <3>2. /\ request' = [request EXCEPT ![r] = q] /\ lock' = lock
          /\ request[r].op \in Decisions /\ request[r].pc = "read"
      BY <1>0, <1>4, <2>1 DEF ReadPending, At, TypeOK, Request
    <3>3. lock = r BY <3>2 DEF Inv, Holders, Holds
    <3> HIDE DEF q
    <3> QED BY <1>0, <3>1, <3>2, <3>3, UsedStep DEF Uses, Interactive
  <2>2. CASE ~UsablePending(session[request[r].on])
    BY <1>4, <2>2, ReturnUsed DEF ReadPending
  <2> QED BY <2>1, <2>2
<1>5. CASE Logout(r)
  <2>1. ~Uses(request[r]) BY <1>5 DEF Logout, At, Uses, Interactive, Decisions
  <2> QED BY <1>5, <2>1, ReturnUsed DEF Logout
<1>6. CASE SpendGrant(r)
  <2>1. ~Uses(request[r]) BY <1>6 DEF SpendGrant, At, Uses, Interactive, Decisions
  <2> QED BY <1>0, <1>6, <2>1, GotoUsed DEF SpendGrant
<1>7. CASE StartRevocation(r)
  <2> DEFINE q == [request[r] EXCEPT !.saw = {s \in Sessions : Live(s)}, !.pc = "revoke"]
  <2>1. q.pc = "revoke" BY <1>0 DEF Request
  <2>2. request' = [request EXCEPT ![r] = q] /\ lock' = lock /\ request[r].pc = "start"
    BY <1>0, <1>7 DEF StartRevocation, At, TypeOK, Request
  <2>3. lock # r BY <2>2, FirstIsNoRequest DEF LockUsed, Uses
  <2> HIDE DEF q
  <2> QED BY <1>0, <2>1, <2>2, <2>3, UsedStep
<1>8. CASE RevokeSessions(r)
  <2>1. ~Uses(request[r]) BY <1>8 DEF RevokeSessions, At, Uses
  <2> QED BY <1>0, <1>8, <2>1, GotoUsed, ReturnUsed DEF RevokeSessions
<1>9. CASE CreateSession(r)
  <2>1. ~Uses(request[r]) BY <1>9 DEF CreateSession, At, Uses
  <2> QED BY <1>9, <2>1, ReturnUsed DEF CreateSession
<1> QED BY <1>1, <1>2, <1>3, <1>4, <1>5, <1>6, <1>7, <1>8, <1>9 DEF Serve

(* The account lock is held in a transaction, and by nobody else.           *)
THEOREM LockHeldInTransaction == SafetySpec => []LockEndsWithTransaction
<1>1. Init => LockUsed
  BY IdleFields DEF Init, LockUsed
<1>2. Inv /\ LockUsed /\ [Next]_vars => LockUsed'
  <2> SUFFICES ASSUME Inv, LockUsed, [Next]_vars PROVE LockUsed'
    OBVIOUS
  <2>1. ASSUME UNCHANGED <<request, lock>> PROVE LockUsed'
    BY <2>1 DEF LockUsed
  <2> QED BY <2>1, AskUsed, FailUsed, ServeUsed DEF Next, Expire, ExpireGrant, vars
<1>3. Inv /\ LockUsed => LockEndsWithTransaction
  <2> SUFFICES ASSUME Inv, LockUsed, NEW r \in Requests
               PROVE  lock = r <=> Uses(request[r])
    BY DEF LockEndsWithTransaction, Uses, Interactive
  <2>1. lock = r => Uses(request[r])
    BY FirstIsNoRequest DEF LockUsed
  <2>2. Uses(request[r]) => lock = r
    BY DEF Inv, Holders, Holds, Uses, Interactive, Decisions
  <2> QED BY <2>1, <2>2
<1> QED BY <1>1, <1>2, <1>3, Inductive, PTL DEF SafetySpec
=============================================================================
