-------------------------- MODULE VoiceSessionsProofs --------------------------
(***************************************************************************)
(* The credit account of CreditAccounts stays covered, for every number of *)
(* requests, every amount and every month: the row and every copy of it    *)
(* that a request holds are covered, so that whichever copy is written     *)
(* last, the row is.  It holds with arbitrary clients (UsageSpec) and with *)
(* the voice orchestrator as the client (Spec).                            *)
(***************************************************************************)
EXTENDS VoiceSessions, TLAPS

Rows == \A c \in Calls : Covered(call[c].row)

IInv == TypeOK /\ NeverOverdrawn /\ Rows

----------------------------------------------------------------------------
(***************************************************************************)
(* Operators on rows.                                                      *)
(***************************************************************************)

LEMMA CurrentRow ==
  ASSUME UsageAssumption, month \in Nat, NEW r \in Row, Covered(r)
  PROVE  Current(r) \in Row /\ Covered(Current(r))
<1> DEFINE s == [r EXCEPT !.exists = TRUE, !.period = month, !.monthly_consumed = 0]
<1>1. s \in Row /\ Covered(s)
  <2>1. /\ s.monthly_consumed = 0 /\ s.purchased = r.purchased /\ s.held = r.held
        /\ s.purchased_consumed = r.purchased_consumed /\ s \in Row
    BY DEF Row
  <2> HIDE DEF s
  <2>2. Covered(s)
    BY <2>1 DEF UsageAssumption, Row, Covered, Consumed, Granted
  <2> QED BY <2>1, <2>2
<1>2. Current(r) = r \/ Current(r) = s
  BY DEF Current
<1> QED BY <1>1, <1>2

LEMMA ChargedRow ==
  ASSUME UsageAssumption, NEW r \in Row, NEW n \in Nat, Covered(r)
  PROVE  /\ Charged(r, n) \in Row
         /\ ~Overdrawn(Charged(r, n)) => Covered(Charged(r, n))
<1> DEFINE m == IF MonthlyAvailable(r) < n THEN MonthlyAvailable(r) ELSE n
           s == [r EXCEPT !.monthly_consumed = @ + m, !.purchased_consumed = @ + (n - m)]
<1>1. /\ m \in Nat /\ m <= n
      /\ r.monthly_consumed + m <= Included
      /\ m = n \/ r.monthly_consumed + m = Included
  BY DEF UsageAssumption, Row, Covered, MonthlyAvailable
<1>2. Charged(r, n) = s
  BY DEF Charged
<1> HIDE DEF m
<1>3. /\ s \in Row /\ s.monthly_consumed = r.monthly_consumed + m /\ s.held = r.held
      /\ s.purchased = r.purchased /\ s.purchased_consumed = r.purchased_consumed + (n - m)
  <2>1. /\ r.monthly_consumed + m \in Nat
        /\ r.purchased_consumed + (n - m) \in Nat
    BY <1>1 DEF Row
  <2> QED BY <2>1 DEF Row
<1> HIDE DEF s
<1>4. ASSUME ~Overdrawn(s) PROVE Covered(s)
  <2>1. /\ r.held \in Nat /\ r.purchased \in Nat /\ r.purchased_consumed \in Nat
        /\ r.monthly_consumed \in Nat /\ Included \in Nat
    BY DEF Row, UsageAssumption
  <2>2. s.monthly_consumed + s.purchased_consumed + s.held <= Included + s.purchased
    BY <1>1, <1>3, <1>4, <2>1 DEF Overdrawn, Consumed, Granted
  <2>3. s.purchased_consumed <= s.purchased
    BY <1>1, <1>3, <2>1, <2>2 DEF Covered
  <2> QED BY <1>1, <1>3, <2>1, <2>2, <2>3 DEF Covered, Consumed, Granted
<1> QED BY <1>2, <1>3, <1>4

LEMMA GrantedRow ==
  ASSUME UsageAssumption, NEW r \in Row, NEW n \in Nat, Covered(r)
  PROVE  /\ [r EXCEPT !.purchased = @ + n] \in Row
         /\ Covered([r EXCEPT !.purchased = @ + n])
BY DEF UsageAssumption, Row, Covered, Consumed, Granted

LEMMA HeldRow ==
  ASSUME UsageAssumption, NEW r \in Row, NEW n \in Nat, Covered(r), ~(Available(r) < n)
  PROVE  /\ [r EXCEPT !.held = @ + n] \in Row
         /\ Covered([r EXCEPT !.held = @ + n])
BY DEF UsageAssumption, Row, Covered, Consumed, Granted, Available, MonthlyAvailable,
       PurchasedAvailable

LEMMA BlockedRow ==
  ASSUME NEW r \in Row, NEW b \in BOOLEAN, Covered(r)
  PROVE  /\ [r EXCEPT !.blocked = b] \in Row
         /\ Covered([r EXCEPT !.blocked = b])
BY DEF Row, Covered, Consumed, Granted

LEMMA FirstRow ==
  ASSUME UsageAssumption
  PROVE  NoRow \in Row /\ Covered(NoRow)
BY DEF UsageAssumption, NoRow, Row, Covered, Consumed, Granted

\* Moving a request on leaves what it has read.
LEMMA GotoCall ==
  ASSUME IInv, NEW c \in Calls, NEW pc, Goto(c, pc),
         pc \in {"idle", "begin", "read", "refresh", "ready", "reread", "rerefresh",
                 "consume", "book", "finish", "save", "done", "error"}
  PROVE  call' \in [Calls -> Call] /\ \A d \in Calls : Covered(call'[d].row)
BY DEF IInv, TypeOK, Goto, Call, Rows, Covered, Consumed, Granted

\* So does starting one.
LEMMA BeginCall ==
  ASSUME IInv, UsageAssumption, NEW c \in Calls, NEW e \in Events, NEW n \in Nat,
         NEW op \in {"preflight", "complete", "fail"} \cup AdminOps
  PROVE  Begin(c, op, e, n) \in Call /\ Covered(Begin(c, op, e, n).row)
<1>1. call[c] \in Call /\ Covered(call[c].row)
  BY DEF IInv, TypeOK, Rows
<1>2. Begin(c, op, e, n) \in Call /\ Begin(c, op, e, n).row = call[c].row
  BY <1>1 DEF Begin, Call
<1> QED BY <1>1, <1>2

\* A step that writes the row keeps the invariant when it writes a covered one.
LEMMA RowWritten ==
  ASSUME IInv, NEW c \in Calls, NEW pc, Goto(c, pc), pc \in {"ready", "consume", "book", "done"},
         account' \in Row, Covered(account'),
         UNCHANGED <<ledger, booked, event, policy, month>>
  PROVE  IInv'
<1>1. call' \in [Calls -> Call] /\ \A d \in Calls : Covered(call'[d].row)
  BY GotoCall
<1>2. TypeOK'
  BY <1>1 DEF IInv, TypeOK
<1> QED BY <1>1, <1>2 DEF IInv, NeverOverdrawn, Rows, Covered, Consumed, Granted

----------------------------------------------------------------------------
(***************************************************************************)
(* The steps of the usage service.                                         *)
(***************************************************************************)

LEMMA InitUsage ==
  ASSUME UsageAssumption, UsageInit
  PROVE  IInv
<1>1. NoRow \in Row /\ Covered(NoRow)
  BY FirstRow
<1>2. policy \in Policy
  BY DEF UsageAssumption, UsageInit, Policy
<1>3. call \in [Calls -> Call] /\ \A c \in Calls : call[c].row = NoRow
  BY <1>1, <1>2 DEF UsageInit, Call
<1>4. TypeOK
  BY <1>1, <1>2, <1>3 DEF UsageInit, TypeOK, Event
<1> QED BY <1>1, <1>3, <1>4 DEF IInv, NeverOverdrawn, Rows, UsageInit

LEMMA RequestStep ==
  ASSUME UsageAssumption, IInv, NEW c \in Calls, NEW e \in Events, NEW n \in Amounts,
         NEW op \in {"preflight", "complete", "fail"} \cup AdminOps, Request(c, op, e, n)
  PROVE  IInv'
<1>1. Begin(c, op, e, n) \in Call /\ Covered(Begin(c, op, e, n).row)
  BY BeginCall DEF UsageAssumption
<1>2. call' = [call EXCEPT ![c] = Begin(c, op, e, n)]
  BY DEF Request
<1>3. TypeOK'
  BY <1>1, <1>2 DEF IInv, TypeOK, Request
<1>4. \A d \in Calls : Covered(call'[d].row)
  BY <1>1, <1>2 DEF IInv, TypeOK, Rows, Covered, Consumed, Granted
<1> QED BY <1>3, <1>4 DEF IInv, NeverOverdrawn, Rows, Request, Covered, Consumed, Granted

\* Steps that leave the row and every copy of it.
LEMMA OtherSteps ==
  ASSUME UsageAssumption, IInv, NEW c \in Calls,
         \/ FindEvent(c) \/ Preflight(c) \/ CheckBalance(c)
         \/ Book(c) \/ FinishEvent(c) \/ FailEvent(c)
  PROVE  IInv'
<1> USE DEF IInv
<1>1. PICK pc \in {"read", "reread", "done", "error", "finish"} : Goto(c, pc)
  BY DEF FindEvent, Preflight, CheckBalance, Book, FinishEvent, FailEvent
<1>2. call' \in [Calls -> Call] /\ \A d \in Calls : Covered(call'[d].row)
  BY <1>1, GotoCall
<1>3. call[c].event \in Events /\ call[c].amount \in Nat
  BY DEF TypeOK, Call
<1>4. event' \in [Events -> Event]
  <2>1. event \in [Events -> Event] /\ month \in Nat
    BY DEF TypeOK
  <2>2. CASE FindEvent(c) \/ Book(c)
    BY <2>1, <2>2 DEF FindEvent, Book
  <2>3. CASE Preflight(c)
    <3>1. PICK status \in {"rejected", "preflight_approved"} :
            event' = [event EXCEPT ![call[c].event] =
                        [status |-> status, credits |-> 0, month |-> month]]
      BY <2>3 DEF Preflight
    <3> QED BY <1>3, <2>1, <3>1 DEF Event
  <2>4. CASE CheckBalance(c) \/ FailEvent(c)
    <3>1. event' = event \/ event' = [event EXCEPT ![call[c].event].status = "failed"]
      BY <2>4 DEF CheckBalance, FailEvent
    <3> QED BY <1>3, <2>1, <3>1 DEF Event
  <2>5. CASE FinishEvent(c)
    BY <1>3, <2>1, <2>5 DEF FinishEvent, Event
  <2> QED BY <2>2, <2>3, <2>4, <2>5
<1>5. ledger' \in [granted : Nat, held : Nat] /\ booked' \in [Events -> Nat]
  BY <1>3 DEF TypeOK, FindEvent, Preflight, CheckBalance, Book, FinishEvent, FailEvent
<1>6. UNCHANGED <<account, policy, month>>
  BY DEF FindEvent, Preflight, CheckBalance, Book, FinishEvent, FailEvent
<1>7. TypeOK'
  BY <1>2, <1>4, <1>5, <1>6 DEF TypeOK
<1> QED BY <1>2, <1>6, <1>7 DEF NeverOverdrawn, Rows, Covered, Consumed, Granted

\* Reading the row, and the policy.
LEMMA ReadSteps ==
  ASSUME UsageAssumption, IInv, NEW c \in Calls, ReadAccount(c) \/ ReadPolicy(c)
  PROVE  IInv'
<1> USE DEF IInv
<1>1. /\ call[c] \in Call /\ Covered(call[c].row) /\ policy \in Policy
      /\ Current(account) \in Row /\ Covered(Current(account))
  BY CurrentRow DEF TypeOK, Rows, NeverOverdrawn
<1>2. PICK k \in Call : call' = [call EXCEPT ![c] = k] /\ Covered(k.row)
  <2>1. CASE ReadAccount(c)
    <3>1. PICK pc \in {"ready", "refresh", "consume", "rerefresh"} :
            call' = [call EXCEPT ![c] = [@ EXCEPT !.row = Current(account), !.pc = pc]]
      BY <2>1 DEF ReadAccount
    <3> DEFINE k == [call[c] EXCEPT !.row = Current(account), !.pc = pc]
    <3>2. k \in Call /\ k.row = Current(account)
      BY <1>1, <3>1 DEF Call
    <3>3. call' = [call EXCEPT ![c] = k]
      BY <3>1
    <3> QED BY <1>1, <3>2, <3>3
  <2>2. CASE ReadPolicy(c)
    <3> DEFINE k == [call[c] EXCEPT !.policy = policy, !.pc = "save"]
    <3>1. k \in Call /\ k.row = call[c].row
      BY <1>1 DEF Call
    <3>2. call' = [call EXCEPT ![c] = k]
      BY <2>2 DEF ReadPolicy
    <3> QED BY <1>1, <3>1, <3>2
  <2> QED BY <2>1, <2>2
<1>3. UNCHANGED <<account, ledger, booked, event, policy, month>>
  BY DEF ReadAccount, ReadPolicy
<1>4. TypeOK'
  BY <1>2, <1>3 DEF TypeOK
<1>5. \A d \in Calls : Covered(call'[d].row)
  BY <1>2 DEF TypeOK, Rows, Covered, Consumed, Granted
<1> QED BY <1>3, <1>4, <1>5 DEF NeverOverdrawn, Rows, Covered, Consumed, Granted

LEMMA SavePolicyStep ==
  ASSUME UsageAssumption, IInv, NEW c \in Calls, SavePolicy(c)
  PROVE  IInv'
<1> USE DEF IInv
<1>1. call[c].policy \in Policy
  BY DEF TypeOK, Call
<1>2. policy' \in Policy
  BY <1>1 DEF SavePolicy, Policy
<1>3. call' \in [Calls -> Call] /\ \A d \in Calls : Covered(call'[d].row)
  BY GotoCall DEF SavePolicy
<1>4. TypeOK'
  BY <1>2, <1>3 DEF TypeOK, SavePolicy
<1> QED BY <1>3, <1>4 DEF NeverOverdrawn, Rows, SavePolicy, Covered, Consumed, Granted

\* The steps that write the row back.
LEMMA WriteSteps ==
  ASSUME UsageAssumption, IInv, NEW c \in Calls,
         \/ RefreshAccount(c) \/ ConsumeCredits(c) \/ GrantCredits(c)
         \/ HoldCredits(c) \/ BlockAccount(c)
  PROVE  IInv'
<1>1. /\ call[c].row \in Row /\ Covered(call[c].row) /\ call[c].amount \in Nat
      /\ account \in Row /\ Covered(account)
  BY DEF IInv, TypeOK, Rows, NeverOverdrawn, Call
<1>2. CASE RefreshAccount(c)
  BY <1>1, <1>2, RowWritten DEF RefreshAccount
<1>3. CASE ConsumeCredits(c)
  <2>1. CASE Overdrawn(Charged(call[c].row, call[c].amount))
    <3>1. Goto(c, "error") /\ UNCHANGED <<account, ledger, booked, event, policy, month>>
      BY <1>3, <2>1 DEF ConsumeCredits
    <3>2. call' \in [Calls -> Call] /\ \A d \in Calls : Covered(call'[d].row)
      BY <3>1, GotoCall
    <3>3. TypeOK'
      BY <3>1, <3>2 DEF IInv, TypeOK
    <3> QED BY <3>1, <3>2, <3>3 DEF IInv, NeverOverdrawn, Rows, Covered, Consumed, Granted
  <2>2. CASE ~Overdrawn(Charged(call[c].row, call[c].amount))
    <3>1. /\ account' = Charged(call[c].row, call[c].amount) /\ Goto(c, "book")
          /\ UNCHANGED <<ledger, booked, event, policy, month>>
      BY <1>3, <2>2 DEF ConsumeCredits
    <3>2. account' \in Row /\ Covered(account')
      BY <1>1, <2>2, <3>1, ChargedRow
    <3> QED BY <3>1, <3>2, RowWritten
  <2> QED BY <2>1, <2>2
<1>4. CASE GrantCredits(c)
  <2>1. account' \in Row /\ Covered(account')
    BY <1>1, <1>4, GrantedRow DEF GrantCredits
  <2> QED BY <1>4, <2>1, RowWritten DEF GrantCredits
<1>5. CASE HoldCredits(c)
  <2>1. CASE Available(call[c].row) < call[c].amount
    <3>1. Goto(c, "error") /\ UNCHANGED <<account, ledger, booked, event, policy, month>>
      BY <1>5, <2>1 DEF HoldCredits
    <3>2. call' \in [Calls -> Call] /\ \A d \in Calls : Covered(call'[d].row)
      BY <3>1, GotoCall
    <3>3. TypeOK'
      BY <3>1, <3>2 DEF IInv, TypeOK
    <3> QED BY <3>1, <3>2, <3>3 DEF IInv, NeverOverdrawn, Rows, Covered, Consumed, Granted
  <2>2. CASE ~(Available(call[c].row) < call[c].amount)
    <3>1. /\ account' = [call[c].row EXCEPT !.held = @ + call[c].amount] /\ Goto(c, "book")
          /\ UNCHANGED <<ledger, booked, event, policy, month>>
      BY <1>5, <2>2 DEF HoldCredits
    <3>2. account' \in Row /\ Covered(account')
      BY <1>1, <2>2, <3>1, HeldRow
    <3> QED BY <3>1, <3>2, RowWritten
  <2> QED BY <2>1, <2>2
<1>6. CASE BlockAccount(c)
  <2>1. account' \in Row /\ Covered(account')
    BY <1>1, <1>6, BlockedRow DEF BlockAccount
  <2> QED BY <1>6, <2>1, RowWritten DEF BlockAccount
<1> QED BY <1>2, <1>3, <1>4, <1>5, <1>6

LEMMA CallSteps ==
  ASSUME UsageAssumption, IInv, NEW c \in Calls, CallStep(c)
  PROVE  IInv'
BY OtherSteps, ReadSteps, SavePolicyStep, WriteSteps DEF CallStep

LEMMA MonthStep ==
  ASSUME IInv, NextMonth
  PROVE  IInv'
BY DEF IInv, TypeOK, NeverOverdrawn, Rows, NextMonth, Covered, Consumed, Granted

LEMMA UsageStutter ==
  ASSUME IInv, UNCHANGED usageVars
  PROVE  IInv'
BY DEF IInv, TypeOK, NeverOverdrawn, Rows, usageVars, Covered, Consumed, Granted

----------------------------------------------------------------------------
(***************************************************************************)
(* The usage server alone, whatever its clients ask for and whenever: the  *)
(* balance follows the ledger, and a call in the middle of ai-usage-       *)
(* service.js knows no more than its account and event still allow.        *)
(***************************************************************************)
THEOREM UsageInductive == UsageSpec => []IInv
<1>1. UsageInit => IInv
  BY InitUsage, UsageAssumption
<1>2. IInv /\ [UsageNext]_usageVars => IInv'
  BY UsageAssumption, RequestStep, CallSteps, MonthStep, UsageStutter DEF UsageNext
<1> QED BY <1>1, <1>2, PTL DEF UsageSpec

(***************************************************************************)
(* Whatever clients ask for, no bucket of the account is overdrawn.        *)
(***************************************************************************)
THEOREM UsageNeverOverdrawn == UsageSpec => []NeverOverdrawn
<1>1. IInv => NeverOverdrawn
  BY DEF IInv
<1> QED BY <1>1, UsageInductive, PTL

----------------------------------------------------------------------------
(***************************************************************************)
(* Successes are booked: a request is about to report success only after   *)
(* its entry.                                                              *)
(***************************************************************************)

Finishing == \A c \in Calls : call[c].pc = "finish" => booked[call[c].event] >= 1

SInv == Finishing /\ SuccessIsBooked

LEMMA SuccessRequest ==
  ASSUME TypeOK, SInv, NEW c \in Calls, NEW e \in Events, NEW n, NEW op, Request(c, op, e, n)
  PROVE  SInv'
<1>1. /\ call' = [call EXCEPT ![c] = Begin(c, op, e, n)]
      /\ Begin(c, op, e, n).pc \in {"begin", "read"}
  BY DEF Request, Begin, TypeOK, Call
<1>2. UNCHANGED <<event, booked>>
  BY DEF Request
<1> QED BY <1>1, <1>2 DEF SInv, Finishing, SuccessIsBooked, TypeOK

\* Steps after which the request is not about to finish, and nothing becomes a success.
LEMMA SuccessQuiet ==
  ASSUME TypeOK, SInv, NEW c \in Calls, CallStep(c), ~Book(c), ~FinishEvent(c)
  PROVE  SInv'
<1>1. /\ \A d \in Calls \ {c} : call'[d] = call[d]
      /\ call'[c].pc # "finish"
  <2>1. call \in [Calls -> Call]
    BY DEF TypeOK
  <2>2. CASE ReadAccount(c)
    BY <2>1, <2>2 DEF ReadAccount, Call
  <2>3. CASE ReadPolicy(c)
    BY <2>1, <2>3 DEF ReadPolicy, Call
  <2>4. CASE ~ReadAccount(c) /\ ~ReadPolicy(c)
    <3>1. PICK pc \in {"read", "reread", "ready", "consume", "book", "done", "error"} : Goto(c, pc)
      BY <2>4 DEF CallStep, FindEvent, RefreshAccount, Preflight, CheckBalance,
         ConsumeCredits, GrantCredits, HoldCredits, BlockAccount, FailEvent, SavePolicy
    <3> QED BY <2>1, <3>1 DEF Goto, Call
  <2> QED BY <2>2, <2>3, <2>4
<1>2. UNCHANGED booked
  BY DEF CallStep, FindEvent, ReadAccount, RefreshAccount, Preflight, CheckBalance,
         ConsumeCredits, GrantCredits, HoldCredits, BlockAccount, FailEvent, ReadPolicy,
         SavePolicy
<1>3. \A e \in Events : event'[e].status = "success" => event[e].status = "success"
  <2>1. event \in [Events -> Event] /\ call[c].event \in Events
    BY DEF TypeOK, Call
  <2>2. CASE Preflight(c)
    <3>1. PICK st \in {"rejected", "preflight_approved"} :
            event' = [event EXCEPT ![call[c].event] =
                        [status |-> st, credits |-> 0, month |-> month]]
      BY <2>2 DEF Preflight
    <3> QED BY <2>1, <3>1
  <2>3. CASE CheckBalance(c) \/ FailEvent(c)
    <3>1. event' = event \/ event' = [event EXCEPT ![call[c].event].status = "failed"]
      BY <2>3 DEF CheckBalance, FailEvent
    <3> QED BY <2>1, <3>1 DEF Event
  <2>4. CASE ~Preflight(c) /\ ~CheckBalance(c) /\ ~FailEvent(c)
    BY <2>4 DEF CallStep, FindEvent, ReadAccount, RefreshAccount,
         ConsumeCredits, GrantCredits, HoldCredits, BlockAccount, ReadPolicy, SavePolicy
  <2> QED BY <2>2, <2>3, <2>4
<1> QED BY <1>1, <1>2, <1>3 DEF SInv, Finishing, SuccessIsBooked

LEMMA SuccessBook ==
  ASSUME TypeOK, SInv, NEW c \in Calls, Book(c)
  PROVE  SInv'
<1>1. /\ call[c].event \in Events /\ booked \in [Events -> Nat] /\ UNCHANGED event
      /\ \A d \in Calls \ {c} : call'[d] = call[d]
      /\ call'[c].event = call[c].event
  BY DEF TypeOK, Call, Book, Goto
<1>2. \A e \in Events : booked'[e] >= booked[e]
  BY <1>1 DEF Book
<1>3. call'[c].pc = "finish" => booked'[call[c].event] >= 1
  BY <1>1 DEF Book, Goto, TypeOK, Call
<1>4. \A d \in Calls : call[d].event \in Events
  BY DEF TypeOK, Call
<1>5. booked' \in [Events -> Nat]
  BY <1>1 DEF Book
<1> QED BY <1>1, <1>2, <1>3, <1>4, <1>5 DEF SInv, Finishing, SuccessIsBooked

LEMMA SuccessFinish ==
  ASSUME TypeOK, SInv, NEW c \in Calls, FinishEvent(c)
  PROVE  SInv'
<1>1. /\ call[c].event \in Events /\ UNCHANGED booked
      /\ \A d \in Calls \ {c} : call'[d] = call[d]
      /\ call'[c].pc = "done"
  BY DEF TypeOK, Call, FinishEvent, Goto
<1>2. \A e \in Events : e # call[c].event => event'[e] = event[e]
  BY DEF FinishEvent, TypeOK
<1>3. booked[call[c].event] >= 1
  BY DEF FinishEvent, SInv, Finishing
<1> QED BY <1>1, <1>2, <1>3 DEF SInv, Finishing, SuccessIsBooked

LEMMA SuccessCall ==
  ASSUME TypeOK, SInv, NEW c \in Calls, CallStep(c)
  PROVE  SInv'
BY SuccessQuiet, SuccessBook, SuccessFinish

LEMMA SuccessUnchanged ==
  ASSUME SInv, UNCHANGED <<booked, event, call>>
  PROVE  SInv'
BY DEF SInv, Finishing, SuccessIsBooked

----------------------------------------------------------------------------
(***************************************************************************)
(* One upload wins a session, and only the winner bills it.                *)
(***************************************************************************)

Billing(u) == call[<<u, "complete">>]

Won(u) == upload[u] = "processing" \/ Billing(u).pc # "idle"

OneWinner ==
  /\ \A u \in Uploads : upload[u] \in {"new", "processing"} => Billing(u).pc = "idle"
  /\ \A u \in Uploads : Won(u) => session[SessionOf[u]] \in {"closed", "lost"}
  /\ \A u, w \in Uploads : Won(u) /\ Won(w) /\ SessionOf[u] = SessionOf[w] => u = w

BillingCalls ==
  \A c \in Calls : call[c].op = "complete" =>
    \E u \in Uploads : c = <<u, "complete">> /\ call[c].event = SessionOf[u]

BookedByWinner ==
  /\ BookedOnce
  /\ \A e \in Events : booked[e] = 1 =>
       \E u \in Uploads : SessionOf[u] = e /\ Billing(u).pc \in {"finish", "done"}

\* The call by which a purge closes the event of an expired session
Expiring(s) == call[<<s, "expire">>]

GivenUp ==
  \A s \in Sessions : Expiring(s).op = "fail" =>
    /\ session[s] \in {"closed", "lost"}
    /\ \A u \in Uploads : SessionOf[u] = s => ~Won(u)

WInv == OneWinner /\ BillingCalls /\ BookedByWinner /\ GivenUp

LEMMA WinnerInit ==
  ASSUME VoiceAssumption, VoiceInit
  PROVE  WInv
<1>1. \A u \in Uploads : <<u, "complete">> \in Calls
  BY DEF VoiceAssumption
<1>2. \A c \in Calls : call[c].pc = "idle" /\ call[c].op = "none"
  BY DEF VoiceInit, UsageInit
<1>3. \A u \in Uploads : Billing(u).pc = "idle" /\ ~Won(u)
  BY <1>1, <1>2 DEF Billing, Won, VoiceInit
<1>4. OneWinner
  BY <1>3 DEF OneWinner
<1>5. BillingCalls
  BY <1>2 DEF BillingCalls
<1>6. BookedByWinner
  BY DEF BookedByWinner, BookedOnce, VoiceInit, UsageInit
<1>7. GivenUp
  BY <1>2 DEF GivenUp, Expiring, VoiceAssumption
<1> QED BY <1>4, <1>5, <1>6, <1>7 DEF WInv

\* What a step of the usage service does to where a request is.
LEMMA StepOfCall ==
  ASSUME TypeOK, NEW c \in Calls, CallStep(c)
  PROVE  /\ call[c].pc # "idle" /\ call'[c].pc # "idle"
         /\ call[c].pc # "done"
         /\ call[c].pc = "finish" => call'[c].pc = "done"
         /\ call'[c].op = call[c].op /\ call'[c].event = call[c].event
         /\ \A d \in Calls \ {c} : call'[d] = call[d]
<1>1. call \in [Calls -> Call]
  BY DEF TypeOK
<1>2. CASE ReadAccount(c)
  BY <1>1, <1>2 DEF ReadAccount, Call
<1>3. CASE ReadPolicy(c)
  BY <1>1, <1>3 DEF ReadPolicy, Call
<1>4. CASE ~ReadAccount(c) /\ ~ReadPolicy(c)
  <2>1. PICK pc \in {"read", "reread", "ready", "consume", "book", "finish", "done", "error"} :
          Goto(c, pc) /\ (call[c].pc = "finish" => pc = "done")
    BY <1>4 DEF CallStep, FindEvent, RefreshAccount, Preflight, CheckBalance, Book, FinishEvent,
         ConsumeCredits, GrantCredits, HoldCredits, BlockAccount, FailEvent, SavePolicy
  <2>2. call[c].pc \notin {"idle", "done"}
    BY <1>4 DEF CallStep, FindEvent, RefreshAccount, Preflight, CheckBalance, Book, FinishEvent,
         ConsumeCredits, GrantCredits, HoldCredits, BlockAccount, FailEvent, SavePolicy
  <2> QED BY <1>1, <2>1, <2>2 DEF Goto, Call
<1> QED BY <1>2, <1>3, <1>4

LEMMA WinnerCall ==
  ASSUME VoiceAssumption, TypeOK, WInv, NEW c \in Calls, CallStep(c), UNCHANGED voiceVars
  PROVE  WInv'
<1>1. \A u \in Uploads : <<u, "complete">> \in Calls
  BY DEF VoiceAssumption
<1>2. /\ \A u \in Uploads : Billing(u)'.pc = "idle" <=> Billing(u).pc = "idle"
      /\ \A u \in Uploads : Billing(u).pc \in {"finish", "done"} => Billing(u)'.pc \in {"finish", "done"}
  BY <1>1, StepOfCall DEF Billing
<1>3. OneWinner'
  BY <1>2 DEF WInv, OneWinner, Won, voiceVars
<1>4. BillingCalls'
  BY StepOfCall DEF WInv, BillingCalls
<1>5. BookedByWinner'
  <2>1. CASE UNCHANGED booked
    BY <1>2, <2>1 DEF WInv, BookedByWinner, BookedOnce
  <2>2. CASE booked' # booked
    <3>1. Book(c) /\ call[c].op = "complete"
      BY <2>2 DEF CallStep, FindEvent, ReadAccount, RefreshAccount, Preflight, CheckBalance,
         ConsumeCredits, GrantCredits, HoldCredits, BlockAccount, Book, FinishEvent, FailEvent,
         ReadPolicy, SavePolicy
    <3>2. PICK u \in Uploads : c = <<u, "complete">> /\ call[c].event = SessionOf[u]
      BY <3>1 DEF WInv, BillingCalls
    <3> DEFINE e == SessionOf[u]
    <3>3. /\ e \in Events /\ booked \in [Events -> Nat] /\ call \in [Calls -> Call]
          /\ booked' = [booked EXCEPT ![e] = @ + 1] /\ Goto(c, "finish") /\ Billing(u).pc = "book"
      BY <3>1, <3>2 DEF Book, TypeOK, Call, Billing
    <3>4. booked[e] # 1
      <4>1. SUFFICES ASSUME booked[e] = 1 PROVE FALSE
        OBVIOUS
      <4>2. PICK w \in Uploads : SessionOf[w] = e /\ Billing(w).pc \in {"finish", "done"}
        BY <3>3, <4>1 DEF WInv, BookedByWinner
      <4>3. Won(u) /\ Won(w)
        BY <3>3, <4>2 DEF Won
      <4>4. u = w
        BY <4>2, <4>3 DEF WInv, OneWinner
      <4> QED BY <3>3, <4>2, <4>4
    <3>5. booked[e] = 0
      BY <3>3, <3>4 DEF WInv, BookedByWinner, BookedOnce
    <3>6. Billing(u)'.pc = "finish"
      BY <3>2, <3>3 DEF Goto, Billing
    <3>7. BookedOnce'
      BY <3>3, <3>5 DEF WInv, BookedByWinner, BookedOnce
    <3>8. ASSUME NEW f \in Events, booked'[f] = 1
          PROVE  \E w \in Uploads : SessionOf[w] = f /\ Billing(w)'.pc \in {"finish", "done"}
      <4>1. CASE f = e
        BY <3>6, <4>1
      <4>2. CASE f # e
        BY <1>2, <3>3, <3>8, <4>2 DEF WInv, BookedByWinner
      <4> QED BY <4>1, <4>2
    <3> QED BY <3>7, <3>8 DEF BookedByWinner
  <2> QED BY <2>1, <2>2
<1>6. GivenUp'
  <2>1. \A s \in Sessions : Expiring(s)'.op = Expiring(s).op
    BY StepOfCall DEF Expiring, VoiceAssumption
  <2>2. \A u \in Uploads : Won(u)' => Won(u)
    BY <1>2 DEF Won, voiceVars
  <2> QED BY <2>1, <2>2 DEF WInv, GivenUp, voiceVars
<1> QED BY <1>3, <1>4, <1>5, <1>6 DEF WInv

\* Steps that leave what the winners bill, let nobody win, and give up expired sessions only.
LEMMA WinnerQuiet ==
  ASSUME WInv, UNCHANGED booked,
         \A u \in Uploads : Billing(u)' = Billing(u),
         \A u \in Uploads : upload'[u] \in {"new", "processing"} => upload'[u] = upload[u],
         \A s \in Sessions : session[s] \in {"closed", "lost"} => session'[s] \in {"closed", "lost"},
         \A c \in Calls : call'[c].op = "complete" => call'[c] = call[c],
         \A s \in Sessions : Expiring(s)' = Expiring(s) \/ (session[s] = "expired" /\ session'[s] = "closed"),
         SessionOf \in [Uploads -> Sessions]
  PROVE  WInv'
<1>1. OneWinner'
  BY DEF WInv, OneWinner, Won
<1>2. BillingCalls'
  BY DEF WInv, BillingCalls
<1>3. BookedByWinner'
  BY DEF WInv, BookedByWinner, BookedOnce
<1>4. ASSUME NEW s \in Sessions, Expiring(s)'.op = "fail"
      PROVE  session'[s] \in {"closed", "lost"} /\ \A u \in Uploads : SessionOf[u] = s => ~Won(u)'
  <2>1. \A u \in Uploads : Won(u)' => Won(u)
    BY DEF Won
  <2>2. CASE Expiring(s)' = Expiring(s)
    BY <1>4, <2>1, <2>2 DEF WInv, GivenUp
  <2>3. CASE session[s] = "expired" /\ session'[s] = "closed"
    BY <2>1, <2>3 DEF WInv, OneWinner
  <2> QED BY <2>2, <2>3
<1>5. GivenUp'
  BY <1>4 DEF GivenUp
<1> QED BY <1>1, <1>2, <1>3, <1>5 DEF WInv

\* The requests other than the billing of an upload.
LEMMA SendOther ==
  ASSUME TypeOK, VoiceAssumption, NEW c \in Calls, NEW op \in {"preflight", "fail"}, NEW e, NEW n,
         call' = [call EXCEPT ![c] = Begin(c, op, e, n)],
         \A u \in Uploads : c # <<u, "complete">>, \A s \in Sessions : c # <<s, "expire">>
  PROVE  /\ \A u \in Uploads : Billing(u)' = Billing(u)
         /\ \A s \in Sessions : Expiring(s)' = Expiring(s)
         /\ \A d \in Calls : call'[d].op = "complete" => call'[d] = call[d]
<1>1. /\ call \in [Calls -> Call] /\ \A u \in Uploads : <<u, "complete">> \in Calls
      /\ \A s \in Sessions : <<s, "expire">> \in Calls
  BY DEF TypeOK, VoiceAssumption
<1>2. Begin(c, op, e, n).op = op
  BY <1>1 DEF Begin, Call
<1> QED BY <1>1, <1>2 DEF Billing, Expiring

LEMMA WinnerSessions ==
  ASSUME VoiceAssumption, VoiceTypeOK, WInv,
         PurgeExpired \/ (\E s \in Sessions : SessionStep(s)) \/ Restart \/ Administrate
  PROVE  WInv'
<1> USE DEF VoiceTypeOK
<1>1. /\ SessionOf \in [Uploads -> Sessions]
      /\ \A u \in Uploads : <<u, "complete">> \in Calls
      /\ call \in [Calls -> Call]
  BY DEF VoiceAssumption, TypeOK
<1>2. ASSUME call' = Closing,
             \A s \in Purged : session'[s] = "closed",
             \A s \in Sessions : session[s] \in {"closed", "lost"} => session'[s] = session[s],
             UNCHANGED <<booked, upload>>
      PROVE  WInv'
  <2>1. ASSUME NEW c \in Calls
        PROVE  /\ call'[c] = call[c] \/ (c[2] = "expire" /\ c[1] \in Purged)
               /\ call'[c].op = "complete" => call'[c] = call[c]
    <3>1. Begin(c, "fail", c[1], 0).op = "fail"
      BY <1>1 DEF Begin, Call
    <3>2. call'[c] = IF c[2] = "expire" /\ c[1] \in Purged THEN Begin(c, "fail", c[1], 0) ELSE call[c]
      BY <1>2, Zenon DEF Closing
    <3> QED BY <3>1, <3>2
  <2>2. \A u \in Uploads : Billing(u)' = Billing(u)
    BY <1>1, <2>1 DEF Billing
  <2>3. ASSUME NEW s \in Sessions
        PROVE  Expiring(s)' = Expiring(s) \/ (session[s] = "expired" /\ session'[s] = "closed")
    <3>1. <<s, "expire">> \in Calls
      BY DEF VoiceAssumption
    <3>2. Expiring(s)' = Expiring(s) \/ s \in Purged
      BY <2>1, <3>1 DEF Expiring
    <3> QED BY <1>2, <3>2 DEF Purged
  <2> QED BY <1>1, <1>2, <2>1, <2>2, <2>3, WinnerQuiet
<1>3. ASSUME NEW s \in Sessions, SessionStep(s) PROVE WInv'
  <2>0. CASE AskSession(s)
    <3>1. /\ session[s] = "new" /\ call' = Closing /\ UNCHANGED <<booked, upload>>
          /\ session' = [e \in Sessions |-> CASE e = s -> "asked"
                                              [] e \in Purged -> "closed"
                                              [] OTHER -> session[e]]
      BY <2>0 DEF AskSession
    <3>2. \A e \in Purged : session'[e] = "closed"
      BY <3>1 DEF Purged
    <3>3. \A e \in Sessions : session[e] \in {"closed", "lost"} => session'[e] = session[e]
      BY <3>1 DEF Purged
    <3> QED BY <1>2, <3>1, <3>2, <3>3
  <2>1. CASE CreateSession(s)
    <3>1. PICK n \in Amounts : Send(<<s, "preflight">>, "preflight", s, n)
      BY <2>1 DEF CreateSession
    <3>2. /\ <<s, "preflight">> \in Calls
          /\ \A u \in Uploads : <<s, "preflight">> # <<u, "complete">>
          /\ \A e \in Sessions : <<s, "preflight">> # <<e, "expire">>
      BY DEF VoiceAssumption
    <3>3. call' = [call EXCEPT ![<<s, "preflight">>] = Begin(<<s, "preflight">>, "preflight", s, n)]
      BY <3>1 DEF Send
    <3>4. /\ \A u \in Uploads : Billing(u)' = Billing(u)
          /\ \A e \in Sessions : Expiring(e)' = Expiring(e)
          /\ \A d \in Calls : call'[d].op = "complete" => call'[d] = call[d]
      BY <3>2, <3>3, SendOther
    <3>5. UNCHANGED <<booked, upload>> /\ session' = [session EXCEPT ![s] = "preflight"]
          /\ session[s] = "asked"
      BY <2>1, <3>1 DEF CreateSession, Send
    <3> QED BY <1>1, <3>4, <3>5, WinnerQuiet
  <2>2. CASE OpenSession(s) \/ PreflightLost(s) \/ Expire(s)
    <3>1. UNCHANGED <<booked, call, upload>> /\ session[s] \in {"preflight", "awaiting_audio"}
          /\ \A r \in Sessions \ {s} : session'[r] = session[r]
      BY <2>2 DEF OpenSession, PreflightLost, Expire, usageVars
    <3> QED BY <1>1, <3>1, WinnerQuiet DEF Billing, Expiring
  <2> QED BY <1>3, <2>0, <2>1, <2>2 DEF SessionStep
<1>4. CASE Restart
  BY <1>1, <1>4, WinnerQuiet DEF Restart, Billing, Expiring, usageVars
<1>5. CASE Administrate
  <2>1. PICK a \in Admins, op \in AdminOps, e \in Events, n \in Amounts :
          Request(<<a, "admin">>, op, e, n)
    BY <1>5 DEF Administrate
  <2>2. /\ <<a, "admin">> \in Calls
        /\ \A u \in Uploads : <<a, "admin">> # <<u, "complete">>
        /\ \A s \in Sessions : <<a, "admin">> # <<s, "expire">>
    BY DEF VoiceAssumption
  <2>3. call' = [call EXCEPT ![<<a, "admin">>] = Begin(<<a, "admin">>, op, e, n)]
        /\ UNCHANGED <<booked, session, upload>>
    BY <1>5, <2>1 DEF Request, Administrate, voiceVars
  <2>4. Begin(<<a, "admin">>, op, e, n).op # "complete"
    BY <1>1, <2>2 DEF Begin, Call, AdminOps
  <2> QED BY <1>1, <2>2, <2>3, <2>4, WinnerQuiet DEF Billing, Expiring
<1>6. CASE PurgeExpired
  <2>1. /\ call' = Closing /\ UNCHANGED <<booked, upload>>
        /\ session' = [s \in Sessions |-> IF s \in Purged THEN "closed" ELSE session[s]]
    BY <1>6 DEF PurgeExpired
  <2>2. \A s \in Purged : session'[s] = "closed"
    BY <2>1 DEF Purged
  <2>3. \A s \in Sessions : session[s] \in {"closed", "lost"} => session'[s] = session[s]
    BY <2>1 DEF Purged
  <2> QED BY <1>2, <2>1, <2>2, <2>3
<1> QED BY <1>3, <1>4, <1>5, <1>6

LEMMA WinnerUploads ==
  ASSUME VoiceAssumption, VoiceTypeOK, WInv, NEW u \in Uploads, UploadStep(u)
  PROVE  WInv'
<1> DEFINE s == SessionOf[u]
<1>1. /\ SessionOf \in [Uploads -> Sessions] /\ s \in Sessions /\ Events = Sessions
      /\ \A w \in Uploads : <<w, "complete">> \in Calls
      /\ call \in [Calls -> Call]
  BY DEF VoiceAssumption, TypeOK, VoiceTypeOK
<1> HIDE DEF s
<1>2. CASE ProcessAudio(u)
  <2>1. /\ upload[u] = "new" /\ session[s] = "awaiting_audio"
        /\ session' = [session EXCEPT ![s] = "closed"]
        /\ upload' = [upload EXCEPT ![u] = "processing"]
        /\ UNCHANGED <<call, booked>>
    BY <1>2 DEF ProcessAudio, usageVars, s
  <2>2. \A w \in Uploads : SessionOf[w] = s => ~Won(w)
    BY <2>1 DEF WInv, OneWinner
  <2>3. \A w \in Uploads : Billing(w)' = Billing(w)
    BY <2>1 DEF Billing
  <2>4. \A w \in Uploads : Won(w)' => Won(w) \/ w = u
    BY <2>1, <2>3 DEF Won
  <2>5. OneWinner'
    <3>1. \A w \in Uploads : upload'[w] \in {"new", "processing"} => Billing(w)'.pc = "idle"
      BY <2>1, <2>3 DEF WInv, OneWinner
    <3>2. \A w \in Uploads : Won(w)' => session'[SessionOf[w]] \in {"closed", "lost"}
      BY <1>1, <2>1, <2>4 DEF WInv, OneWinner, VoiceTypeOK, s
    <3>3. \A w, x \in Uploads : Won(w)' /\ Won(x)' /\ SessionOf[w] = SessionOf[x] => w = x
      BY <2>2, <2>4 DEF WInv, OneWinner, s
    <3> QED BY <3>1, <3>2, <3>3 DEF OneWinner
  <2>6. BillingCalls'
    BY <2>1 DEF WInv, BillingCalls
  <2>7. BookedByWinner'
    BY <2>1, <2>3 DEF WInv, BookedByWinner, BookedOnce
  <2>8. GivenUp'
    <3>1. \A e \in Sessions : Expiring(e)' = Expiring(e)
      BY <2>1 DEF Expiring
    <3>2. ASSUME NEW e \in Sessions, Expiring(e).op = "fail"
          PROVE  /\ session'[e] \in {"closed", "lost"}
                 /\ \A w \in Uploads : SessionOf[w] = e => ~Won(w)'
      <4>1. session[e] \in {"closed", "lost"} /\ e # s
        BY <2>1, <3>2 DEF WInv, GivenUp
      <4>2. session'[e] = session[e]
        BY <2>1, <4>1 DEF VoiceTypeOK
      <4> QED BY <2>4, <3>2, <4>1, <4>2 DEF WInv, GivenUp, s
    <3> QED BY <3>1, <3>2 DEF GivenUp
  <2> QED BY <2>5, <2>6, <2>7, <2>8 DEF WInv
<1>3. CASE BillAudio(u)
  <2>1. PICK n \in Amounts : Send(<<u, "complete">>, "complete", s, n)
    BY <1>3 DEF BillAudio, s
  <2>2. /\ upload[u] = "processing" /\ UNCHANGED <<booked, session>>
        /\ upload' = [upload EXCEPT ![u] = "completing"]
        /\ call' = [call EXCEPT ![<<u, "complete">>] = Begin(<<u, "complete">>, "complete", s, n)]
    BY <1>3, <2>1 DEF BillAudio, Send
  <2>3. /\ Begin(<<u, "complete">>, "complete", s, n).pc = "begin"
        /\ Begin(<<u, "complete">>, "complete", s, n).event = s
    BY <1>1 DEF Begin, Call
  <2>4. /\ Billing(u)'.pc = "begin" /\ Billing(u)'.event = s
        /\ \A w \in Uploads \ {u} : Billing(w)' = Billing(w)
    BY <1>1, <2>2, <2>3 DEF Billing
  <2>5. Won(u) /\ Billing(u).pc = "idle"
    BY <2>2 DEF Won, WInv, OneWinner
  <2>6. \A w \in Uploads : Won(w)' => Won(w)
    BY <2>2, <2>4, <2>5 DEF Won
  <2>7. OneWinner'
    BY <2>2, <2>4, <2>6 DEF WInv, OneWinner, VoiceTypeOK
  <2>8. BillingCalls'
    BY <1>1, <2>2, <2>3 DEF WInv, BillingCalls, s
  <2>9. BookedByWinner'
    BY <2>2, <2>4, <2>5 DEF WInv, BookedByWinner, BookedOnce
  <2>10. GivenUp'
    <3>1. \A e \in Sessions : Expiring(e)' = Expiring(e)
      BY <1>1, <2>2 DEF Expiring, VoiceAssumption
    <3> QED BY <2>2, <2>6, <3>1 DEF WInv, GivenUp
  <2> QED BY <2>7, <2>8, <2>9, <2>10 DEF WInv
<1>4. CASE RejectExpired(u) \/ FailAudio(u)
  <2>1. /\ Send(<<u, "fail">>, "fail", s, 0)
        /\ upload' = [upload EXCEPT ![u] = "failing"]
        /\ session' = [session EXCEPT ![s] = "closed"] \/ UNCHANGED session
    BY <1>4 DEF RejectExpired, FailAudio, s
  <2>2. /\ <<u, "fail">> \in Calls
        /\ \A w \in Uploads : <<u, "fail">> # <<w, "complete">>
        /\ \A e \in Sessions : <<u, "fail">> # <<e, "expire">>
    BY DEF VoiceAssumption
  <2>3. call' = [call EXCEPT ![<<u, "fail">>] = Begin(<<u, "fail">>, "fail", s, 0)]
        /\ UNCHANGED booked
    BY <2>1 DEF Send
  <2>4. /\ \A w \in Uploads : Billing(w)' = Billing(w)
        /\ \A e \in Sessions : Expiring(e)' = Expiring(e)
        /\ \A d \in Calls : call'[d].op = "complete" => call'[d] = call[d]
    BY <2>2, <2>3, SendOther DEF VoiceTypeOK
  <2> QED BY <1>1, <2>1, <2>3, <2>4, WinnerQuiet DEF VoiceTypeOK
<1>5. CASE RejectAudio(u) \/ AnswerAudio(u) \/ FailAnswered(u)
  <2>1. UNCHANGED <<booked, call, session>> /\ upload' = [upload EXCEPT ![u] = "ended"]
    BY <1>5 DEF RejectAudio, AnswerAudio, FailAnswered, usageVars
  <2> QED BY <1>1, <2>1, WinnerQuiet DEF Billing, Expiring, VoiceTypeOK
<1> QED BY <1>2, <1>3, <1>4, <1>5 DEF UploadStep

----------------------------------------------------------------------------
(***************************************************************************)
(* The orchestrator as the client.                                         *)
(***************************************************************************)

VInv == IInv /\ VoiceTypeOK /\ SInv /\ WInv

\* A step that starts requests, the account and the events untouched.
LEMMA StartedCalls ==
  ASSUME IInv, SInv, UNCHANGED <<account, ledger, booked, event, policy, month>>,
         call' \in [Calls -> Call],
         \A c \in Calls : call'[c] = call[c] \/ (call'[c].row = call[c].row /\ call'[c].pc # "finish")
  PROVE  IInv' /\ SInv'
<1>1. TypeOK'
  BY DEF IInv, TypeOK
<1>2. Rows'
  BY DEF IInv, Rows, Covered, Consumed, Granted
<1>3. NeverOverdrawn'
  BY DEF IInv, NeverOverdrawn, Covered, Consumed, Granted
<1>4. SInv'
  BY DEF SInv, Finishing, SuccessIsBooked
<1> QED BY <1>1, <1>2, <1>3, <1>4 DEF IInv

LEMMA BegunCall ==
  ASSUME UsageAssumption, IInv, NEW c \in Calls, NEW e \in Events, NEW n \in Nat,
         NEW op \in {"preflight", "complete", "fail"} \cup AdminOps
  PROVE  /\ Begin(c, op, e, n) \in Call
         /\ Begin(c, op, e, n).row = call[c].row
         /\ Begin(c, op, e, n).pc # "finish"
<1>1. call[c] \in Call
  BY DEF IInv, TypeOK
<1> QED BY <1>1 DEF Begin, Call

LEMMA SendStep ==
  ASSUME UsageAssumption, IInv, SInv, NEW c \in Calls, NEW e \in Events, NEW n \in Nat,
         NEW op \in {"preflight", "complete", "fail"}, Send(c, op, e, n)
  PROVE  IInv' /\ SInv'
<1>1. call \in [Calls -> Call]
  BY DEF IInv, TypeOK
<1> QED BY <1>1, BegunCall, StartedCalls DEF Send

\* The account, the entries and the events under one step of the whole.
LEMMA UsageSide ==
  ASSUME UsageAssumption, VoiceAssumption, VInv, [Next]_vars
  PROVE  IInv' /\ SInv'
<1> USE DEF VInv
<1>1. call \in [Calls -> Call] /\ TypeOK /\ SessionOf \in [Uploads -> Sessions] /\ Events = Sessions
  BY DEF IInv, TypeOK, VoiceAssumption
<1>2. ASSUME call' = Closing, UNCHANGED <<account, ledger, booked, event, policy, month>>
      PROVE  IInv' /\ SInv'
  <2>1. ASSUME NEW c \in Calls
        PROVE  /\ call'[c] \in Call
               /\ call'[c] = call[c] \/ (call'[c].row = call[c].row /\ call'[c].pc # "finish")
    <3>1. CASE c[2] = "expire" /\ c[1] \in Sessions
      <4>1. /\ Begin(c, "fail", c[1], 0) \in Call
            /\ Begin(c, "fail", c[1], 0).row = call[c].row
            /\ Begin(c, "fail", c[1], 0).pc # "finish"
        BY <1>1, <3>1, BegunCall
      <4>2. call'[c] \in {Begin(c, "fail", c[1], 0), call[c]}
        <5> DEFINE fails == Begin(c, "fail", c[1], 0)
        <5> DEFINE ends == c[2] = "expire" /\ c[1] \in Purged
        <5>1. call'[c] = IF ends THEN fails ELSE call[c]
          BY <1>2, Zenon DEF Closing
        <5> HIDE DEF fails, ends
        <5>2. call'[c] \in {fails, call[c]}
          BY <5>1
        <5> QED BY <5>2 DEF fails
      <4>3. call[c] \in Call
        BY <1>1
      <4> QED BY <4>1, <4>2, <4>3
    <3>2. CASE ~(c[2] = "expire" /\ c[1] \in Sessions)
      <4>1. call'[c] = call[c]
        BY <1>2, <3>2 DEF Closing, Purged
      <4> QED BY <1>1, <4>1
    <3> QED BY <3>1, <3>2
  <2>2. call' \in [Calls -> Call]
    BY <1>2, <2>1 DEF Closing
  <2> QED BY <1>2, <2>1, <2>2, StartedCalls
<1>3. ASSUME NEW s \in Sessions, SessionStep(s) PROVE IInv' /\ SInv'
  <2>1. CASE CreateSession(s)
    <3>1. <<s, "preflight">> \in Calls /\ Amounts \subseteq Nat
      BY DEF VoiceAssumption, UsageAssumption
    <3> QED BY <1>1, <2>1, <3>1, SendStep DEF CreateSession
  <2>2. CASE AskSession(s)
    BY <1>2, <2>2 DEF AskSession
  <2>3. CASE ~CreateSession(s) /\ ~AskSession(s)
    <3>1. UNCHANGED usageVars
      BY <1>3, <2>3 DEF SessionStep, OpenSession, PreflightLost, Expire
    <3> QED BY <3>1, UsageStutter, SuccessUnchanged DEF usageVars
  <2> QED BY <2>1, <2>2, <2>3
<1>4. ASSUME NEW u \in Uploads, UploadStep(u) PROVE IInv' /\ SInv'
  <2>1. /\ <<u, "complete">> \in Calls /\ <<u, "fail">> \in Calls /\ Amounts \subseteq Nat
        /\ SessionOf[u] \in Events
    BY <1>1 DEF VoiceAssumption, UsageAssumption
  <2>2. CASE RejectExpired(u) \/ FailAudio(u)
    <3>1. Send(<<u, "fail">>, "fail", SessionOf[u], 0)
      BY <2>2 DEF RejectExpired, FailAudio
    <3> QED BY <2>1, <3>1, SendStep
  <2>3. CASE BillAudio(u)
    <3>1. PICK n \in Amounts : Send(<<u, "complete">>, "complete", SessionOf[u], n)
      BY <2>3 DEF BillAudio
    <3> QED BY <2>1, <3>1, SendStep
  <2>4. CASE ~RejectExpired(u) /\ ~FailAudio(u) /\ ~BillAudio(u)
    <3>1. UNCHANGED usageVars
      BY <1>4, <2>4 DEF UploadStep, ProcessAudio, RejectAudio, AnswerAudio, FailAnswered
    <3> QED BY <3>1, UsageStutter, SuccessUnchanged DEF usageVars
  <2> QED BY <2>2, <2>3, <2>4
<1>5. CASE Restart
  BY <1>5, UsageStutter, SuccessUnchanged DEF Restart, usageVars
<1>6. CASE Administrate
  <2>1. PICK a \in Admins, op \in AdminOps, e \in Events, n \in Amounts :
          Request(<<a, "admin">>, op, e, n)
    BY <1>6 DEF Administrate
  <2>2. <<a, "admin">> \in Calls
    BY DEF VoiceAssumption
  <2> QED BY <1>1, <2>1, <2>2, RequestStep, SuccessRequest
<1>7. ASSUME NEW c \in Calls, CallStep(c) PROVE IInv' /\ SInv'
  BY <1>1, <1>7, CallSteps, SuccessCall
<1>8. CASE NextMonth
  BY <1>8, MonthStep, SuccessUnchanged DEF NextMonth
<1>9. CASE UNCHANGED vars
  BY <1>9, UsageStutter, SuccessUnchanged DEF vars, usageVars
<1>10. CASE PurgeExpired
  BY <1>2, <1>10 DEF PurgeExpired
<1> QED BY <1>10, <1>3, <1>4, <1>5, <1>6, <1>7, <1>8, <1>9 DEF Next

LEMMA VoiceTypes ==
  ASSUME VoiceAssumption, VoiceTypeOK, TypeOK', [Next]_vars
  PROVE  VoiceTypeOK'
<1> USE DEF VoiceTypeOK
<1>1. SessionOf \in [Uploads -> Sessions]
  BY DEF VoiceAssumption
<1>2. CASE PurgeExpired
  BY <1>2 DEF PurgeExpired
<1>3. ASSUME NEW s \in Sessions, SessionStep(s) PROVE VoiceTypeOK'
  BY <1>3 DEF SessionStep, AskSession, CreateSession, OpenSession, PreflightLost, Expire
<1>4. ASSUME NEW u \in Uploads, UploadStep(u) PROVE VoiceTypeOK'
  BY <1>1, <1>4 DEF UploadStep, ProcessAudio, RejectExpired, RejectAudio, BillAudio, AnswerAudio,
                    FailAudio, FailAnswered
<1>5. CASE Restart
  BY <1>5 DEF Restart
<1>6. CASE UNCHANGED voiceVars
  BY <1>6 DEF voiceVars
<1> QED BY <1>2, <1>3, <1>4, <1>5, <1>6 DEF Next, Administrate, vars, voiceVars

LEMMA VoiceStep ==
  ASSUME UsageAssumption, VoiceAssumption, VInv, [Next]_vars
  PROVE  VInv'
<1>1. IInv' /\ SInv'
  BY UsageSide
<1>2. VoiceTypeOK'
  BY <1>1, VoiceTypes DEF VInv, IInv
<1>3. WInv'
  <2>1. CASE UNCHANGED <<call, booked, session, upload>>
    <3>1. WInv
      BY DEF VInv
    <3>2. OneWinner'
      BY <2>1, <3>1 DEF WInv, OneWinner, Won, Billing
    <3>3. BillingCalls'
      BY <2>1, <3>1 DEF WInv, BillingCalls
    <3>4. BookedByWinner'
      BY <2>1, <3>1 DEF WInv, BookedByWinner, BookedOnce, Billing
    <3>5. GivenUp'
      BY <2>1, <3>1 DEF WInv, GivenUp, Expiring, Won, Billing
    <3> QED BY <3>2, <3>3, <3>4, <3>5 DEF WInv
  <2>2. CASE Next
    BY <2>1, <2>2, WinnerSessions, WinnerUploads, WinnerCall
    DEF Next, VInv, VoiceTypeOK, NextMonth, voiceVars
  <2> QED BY <2>1, <2>2 DEF vars
<1> QED BY <1>1, <1>2, <1>3 DEF VInv

LEMMA VoiceInductive == Spec => []VInv
<1>1. VoiceInit => VInv
  <2>1. ASSUME VoiceInit PROVE VInv
    <3>1. IInv
      BY <2>1, UsageAssumption, InitUsage DEF VoiceInit
    <3>2. VoiceTypeOK
      BY <2>1, <3>1 DEF VoiceInit, VoiceTypeOK, IInv
    <3>3. SInv
      BY <2>1 DEF VoiceInit, UsageInit, SInv, Finishing, SuccessIsBooked
    <3> QED BY <2>1, <3>1, <3>2, <3>3, VoiceAssumption, WinnerInit DEF VInv
  <2> QED BY <2>1
<1>2. VInv /\ [Next]_vars => VInv'
  BY UsageAssumption, VoiceAssumption, VoiceStep
<1> QED BY <1>1, <1>2, PTL DEF Spec

(***************************************************************************)
(* Every reachable state is well-typed.                                    *)
(***************************************************************************)
THEOREM VoiceTypeCorrect == Spec => []VoiceTypeOK
BY VoiceInductive, PTL DEF VInv

(***************************************************************************)
(* No bucket of the account is overdrawn while devices talk.               *)
(***************************************************************************)
THEOREM VoiceNeverOverdrawn == Spec => []NeverOverdrawn
<1>1. VInv => NeverOverdrawn
  BY DEF VInv, IInv
<1> QED BY <1>1, VoiceInductive, PTL

(***************************************************************************)
(* What is reported as a success has been entered in the ledger.           *)
(***************************************************************************)
THEOREM VoiceSuccessIsBooked == Spec => []SuccessIsBooked
<1>1. VInv => SuccessIsBooked
  BY DEF VInv, SInv
<1> QED BY <1>1, VoiceInductive, PTL

(***************************************************************************)
(* A session is paid for once, however many uploads race for it and        *)
(* however often the orchestrator restarts.                                *)
(***************************************************************************)
THEOREM VoiceBookedOnce == Spec => []BookedOnce
<1>1. VInv => BookedOnce
  BY DEF VInv, WInv, BookedByWinner
<1> QED BY <1>1, VoiceInductive, PTL

(***************************************************************************)
(* A session that a purge gives up as expired is never paid for: no upload *)
(* wins it, however many race with the purges of however many requests.    *)
(***************************************************************************)
THEOREM VoiceExpiredNotBilled == Spec => []ExpiredNotBilled
<1>1. VInv => ExpiredNotBilled
  <2> SUFFICES ASSUME VInv, NEW s \in Sessions, Expiring(s).op = "fail"
               PROVE  booked[s] = 0
    BY DEF ExpiredNotBilled, Expiring
  <2>1. WInv /\ s \in Events /\ booked \in [Events -> Nat]
    BY VoiceAssumption DEF VInv, IInv, TypeOK
  <2>2. \A u \in Uploads : SessionOf[u] = s => Billing(u).pc = "idle"
    BY <2>1 DEF WInv, GivenUp, Won
  <2>3. booked[s] # 1
    BY <2>1, <2>2 DEF WInv, BookedByWinner
  <2> QED BY <2>1, <2>3 DEF WInv, BookedByWinner, BookedOnce
<1> QED BY <1>1, VoiceInductive, PTL

=============================================================================
