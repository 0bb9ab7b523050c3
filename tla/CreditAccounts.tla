---------------------------- MODULE CreditAccounts ----------------------------
(***************************************************************************)
(* The credits of one account (ai-usage-service.js over the PostgreSQL     *)
(* repository).  A request to the service is a call that reads the account *)
(* row, computes, and writes the whole row back with no lock and no        *)
(* version; other calls run between its statements.  A call that never     *)
(* goes on is one whose server died.                                       *)
(***************************************************************************)
EXTENDS Integers, FiniteSetsExt

CONSTANTS
  Calls,       \* requests the service ever gets
  Events,      \* usage events
  Included,    \* monthly_included_credits
  Amounts,     \* credits a request is about (1 credit = 1 token)
  Limits,      \* monthly limits an administrator may set
  MaxMonth     \* bound: months that pass

ASSUME UsageAssumption ==
  /\ Included \in Nat
  /\ Amounts \subseteq Nat \ {0}
  /\ Limits \subseteq Nat
  /\ MaxMonth \in Nat
  /\ Included \in Limits

VARIABLES
  account,     \* row of ai_usage_credit_accounts
  ledger,      \* credits granted and held by ledger entries
  booked,      \* booked[e]: consumption entries that refer to event e
  event,       \* rows of ai_usage_events
  policy,      \* row of ai_usage_policy
  call,        \* call[c]: where the request is, and what it has read
  month        \* calendar month

usageVars == <<account, ledger, booked, event, policy, call, month>>

Row == [exists : BOOLEAN, period : Nat, monthly_consumed : Nat, purchased : Nat,
        purchased_consumed : Nat, held : Nat, blocked : BOOLEAN]

NoRow == [exists |-> FALSE, period |-> 0, monthly_consumed |-> 0, purchased |-> 0,
          purchased_consumed |-> 0, held |-> 0, blocked |-> FALSE]

Policy == [limit : Limits, kill : BOOLEAN]

Event == [status : {"none", "rejected", "preflight_approved", "success", "failed"},
          credits : Nat, month : Nat]

AdminOps == {"grant", "hold", "block", "unblock", "limit", "kill"}

Call == [op : {"none", "preflight", "complete", "fail"} \cup AdminOps,
         event : Events, amount : Nat, row : Row, policy : Policy,
         pc : {"idle", "begin", "read", "refresh", "ready", "reread", "rerefresh",
               "consume", "book", "finish", "save", "done", "error"}]

\* availableCredits
MonthlyAvailable(r) == IF r.monthly_consumed < Included THEN Included - r.monthly_consumed ELSE 0
PurchasedAvailable(r) ==
  IF r.purchased_consumed < r.purchased THEN r.purchased - r.purchased_consumed ELSE 0
Available(r) == MonthlyAvailable(r) + PurchasedAvailable(r) - r.held

Consumed(r) == r.monthly_consumed + r.purchased_consumed
Granted(r) == Included + r.purchased

\* ensureCreditAccount: a missing row is created, a row of an earlier month starts again.
Current(r) ==
  IF r.exists /\ r.period = month THEN r
  ELSE [r EXCEPT !.exists = TRUE, !.period = month, !.monthly_consumed = 0]

\* usageForAccount, sourceUsageForAccount: only finished events count
MonthUsage ==
  LET paid == {e \in Events : event[e].status = "success" /\ event[e].month = month}
  IN  MapThenSumSet(LAMBDA e : event[e].credits, paid)

UsageInit ==
  /\ account = NoRow
  /\ ledger = [granted |-> 0, held |-> 0]
  /\ booked = [e \in Events |-> 0]
  /\ event = [e \in Events |-> [status |-> "none", credits |-> 0, month |-> 0]]
  /\ policy = [limit |-> Included, kill |-> FALSE]
  /\ month = 0
  /\ \E e \in Events :
       call = [c \in Calls |-> [op |-> "none", event |-> e, amount |-> 0, row |-> NoRow,
                                policy |-> policy, pc |-> "idle"]]

----------------------------------------------------------------------------

\* A request arrives; op says which, e and n what it is about.
Begin(c, op, e, n) ==
  [call[c] EXCEPT !.op = op, !.event = e, !.amount = n,
     !.pc = IF op \in {"complete", "fail", "limit", "kill"} THEN "begin" ELSE "read"]

Request(c, op, e, n) ==
  /\ call[c].pc = "idle"
  /\ call' = [call EXCEPT ![c] = Begin(c, op, e, n)]
  /\ UNCHANGED <<account, ledger, booked, event, policy, month>>

Goto(c, pc) == call' = [call EXCEPT ![c].pc = pc]

\* requireUsageEvent and the status check of completeUsageEvent
FindEvent(c) ==
  /\ call[c].pc = "begin" /\ call[c].op = "complete"
  /\ Goto(c, IF event[call[c].event].status = "preflight_approved" THEN "read" ELSE "error")
  /\ UNCHANGED <<account, ledger, booked, event, policy, month>>

ReadAccount(c) ==
  /\ call[c].pc \in {"read", "reread"}
  /\ LET again == call[c].pc = "reread"
         fresh == account.exists /\ account.period = month
     IN  call' = [call EXCEPT ![c] =
           [@ EXCEPT !.row = Current(account),
                     !.pc = IF again THEN (IF fresh THEN "consume" ELSE "rerefresh")
                            ELSE (IF fresh THEN "ready" ELSE "refresh")]]
  /\ UNCHANGED <<account, ledger, booked, event, policy, month>>

RefreshAccount(c) ==
  /\ call[c].pc \in {"refresh", "rerefresh"}
  /\ account' = call[c].row
  /\ Goto(c, IF call[c].pc = "refresh" THEN "ready" ELSE "consume")
  /\ UNCHANGED <<ledger, booked, event, policy, month>>

\* decidePreflight; the model, prompt and source checks are one free choice
Allowed(c, fits) ==
  /\ ~policy.kill /\ ~call[c].row.blocked /\ fits
  /\ Available(call[c].row) >= call[c].amount
  /\ MonthUsage + call[c].amount <= policy.limit

Preflight(c) ==
  /\ call[c].pc = "ready" /\ call[c].op = "preflight"
  /\ \E fits \in BOOLEAN :
       /\ event' = [event EXCEPT ![call[c].event] =
            [status |-> IF Allowed(c, fits) THEN "preflight_approved" ELSE "rejected",
             credits |-> 0, month |-> month]]
       /\ Goto(c, IF Allowed(c, fits) THEN "done" ELSE "error")
  /\ UNCHANGED <<account, ledger, booked, policy, month>>

\* Mutant: nothing to consume, so nothing is entered.
CheckBalanceSkips(c) ==
  /\ call[c].pc = "ready" /\ call[c].op = "complete"
  /\ Goto(c, IF Available(call[c].row) < call[c].amount THEN "finish" ELSE "reread")
  /\ UNCHANGED <<account, ledger, booked, event, policy, month>>

\* completeUsageEvent up to consumeCredits
CheckBalance(c) ==
  /\ call[c].pc = "ready" /\ call[c].op = "complete"
  /\ IF Available(call[c].row) < call[c].amount
     THEN /\ event' = [event EXCEPT ![call[c].event].status = "failed"]
          /\ Goto(c, "done")
     ELSE /\ Goto(c, "reread")
          /\ UNCHANGED event
  /\ UNCHANGED <<account, ledger, booked, policy, month>>

\* consumeCredits: the monthly credits first, then purchased ones
Charged(r, n) ==
  LET monthly == IF MonthlyAvailable(r) < n THEN MonthlyAvailable(r) ELSE n
  IN  [r EXCEPT !.monthly_consumed = @ + monthly, !.purchased_consumed = @ + (n - monthly)]

\* Mutant: the check before the save is dropped.
OverdrawnNever(r) == FALSE

Overdrawn(r) == Consumed(r) + r.held > Granted(r)

ConsumeCredits(c) ==
  LET next == Charged(call[c].row, call[c].amount) IN
  /\ call[c].pc = "consume"
  /\ IF Overdrawn(next)
     THEN Goto(c, "error") /\ UNCHANGED account
     ELSE Goto(c, "book") /\ account' = next
  /\ UNCHANGED <<ledger, booked, event, policy, month>>

GrantCredits(c) ==
  /\ call[c].pc = "ready" /\ call[c].op = "grant"
  /\ account' = [call[c].row EXCEPT !.purchased = @ + call[c].amount]
  /\ Goto(c, "book")
  /\ UNCHANGED <<ledger, booked, event, policy, month>>

HoldCredits(c) ==
  /\ call[c].pc = "ready" /\ call[c].op = "hold"
  /\ IF Available(call[c].row) < call[c].amount
     THEN Goto(c, "error") /\ UNCHANGED account
     ELSE /\ account' = [call[c].row EXCEPT !.held = @ + call[c].amount]
          /\ Goto(c, "book")
  /\ UNCHANGED <<ledger, booked, event, policy, month>>

\* blockAccount, unblockAccount
BlockAccount(c) ==
  /\ call[c].pc = "ready" /\ call[c].op \in {"block", "unblock"}
  /\ account' = [call[c].row EXCEPT !.blocked = (call[c].op = "block")]
  /\ Goto(c, "done")
  /\ UNCHANGED <<ledger, booked, event, policy, month>>

\* Mutant: a held amount is entered as a granted one.
BookWrongKind(c) ==
  /\ call[c].pc = "book"
  /\ ledger' = IF call[c].op = "complete" THEN ledger
               ELSE [ledger EXCEPT !.granted = @ + call[c].amount]
  /\ booked' = IF call[c].op = "complete"
               THEN [booked EXCEPT ![call[c].event] = @ + 1] ELSE booked
  /\ Goto(c, IF call[c].op = "complete" THEN "finish" ELSE "done")
  /\ UNCHANGED <<account, event, policy, month>>

\* addLedgerEntry
Book(c) ==
  /\ call[c].pc = "book"
  /\ \/ /\ call[c].op = "grant"
        /\ ledger' = [ledger EXCEPT !.granted = @ + call[c].amount]
        /\ Goto(c, "done") /\ UNCHANGED booked
     \/ /\ call[c].op = "hold"
        /\ ledger' = [ledger EXCEPT !.held = @ + call[c].amount]
        /\ Goto(c, "done") /\ UNCHANGED booked
     \/ /\ call[c].op = "complete"
        /\ booked' = [booked EXCEPT ![call[c].event] = @ + 1]
        /\ Goto(c, "finish") /\ UNCHANGED ledger
  /\ UNCHANGED <<account, event, policy, month>>

FinishEvent(c) ==
  /\ call[c].pc = "finish"
  /\ event' = [event EXCEPT ![call[c].event] =
                 [@ EXCEPT !.status = "success", !.credits = call[c].amount]]
  /\ Goto(c, "done")
  /\ UNCHANGED <<account, ledger, booked, policy, month>>

\* failUsageEvent
FailEvent(c) ==
  /\ call[c].pc = "begin" /\ call[c].op = "fail"
  /\ IF event[call[c].event].status = "none"
     THEN Goto(c, "error") /\ UNCHANGED event
     ELSE /\ event' = [event EXCEPT ![call[c].event].status = "failed"]
          /\ Goto(c, "done")
  /\ UNCHANGED <<account, ledger, booked, policy, month>>

\* updatePolicy: read, then write back with the change
ReadPolicy(c) ==
  /\ call[c].pc = "begin" /\ call[c].op \in {"limit", "kill"}
  /\ call' = [call EXCEPT ![c] = [@ EXCEPT !.policy = policy, !.pc = "save"]]
  /\ UNCHANGED <<account, ledger, booked, event, policy, month>>

SavePolicy(c) ==
  /\ call[c].pc = "save"
  /\ \/ /\ call[c].op = "kill"
        /\ \E k \in BOOLEAN : policy' = [call[c].policy EXCEPT !.kill = k]
     \/ /\ call[c].op = "limit"
        /\ \E l \in Limits : policy' = [call[c].policy EXCEPT !.limit = l]
  /\ Goto(c, "done")
  /\ UNCHANGED <<account, ledger, booked, event, month>>

NextMonth ==
  /\ month < MaxMonth
  /\ month' = month + 1
  /\ UNCHANGED <<account, ledger, booked, event, policy, call>>

CallStep(c) ==
  \/ FindEvent(c)
  \/ ReadAccount(c)
  \/ RefreshAccount(c)
  \/ Preflight(c)
  \/ CheckBalance(c)
  \/ ConsumeCredits(c)
  \/ GrantCredits(c)
  \/ HoldCredits(c)
  \/ BlockAccount(c)
  \/ Book(c)
  \/ FinishEvent(c)
  \/ FailEvent(c)
  \/ ReadPolicy(c)
  \/ SavePolicy(c)

\* Clients of any kind: every request at any time.
UsageNext ==
  \/ \E c \in Calls, op \in {"preflight", "complete", "fail"} \cup AdminOps,
        e \in Events, n \in Amounts : Request(c, op, e, n)
  \/ \E c \in Calls : CallStep(c)
  \/ NextMonth

UsageSpec == UsageInit /\ [][UsageNext]_usageVars

----------------------------------------------------------------------------

TypeOK ==
  /\ account \in Row
  /\ ledger \in [granted : Nat, held : Nat]
  /\ booked \in [Events -> Nat]
  /\ event \in [Events -> Event]
  /\ policy \in Policy
  /\ call \in [Calls -> Call]
  /\ month \in Nat

(***************************************************************************)
(* However calls overwrite one another's rows, a stored row never has more *)
(* credits consumed and held than granted, and no bucket is overdrawn      *)
(* (consumeCredits: "Negative KI-Credits sind unzulaessig").               *)
(***************************************************************************)
Covered(r) ==
  /\ r.monthly_consumed <= Included
  /\ r.purchased_consumed <= r.purchased
  /\ Consumed(r) + r.held <= Granted(r)

NeverOverdrawn == Covered(account)

\* The credits that calls have put in the row and are about to enter in the ledger
Booking(op) == {c \in Calls : call[c].op = op /\ call[c].pc = "book"}
Unbooked(op) == UNION {{c} \X (1 .. call[c].amount) : c \in Booking(op)}

(***************************************************************************)
(* No purchased or held credit is in the row that no ledger entry explains *)
(* or is about to: updates get lost, but never appear from nothing.        *)
(***************************************************************************)
Backed(r) ==
  /\ r.purchased <= ledger.granted + Cardinality(Unbooked("grant"))
  /\ r.held <= ledger.held + Cardinality(Unbooked("hold"))

BackedByLedger == Backed(account)

=============================================================================
