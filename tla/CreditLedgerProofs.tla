--------------------------- MODULE CreditLedgerProofs ---------------------------
(***************************************************************************)
(* The credits in the account row are explained by the ledger: what has    *)
(* been entered, together with what calls have written into the row and    *)
(* are about to enter, never shrinks, and neither the row nor a copy of it *)
(* that a request holds, however old, has more than that.                  *)
(***************************************************************************)
EXTENDS VoiceSessionsProofs, FiniteSetTheorems

Kinds == {"grant", "hold"}

RowsBacked == \A c \in Calls : Backed(call[c].row)

LInv ==
  /\ \A op \in Kinds : IsFiniteSet(Unbooked(op))
  /\ BackedByLedger
  /\ RowsBacked

\* What call c is about to enter under op, one by one, and how much it is
Part(c, op) == IF c \in Booking(op) THEN {c} \X (1 .. call[c].amount) ELSE {}
Due(c, op) == IF c \in Booking(op) THEN call[c].amount ELSE 0

----------------------------------------------------------------------------
(***************************************************************************)
(* Counting what is not entered yet.                                       *)
(***************************************************************************)

LEMMA UnitsOfCall ==
  ASSUME NEW c, NEW n \in Nat
  PROVE  IsFiniteSet({c} \X (1 .. n)) /\ Cardinality({c} \X (1 .. n)) = n
<1> DEFINE I == 1 .. n
<1>1. IsFiniteSet(I) /\ Cardinality(I) = IF 1 > n THEN 0 ELSE n - 1 + 1
  <2>1. 1 \in Int /\ n \in Int
    OBVIOUS
  <2> QED BY ONLY <2>1, FS_Interval
<1>2. IsFiniteSet({c}) /\ Cardinality({c}) = 1
  BY FS_Singleton
<1> HIDE DEF I
<1>3. IsFiniteSet({c} \X I) /\ Cardinality({c} \X I) = 1 * Cardinality(I)
  BY <1>1, <1>2, FS_Product
<1>4. 1 * Cardinality(I) = n
  BY <1>1
<1> QED BY <1>3, <1>4 DEF I

LEMMA PartSize ==
  ASSUME TypeOK, NEW c \in Calls, NEW op
  PROVE  /\ IsFiniteSet(Part(c, op))
         /\ Cardinality(Part(c, op)) = Due(c, op)
         /\ Due(c, op) \in Nat
<1>1. call[c].amount \in Nat
  BY DEF TypeOK, Call
<1>2. CASE c \in Booking(op)
  <2>1. Part(c, op) = {c} \X (1 .. call[c].amount) /\ Due(c, op) = call[c].amount
    BY <1>2 DEF Part, Due
  <2> DEFINE S == {c} \X (1 .. call[c].amount)
  <2>2. IsFiniteSet(S) /\ Cardinality(S) = call[c].amount
    BY <1>1, UnitsOfCall
  <2>3. Part(c, op) = S
    BY <2>1
  <2> HIDE DEF S
  <2> QED BY <1>1, <2>1, <2>2, <2>3
<1>3. CASE c \notin Booking(op)
  BY <1>3, FS_EmptySet DEF Part, Due
<1> QED BY <1>2, <1>3

LEMMA UnbookedParts ==
  ASSUME NEW op, NEW p
  PROVE  p \in Unbooked(op) <=> \E d \in Calls : p \in Part(d, op)
BY DEF Unbooked, Part, Booking

\* One call moves: what is not entered changes by what that call is about to enter.
LEMMA OneCall ==
  ASSUME TypeOK, TypeOK', NEW c \in Calls, \A d \in Calls \ {c} : call'[d] = call[d],
         NEW op, IsFiniteSet(Unbooked(op))
  PROVE  /\ IsFiniteSet(Unbooked(op)')
         /\ Cardinality(Unbooked(op)') + Due(c, op) = Cardinality(Unbooked(op)) + Due(c, op)'
<1> DEFINE U == Unbooked(op)
           V == Unbooked(op)'
           P == Part(c, op)
           Q == Part(c, op)'
           R == U \ P
<1>0. U = Unbooked(op) /\ V = Unbooked(op)'
  OBVIOUS
<1>1. /\ IsFiniteSet(P) /\ Cardinality(P) = Due(c, op) /\ Due(c, op) \in Nat
  BY PartSize
<1>2. /\ IsFiniteSet(Q) /\ Cardinality(Q) = Due(c, op)' /\ Due(c, op)' \in Nat
  <2>1. call'[c].amount \in Nat
    BY DEF TypeOK, Call
  <2>2. CASE (c \in Booking(op))'
    <3>1. Part(c, op)' = {c} \X (1 .. call'[c].amount) /\ Due(c, op)' = call'[c].amount
      BY <2>2 DEF Part, Due
    <3> DEFINE S == {c} \X (1 .. call'[c].amount)
    <3>2. IsFiniteSet(S) /\ Cardinality(S) = call'[c].amount
      BY <2>1, UnitsOfCall
    <3>3. Q = S
      BY <3>1
    <3> HIDE DEF S, Q
    <3> QED BY <2>1, <3>1, <3>2, <3>3
  <2>3. CASE ~(c \in Booking(op))'
    BY <2>3, FS_EmptySet DEF Part, Due
  <2> QED BY <2>2, <2>3
<1>3. \A d \in Calls \ {c} : Part(d, op)' = Part(d, op)
  BY DEF Part, Booking
<1>4. \A p : \A d \in Calls : p \in Part(d, op) => p[1] = d
  BY DEF Part
<1>5. \A p : \A d \in Calls : p \in Part(d, op)' => p[1] = d
  BY DEF Part
<1>6. \A p : p \in U <=> \E d \in Calls : p \in Part(d, op)
  BY UnbookedParts
<1>7. \A p : p \in V <=> \E d \in Calls : p \in Part(d, op)'
  BY DEF Unbooked, Part, Booking
<1>8. P \subseteq U /\ U \cap P = P
  BY <1>6
<1>9. V = R \cup Q /\ R \cap Q = {}
  <2> HIDE DEF U, V
  <2>1. \A p : p \in R => p \in V /\ p \notin Q
    BY <1>3, <1>4, <1>5, <1>6, <1>7
  <2>2. \A p : p \in V => p \in R \/ p \in Q
    BY <1>3, <1>4, <1>5, <1>6, <1>7
  <2>3. Q \subseteq V
    BY <1>7
  <2> QED BY <2>1, <2>2, <2>3
<1> HIDE DEF U, V, P, Q
<1>10. IsFiniteSet(U)
  BY <1>0
<1>11. IsFiniteSet(R) /\ Cardinality(R) = Cardinality(U) - Cardinality(P)
  BY <1>8, <1>10, FS_Difference
<1> HIDE DEF R
<1>12. IsFiniteSet(V) /\ Cardinality(V) = Cardinality(R) + Cardinality(Q) - Cardinality({})
  <2>1. /\ IsFiniteSet(R \cup Q)
        /\ Cardinality(R \cup Q) = Cardinality(R) + Cardinality(Q) - Cardinality(R \cap Q)
    BY <1>2, <1>11, FS_Union
  <2> QED BY <1>9, <2>1
<1>13. Cardinality(U) \in Nat /\ Cardinality(R) \in Nat /\ Cardinality({}) = 0
  BY <1>10, <1>11, FS_CardinalityType, FS_EmptySet
<1>14. Cardinality(V) + Due(c, op) = Cardinality(U) + Due(c, op)'
  BY <1>1, <1>2, <1>11, <1>12, <1>13
<1> QED BY <1>0, <1>12, <1>14

----------------------------------------------------------------------------
(***************************************************************************)
(* What explains the credits of the row never shrinks.                     *)
(***************************************************************************)

GrantBacking == ledger.granted + Cardinality(Unbooked("grant"))
HoldBacking == ledger.held + Cardinality(Unbooked("hold"))

LEMMA BackedRow ==
  ASSUME NEW r
  PROVE  Backed(r) <=> r.purchased <= GrantBacking /\ r.held <= HoldBacking
BY DEF Backed, GrantBacking, HoldBacking

LEMMA Backing ==
  ASSUME TypeOK, LInv
  PROVE  GrantBacking \in Nat /\ HoldBacking \in Nat
<1>1. Cardinality(Unbooked("grant")) \in Nat /\ Cardinality(Unbooked("hold")) \in Nat
  BY FS_CardinalityType DEF LInv, Kinds
<1> QED BY <1>1 DEF TypeOK, GrantBacking, HoldBacking

\* The balance of one call's step.
LEMMA CallBacking ==
  ASSUME TypeOK, TypeOK', LInv, NEW c \in Calls, \A d \in Calls \ {c} : call'[d] = call[d]
  PROVE  /\ \A op \in Kinds : IsFiniteSet(Unbooked(op)')
         /\ GrantBacking' + ledger.granted + Due(c, "grant")
              = GrantBacking + ledger'.granted + Due(c, "grant")'
         /\ HoldBacking' + ledger.held + Due(c, "hold")
              = HoldBacking + ledger'.held + Due(c, "hold")'
<1>1. "grant" \in Kinds /\ "hold" \in Kinds /\ \A op \in Kinds : IsFiniteSet(Unbooked(op))
  BY DEF Kinds, LInv
<1>2. \A op \in Kinds :
        /\ IsFiniteSet(Unbooked(op)')
        /\ Cardinality(Unbooked(op)') + Due(c, op) = Cardinality(Unbooked(op)) + Due(c, op)'
  BY <1>1, OneCall
<1>3. \A op \in Kinds : Cardinality(Unbooked(op)) \in Nat /\ Cardinality(Unbooked(op)') \in Nat
  BY <1>1, <1>2, FS_CardinalityType
<1>4. \A op \in Kinds : Due(c, op) \in Nat
  BY PartSize
<1>5. \A op \in Kinds : Due(c, op)' \in Nat
  BY DEF Due, Booking, TypeOK, Call
<1>6. /\ ledger.granted \in Nat /\ ledger.held \in Nat
      /\ ledger'.granted \in Nat /\ ledger'.held \in Nat
  BY DEF TypeOK
<1>7. /\ GrantBacking = ledger.granted + Cardinality(Unbooked("grant"))
      /\ HoldBacking = ledger.held + Cardinality(Unbooked("hold"))
      /\ GrantBacking' = ledger'.granted + Cardinality(Unbooked("grant")')
      /\ HoldBacking' = ledger'.held + Cardinality(Unbooked("hold")')
  BY DEF GrantBacking, HoldBacking
<1>8. /\ Cardinality(Unbooked("grant")) \in Nat /\ Cardinality(Unbooked("grant")') \in Nat
      /\ Cardinality(Unbooked("hold")) \in Nat /\ Cardinality(Unbooked("hold")') \in Nat
      /\ Due(c, "grant") \in Nat /\ Due(c, "grant")' \in Nat
      /\ Due(c, "hold") \in Nat /\ Due(c, "hold")' \in Nat
  BY <1>1, <1>3, <1>4, <1>5
<1>9. /\ Cardinality(Unbooked("grant")') + Due(c, "grant")
           = Cardinality(Unbooked("grant")) + Due(c, "grant")'
      /\ Cardinality(Unbooked("hold")') + Due(c, "hold")
           = Cardinality(Unbooked("hold")) + Due(c, "hold")'
  BY <1>1, <1>2
<1> QED BY <1>2, <1>6, <1>7, <1>8, <1>9

\* Which rows a call's step leaves where.
LEMMA OthersStay ==
  ASSUME TypeOK, NEW c \in Calls, CallStep(c)
  PROVE  \A d \in Calls \ {c} : call'[d] = call[d]
BY DEF TypeOK, CallStep, FindEvent, ReadAccount, RefreshAccount, Preflight, CheckBalance,
       ConsumeCredits, GrantCredits, HoldCredits, BlockAccount, Book, FinishEvent, FailEvent,
       ReadPolicy, SavePolicy, Goto

\* Entering a credit moves it from the way to the ledger.
LEMMA BookDue ==
  ASSUME TypeOK, NEW c \in Calls, Book(c)
  PROVE  /\ Due(c, "grant")' = 0 /\ Due(c, "hold")' = 0
         /\ ledger'.granted = ledger.granted + Due(c, "grant")
         /\ ledger'.held = ledger.held + Due(c, "hold")
<1>1. call[c].pc = "book" /\ call \in [Calls -> Call] /\ call[c].amount \in Nat
  BY DEF TypeOK, Call, Book
<1>2. PICK pc \in {"done", "finish"} : Goto(c, pc)
  BY DEF Book
<1>3. call'[c].pc # "book"
  BY <1>1, <1>2 DEF Goto, Call
<1>4. Due(c, "grant")' = 0 /\ Due(c, "hold")' = 0
  BY <1>3 DEF Due, Booking
<1>5. \A op : Due(c, op) = IF call[c].op = op THEN call[c].amount ELSE 0
  BY <1>1 DEF Due, Booking
<1>6. /\ ledger'.granted = ledger.granted + (IF call[c].op = "grant" THEN call[c].amount ELSE 0)
      /\ ledger'.held = ledger.held + (IF call[c].op = "hold" THEN call[c].amount ELSE 0)
  BY <1>1 DEF Book, TypeOK
<1> QED BY <1>4, <1>5, <1>6

\* No other step starts with a credit on the way, or changes the ledger.
LEMMA NothingDue ==
  ASSUME TypeOK, NEW c \in Calls, CallStep(c), ~Book(c)
  PROVE  UNCHANGED ledger /\ \A op : Due(c, op) = 0
<1>1. call[c].pc # "book" /\ UNCHANGED ledger
  BY DEF CallStep, FindEvent, ReadAccount, RefreshAccount, Preflight, CheckBalance,
       ConsumeCredits, GrantCredits, HoldCredits, BlockAccount, FinishEvent, FailEvent,
       ReadPolicy, SavePolicy
<1> QED BY <1>1 DEF Due, Booking

----------------------------------------------------------------------------
(***************************************************************************)
(* The steps of the usage service.                                         *)
(***************************************************************************)

\* What explains the row after a call's step, and how much more it is.
LEMMA BackingGrows ==
  ASSUME TypeOK, TypeOK', LInv, NEW c \in Calls, CallStep(c)
  PROVE  /\ \A op \in Kinds : IsFiniteSet(Unbooked(op)')
         /\ GrantBacking' = GrantBacking + Due(c, "grant")'
         /\ HoldBacking' = HoldBacking + Due(c, "hold")'
         /\ Due(c, "grant")' \in Nat /\ Due(c, "hold")' \in Nat
         /\ GrantBacking \in Nat /\ HoldBacking \in Nat
<1>1. \A d \in Calls \ {c} : call'[d] = call[d]
  BY OthersStay
<1>2. /\ \A op \in Kinds : IsFiniteSet(Unbooked(op)')
      /\ GrantBacking' + ledger.granted + Due(c, "grant")
           = GrantBacking + ledger'.granted + Due(c, "grant")'
      /\ HoldBacking' + ledger.held + Due(c, "hold")
           = HoldBacking + ledger'.held + Due(c, "hold")'
  BY <1>1, CallBacking
<1>3. /\ ledger'.granted = ledger.granted + Due(c, "grant")
      /\ ledger'.held = ledger.held + Due(c, "hold")
  <2>1. CASE Book(c)
    BY <2>1, BookDue
  <2>2. CASE ~Book(c)
    BY <2>2, NothingDue DEF TypeOK
  <2> QED BY <2>1, <2>2
<1>4. /\ ledger.granted \in Nat /\ ledger.held \in Nat
      /\ Due(c, "grant") \in Nat /\ Due(c, "hold") \in Nat
  BY PartSize DEF TypeOK
<1>5. Due(c, "grant")' \in Nat /\ Due(c, "hold")' \in Nat
  BY DEF Due, Booking, TypeOK, Call
<1>6. GrantBacking \in Nat /\ HoldBacking \in Nat
  BY Backing
<1>7. /\ GrantBacking' \in Int /\ HoldBacking' \in Int
  <2>1. /\ Cardinality(Unbooked("grant")') \in Nat /\ Cardinality(Unbooked("hold")') \in Nat
    BY <1>2, FS_CardinalityType DEF Kinds
  <2> QED BY <2>1 DEF TypeOK, GrantBacking, HoldBacking
<1>8. /\ GrantBacking' = GrantBacking + Due(c, "grant")'
      /\ HoldBacking' = HoldBacking + Due(c, "hold")'
  <2>1. GrantBacking' = GrantBacking + Due(c, "grant")'
    <3> DEFINE g == GrantBacking  g2 == GrantBacking'  l == ledger.granted
               l2 == ledger'.granted  d == Due(c, "grant")  d2 == Due(c, "grant")'
    <3>1. /\ g2 + l + d = g + l2 + d2 /\ l2 = l + d
          /\ g \in Nat /\ g2 \in Int /\ l \in Nat /\ d \in Nat /\ d2 \in Nat
      BY <1>2, <1>3, <1>4, <1>5, <1>6, <1>7
    <3> HIDE DEF g, g2, l, l2, d, d2
    <3>2. g2 = g + d2
      BY <3>1
    <3> QED BY <3>2 DEF g, g2, d2
  <2>2. HoldBacking' = HoldBacking + Due(c, "hold")'
    <3> DEFINE g == HoldBacking  g2 == HoldBacking'  l == ledger.held
               l2 == ledger'.held  d == Due(c, "hold")  d2 == Due(c, "hold")'
    <3>1. /\ g2 + l + d = g + l2 + d2 /\ l2 = l + d
          /\ g \in Nat /\ g2 \in Int /\ l \in Nat /\ d \in Nat /\ d2 \in Nat
      BY <1>2, <1>3, <1>4, <1>5, <1>6, <1>7
    <3> HIDE DEF g, g2, l, l2, d, d2
    <3>2. g2 = g + d2
      BY <3>1
    <3> QED BY <3>2 DEF g, g2, d2
  <2> QED BY <2>1, <2>2
<1> QED BY <1>2, <1>5, <1>6, <1>8

\* The copy a call holds afterwards is the one it held, or what it read just now.
LEMMA RowRead ==
  ASSUME TypeOK, NEW c \in Calls, CallStep(c)
  PROVE  \/ call'[c].row = call[c].row
         \/ /\ call'[c].row.purchased = account.purchased
            /\ call'[c].row.held = account.held
<1>1. call \in [Calls -> Call] /\ account \in Row
  BY DEF TypeOK
<1>2. CASE ReadAccount(c)
  <2>1. /\ Current(account).purchased = account.purchased
        /\ Current(account).held = account.held
    BY <1>1 DEF Current, Row
  <2>2. call'[c].row = Current(account)
    BY <1>1, <1>2 DEF ReadAccount, Call
  <2> QED BY <2>1, <2>2
<1>3. CASE ReadPolicy(c)
  BY <1>1, <1>3 DEF ReadPolicy, Call
<1>4. CASE ~ReadAccount(c) /\ ~ReadPolicy(c)
  <2>1. PICK pc : Goto(c, pc)
    BY <1>4 DEF CallStep, FindEvent, RefreshAccount, Preflight, CheckBalance, ConsumeCredits,
       GrantCredits, HoldCredits, BlockAccount, Book, FinishEvent, FailEvent, SavePolicy
  <2> QED BY <1>1, <2>1 DEF Goto, Call
<1> QED BY <1>2, <1>3, <1>4

\* The row afterwards is the one before, or the copy of the call with its own
\* credits on top.
LEMMA RowStored ==
  ASSUME TypeOK, NEW c \in Calls, CallStep(c)
  PROVE  \/ account' = account
         \/ /\ account'.purchased <= call[c].row.purchased + Due(c, "grant")'
            /\ account'.held <= call[c].row.held + Due(c, "hold")'
<1> DEFINE r == call[c].row
           n == call[c].amount
<1>1. call \in [Calls -> Call] /\ r \in Row /\ n \in Nat
  BY DEF TypeOK, Call
<1>2. ASSUME NEW pc, Goto(c, pc)
      PROVE  /\ call'[c].op = call[c].op /\ call'[c].amount = n /\ call'[c].pc = pc
             /\ \A op : Due(c, op)' = IF call[c].op = op /\ pc = "book" THEN n ELSE 0
  <2>1. call'[c].op = call[c].op /\ call'[c].amount = n /\ call'[c].pc = pc
    BY <1>1, <1>2 DEF Goto, Call
  <2> QED BY <2>1 DEF Due, Booking
<1>3. CASE RefreshAccount(c)
  BY <1>1, <1>2, <1>3 DEF RefreshAccount, Row
<1>4. CASE ConsumeCredits(c)
  <2>1. account' = account \/ (account' = Charged(r, n) /\ Goto(c, "book"))
    BY <1>4 DEF ConsumeCredits
  <2>2. Charged(r, n).purchased = r.purchased /\ Charged(r, n).held = r.held
    BY <1>1 DEF Charged, Row
  <2> QED BY <1>1, <1>2, <2>1, <2>2 DEF Row
<1>5. CASE GrantCredits(c)
  <2>1. account' = [r EXCEPT !.purchased = @ + n] /\ Goto(c, "book") /\ call[c].op = "grant"
    BY <1>5 DEF GrantCredits
  <2>2. Due(c, "grant")' = n /\ Due(c, "hold")' = 0
    BY <1>2, <2>1
  <2>3. account'.purchased = r.purchased + n /\ account'.held = r.held
    BY <1>1, <2>1 DEF Row
  <2> QED BY <1>1, <2>2, <2>3 DEF Row
<1>6. CASE HoldCredits(c)
  <2>1. \/ account' = account
        \/ /\ account' = [r EXCEPT !.held = @ + n] /\ Goto(c, "book")
           /\ call[c].op = "hold"
    BY <1>6 DEF HoldCredits
  <2>2. CASE account' = [r EXCEPT !.held = @ + n] /\ Goto(c, "book") /\ call[c].op = "hold"
    <3>1. Due(c, "hold")' = n /\ Due(c, "grant")' = 0
      BY <1>2, <2>2
    <3>2. account'.held = r.held + n /\ account'.purchased = r.purchased
      BY <1>1, <2>2 DEF Row
    <3> QED BY <1>1, <3>1, <3>2 DEF Row
  <2> QED BY <2>1, <2>2
<1>7. CASE BlockAccount(c)
  <2>1. /\ account' = [r EXCEPT !.blocked = (call[c].op = "block")] /\ Goto(c, "done")
    BY <1>7 DEF BlockAccount
  <2>2. account'.purchased = r.purchased /\ account'.held = r.held
    BY <1>1, <2>1 DEF Row
  <2> QED BY <1>1, <1>2, <2>1, <2>2 DEF Row
<1>8. CASE ~RefreshAccount(c) /\ ~ConsumeCredits(c) /\ ~GrantCredits(c) /\ ~HoldCredits(c)
           /\ ~BlockAccount(c)
  BY <1>8 DEF CallStep, FindEvent, ReadAccount, Preflight, CheckBalance, Book, FinishEvent,
       FailEvent, ReadPolicy, SavePolicy
<1> QED BY <1>3, <1>4, <1>5, <1>6, <1>7, <1>8

LEMMA CallLedger ==
  ASSUME TypeOK, TypeOK', LInv, NEW c \in Calls, CallStep(c)
  PROVE  LInv'
<1>1. /\ \A op \in Kinds : IsFiniteSet(Unbooked(op)')
      /\ GrantBacking' = GrantBacking + Due(c, "grant")'
      /\ HoldBacking' = HoldBacking + Due(c, "hold")'
      /\ Due(c, "grant")' \in Nat /\ Due(c, "hold")' \in Nat
      /\ GrantBacking \in Nat /\ HoldBacking \in Nat
  BY BackingGrows
<1>2. /\ account \in Row /\ account' \in Row
      /\ \A d \in Calls : call[d].row \in Row /\ call'[d].row \in Row
  BY DEF TypeOK, Call
<1>3. /\ account.purchased <= GrantBacking /\ account.held <= HoldBacking
      /\ \A d \in Calls : /\ call[d].row.purchased <= GrantBacking
                          /\ call[d].row.held <= HoldBacking
  BY BackedRow DEF LInv, BackedByLedger, RowsBacked
<1>4. account'.purchased <= GrantBacking' /\ account'.held <= HoldBacking'
  <2>1. /\ call[c].row \in Row /\ call[c].row.purchased <= GrantBacking
        /\ call[c].row.held <= HoldBacking
    BY <1>2, <1>3
  <2>2. CASE account' = account
    BY <1>1, <1>2, <1>3, <2>2 DEF Row
  <2>3. CASE account' # account
    BY <1>1, <1>2, <2>1, <2>3, RowStored DEF Row
  <2> QED BY <2>2, <2>3
<1>5. ASSUME NEW d \in Calls
      PROVE  call'[d].row.purchased <= GrantBacking' /\ call'[d].row.held <= HoldBacking'
  <2>1. \/ call'[d].row = call[d].row
        \/ call'[d].row.purchased = account.purchased /\ call'[d].row.held = account.held
    BY OthersStay, RowRead
  <2> QED BY <1>1, <1>2, <1>3, <2>1 DEF Row
<1>6. BackedByLedger' /\ RowsBacked'
  BY <1>4, <1>5 DEF BackedByLedger, RowsBacked, Backed, GrantBacking, HoldBacking
<1> QED BY <1>1, <1>6 DEF LInv

\* Steps that neither reach nor leave the way to the ledger.
LEMMA QuietLedger ==
  ASSUME LInv, UNCHANGED <<account, ledger>>,
         \A c \in Calls : \/ call'[c] = call[c]
                         \/ /\ call'[c].row = call[c].row /\ call'[c].pc # "book"
                            /\ call[c].op \in Kinds => call[c].pc # "book"
  PROVE  LInv'
<1>1. \A op \in Kinds : Unbooked(op)' = Unbooked(op)
  <2> SUFFICES ASSUME NEW op \in Kinds PROVE Unbooked(op)' = Unbooked(op)
    OBVIOUS
  <2>1. Booking(op)' = Booking(op)
    BY DEF Booking
  <2>2. \A c \in Booking(op) : call'[c].amount = call[c].amount
    BY DEF Booking
  <2> QED BY <2>1, <2>2 DEF Unbooked
<1>2. GrantBacking' = GrantBacking /\ HoldBacking' = HoldBacking
  BY <1>1 DEF GrantBacking, HoldBacking, Kinds
<1>3. /\ account.purchased <= GrantBacking /\ account.held <= HoldBacking
      /\ \A c \in Calls : /\ call[c].row.purchased <= GrantBacking
                          /\ call[c].row.held <= HoldBacking
  BY BackedRow DEF LInv, BackedByLedger, RowsBacked
<1>4. /\ account'.purchased <= GrantBacking' /\ account'.held <= HoldBacking'
      /\ \A c \in Calls : /\ call'[c].row.purchased <= GrantBacking'
                          /\ call'[c].row.held <= HoldBacking'
  BY <1>2, <1>3
<1>5. BackedByLedger' /\ RowsBacked'
  BY <1>4 DEF BackedByLedger, RowsBacked, Backed, GrantBacking, HoldBacking
<1> QED BY <1>1, <1>5 DEF LInv

LEMMA InitLedger ==
  ASSUME UsageInit
  PROVE  LInv
<1>1. \A op : Unbooked(op) = {}
  BY DEF UsageInit, Unbooked, Booking
<1>2. IsFiniteSet({}) /\ Cardinality({}) = 0
  BY FS_EmptySet
<1>3. Backed(NoRow)
  <2>1. /\ NoRow.purchased = 0 /\ NoRow.held = 0
        /\ ledger.granted = 0 /\ ledger.held = 0
    BY DEF NoRow, UsageInit
  <2>2. Cardinality(Unbooked("grant")) = 0 /\ Cardinality(Unbooked("hold")) = 0
    BY <1>1, <1>2
  <2> QED BY <2>1, <2>2 DEF Backed
<1>4. account = NoRow /\ \A c \in Calls : call[c].row = NoRow
  BY DEF UsageInit
<1> QED BY <1>1, <1>2, <1>3, <1>4 DEF LInv, BackedByLedger, RowsBacked

LEMMA RequestLedger ==
  ASSUME TypeOK, LInv, NEW c \in Calls, NEW op, NEW e, NEW n, Request(c, op, e, n)
  PROVE  LInv'
<1>1. /\ call' = [call EXCEPT ![c] = Begin(c, op, e, n)] /\ call[c].pc = "idle"
      /\ UNCHANGED <<account, ledger>>
  BY DEF Request
<1>2. Begin(c, op, e, n).row = call[c].row /\ Begin(c, op, e, n).pc # "book"
  BY DEF Begin, TypeOK, Call
<1>3. call \in [Calls -> Call]
  BY DEF TypeOK
<1> QED BY <1>1, <1>2, <1>3, QuietLedger

----------------------------------------------------------------------------
(***************************************************************************)
(* With arbitrary clients.                                                 *)
(***************************************************************************)

LEMMA LedgerInductive == UsageSpec => []LInv
<1>1. UsageInit => LInv
  BY InitLedger
<1>2. IInv /\ IInv' /\ LInv /\ [UsageNext]_usageVars => LInv'
  <2> SUFFICES ASSUME IInv, IInv', LInv, [UsageNext]_usageVars PROVE LInv'
    OBVIOUS
  <2>1. TypeOK /\ TypeOK'
    BY DEF IInv
  <2>2. CASE \E c \in Calls, op \in {"preflight", "complete", "fail"} \cup AdminOps,
                e \in Events, n \in Amounts : Request(c, op, e, n)
    BY <2>1, <2>2, RequestLedger
  <2>3. CASE \E c \in Calls : CallStep(c)
    BY <2>1, <2>3, CallLedger
  <2>4. CASE NextMonth \/ UNCHANGED usageVars
    <3>1. UNCHANGED <<account, ledger, call>>
      BY <2>4 DEF NextMonth, usageVars
    <3> QED BY <3>1, QuietLedger
  <2> QED BY <2>2, <2>3, <2>4 DEF UsageNext
<1> QED BY <1>1, <1>2, UsageInductive, PTL DEF UsageSpec

(***************************************************************************)
(* Whatever clients ask for, no credit of the account appears from         *)
(* nothing: overlapping requests of ai-usage-service.js may lose one       *)
(* another's grants and holds, and never store one that is not entered.    *)
(***************************************************************************)
THEOREM UsageBackedByLedger == UsageSpec => []BackedByLedger
<1>1. LInv => BackedByLedger
  BY DEF LInv
<1> QED BY <1>1, LedgerInductive, PTL

----------------------------------------------------------------------------
(***************************************************************************)
(* With the voice orchestrator, which gives calls up and sends others      *)
(* without waiting: only administrators' calls grant and hold, and the     *)
(* orchestrator sends none in their names.                                 *)
(***************************************************************************)

AdminCalls == \A c \in Calls : call[c].op \in Kinds => c[2] = "admin"

\* A request begins with its own operation, and is not on the way to the ledger.
LEMMA Begun ==
  ASSUME TypeOK, NEW c \in Calls, NEW op, NEW e, NEW n
  PROVE  /\ Begin(c, op, e, n).op = op /\ Begin(c, op, e, n).row = call[c].row
         /\ Begin(c, op, e, n).pc # "book"
BY DEF Begin, TypeOK, Call

LEMMA SendLedger ==
  ASSUME TypeOK, LInv, AdminCalls, NEW c \in Calls, c[2] # "admin", NEW e, NEW n,
         NEW op \in {"preflight", "complete", "fail"}, Send(c, op, e, n)
  PROVE  LInv' /\ AdminCalls'
<1>1. /\ call' = [call EXCEPT ![c] = Begin(c, op, e, n)] /\ UNCHANGED <<account, ledger>>
      /\ call \in [Calls -> Call]
  BY DEF Send, TypeOK
<1>2. /\ Begin(c, op, e, n).op = op /\ Begin(c, op, e, n).row = call[c].row
      /\ Begin(c, op, e, n).pc # "book"
  BY Begun
<1>3. call[c].op \notin Kinds /\ op \notin Kinds
  BY DEF AdminCalls, Kinds
<1>4. AdminCalls'
  BY <1>1, <1>2, <1>3 DEF AdminCalls
<1>5. LInv'
  BY <1>1, <1>2, <1>3, QuietLedger
<1> QED BY <1>4, <1>5

LEMMA SameCalls ==
  ASSUME LInv, AdminCalls, UNCHANGED <<account, ledger, call>>
  PROVE  LInv' /\ AdminCalls'
<1>1. LInv'
  BY QuietLedger
<1> QED BY <1>1 DEF AdminCalls

LEMMA LedgerPurge ==
  ASSUME TypeOK, LInv, AdminCalls, call' = Closing, UNCHANGED <<account, ledger>>
  PROVE  LInv' /\ AdminCalls'
<1>1. ASSUME NEW c \in Calls
      PROVE  \/ call'[c] = call[c]
             \/ /\ call'[c].row = call[c].row /\ call'[c].pc # "book"
                /\ call'[c].op = "fail" /\ c[2] = "expire"
  <2>1. /\ Begin(c, "fail", c[1], 0).op = "fail" /\ Begin(c, "fail", c[1], 0).row = call[c].row
        /\ Begin(c, "fail", c[1], 0).pc # "book"
    BY Begun
  <2>2. call'[c] = call[c] \/ (c[2] = "expire" /\ call'[c] = Begin(c, "fail", c[1], 0))
    BY DEF Closing
  <2> QED BY <2>1, <2>2
<1>3. LInv'
  BY <1>1, QuietLedger DEF AdminCalls
<1>4. AdminCalls'
  BY <1>1 DEF AdminCalls, Kinds
<1> QED BY <1>3, <1>4

\* A call keeps its operation while it runs.
LEMMA SameOperation ==
  ASSUME TypeOK, NEW c \in Calls, CallStep(c)
  PROVE  \A d \in Calls : call'[d].op = call[d].op
<1>1. call \in [Calls -> Call]
  BY DEF TypeOK
<1>2. CASE ReadAccount(c)
  <2>1. call'[c].op = call[c].op /\ \A d \in Calls \ {c} : call'[d] = call[d]
    BY <1>1, <1>2, OthersStay DEF ReadAccount, Call
  <2> QED BY <2>1
<1>3. CASE ReadPolicy(c)
  <2>1. call'[c].op = call[c].op /\ \A d \in Calls \ {c} : call'[d] = call[d]
    BY <1>1, <1>3, OthersStay DEF ReadPolicy, Call
  <2> QED BY <2>1
<1>4. CASE ~ReadAccount(c) /\ ~ReadPolicy(c)
  <2>1. PICK pc : Goto(c, pc)
    BY <1>4 DEF CallStep, FindEvent, RefreshAccount, Preflight, CheckBalance, ConsumeCredits,
       GrantCredits, HoldCredits, BlockAccount, Book, FinishEvent, FailEvent, SavePolicy
  <2> QED BY <1>1, <2>1 DEF Goto, Call
<1> QED BY <1>2, <1>3, <1>4

LEMMA VoiceLedger ==
  ASSUME VoiceAssumption, TypeOK, TypeOK', LInv, AdminCalls, [Next]_vars
  PROVE  LInv' /\ AdminCalls'
<1>1. CASE PurgeExpired
  BY <1>1, LedgerPurge DEF PurgeExpired
<1>2. ASSUME NEW s \in Sessions, SessionStep(s) PROVE LInv' /\ AdminCalls'
  <2>1. CASE CreateSession(s)
    <3>1. <<s, "preflight">> \in Calls /\ <<s, "preflight">>[2] # "admin"
      BY DEF VoiceAssumption
    <3> QED BY <2>1, <3>1, SendLedger DEF CreateSession
  <2>2. CASE AskSession(s)
    BY <2>2, LedgerPurge DEF AskSession
  <2>3. CASE ~CreateSession(s) /\ ~AskSession(s)
    BY <1>2, <2>3, SameCalls DEF SessionStep, OpenSession, PreflightLost, Expire, usageVars
  <2> QED BY <2>1, <2>2, <2>3
<1>3. ASSUME NEW u \in Uploads, UploadStep(u) PROVE LInv' /\ AdminCalls'
  <2>1. /\ <<u, "complete">> \in Calls /\ <<u, "complete">>[2] # "admin"
        /\ <<u, "fail">> \in Calls /\ <<u, "fail">>[2] # "admin"
    BY DEF VoiceAssumption
  <2>2. CASE RejectExpired(u) \/ FailAudio(u)
    <3>1. Send(<<u, "fail">>, "fail", SessionOf[u], 0)
      BY <2>2 DEF RejectExpired, FailAudio
    <3> QED BY <2>1, <3>1, SendLedger
  <2>3. CASE BillAudio(u)
    <3>1. PICK n \in Amounts : Send(<<u, "complete">>, "complete", SessionOf[u], n)
      BY <2>3 DEF BillAudio
    <3> QED BY <2>1, <3>1, SendLedger
  <2>4. CASE ~RejectExpired(u) /\ ~FailAudio(u) /\ ~BillAudio(u)
    BY <1>3, <2>4, SameCalls DEF UploadStep, ProcessAudio, RejectAudio, AnswerAudio,
       FailAnswered, usageVars
  <2> QED BY <2>2, <2>3, <2>4
<1>4. CASE Administrate
  <2>1. PICK a \in Admins, op \in AdminOps, e \in Events, n \in Amounts :
          Request(<<a, "admin">>, op, e, n)
    BY <1>4 DEF Administrate
  <2>2. <<a, "admin">> \in Calls /\ <<a, "admin">>[2] = "admin"
    BY DEF VoiceAssumption
  <2>3. LInv'
    BY <2>1, <2>2, RequestLedger
  <2>4. \A c \in Calls : c # <<a, "admin">> => call'[c] = call[c]
    BY <2>1 DEF Request, TypeOK
  <2>5. AdminCalls'
    BY <2>2, <2>4 DEF AdminCalls
  <2> QED BY <2>3, <2>5
<1>5. ASSUME NEW c \in Calls, CallStep(c) PROVE LInv' /\ AdminCalls'
  <2>1. LInv'
    BY <1>5, CallLedger
  <2>2. AdminCalls'
    BY <1>5, SameOperation DEF AdminCalls
  <2> QED BY <2>1, <2>2
<1>6. CASE Restart \/ NextMonth \/ UNCHANGED vars
  BY <1>6, SameCalls DEF Restart, NextMonth, usageVars, vars
<1> QED BY <1>1, <1>2, <1>3, <1>4, <1>5, <1>6 DEF Next

(***************************************************************************)
(* The same while devices talk and the orchestrator restarts: what it      *)
(* gives up or sends again touches no grant and no hold.                   *)
(***************************************************************************)
THEOREM VoiceBackedByLedger == Spec => []BackedByLedger
<1>1. VoiceInit => LInv /\ AdminCalls
  <2>1. ASSUME VoiceInit PROVE LInv /\ AdminCalls
    <3>1. LInv
      BY <2>1, InitLedger DEF VoiceInit
    <3> QED BY <2>1, <3>1 DEF VoiceInit, UsageInit, AdminCalls, Kinds
  <2> QED BY <2>1
<1>2. VInv /\ VInv' /\ (LInv /\ AdminCalls) /\ [Next]_vars => (LInv /\ AdminCalls)'
  <2>1. ASSUME VInv, VInv', LInv, AdminCalls, [Next]_vars PROVE LInv' /\ AdminCalls'
    <3>1. TypeOK /\ TypeOK'
      BY <2>1 DEF VInv, IInv
    <3> QED BY <2>1, <3>1, VoiceAssumption, VoiceLedger
  <2> QED BY <2>1
<1>3. LInv => BackedByLedger
  BY DEF LInv
<1> QED BY <1>1, <1>2, <1>3, VoiceInductive, PTL DEF Spec

=============================================================================
