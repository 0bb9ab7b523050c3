---------------------------- MODULE SessionSlot ----------------------------
(***************************************************************************)
(* What the identity server promises about the interactive sessions of one *)
(* personal account (docs/single-active-account-session.md): the account   *)
(* has one slot.  A session enters the slot once; whoever holds it then is *)
(* put out in the same step, and a session that is over never comes back.  *)
(***************************************************************************)
CONSTANT Sessions

VARIABLE slot   \* [Sessions -> {"new", "held", "over"}]

Held == {s \in Sessions : slot[s] = "held"}

Init == /\ slot \in [Sessions -> {"new", "held"}]
        /\ \A s, t \in Held : s = t

(* Session s takes the slot; the holder and any others end with it.        *)
Enter(s, old) == /\ slot[s] = "new"
                 /\ s \notin old
                 /\ Held \subseteq old
                 /\ slot' = [t \in Sessions |-> IF t = s THEN "held"
                                                ELSE IF t \in old THEN "over"
                                                ELSE slot[t]]

(* Logout, expiry, a cancelled or superseded login, an account recovery.   *)
End(old) == slot' = [t \in Sessions |-> IF t \in old THEN "over" ELSE slot[t]]

Next == \E old \in SUBSET Sessions : \/ \E s \in Sessions : Enter(s, old)
                                     \/ End(old)

Spec == Init /\ [][Next]_slot
=============================================================================
