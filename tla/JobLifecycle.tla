---------------------------- MODULE JobLifecycle ----------------------------
(***************************************************************************)
(* What the compute control plane promises for every single job, with no   *)
(* clock, worker, lock or request in sight: a job is leased at most        *)
(* Attempts[j] times, one lease after the other, and once finished it is   *)
(* finished for good, succeeded only with the result of its last lease.    *)
(***************************************************************************)
EXTENDS Naturals

CONSTANTS Jobs, Attempts

VARIABLE life    \* job -> its status, its leases so far, the lease that gave its result

Terminal == {"succeeded", "failed", "cancelled", "dead_letter"}

Life == [status : {"absent", "queued", "leased"} \cup Terminal, leases : Nat, result : Nat]

Init == life = [j \in Jobs |-> [status |-> "absent", leases |-> 0, result |-> 0]]

Becomes(a, b, s) == b = [status |-> s, leases |-> a.leases, result |-> a.result]

Submit(a, b) ==
  /\ a.status = "absent"
  /\ Becomes(a, b, "queued")

\* A lease, also one that replaces an expired lease in the same transaction.
Grant(j, a, b) ==
  /\ a.status \in {"queued", "leased"}
  /\ a.leases < Attempts[j]
  /\ b = [status |-> "leased", leases |-> a.leases + 1, result |-> a.result]

\* The lease ends without a result; the job waits for another one.
Return(j, a, b) ==
  /\ a.status = "leased"
  /\ a.leases < Attempts[j]
  /\ Becomes(a, b, "queued")

Succeed(a, b) ==
  /\ a.status = "leased"
  /\ b = [status |-> "succeeded", leases |-> a.leases, result |-> a.leases]

\* The worker gives a job up for good before its last attempt, or at it.
GiveUp(j, a, b) ==
  /\ a.status = "leased"
  /\ Becomes(a, b, IF a.leases < Attempts[j] THEN "failed" ELSE "dead_letter")

Cancel(a, b) ==
  /\ a.status \in {"queued", "leased"}
  /\ Becomes(a, b, "cancelled")

Move(j, a, b) ==
  \/ Submit(a, b)
  \/ Grant(j, a, b)
  \/ Return(j, a, b)
  \/ Succeed(a, b)
  \/ GiveUp(j, a, b)
  \/ Cancel(a, b)

\* One transaction may end several expired leases and grant one.
Next ==
  /\ life' \in [Jobs -> Life]
  /\ \A j \in Jobs : life'[j] = life[j] \/ Move(j, life[j], life'[j])

Spec == Init /\ [][Next]_life

=============================================================================
