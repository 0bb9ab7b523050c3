------------------------- MODULE ComputeLeasesProofs -------------------------
(***************************************************************************)
(* What the leases of the control plane promise beyond the life cycle of   *)
(* one job: usage is billed once per lease and only for results that were  *)
(* kept, no lease is taken from its holder before its time, and an active  *)
(* worker instance keeps its worker id.                                    *)
(***************************************************************************)
EXTENDS ComputeControlPlaneProofs

(***************************************************************************)
(* A lease that has ended for good, and what was kept of its result.       *)
(***************************************************************************)
Over(j, l) ==
  /\ l \in 1 .. Len(granted[j])
  /\ job[j].status = "leased" => l # Len(granted[j])

Kept(j, l, outcome) ==
  outcome = "succeeded" => job[j].status = "succeeded" /\ job[j].result = l

UsageRequests == {r \in requests : r.op = "usage"}

(***************************************************************************)
(* The inductive invariant: a usage event, on its way or written, belongs  *)
(* to a lease that is over, is the only one of that lease, and says        *)
(* "succeeded" only of the result that was kept.                           *)
(***************************************************************************)
UsageInv ==
  /\ \A r \in UsageRequests :
       /\ Over(r.job, r.lease_id) /\ Kept(r.job, r.lease_id, r.outcome)
       /\ \A n \in DOMAIN usage[r.job] : usage[r.job][n].lease_id # r.lease_id
  /\ \A q, r \in UsageRequests : q.job = r.job /\ q.lease_id = r.lease_id => q = r
  /\ \A j \in Jobs : \A n \in DOMAIN usage[j] :
       /\ Over(j, usage[j][n].lease_id)
       /\ Kept(j, usage[j][n].lease_id, usage[j][n].status)
       /\ \A m \in DOMAIN usage[j] : usage[j][m].lease_id = usage[j][n].lease_id => m = n

\* How a step moves the leases of a job.
LEMMA LeaseMoves ==
  ASSUME IInv, IInv', [Next]_vars, NEW j \in Jobs
  PROVE  /\ Len(granted[j]) \in Nat
         /\ \/ Len(granted'[j]) = Len(granted[j]) + 1
            \/ /\ Len(granted'[j]) = Len(granted[j])
               /\ job'[j].status = "leased" => job[j].status = "leased"
         /\ job[j].status = "succeeded" =>
              job'[j].status = "succeeded" /\ job'[j].result = job[j].result
<1> DEFINE a == LifeOf(j)
           b == LifeOf(j)'
<1>1. /\ a.status = job[j].status /\ a.leases = Len(granted[j]) /\ a.result = job[j].result
      /\ b.status = job'[j].status /\ b.leases = Len(granted'[j]) /\ b.result = job'[j].result
  BY DEF LifeOf
<1>2. b = a \/ Lifecycle!Move(j, a, b)
  BY MoveStep
<1>3. Len(granted[j]) \in Nat
  BY GrantedType DEF IInv
<1> HIDE DEF a, b
<1>4. CASE b = a
  BY <1>1, <1>3, <1>4
<1>5. CASE Lifecycle!Move(j, a, b)
  <2>1. ASSUME NEW s, Lifecycle!Becomes(a, b, s), s # "leased", a.status # "succeeded"
        PROVE  /\ b.leases = a.leases /\ b.status = s
    BY <2>1 DEF Lifecycle!Becomes
  <2>2. /\ a.status # "succeeded"
        /\ \/ b.leases = a.leases + 1
           \/ b.leases = a.leases /\ b.status # "leased"
    BY <1>5, <2>1 DEF Lifecycle!Move, Lifecycle!Submit, Lifecycle!Grant, Lifecycle!Return,
         Lifecycle!Succeed, Lifecycle!GiveUp, Lifecycle!Cancel
  <2> QED
    BY <1>1, <1>3, <2>2
<1> QED
  BY <1>2, <1>4, <1>5

\* A lease that is over stays over, and a kept result stays kept.
LEMMA OverKept ==
  ASSUME IInv, IInv', [Next]_vars, NEW j \in Jobs, NEW l, NEW outcome,
         Over(j, l), Kept(j, l, outcome)
  PROVE  Over(j, l)' /\ Kept(j, l, outcome)'
BY LeaseMoves DEF Over, Kept

----------------------------------------------------------------------------
(* One lemma for the steps that leave the usage events alone, one each for *)
(* the two that do not.                                                    *)

\* No new usage event, written or on its way.
LEMMA NoNewUsage ==
  ASSUME IInv, IInv', [Next]_vars, UsageInv,
         usage' = usage, UsageRequests' \subseteq UsageRequests
  PROVE  UsageInv'
<1>1. ASSUME NEW r \in UsageRequests
      PROVE  Over(r.job, r.lease_id)' /\ Kept(r.job, r.lease_id, r.outcome)'
  <2>1. r.job \in Jobs
    BY RequestType DEF IInv, UsageRequests
  <2>2. Over(r.job, r.lease_id) /\ Kept(r.job, r.lease_id, r.outcome)
    BY DEF UsageInv
  <2> QED
    BY <2>1, <2>2, OverKept
<1>2. ASSUME NEW j \in Jobs, NEW n \in DOMAIN usage[j]
      PROVE  /\ Over(j, usage[j][n].lease_id)'
             /\ Kept(j, usage[j][n].lease_id, usage[j][n].status)'
  <2> DEFINE l == usage[j][n].lease_id
             s == usage[j][n].status
  <2>1. Over(j, l) /\ Kept(j, l, s)
    BY DEF UsageInv
  <2>2. usage'[j][n].lease_id = l /\ usage'[j][n].status = s
    OBVIOUS
  <2> HIDE DEF l, s
  <2> QED
    BY <2>1, <2>2, LeaseMoves DEF Over, Kept
<1> QED
  BY <1>1, <1>2 DEF UsageInv

\* finishJob: the lease it ends has had no usage event yet, for it was not over.
LEMMA FinishUsage ==
  ASSUME IInv, IInv', [Next]_vars, UsageInv, NEW r \in requests, ApplyFinish(r)
  PROVE  UsageInv'
<1>1. CASE ~CurrentLease(r)
  <2>1. usage' = usage /\ UsageRequests' \subseteq UsageRequests
    BY <1>1 DEF ApplyFinish, UsageRequests
  <2> QED
    BY <2>1, NoNewUsage
<1>2. CASE CurrentLease(r)
  <2> DEFINE u == [r EXCEPT !.op = "usage"]
             j == r.job
             l == r.lease_id
  <2>1. r \in Request /\ j \in Jobs /\ l \in Nat /\ r.outcome \in Outcome
    BY RequestType DEF IInv
  <2>2. job[j].status = "leased" /\ l = Len(granted[j])
    BY <1>2, CurrentLeaseRow
  <2>3. /\ u.op = "usage" /\ u.job = j /\ u.lease_id = l /\ u.outcome = r.outcome
    BY <2>1, Zenon DEF Request
  <2>4. /\ requests' = (requests \ {r}) \cup {u}
        /\ job' = [job EXCEPT ![j] = Finished(job[j], r)]
        /\ usage' = usage /\ granted' = granted /\ r.op = "finish"
    BY <1>2 DEF ApplyFinish
  <2>5. /\ job'[j].status = r.outcome
        /\ r.outcome = "succeeded" => job'[j].result = l
    <3>1. job[j] \in JobRow /\ job'[j] = Finished(job[j], r)
      BY <2>1, <2>4 DEF IInv, Types
    <3> DEFINE res == IF r.outcome = "succeeded" THEN l ELSE 0
               fl == IF r.outcome = "succeeded" THEN "none" ELSE "worker"
    <3>2. Finished(job[j], r) = [job[j] EXCEPT !.status = r.outcome, !.lease = NoLease,
                                               !.result = res, !.failure = fl]
      BY DEF Finished
    <3>3. r.outcome = "succeeded" => res = l
      OBVIOUS
    <3> HIDE DEF res, fl
    <3>4. Finished(job[j], r).status = r.outcome /\ Finished(job[j], r).result = res
      BY <3>1, <3>2, Zenon DEF JobRow
    <3> QED
      BY <3>1, <3>3, <3>4
  <2>6. UsageRequests' = UsageRequests \cup {u}
    BY <2>3, <2>4 DEF UsageRequests
  <2> HIDE DEF u
  <2>7. Over(j, l)' /\ Kept(j, l, r.outcome)'
    <3>1. l \in 1 .. Len(granted[j])
      BY DEF IInv, RequestInv
    <3>2. r.outcome # "leased"
      BY <2>1 DEF Outcome
    <3> QED
      BY <2>4, <2>5, <3>1, <3>2 DEF Over, Kept
  <2>8. \A q \in UsageRequests : q.job = j => q.lease_id # l
    BY <2>2 DEF UsageInv, Over
  <2>9. \A n \in DOMAIN usage[j] : usage[j][n].lease_id # l
    BY <2>1, <2>2 DEF UsageInv, Over
  <2>10. ASSUME NEW q \in UsageRequests
         PROVE  Over(q.job, q.lease_id)' /\ Kept(q.job, q.lease_id, q.outcome)'
    <3>1. q.job \in Jobs
      BY RequestType DEF IInv, UsageRequests
    <3> QED
      BY <3>1, OverKept DEF UsageInv
  <2>11. ASSUME NEW k \in Jobs, NEW n \in DOMAIN usage[k]
         PROVE  /\ Over(k, usage[k][n].lease_id)'
                /\ Kept(k, usage[k][n].lease_id, usage[k][n].status)'
    <3>1. /\ Over(k, usage[k][n].lease_id)
          /\ Kept(k, usage[k][n].lease_id, usage[k][n].status)
      BY DEF UsageInv
    <3> QED
      BY <2>4, <3>1, LeaseMoves DEF Over, Kept
  <2>12. \A n \in DOMAIN usage'[u.job] : usage'[u.job][n].lease_id # u.lease_id
    BY <2>3, <2>4, <2>9
  <2>13. \A q \in UsageRequests' :
           /\ Over(q.job, q.lease_id)' /\ Kept(q.job, q.lease_id, q.outcome)'
           /\ \A n \in DOMAIN usage'[q.job] : usage'[q.job][n].lease_id # q.lease_id
    BY <2>3, <2>4, <2>6, <2>7, <2>10, <2>12 DEF UsageInv
  <2>14. \A p, q \in UsageRequests' : p.job = q.job /\ p.lease_id = q.lease_id => p = q
    BY <2>3, <2>6, <2>8 DEF UsageInv
  <2> QED
    BY <2>4, <2>11, <2>13, <2>14 DEF UsageInv
<1> QED
  BY <1>1, <1>2

\* addUsage: the only event of its lease, and what it says of it was kept.
LEMMA AddedUsage ==
  ASSUME IInv, IInv', [Next]_vars, UsageInv, NEW r \in requests, AddUsage(r)
  PROVE  UsageInv'
<1> DEFINE j == r.job
           e == [lease_id |-> r.lease_id, status |-> r.outcome]
           u == Append(usage[j], e)
<1>1. j \in Jobs /\ usage[j] \in Seq(UsageEvent) /\ DOMAIN usage = Jobs
  BY RequestType DEF IInv, Types
<1>2. e.lease_id = r.lease_id /\ e.status = r.outcome
  OBVIOUS
<1>3. /\ r \in UsageRequests /\ UsageRequests' = UsageRequests \ {r}
      /\ usage' = [usage EXCEPT ![j] = u]
      /\ UNCHANGED <<job, granted>>
  BY DEF AddUsage, UsageRequests
<1> HIDE DEF e
<1>4. ASSUME NEW n \in DOMAIN u
      PROVE  \/ n \in DOMAIN usage[j] /\ u[n] = usage[j][n]
             \/ n = Len(usage[j]) + 1 /\ u[n] = e
  BY <1>1
<1>5. \A k \in Jobs : usage'[k] = IF k = j THEN u ELSE usage[k]
  BY <1>1, <1>3
<1> HIDE DEF u
<1>6. /\ Over(j, r.lease_id) /\ Kept(j, r.lease_id, r.outcome)
      /\ \A n \in DOMAIN usage[j] : usage[j][n].lease_id # r.lease_id
  BY <1>3 DEF UsageInv
<1>7. \A q \in UsageRequests' :
        /\ Over(q.job, q.lease_id)' /\ Kept(q.job, q.lease_id, q.outcome)'
        /\ \A n \in DOMAIN usage'[q.job] : usage'[q.job][n].lease_id # q.lease_id
  <2> SUFFICES ASSUME NEW q \in UsageRequests, q # r
               PROVE  /\ Over(q.job, q.lease_id)' /\ Kept(q.job, q.lease_id, q.outcome)'
                      /\ \A n \in DOMAIN usage'[q.job] :
                           usage'[q.job][n].lease_id # q.lease_id
    BY <1>3
  <2>1. q.job \in Jobs
    BY RequestType DEF IInv, UsageRequests
  <2>2. Over(q.job, q.lease_id)' /\ Kept(q.job, q.lease_id, q.outcome)'
    BY <2>1, OverKept DEF UsageInv
  <2>3. q.job = j => q.lease_id # r.lease_id
    BY <1>3 DEF UsageInv
  <2>4. \A n \in DOMAIN usage'[q.job] : usage'[q.job][n].lease_id # q.lease_id
    BY <1>2, <1>4, <1>5, <2>1, <2>3 DEF UsageInv
  <2> QED
    BY <2>2, <2>4
<1>8. \A p, q \in UsageRequests' : p.job = q.job /\ p.lease_id = q.lease_id => p = q
  BY <1>3 DEF UsageInv
<1>9. ASSUME NEW k \in Jobs, NEW n \in DOMAIN usage'[k]
      PROVE  /\ Over(k, usage[k][n].lease_id)'
             /\ Kept(k, usage[k][n].lease_id, usage[k][n].status)'
             /\ \A m \in DOMAIN usage'[k] :
                  usage'[k][m].lease_id = usage'[k][n].lease_id => m = n
  <2>1. CASE k # j
    BY <1>3, <1>5, <2>1 DEF UsageInv, Over, Kept
  <2>2. CASE k = j
    <3>1. Over(j, u[n].lease_id) /\ Kept(j, u[n].lease_id, u[n].status)
      BY <1>2, <1>4, <1>5, <1>6, <2>2 DEF UsageInv
    <3>2. \A m \in DOMAIN u : u[m].lease_id = u[n].lease_id => m = n
      BY <1>1, <1>2, <1>4, <1>5, <1>6, <2>2 DEF UsageInv
    <3> QED
      BY <1>3, <1>5, <2>2, <3>1, <3>2 DEF Over, Kept
  <2> QED
    BY <2>1, <2>2
<1> QED
  BY <1>7, <1>8, <1>9 DEF UsageInv

\* What workers ask for is a renewal or a result, stamped with the clock.
LEMMA Asked ==
  ASSUME AskStep
  PROVE  \E r : Ask(r) /\ r.op # "usage" /\ r.at = clock
<1>1. PICK j \in Jobs : \E l \in DOMAIN granted[j] :
        \/ RenewLease(j, l)
        \/ Complete(j, l)
        \/ \E retryable \in BOOLEAN : Fail(j, l, retryable)
  BY DEF AskStep, AskAbout
<1>2. ASSUME NEW l, RenewLease(j, l)
      PROVE  \E r : Ask(r) /\ r.op # "usage" /\ r.at = clock
  <2> DEFINE r == [op |-> "renew", job |-> j, lease_id |-> l, by |-> granted[j][l],
                   at |-> clock, outcome |-> "queued"]
  <2>1. Ask(r) /\ r.op # "usage" /\ r.at = clock
    BY <1>2 DEF RenewLease
  <2> QED
    BY <2>1
<1>3. ASSUME NEW l, NEW o, Ask([op |-> "finish", job |-> j, lease_id |-> l,
                                by |-> granted[j][l], at |-> clock, outcome |-> o])
      PROVE  \E r : Ask(r) /\ r.op # "usage" /\ r.at = clock
  <2> DEFINE r == [op |-> "finish", job |-> j, lease_id |-> l, by |-> granted[j][l],
                   at |-> clock, outcome |-> o]
  <2>1. Ask(r) /\ r.op # "usage" /\ r.at = clock
    BY <1>3
  <2> QED
    BY <2>1
<1> QED
  BY <1>1, <1>2, <1>3, Zenon DEF Complete, Fail

\* Every step keeps the usage invariant.
LEMMA StepUsageInv ==
  ASSUME IInv, IInv', [Next]_vars, UsageInv
  PROVE  UsageInv'
<1>1. CASE UNCHANGED <<requests, usage>>
  BY <1>1, NoNewUsage DEF UsageRequests
<1>2. CASE Tick /\ UNCHANGED <<worker, calls, jobVars>>
  BY <1>1, <1>2 DEF jobVars
<1>3. CASE RegistryStep /\ UNCHANGED jobVars
  BY <1>1, <1>3 DEF jobVars
<1>4. CASE UNCHANGED vars
  BY <1>1, <1>4 DEF vars
<1>5. CASE JobStep
  <2>1. CASE \E j \in Jobs : SubmitJob(j) \/ CancelJob(j)
    BY <1>1, <2>1 DEF SubmitJob, CancelJob
  <2>2. CASE ReclaimExpired
    BY <1>1, <2>2 DEF ReclaimExpired
  <2>3. CASE LeaseStep
    BY <1>1, <2>3 DEF LeaseStep, TxStep, LeaseRead, LeaseReclaim, LeaseCount, LeaseSelect,
       LeaseCommit, LeaseRollback
  <2>4. CASE AskStep
    <3>1. PICK r : Ask(r) /\ r.op # "usage"
      BY <2>4, Asked
    <3>2. requests' = requests \cup {r} /\ usage' = usage
      BY <3>1 DEF Ask
    <3> QED
      BY <3>1, <3>2, NoNewUsage DEF UsageRequests
  <2>5. ASSUME NEW r \in requests, ApplyRenew(r) \/ LoseRequest(r)
        PROVE  UsageInv'
    BY <2>5, NoNewUsage DEF ApplyRenew, LoseRequest, UsageRequests
  <2> QED
    BY <1>5, <2>1, <2>2, <2>3, <2>4, <2>5, FinishUsage, AddedUsage DEF JobStep, ApplyStep
<1> QED
  BY <1>2, <1>3, <1>4, <1>5 DEF Next

(***************************************************************************)
(* Usage is billed at most once per lease, and as "succeeded" only for the *)
(* result the job keeps, although finishJob and addUsage are statements of *)
(* their own and either may be lost (PostgresComputeRepository.finishJob,  *)
(* then addUsage from complete and fail).                                  *)
(***************************************************************************)
THEOREM BilledOnce == Spec => []UsageOfAcceptedResults
<1>1. Init => UsageInv
  BY DEF Init, UsageInv, UsageRequests
<1>2. IInv /\ IInv' /\ [Next]_vars /\ UsageInv => UsageInv'
  BY StepUsageInv
<1>3. UsageInv => UsageOfAcceptedResults
  BY DEF UsageInv, Kept, UsageOfAcceptedResults
<1> QED
  BY <1>1, <1>2, <1>3, Invariance, PTL DEF Spec

----------------------------------------------------------------------------
(***************************************************************************)
(* Time.  The inductive invariant: no lease began in the future, every     *)
(* lease lasts its full time, and a request under the current lease was    *)
(* stamped after the lease began, so that a late renewal cannot cut it.    *)
(***************************************************************************)
TimesInv ==
  /\ \A j \in Jobs : job[j].status = "leased" =>
       /\ job[j].lease.leased_at <= clock
       /\ job[j].lease.expires_at >= job[j].lease.leased_at + LeaseTtl
  /\ \A r \in requests :
       job[r.job].status = "leased" /\ r.lease_id = Len(granted[r.job])
         => r.at >= job[r.job].lease.leased_at

\* The statements on jobs leave the clock and the workers alone.
LEMMA JobStepKeepsRegistry ==
  ASSUME JobStep
  PROVE  clock' = clock /\ worker' = worker /\ calls' = calls
<1>1. CASE (\E j \in Jobs : SubmitJob(j) \/ CancelJob(j)) \/ ReclaimExpired
  BY <1>1 DEF SubmitJob, CancelJob, ReclaimExpired
<1>2. CASE LeaseStep
  BY <1>2, Zenon DEF LeaseStep, TxStep, LeaseRead, LeaseReclaim, LeaseCount, LeaseSelect,
     LeaseCommit, LeaseRollback
<1>3. CASE AskStep
  BY <1>3, Asked DEF Ask
<1>4. CASE ApplyStep
  BY <1>4, Zenon DEF ApplyStep, ApplyRenew, ApplyFinish, AddUsage, LoseRequest
<1> QED
  BY <1>1, <1>2, <1>3, <1>4 DEF JobStep

\* Time does not run backwards.
LEMMA ClockGrows ==
  ASSUME IInv, [Next]_vars
  PROVE  clock \in Nat /\ clock' \in Nat /\ clock' >= clock
<1>1. clock \in Nat /\ RegistryTypeOK
  BY DEF IInv, Types, RegistryTypeOK
<1>2. CASE Tick
  BY <1>1, <1>2 DEF Tick
<1>3. CASE RegistryStep
  BY <1>1, <1>3, RegistryType
<1>4. CASE JobStep
  BY <1>1, <1>4, JobStepKeepsRegistry
<1>5. CASE UNCHANGED vars
  BY <1>1, <1>5 DEF vars
<1> QED
  BY <1>2, <1>3, <1>4, <1>5 DEF Next

\* A leased row holds a lease, and its stamps are numbers.
LEMMA LeaseType ==
  ASSUME IInv, NEW j \in Jobs, job[j].status = "leased"
  PROVE  /\ job[j].lease \in Lease
         /\ job[j].lease.leased_at \in Nat /\ job[j].lease.expires_at \in Int
         /\ job[j].lease.lease_id = Len(granted[j])
BY DEF IInv, RowsInv, RowOK, Lease

\* What a renewal writes.
LEMMA RenewedLease ==
  ASSUME NEW row \in JobRow, row.lease \in Lease, NEW at \in Nat
  PROVE  /\ Renewed(row, at).status = row.status
         /\ Renewed(row, at).lease.lease_id = row.lease.lease_id
         /\ Renewed(row, at).lease.leased_at = row.lease.leased_at
         /\ Renewed(row, at).lease.expires_at = at + LeaseTtl
<1> DEFINE e == at + LeaseTtl
           l == [row.lease EXCEPT !.expires_at = e]
<1>1. Renewed(row, at) = [row EXCEPT !.lease = l]
  BY DEF Renewed
<1> HIDE DEF e
<1>2. /\ l.lease_id = row.lease.lease_id /\ l.leased_at = row.lease.leased_at
      /\ l.expires_at = e
  BY Zenon DEF Lease
<1> HIDE DEF l
<1>3. Renewed(row, at).status = row.status /\ Renewed(row, at).lease = l
  BY <1>1, Zenon DEF JobRow
<1> QED
  BY <1>2, <1>3 DEF e

\* What a grant writes.
LEMMA LeasedLease ==
  ASSUME NEW w \in Workers, NEW j \in Jobs, View(w, j) \in JobRow
  PROVE  /\ Leased(w, j).lease.leased_at = tx[w].now
         /\ Leased(w, j).lease.expires_at = tx[w].now + LeaseTtl
<1> DEFINE row == View(w, j)
           l == [lease_id |-> Len(granted[j]) + 1, holder |-> Holder(w),
                 fencing_token |-> row.fencing_token + 1,
                 leased_at |-> tx[w].now, expires_at |-> tx[w].now + LeaseTtl]
           a == row.attempts + 1
           f == row.fencing_token + 1
<1>1. Leased(w, j) = [row EXCEPT !.status = "leased", !.attempts = a,
                                 !.fencing_token = f, !.lease = l]
  BY Zenon DEF Leased
<1>2. l.leased_at = tx[w].now /\ l.expires_at = tx[w].now + LeaseTtl
  OBVIOUS
<1> HIDE DEF row, l, a, f
<1>3. Leased(w, j).lease = l
  BY <1>1, Zenon DEF row, JobRow
<1> QED
  BY <1>2, <1>3

\* How a row comes to be leased: as before, with a renewed lease, or with a new one.
LEMMA LeasedAfter ==
  ASSUME IInv, IInv', [Next]_vars, NEW j \in Jobs, job'[j].status = "leased"
  PROVE  \/ job'[j] = job[j] /\ granted'[j] = granted[j]
         \/ \E r \in requests :
              /\ r.job = j /\ CurrentLease(r) /\ granted'[j] = granted[j]
              /\ job'[j] = Renewed(job[j], r.at)
         \/ \E w \in Workers :
              /\ job'[j].lease.leased_at = tx[w].now
              /\ job'[j].lease.expires_at = tx[w].now + LeaseTtl
              /\ Len(granted'[j]) = Len(granted[j]) + 1
<1>1. JobChange(j) /\ job[j] \in JobRow
  BY Changes DEF IInv, Types
<1>2. RowOK(job[j], Len(granted[j]), MaxAttempts[j]) /\ Len(granted[j]) \in Nat
  BY GrantedType DEF IInv, RowsInv
<1>3. ~SubmitJob(j)
  <2> SUFFICES ASSUME SubmitJob(j) PROVE FALSE
    OBVIOUS
  <2>1. job[j].status = "absent" /\ job'[j] = [job[j] EXCEPT !.status = "queued"]
    BY DEF SubmitJob, IInv, Types
  <2> QED
    BY <1>2, <2>1, SubmittedOK, MaxAttemptsType
<1>4. ~CancelJob(j)
  <2> SUFFICES ASSUME CancelJob(j) PROVE FALSE
    OBVIOUS
  <2>1. job[j].status \in {"queued", "leased"}
    BY <1>1, RowType DEF CancelJob, Status
  <2>2. job'[j] = Cancelled(job[j])
    BY DEF CancelJob, IInv, Types
  <2> QED
    BY <1>2, <2>1, <2>2, CancelledOK, MaxAttemptsType
<1>5. ~(Expired(job[j], clock) /\ job'[j] = Reclaimed(j, job[j]))
  BY <1>1, ReclaimedFields
<1>6. ASSUME NEW w \in Workers, LeaseCommit(w), j \in Rows(w)
      PROVE  \/ job'[j] = job[j] /\ granted'[j] = granted[j]
             \/ /\ job'[j].lease.leased_at = tx[w].now
                /\ job'[j].lease.expires_at = tx[w].now + LeaseTtl
                /\ Len(granted'[j]) = Len(granted[j]) + 1
  <2>1. CASE j = tx[w].pick
    <3>1. job'[j] = Leased(w, j) /\ granted'[j] = Append(granted[j], Holder(w))
      BY <1>6, <2>1 DEF LeaseCommit
    <3>2. View(w, j) \in JobRow /\ granted[j] \in Seq(Identity)
      BY ViewOK DEF RowOK, IInv, Types
    <3>3. Len(granted'[j]) = Len(granted[j]) + 1
      BY <3>1, <3>2
    <3> QED
      BY <3>1, <3>2, <3>3, LeasedLease
  <2>2. CASE j # tx[w].pick
    <3>1. job'[j] = View(w, j) /\ granted'[j] = granted[j]
      BY <1>6, <2>2 DEF LeaseCommit
    <3> QED
      BY <1>1, <3>1, ReclaimedFields DEF View
  <2> QED
    BY <2>1, <2>2
<1>7. ASSUME NEW r \in requests, r.job = j, CurrentLease(r), r.op = "finish"
      PROVE  job'[j] # Finished(job[j], r)
  <2>1. r \in Request /\ r.outcome \in Outcome
    BY RequestType DEF IInv
  <2>2. job[j].status = "leased" /\ r.lease_id = Len(granted[j])
    BY <1>7, CurrentLeaseRow
  <2>3. r.outcome = "queued" => Len(granted[j]) < MaxAttempts[j]
    BY <1>7, <2>2 DEF IInv, RequestInv, FinishInv
  <2>4. Finished(job[j], r).status = r.outcome
    BY <1>2, <2>1, <2>2, <2>3, FinishedOK, MaxAttemptsType
  <2> QED
    BY <2>1, <2>4 DEF Outcome
<1> QED
  BY <1>1, <1>3, <1>4, <1>5, <1>6, <1>7 DEF JobChange

\* Where the requests in flight come from: earlier ones, or just asked for.
LEMMA RequestsAfter ==
  ASSUME IInv, [Next]_vars, NEW r \in requests'
  PROVE  \/ \E q \in requests : q.job = r.job /\ q.lease_id = r.lease_id /\ q.at = r.at
         \/ r.at = clock /\ job' = job /\ granted' = granted
<1>1. CASE requests' \subseteq requests
  BY <1>1
<1>2. CASE JobStep
  <2>1. CASE (\E j \in Jobs : SubmitJob(j) \/ CancelJob(j)) \/ ReclaimExpired
    BY <1>1, <2>1 DEF SubmitJob, CancelJob, ReclaimExpired
  <2>2. CASE LeaseStep
    BY <1>1, <2>2 DEF LeaseStep, TxStep, LeaseRead, LeaseReclaim, LeaseCount, LeaseSelect,
       LeaseCommit, LeaseRollback
  <2>3. CASE AskStep
    BY <2>3, Asked DEF Ask
  <2>4. ASSUME NEW q \in requests, ApplyFinish(q)
        PROVE  \E p \in requests : p.job = r.job /\ p.lease_id = r.lease_id /\ p.at = r.at
    <3> DEFINE u == [q EXCEPT !.op = "usage"]
    <3>1. q \in Request
      BY RequestType DEF IInv
    <3>2. u.job = q.job /\ u.lease_id = q.lease_id /\ u.at = q.at
      BY <3>1, Zenon DEF Request
    <3>3. r \in requests \/ r = u
      BY <2>4 DEF ApplyFinish
    <3> HIDE DEF u
    <3> QED
      BY <3>2, <3>3
  <2>5. ASSUME NEW q \in requests, ApplyRenew(q) \/ AddUsage(q) \/ LoseRequest(q)
        PROVE  requests' \subseteq requests
    BY <2>5 DEF ApplyRenew, AddUsage, LoseRequest
  <2> QED
    BY <1>1, <1>2, <2>1, <2>2, <2>3, <2>4, <2>5 DEF JobStep, ApplyStep
<1>3. CASE (Tick \/ RegistryStep) /\ UNCHANGED jobVars
  BY <1>1, <1>3 DEF jobVars
<1>4. CASE UNCHANGED vars
  BY <1>1, <1>4 DEF vars
<1> QED
  BY <1>2, <1>3, <1>4 DEF Next

\* Every step keeps what is known of the stamps.
LEMMA StepTimesInv ==
  ASSUME IInv, IInv', [Next]_vars, TimesInv
  PROVE  TimesInv'
<1>1. clock \in Nat /\ clock' \in Nat /\ clock' >= clock /\ LeaseTtl \in Nat
  BY ClockGrows, RegistryAssumption
<1>2. ASSUME NEW j \in Jobs, job'[j].status = "leased"
      PROVE  /\ job'[j].lease.leased_at <= clock'
             /\ job'[j].lease.expires_at >= job'[j].lease.leased_at + LeaseTtl
  <2>1. CASE job'[j] = job[j]
    BY <1>1, <1>2, <2>1, LeaseType DEF TimesInv
  <2>2. ASSUME NEW r \in requests, r.job = j, CurrentLease(r),
               job'[j] = Renewed(job[j], r.at)
        PROVE  /\ job'[j].lease.leased_at <= clock'
               /\ job'[j].lease.expires_at >= job'[j].lease.leased_at + LeaseTtl
    <3>1. job[j].status = "leased" /\ r.lease_id = Len(granted[j]) /\ r.at \in Nat
      BY <2>2, CurrentLeaseRow, RequestType DEF IInv
    <3>2. job[j] \in JobRow /\ job[j].lease \in Lease /\ job[j].lease.leased_at \in Nat
      BY <3>1, LeaseType DEF IInv, Types
    <3>3. job[j].lease.leased_at <= clock /\ r.at >= job[j].lease.leased_at
      BY <2>2, <3>1 DEF TimesInv
    <3>4. /\ job'[j].lease.leased_at = job[j].lease.leased_at
          /\ job'[j].lease.expires_at = r.at + LeaseTtl
      BY <2>2, <3>1, <3>2, RenewedLease
    <3> QED
      BY <1>1, <3>1, <3>2, <3>3, <3>4
  <2>3. ASSUME NEW w \in Workers, job'[j].lease.leased_at = tx[w].now,
               job'[j].lease.expires_at = tx[w].now + LeaseTtl
        PROVE  /\ job'[j].lease.leased_at <= clock'
               /\ job'[j].lease.expires_at >= job'[j].lease.leased_at + LeaseTtl
    BY <1>1, <2>3, TxTypes DEF IInv, TxInv
  <2> QED
    BY <1>2, <2>1, <2>2, <2>3, LeasedAfter
<1>3. ASSUME NEW r \in requests', job'[r.job].status = "leased",
             r.lease_id = Len(granted'[r.job])
      PROVE  r.at >= job'[r.job].lease.leased_at
  <2>1. CASE r.at = clock /\ job' = job /\ granted' = granted
    <3>1. r.job \in Jobs
      BY RequestType DEF IInv, Types, Request
    <3> QED
      BY <1>3, <2>1, <3>1 DEF TimesInv
  <2>2. ASSUME NEW q \in requests, q.job = r.job, q.lease_id = r.lease_id, q.at = r.at
        PROVE  r.at >= job'[r.job].lease.leased_at
    <3> DEFINE j == r.job
    <3>1. j \in Jobs /\ q.lease_id \in 1 .. Len(granted[j]) /\ Len(granted[j]) \in Nat
      BY <2>2, RequestType, GrantedType DEF IInv, RequestInv
    <3>2. Len(granted'[j]) # Len(granted[j]) + 1
      BY <1>3, <2>2, <3>1
    <3>3. CASE job'[j] = job[j] /\ granted'[j] = granted[j]
      BY <1>3, <2>2, <3>3 DEF TimesInv
    <3>4. ASSUME NEW p \in requests, p.job = j, CurrentLease(p), granted'[j] = granted[j],
                 job'[j] = Renewed(job[j], p.at)
          PROVE  r.at >= job'[j].lease.leased_at
      <4>1. job[j].status = "leased" /\ p.at \in Nat
        BY <3>4, CurrentLeaseRow, RequestType DEF IInv
      <4>2. job[j] \in JobRow /\ job[j].lease \in Lease
        BY <3>1, <4>1, LeaseType DEF IInv, Types
      <4>3. job'[j].lease.leased_at = job[j].lease.leased_at
        BY <3>4, <4>1, <4>2, RenewedLease
      <4> QED
        BY <1>3, <2>2, <3>4, <4>1, <4>3 DEF TimesInv
    <3> QED
      BY <1>3, <3>1, <3>2, <3>3, <3>4, LeasedAfter
  <2> QED
    BY <2>1, <2>2, RequestsAfter
<1> QED
  BY <1>2, <1>3 DEF TimesInv

(***************************************************************************)
(* An expired lease was held for a full lease time (reclaimExpired in      *)
(* operationsSummary and in leaseNext; renewLease adds to the stamp that   *)
(* the service took before the row was locked, and still cannot shorten).  *)
(***************************************************************************)
THEOREM FullLeaseTime == Spec => LeaseKeptForTtl
<1>1. Init => TimesInv
  <2>1. NoRowYet.status # "leased"
    BY DEF NoRowYet
  <2> QED
    BY <2>1 DEF Init, TimesInv
<1>2. IInv /\ IInv' /\ [Next]_vars /\ TimesInv => TimesInv'
  BY StepTimesInv
<1>3. ASSUME IInv, IInv', [Next]_vars, TimesInv
      PROVE  [\A j \in Jobs :
                /\ job[j].status = "leased"
                /\ job'[j].failure = "lease_expired" /\ job'[j].status # "cancelled"
                /\ job'[j].lease.lease_id # job[j].lease.lease_id
                => clock >= job[j].lease.leased_at + LeaseTtl]_job
  <2> SUFFICES ASSUME NEW j \in Jobs, job[j].status = "leased",
                      job'[j].failure = "lease_expired", job'[j].status # "cancelled",
                      job'[j].lease.lease_id # job[j].lease.lease_id
               PROVE  clock >= job[j].lease.leased_at + LeaseTtl
    OBVIOUS
  <2>1. /\ job[j].lease \in Lease /\ job[j].lease.leased_at \in Nat
        /\ job[j].lease.expires_at \in Int /\ job[j] \in JobRow
        /\ clock \in Nat /\ LeaseTtl \in Nat
    BY <1>3, LeaseType, RegistryAssumption DEF IInv, Types, RegistryTypeOK
  <2>2. job[j].lease.expires_at >= job[j].lease.leased_at + LeaseTtl
    BY <1>3 DEF TimesInv
  <2>3. JobChange(j)
    BY <1>3, Changes
  <2>4. ~SubmitJob(j)
    BY DEF SubmitJob
  <2>5. ~CancelJob(j)
    <3>1. Cancelled(job[j]).status = "cancelled"
      BY <2>1, Zenon DEF Cancelled, JobRow
    <3> QED
      BY <1>3, <3>1 DEF CancelJob, IInv, Types
  <2>6. CASE Expired(job[j], clock)
    BY <2>1, <2>2, <2>6 DEF Expired
  <2>7. ASSUME NEW w \in Workers, j \in Rows(w)
        PROVE  clock >= job[j].lease.leased_at + LeaseTtl
    <3>1. Expired(job[j], tx[w].now) /\ tx[w].now <= clock /\ tx[w].now \in Nat
      BY <1>3, <2>7, LockedRow, TxTypes DEF IInv, TxInv
    <3> QED
      BY <2>1, <2>2, <3>1 DEF Expired
  <2>8. ASSUME NEW r \in requests
        PROVE  job'[j] # Renewed(job[j], r.at) /\ job'[j] # Finished(job[j], r)
    <3>1. r.at \in Nat
      BY <1>3, RequestType DEF IInv
    <3>2. job'[j] # Renewed(job[j], r.at)
      BY <2>1, <3>1, RenewedLease
    <3> DEFINE res == IF r.outcome = "succeeded" THEN r.lease_id ELSE 0
               fl == IF r.outcome = "succeeded" THEN "none" ELSE "worker"
    <3>3. Finished(job[j], r) = [job[j] EXCEPT !.status = r.outcome, !.lease = NoLease,
                                               !.result = res, !.failure = fl]
      BY DEF Finished
    <3>4. fl # "lease_expired"
      OBVIOUS
    <3> HIDE DEF res, fl
    <3>5. Finished(job[j], r).failure = fl
      BY <2>1, <3>3, Zenon DEF JobRow
    <3> QED
      BY <3>2, <3>4, <3>5
  <2> QED
    BY <2>3, <2>4, <2>5, <2>6, <2>7, <2>8 DEF JobChange
<1> QED
  BY <1>1, <1>2, <1>3, Invariance, PTL DEF Spec, LeaseKeptForTtl

----------------------------------------------------------------------------
(* The registry of workers.                                                *)

\* No call of the registry is stamped with a time that has not come.
CallsInv == \A c \in calls : c.at <= clock

\* A heartbeat or a drain leaves the worker id to its instance.
LEMMA PatchedInstance ==
  ASSUME NEW row \in WorkerRow, NEW c \in Call
  PROVE  Patched(row, c).instance = row.instance
<1> DEFINE f == IF c.op = "heartbeat" THEN c.free ELSE row.free
<1>1. Patched(row, c) = [row EXCEPT !.draining = c.draining, !.free = f,
                                    !.last_heartbeat_at = c.at]
  BY DEF Patched
<1> HIDE DEF f
<1> QED
  BY <1>1, Zenon DEF WorkerRow

\* Calls are stamped as they are sent.
LEMMA StepCallsInv ==
  ASSUME IInv, [Next]_vars, CallsInv
  PROVE  CallsInv'
<1>1. clock \in Nat /\ clock' \in Nat /\ clock' >= clock /\ calls \subseteq Call
  BY ClockGrows DEF IInv, Types, RegistryTypeOK
<1>2. \A c \in calls : c.at \in Nat
  BY <1>1 DEF Call
<1>3. CASE calls' \subseteq calls
  BY <1>1, <1>2, <1>3 DEF CallsInv
<1>4. ASSUME NEW c, Send(c), c.at = clock
      PROVE  CallsInv'
  BY <1>1, <1>2, <1>4 DEF Send, CallsInv
<1>5. CASE RegistryStep
  BY <1>3, <1>4, <1>5 DEF RegistryStep, RegisterWorker, Heartbeat, Drain, SaveWorker,
     PatchWorker, LoseCall
<1>6. CASE JobStep
  <2>1. calls' = calls
    BY <1>6, JobStepKeepsRegistry
  <2> QED
    BY <1>3, <2>1
<1>7. CASE (Tick /\ UNCHANGED calls) \/ UNCHANGED vars
  BY <1>3, <1>7 DEF vars
<1> QED
  BY <1>5, <1>6, <1>7 DEF Next

(***************************************************************************)
(* An instance that was heard of within two lease times keeps its worker   *)
(* id: the upsert of saveWorker checks again, inside the statement, what   *)
(* registerWorker had read before it.                                      *)
(***************************************************************************)
THEOREM ActiveInstances == Spec => ActiveInstanceKept
<1>1. Init => CallsInv
  BY DEF Init, RegistryInit, CallsInv
<1>2. IInv /\ [Next]_vars /\ CallsInv => CallsInv'
  BY StepCallsInv
<1>3. ASSUME IInv, [Next]_vars, CallsInv
      PROVE  [\A w \in Workers :
                \/ worker'[w].instance = worker[w].instance
                \/ worker[w].instance = NoInstance
                \/ clock - worker[w].last_heartbeat_at > 2 * LeaseTtl]_worker
  <2> SUFFICES ASSUME NEW w \in Workers, worker'[w].instance # worker[w].instance,
                      worker[w].instance # NoInstance
               PROVE  clock - worker[w].last_heartbeat_at > 2 * LeaseTtl
    OBVIOUS
  <2>1. /\ clock \in Nat /\ LeaseTtl \in Nat /\ calls \subseteq Call
        /\ worker \in [Workers -> WorkerRow] /\ worker[w].last_heartbeat_at \in Nat
    BY <1>3, RegistryAssumption DEF IInv, Types, RegistryTypeOK, WorkerRow
  <2>2. RegistryStep
    BY <1>3, JobStepKeepsRegistry DEF Next, vars
  <2>3. PICK c \in calls : SaveWorker(c) \/ PatchWorker(c)
    BY <2>2 DEF RegistryStep, RegisterWorker, Heartbeat, Drain, Send, LoseCall
  <2>4. c \in Call /\ c.at \in Nat /\ c.worker \in Workers /\ c.at <= clock
    BY <1>3, <2>1 DEF Call, CallsInv
  <2>5. CASE SaveWorker(c)
    <3>1. MayReplace(worker[w], c) /\ c.worker = w /\ worker'[w].instance = c.instance
      BY <2>1, <2>4, <2>5 DEF SaveWorker
    <3> QED
      BY <2>1, <2>4, <3>1 DEF MayReplace
  <2>6. CASE PatchWorker(c)
    <3>1. worker'[w] = worker[w] \/ worker'[w] = Patched(worker[w], c)
      BY <2>1, <2>4, <2>6 DEF PatchWorker
    <3> QED
      BY <2>1, <2>4, <3>1, PatchedInstance
  <2> QED
    BY <2>3, <2>5, <2>6
<1> QED
  BY <1>1, <1>2, <1>3, Invariance, PTL DEF Spec, ActiveInstanceKept

=============================================================================
