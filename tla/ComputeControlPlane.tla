------------------------ MODULE ComputeControlPlane ------------------------
(***************************************************************************)
(* The compute control plane on its PostgreSQL repository: jobs, pull      *)
(* leases with fencing, renewals, results, cancellation and usage events,  *)
(* under concurrent requests of several workers.                           *)
(*                                                                         *)
(* A request is a record in `requests` from the moment the service reads   *)
(* the clock (`at`) until its row-locked transaction has run.  leaseNext   *)
(* is a transaction of several statements, one step each; the rows it has  *)
(* locked but not committed are those in `tx`.  READ COMMITTED: statements *)
(* of others see `job` as last committed.                                  *)
(***************************************************************************)
EXTENDS WorkerRegistry, Sequences

CONSTANTS
  Jobs, Tenants,
  TenantOf,         \* job -> tenant (account and project)
  MaxAttempts,      \* job -> limits.max_attempts
  Deadline,         \* job -> limits.deadline_at
  Priority,         \* job -> rank of its priority_class
  CanRun,           \* worker -> the jobs whose requirements it meets
  TenantMax,        \* policy.tenant_max_active_jobs
  MaxRequests,      \* bound: lease requests in flight at a time
  NoJob

ASSUME JobsAssumption ==
  /\ IsFiniteSet(Jobs)
  /\ NoJob \notin Jobs
  /\ TenantOf \in [Jobs -> Tenants]
  /\ MaxAttempts \in [Jobs -> Nat \ {0}]
  /\ Deadline \in [Jobs -> Nat]
  /\ Priority \in [Jobs -> Nat]
  /\ CanRun \in [Workers -> SUBSET Jobs]
  /\ TenantMax \in Nat \ {0}
  /\ MaxRequests \in Nat

VARIABLES
  job,              \* the rows of compute_jobs
  tx,               \* worker -> its leaseNext transaction
  requests,         \* renewals and results between their stamp and their transaction
  usage,            \* job -> the usage events written for it
  granted           \* history: job -> the identities it was leased to, in order

jobVars == <<job, tx, requests, usage, granted>>
vars == <<clock, worker, calls, job, tx, requests, usage, granted>>

Terminal == {"succeeded", "failed", "cancelled", "dead_letter"}
Status == {"absent", "queued", "leased"} \cup Terminal

Identity == [worker : Workers, instance : Instances]

\* lease_id is a fresh UUID: the ordinal of the lease stands for it.
Lease ==
  [lease_id : Nat, holder : Identity, fencing_token : Nat,
   leased_at : Nat, expires_at : Int]
NoLease == [lease_id |-> 0]
MaybeLease == Lease \cup {NoLease}

\* `result` names the lease under which a result arrived, 0 while there is none.
JobRow ==
  [status : Status, attempts : Nat, fencing_token : Nat,
   lease : MaybeLease, result : Nat,
   failure : {"none", "lease_expired", "worker"}]

NoRowYet == [status |-> "absent", attempts |-> 0, fencing_token |-> 0,
             lease |-> NoLease, result |-> 0, failure |-> "none"]

Outcome == {"succeeded", "queued", "failed", "dead_letter"}

Request ==
  [op : {"renew", "finish", "usage"}, job : Jobs, lease_id : Nat,
   by : Identity, at : Nat, outcome : Outcome]

Phase == {"idle", "read", "reclaimed", "counted", "selected"}
Tx == [pc : Phase, instance : Instances \cup {NoInstance}, now : Nat,
       reclaimed : SUBSET Jobs, active : [Tenants -> Nat],
       locked : SUBSET Jobs, pick : Jobs \cup {NoJob}]

IdleTx == [pc |-> "idle", instance |-> NoInstance, now |-> 0, reclaimed |-> {},
           active |-> [t \in Tenants |-> 0], locked |-> {}, pick |-> NoJob]

UsageEvent == [lease_id : Nat, status : Outcome]

JobsTypeOK ==
  /\ job \in [Jobs -> JobRow]
  /\ tx \in [Workers -> Tx]
  /\ requests \subseteq Request
  /\ usage \in [Jobs -> Seq(UsageEvent)]
  /\ granted \in [Jobs -> Seq(Identity)]
  /\ \A j \in Jobs : job[j].status = "leased" <=> job[j].lease # NoLease

\* Types, and: a row carries a lease exactly while its status is "leased".
TypeOK == RegistryTypeOK /\ JobsTypeOK

Init ==
  /\ RegistryInit
  /\ job = [j \in Jobs |-> NoRowYet]
  /\ tx = [w \in Workers |-> IdleTx]
  /\ requests = {}
  /\ usage = [j \in Jobs |-> <<>>]
  /\ granted = [j \in Jobs |-> <<>>]

----------------------------------------------------------------------------
(* Row locks and the reclaim of expired leases.                            *)

Unlocked(j) == \A w \in Workers : j \notin tx[w].reclaimed \cup tx[w].locked

Expired(row, now) == row.status = "leased" /\ row.lease.expires_at <= now

\* Mutant: an expired lease is always retried.
ReclaimedForEver(j, row) ==
  [row EXCEPT !.status = "queued", !.failure = "lease_expired", !.lease = NoLease]

Reclaimed(j, row) ==
  [row EXCEPT !.status = IF row.attempts >= MaxAttempts[j] THEN "dead_letter" ELSE "queued",
              !.failure = "lease_expired",
              !.lease = NoLease]

\* What the transaction of w sees: its own uncommitted updates included.
View(w, j) == IF j \in tx[w].reclaimed THEN Reclaimed(j, job[j]) ELSE job[j]

----------------------------------------------------------------------------
(* submitJob and cancel: one statement, or one locked row.                 *)

SubmitJob(j) ==
  /\ job[j].status = "absent"        \* otherwise ON CONFLICT DO NOTHING, 409
  /\ job' = [job EXCEPT ![j] = [@ EXCEPT !.status = "queued"]]
  /\ UNCHANGED <<clock, worker, calls, tx, requests, usage, granted>>

\* Mutant: the lease stays in the row.
CancelledKeepsLease(row) == [row EXCEPT !.status = "cancelled"]

Cancelled(row) == [row EXCEPT !.status = "cancelled", !.lease = NoLease]

\* Mutant: finished jobs can be cancelled.
CancelJobAnyStatus(j) ==
  /\ Unlocked(j)
  /\ job[j].status # "absent"
  /\ job' = [job EXCEPT ![j] = Cancelled(job[j])]
  /\ UNCHANGED <<clock, worker, calls, tx, requests, usage, granted>>

CancelJob(j) ==
  /\ Unlocked(j)
  /\ job[j].status \notin Terminal \cup {"absent"}
  /\ job' = [job EXCEPT ![j] = Cancelled(job[j])]
  /\ UNCHANGED <<clock, worker, calls, tx, requests, usage, granted>>

\* operationsSummary reclaims what no transaction has locked (SKIP LOCKED).
ReclaimExpired ==
  /\ \E j \in Jobs : Unlocked(j) /\ Expired(job[j], clock)
  /\ job' = [j \in Jobs |-> IF Unlocked(j) /\ Expired(job[j], clock)
                            THEN Reclaimed(j, job[j]) ELSE job[j]]
  /\ UNCHANGED <<clock, worker, calls, tx, requests, usage, granted>>

----------------------------------------------------------------------------
(* leaseNext: read the worker, then a transaction of four statements.      *)

\* The row is read once; a draining worker or one without free slot is refused.
LeaseRead(w) ==
  /\ tx[w].pc = "idle"
  /\ worker[w].instance # NoInstance
  /\ ~worker[w].draining /\ worker[w].free
  /\ tx' = [tx EXCEPT ![w] = [IdleTx EXCEPT !.pc = "read", !.now = clock,
                                            !.instance = worker[w].instance]]
  /\ UNCHANGED <<clock, worker, calls, job, requests, usage, granted>>

\* Mutant: the reclaim forgets jobs on their last attempt.
LeaseReclaimRetryable(w) ==
  /\ tx[w].pc = "read"
  /\ tx' = [tx EXCEPT ![w] = [@ EXCEPT !.pc = "reclaimed",
              !.reclaimed = {j \in Jobs : /\ Unlocked(j) /\ Expired(job[j], tx[w].now)
                                          /\ job[j].attempts < MaxAttempts[j]}]]
  /\ UNCHANGED <<clock, worker, calls, job, requests, usage, granted>>

LeaseReclaim(w) ==
  /\ tx[w].pc = "read"
  /\ tx' = [tx EXCEPT ![w] = [@ EXCEPT !.pc = "reclaimed",
              !.reclaimed = {j \in Jobs : Unlocked(j) /\ Expired(job[j], tx[w].now)}]]
  /\ UNCHANGED <<clock, worker, calls, job, requests, usage, granted>>

\* SELECT count(*) ... WHERE status='leased' GROUP BY tenant: takes no lock.
LeaseCount(w) ==
  /\ tx[w].pc = "reclaimed"
  /\ tx' = [tx EXCEPT ![w] = [@ EXCEPT !.pc = "counted",
              !.active = [t \in Tenants |->
                 Cardinality({j \in Jobs : TenantOf[j] = t /\ View(w, j).status = "leased"})]]]
  /\ UNCHANGED <<clock, worker, calls, job, requests, usage, granted>>

\* Mutant: rows locked by others are not skipped.
CandidatesLocked(w) ==
  {j \in Jobs : View(w, j).status = "queued" /\ Deadline[j] > tx[w].now}

\* Rows locked by the SELECT ... FOR UPDATE SKIP LOCKED of w.
Candidates(w) ==
  {j \in Jobs : /\ \A v \in Workers \ {w} : j \notin tx[v].reclaimed \cup tx[v].locked
                /\ View(w, j).status = "queued"
                /\ Deadline[j] > tx[w].now}

Runnable(w) ==
  {j \in Candidates(w) : j \in CanRun[w] /\ tx[w].active[TenantOf[j]] < TenantMax}

\* orderRunnableJobs: priority, then activity of the tenant; the job_id order is left open.
Before(w, j, k) ==
  \/ Priority[j] < Priority[k]
  \/ Priority[j] = Priority[k] /\ tx[w].active[TenantOf[j]] < tx[w].active[TenantOf[k]]

First(w) == {j \in Runnable(w) : \A k \in Runnable(w) : ~Before(w, k, j)}

LeaseSelect(w) ==
  /\ tx[w].pc = "counted"
  /\ \E p \in IF Runnable(w) = {} THEN {NoJob} ELSE First(w) :
       tx' = [tx EXCEPT ![w] = [@ EXCEPT !.pc = "selected", !.locked = Candidates(w),
                                         !.pick = p]]
  /\ UNCHANGED <<clock, worker, calls, job, requests, usage, granted>>

Holder(w) == [worker |-> w, instance |-> tx[w].instance]

Leased(w, j) ==
  LET row == View(w, j) IN
  [row EXCEPT !.status = "leased", !.attempts = @ + 1, !.fencing_token = @ + 1,
              !.lease = [lease_id |-> Len(granted[j]) + 1, holder |-> Holder(w),
                         fencing_token |-> row.fencing_token + 1,
                         leased_at |-> tx[w].now, expires_at |-> tx[w].now + LeaseTtl]]

LeaseCommit(w) ==
  /\ tx[w].pc = "selected"
  /\ job' = [j \in Jobs |-> IF j = tx[w].pick THEN Leased(w, j) ELSE View(w, j)]
  /\ granted' = [j \in Jobs |-> IF j = tx[w].pick THEN Append(granted[j], Holder(w))
                                ELSE granted[j]]
  /\ tx' = [tx EXCEPT ![w] = IdleTx]
  /\ UNCHANGED <<clock, worker, calls, requests, usage>>

\* The replica dies or a statement fails: the database rolls back.
LeaseRollback(w) ==
  /\ tx[w].pc # "idle"
  /\ tx' = [tx EXCEPT ![w] = IdleTx]
  /\ UNCHANGED <<clock, worker, calls, job, requests, usage, granted>>

----------------------------------------------------------------------------
(* Renewals and results.  A worker knows the leases it was granted, also   *)
(* those that ended long ago.                                              *)

Ask(r) ==
  /\ Cardinality(requests) < MaxRequests
  /\ requests' = requests \cup {r}
  /\ UNCHANGED <<clock, worker, calls, job, tx, usage, granted>>

RenewLease(j, l) ==
  Ask([op |-> "renew", job |-> j, lease_id |-> l, by |-> granted[j][l], at |-> clock,
       outcome |-> "queued"])

Complete(j, l) ==
  Ask([op |-> "finish", job |-> j, lease_id |-> l, by |-> granted[j][l], at |-> clock,
       outcome |-> "succeeded"])

\* fail reads the job without lock and derives the status from its attempts; the
\* clock it reads next could only make the lease look older than this stamp does.
FailStatus(j, retryable) ==
  IF retryable /\ job[j].attempts < MaxAttempts[j] THEN "queued"
  ELSE IF job[j].attempts >= MaxAttempts[j] THEN "dead_letter" ELSE "failed"

Fail(j, l, retryable) ==
  Ask([op |-> "finish", job |-> j, lease_id |-> l, by |-> granted[j][l], at |-> clock,
       outcome |-> FailStatus(j, retryable)])

\* Mutant: the worker is checked, the lease id is not.
CurrentLeaseAnyId(r) ==
  /\ job[r.job].status = "leased"
  /\ job[r.job].lease.holder = r.by
  /\ job[r.job].lease.expires_at > r.at

CurrentLease(r) ==
  LET row == job[r.job] IN
  /\ row.status = "leased"
  /\ row.lease.lease_id = r.lease_id
  /\ row.lease.holder = r.by
  /\ row.lease.expires_at > r.at

\* Mutant: the renewal ends at its own time stamp.
RenewedNoTtl(row, at) == [row EXCEPT !.lease = [@ EXCEPT !.expires_at = at]]

Renewed(row, at) == [row EXCEPT !.lease = [@ EXCEPT !.expires_at = at + LeaseTtl]]

ApplyRenew(r) ==
  /\ r.op = "renew" /\ Unlocked(r.job)
  /\ job' = IF CurrentLease(r)
            THEN [job EXCEPT ![r.job] = Renewed(job[r.job], r.at)]
            ELSE job
  /\ requests' = requests \ {r}
  /\ UNCHANGED <<clock, worker, calls, tx, usage, granted>>

\* Mutant: a failure leaves its lease as the source of a result.
FinishedWithResult(row, r) ==
  [row EXCEPT !.status = r.outcome, !.lease = NoLease, !.result = r.lease_id,
              !.failure = IF r.outcome = "succeeded" THEN "none" ELSE "worker"]

Finished(row, r) ==
  [row EXCEPT !.status = r.outcome, !.lease = NoLease,
                     !.result = IF r.outcome = "succeeded" THEN r.lease_id ELSE 0,
                     !.failure = IF r.outcome = "succeeded" THEN "none" ELSE "worker"]

\* Mutant: usage is charged for refused results as well.
ApplyFinishBillsAll(r) ==
  /\ r.op = "finish" /\ Unlocked(r.job)
  /\ job' = IF CurrentLease(r) THEN [job EXCEPT ![r.job] = Finished(job[r.job], r)] ELSE job
  /\ requests' = (requests \ {r}) \cup {[r EXCEPT !.op = "usage"]}
  /\ UNCHANGED <<clock, worker, calls, tx, usage, granted>>

\* finishJob commits first; the usage event is a statement of its own afterwards.
ApplyFinish(r) ==
  /\ r.op = "finish" /\ Unlocked(r.job)
  /\ IF CurrentLease(r)
     THEN /\ job' = [job EXCEPT ![r.job] = Finished(job[r.job], r)]
          /\ requests' = (requests \ {r}) \cup {[r EXCEPT !.op = "usage"]}
     ELSE /\ requests' = requests \ {r}
          /\ UNCHANGED job
  /\ UNCHANGED <<clock, worker, calls, tx, usage, granted>>

AddUsage(r) ==
  /\ r.op = "usage"
  /\ usage' = [usage EXCEPT ![r.job] =
                 Append(@, [lease_id |-> r.lease_id, status |-> r.outcome])]
  /\ requests' = requests \ {r}
  /\ UNCHANGED <<clock, worker, calls, job, tx, granted>>

\* Lost on the way, or lost with the replica that served it.
LoseRequest(r) ==
  /\ requests' = requests \ {r}
  /\ UNCHANGED <<clock, worker, calls, job, tx, usage, granted>>

----------------------------------------------------------------------------

\* An open transaction goes on or is rolled back.
TxStep(w) ==
  \/ LeaseReclaim(w)
  \/ LeaseCount(w)
  \/ LeaseSelect(w)
  \/ LeaseCommit(w)
  \/ LeaseRollback(w)

LeaseStep == \E w \in Workers : LeaseRead(w) \/ TxStep(w)

\* What the holder of lease l of a job may send, at any time after its grant.
AskAbout(j, l) ==
  \/ RenewLease(j, l)
  \/ Complete(j, l)
  \/ \E retryable \in BOOLEAN : Fail(j, l, retryable)

AskStep == \E j \in Jobs : \E l \in DOMAIN granted[j] : AskAbout(j, l)

ApplyStep ==
  \E r \in requests : ApplyRenew(r) \/ ApplyFinish(r) \/ AddUsage(r) \/ LoseRequest(r)

JobStep ==
  \/ \E j \in Jobs : SubmitJob(j)
  \/ \E j \in Jobs : CancelJob(j)
  \/ ReclaimExpired
  \/ LeaseStep
  \/ AskStep
  \/ ApplyStep

Next ==
  \/ Tick /\ UNCHANGED <<worker, calls, jobVars>>
  \/ RegistryStep /\ UNCHANGED jobVars
  \/ JobStep

Spec == Init /\ [][Next]_vars

----------------------------------------------------------------------------
(* Safety.                                                                 *)

(***************************************************************************)
(* Fencing: the result stored for a job is that of the last lease granted  *)
(* for it, however late results of earlier leases arrive (README: a late   *)
(* result never overwrites a newly granted lease).                         *)
(***************************************************************************)
ResultFromLastLease ==
  \A j \in Jobs : job[j].status = "succeeded" => job[j].result = Len(granted[j])

(***************************************************************************)
(* limits.max_attempts bounds the leases of a job over expiry, retryable   *)
(* failure and concurrent reclaims; a queued job always has one left.      *)
(***************************************************************************)
AttemptsBounded ==
  \A j \in Jobs :
    /\ Len(granted[j]) <= MaxAttempts[j]
    /\ job[j].status = "queued" => Len(granted[j]) < MaxAttempts[j]

(***************************************************************************)
(* At most one usage event is written per lease, and one that says         *)
(* "succeeded" belongs to the lease whose result was kept.                 *)
(***************************************************************************)
UsageOfAcceptedResults ==
  \A j \in Jobs :
    /\ \A m, n \in DOMAIN usage[j] :
         usage[j][m].lease_id = usage[j][n].lease_id => m = n
    /\ \A n \in DOMAIN usage[j] :
         usage[j][n].status = "succeeded" =>
           job[j].status = "succeeded" /\ job[j].result = usage[j][n].lease_id

(***************************************************************************)
(* A finished job never changes again, whatever cancellations, results,    *)
(* reclaims and lease transactions were in flight when it finished.        *)
(***************************************************************************)
TerminalStable ==
  [][\A j \in Jobs : job[j].status \in Terminal => job'[j] = job[j]]_job

(***************************************************************************)
(* No double assignment: a job that is leased is granted again only after  *)
(* its lease has run out, although leaseNext calls of several workers      *)
(* select candidates at the same time.                                     *)
(***************************************************************************)
NoDoubleAssignment ==
  [][\A j \in Jobs :
       granted'[j] # granted[j] /\ job[j].status = "leased"
         => job[j].lease.expires_at <= clock]_granted

(***************************************************************************)
(* A lease is taken from its holder for expiry only after a full lease     *)
(* time since it was granted, also when renewals overtake one another.     *)
(***************************************************************************)
LeaseKeptForTtl ==
  [][\A j \in Jobs :
       /\ job[j].status = "leased"
       /\ job'[j].failure = "lease_expired" /\ job'[j].status # "cancelled"
       /\ job'[j].lease.lease_id # job[j].lease.lease_id
       => clock >= job[j].lease.leased_at + LeaseTtl]_job

(***************************************************************************)
(* The tenant limit of the policy: never more than tenant_max_active_jobs  *)
(* jobs of one tenant are leased at a time.                                *)
(***************************************************************************)
TenantQuota ==
  \A t \in Tenants :
    Cardinality({j \in Jobs : TenantOf[j] = t /\ job[j].status = "leased"}) <= TenantMax

(***************************************************************************)
(* The control plane implements the life cycle it promises for every job.  *)
(***************************************************************************)
LifeOf(j) == [status |-> job[j].status, leases |-> Len(granted[j]), result |-> job[j].result]

Lifecycle == INSTANCE JobLifecycle WITH
  Attempts <- MaxAttempts,
  life <- [j \in Jobs |-> LifeOf(j)]

LifecycleSpec == Lifecycle!Spec

=============================================================================
