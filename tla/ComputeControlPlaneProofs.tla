--------------------- MODULE ComputeControlPlaneProofs ---------------------
(***************************************************************************)
(* Theorems about ComputeControlPlane for every number of jobs, workers,   *)
(* instances and requests, and for every lease time.                       *)
(***************************************************************************)
EXTENDS ComputeControlPlane, FiniteSetTheorems, SequenceTheorems, TLAPS

(***************************************************************************)
(* What a row of compute_jobs says, relative to the number n of leases the *)
(* job has had and to its max_attempts.                                    *)
(***************************************************************************)
RowOK(row, n, max) ==
  /\ row \in JobRow
  /\ row.attempts = n
  /\ n <= max
  /\ row.status = "absent" => n = 0
  /\ row.status = "queued" => n < max
  /\ row.status = "leased" => n > 0 /\ row.lease \in Lease /\ row.lease.lease_id = n
  /\ row.status # "leased" => row.lease = NoLease
  /\ row.status = "succeeded" => row.result = n
  /\ row.status # "succeeded" => row.result = 0

\* A lease with a positive id is not the null lease.
LEMMA LeaseIsNotNull ==
  ASSUME NEW l \in Lease, l.lease_id > 0
  PROVE  l # NoLease
BY DEF Lease, NoLease

\* A row may hold a lease or none.
LEMMA MaybeLeases == NoLease \in MaybeLease /\ Lease \subseteq MaybeLease
BY DEF MaybeLease

\* Every job has at least one attempt.
LEMMA MaxAttemptsType == \A j \in Jobs : MaxAttempts[j] \in Nat /\ MaxAttempts[j] > 0
BY JobsAssumption

\* The fields of a row, one by one.
LEMMA RowType ==
  ASSUME NEW row \in JobRow
  PROVE  /\ row.status \in Status
         /\ row.attempts \in Nat
         /\ row.fencing_token \in Nat
         /\ row.lease \in MaybeLease
         /\ row.result \in Nat
BY DEF JobRow

\* What reclaimExpired writes, field by field.
LEMMA ReclaimedFields ==
  ASSUME NEW j \in Jobs, NEW row \in JobRow
  PROVE  /\ Reclaimed(j, row) \in JobRow
         /\ Reclaimed(j, row).status =
              IF row.attempts >= MaxAttempts[j] THEN "dead_letter" ELSE "queued"
         /\ Reclaimed(j, row).attempts = row.attempts
         /\ Reclaimed(j, row).lease = NoLease
         /\ Reclaimed(j, row).result = row.result
<1> DEFINE s == IF row.attempts >= MaxAttempts[j] THEN "dead_letter" ELSE "queued"
<1>1. s \in Status
  BY DEF Status, Terminal
<1>2. Reclaimed(j, row) =
        [row EXCEPT !.status = s, !.failure = "lease_expired", !.lease = NoLease]
  BY DEF Reclaimed
<1> HIDE DEF s
<1>3. /\ Reclaimed(j, row) \in JobRow
      /\ Reclaimed(j, row).status = s
      /\ Reclaimed(j, row).attempts = row.attempts
      /\ Reclaimed(j, row).lease = NoLease
      /\ Reclaimed(j, row).result = row.result
  BY <1>1, <1>2, MaybeLeases, Zenon DEF JobRow
<1> QED
  BY <1>3 DEF s

\* Reclaiming an expired lease keeps the row in order.
LEMMA ReclaimedOK ==
  ASSUME NEW j \in Jobs, NEW row, NEW n \in Nat,
         RowOK(row, n, MaxAttempts[j]), row.status = "leased"
  PROVE  /\ RowOK(Reclaimed(j, row), n, MaxAttempts[j])
         /\ Reclaimed(j, row).status =
              IF n < MaxAttempts[j] THEN "queued" ELSE "dead_letter"
<1>1. row \in JobRow
  BY DEF RowOK
<1> QED
  BY <1>1, MaxAttemptsType, ReclaimedFields DEF RowOK

\* Submitting a job gives a row in order.
LEMMA SubmittedOK ==
  ASSUME NEW row, NEW n \in Nat, NEW max \in Nat \ {0},
         RowOK(row, n, max), row.status = "absent"
  PROVE  /\ RowOK([row EXCEPT !.status = "queued"], n, max)
         /\ [row EXCEPT !.status = "queued"].status = "queued"
<1> DEFINE b == [row EXCEPT !.status = "queued"]
<1>1. row \in JobRow
  BY DEF RowOK
<1>2. "queued" \in Status
  BY DEF Status
<1>3. /\ b \in JobRow
      /\ b.status = "queued"
      /\ b.attempts = row.attempts
      /\ b.lease = row.lease
      /\ b.result = row.result
  BY <1>1, <1>2, Zenon DEF JobRow
<1> HIDE DEF b
<1>4. RowOK(b, n, max)
  BY <1>1, <1>3 DEF RowOK
<1> QED
  BY <1>3, <1>4 DEF b

\* Cancelling a job that is not finished keeps its row in order.
LEMMA CancelledOK ==
  ASSUME NEW row, NEW n \in Nat, NEW max \in Nat,
         RowOK(row, n, max), row.status \in {"queued", "leased"}
  PROVE  /\ RowOK(Cancelled(row), n, max)
         /\ Cancelled(row).status = "cancelled"
<1>1. row \in JobRow
  BY DEF RowOK
<1>2. "cancelled" \in Status
  BY DEF Status, Terminal
<1>3. /\ Cancelled(row) \in JobRow
      /\ Cancelled(row).status = "cancelled"
      /\ Cancelled(row).attempts = row.attempts
      /\ Cancelled(row).lease = NoLease
      /\ Cancelled(row).result = row.result
  BY <1>1, <1>2, MaybeLeases, Zenon DEF JobRow, Cancelled
<1> QED
  BY <1>1, <1>3 DEF RowOK

\* A renewal moves the end of the lease and nothing else.
LEMMA RenewedOK ==
  ASSUME NEW row, NEW n \in Nat, NEW max \in Nat, NEW at \in Nat,
         RowOK(row, n, max), row.status = "leased"
  PROVE  /\ RowOK(Renewed(row, at), n, max)
         /\ Renewed(row, at).status = "leased"
<1> DEFINE l == [row.lease EXCEPT !.expires_at = at + LeaseTtl]
<1>1. row \in JobRow /\ row.lease \in Lease
  BY DEF RowOK
<1>2. at + LeaseTtl \in Int
  BY RegistryAssumption
<1>3. l \in Lease /\ l.lease_id = row.lease.lease_id
  BY <1>1, <1>2, Zenon DEF Lease
<1>4. Renewed(row, at) = [row EXCEPT !.lease = l]
  BY DEF Renewed
<1> HIDE DEF l
<1>5. l \in MaybeLease
  BY <1>3, MaybeLeases
<1>6. /\ Renewed(row, at) \in JobRow
      /\ Renewed(row, at).status = row.status
      /\ Renewed(row, at).attempts = row.attempts
      /\ Renewed(row, at).lease = l
      /\ Renewed(row, at).result = row.result
  BY <1>1, <1>4, <1>5, Zenon DEF JobRow
<1> QED
  BY <1>1, <1>3, <1>6 DEF RowOK

\* A result or a failure reported under the current lease.
LEMMA FinishedOK ==
  ASSUME NEW row, NEW n \in Nat, NEW max \in Nat, NEW r \in Request,
         RowOK(row, n, max), row.status = "leased", r.lease_id = n,
         r.outcome = "queued" => n < max
  PROVE  /\ RowOK(Finished(row, r), n, max)
         /\ Finished(row, r).status = r.outcome
<1> DEFINE res == IF r.outcome = "succeeded" THEN r.lease_id ELSE 0
           fl == IF r.outcome = "succeeded" THEN "none" ELSE "worker"
<1>1. row \in JobRow
  BY DEF RowOK
<1>2. r.outcome \in Outcome /\ r.lease_id \in Nat
  BY DEF Request
<1>3. r.outcome \in Status /\ r.outcome \notin {"absent", "leased"}
  BY <1>2 DEF Outcome, Status, Terminal
<1>4. res \in Nat /\ fl \in {"none", "lease_expired", "worker"}
  BY <1>2
<1>5. Finished(row, r) = [row EXCEPT !.status = r.outcome, !.lease = NoLease,
                                     !.result = res, !.failure = fl]
  BY DEF Finished
<1>6. r.outcome = "succeeded" => res = n
  BY DEF res
<1>7. r.outcome # "succeeded" => res = 0
  BY DEF res
<1> HIDE DEF res, fl
<1>8. /\ Finished(row, r) \in JobRow
      /\ Finished(row, r).status = r.outcome
      /\ Finished(row, r).attempts = row.attempts
      /\ Finished(row, r).lease = NoLease
      /\ Finished(row, r).result = res
  BY <1>1, <1>3, <1>4, <1>5, MaybeLeases, Zenon DEF JobRow
<1> QED
  BY <1>1, <1>3, <1>6, <1>7, <1>8 DEF RowOK

\* A granted lease carries the next lease id and uses one attempt.
LEMMA LeasedOK ==
  ASSUME NEW w \in Workers, NEW j \in Jobs, NEW n \in Nat,
         n = Len(granted[j]), tx[w].now \in Nat, Holder(w) \in Identity,
         RowOK(View(w, j), n, MaxAttempts[j]), View(w, j).status = "queued"
  PROVE  /\ RowOK(Leased(w, j), n + 1, MaxAttempts[j])
         /\ Leased(w, j).status = "leased"
<1> DEFINE row == View(w, j)
           l == [lease_id |-> n + 1, holder |-> Holder(w),
                 fencing_token |-> row.fencing_token + 1,
                 leased_at |-> tx[w].now, expires_at |-> tx[w].now + LeaseTtl]
           a == row.attempts + 1
           f == row.fencing_token + 1
<1>1. row \in JobRow
  BY DEF RowOK
<1>2. a \in Nat /\ f \in Nat /\ tx[w].now + LeaseTtl \in Int
  BY <1>1, RowType, RegistryAssumption
<1>3. l \in Lease /\ l.lease_id = n + 1
  BY <1>2 DEF Lease
<1>4. Leased(w, j) = [row EXCEPT !.status = "leased", !.attempts = a,
                                 !.fencing_token = f, !.lease = l]
  BY Zenon DEF Leased
<1>5. "leased" \in Status /\ l \in MaybeLease
  BY <1>3, MaybeLeases DEF Status
<1>6. a = n + 1 /\ n < MaxAttempts[j] /\ row.result = 0
  BY DEF RowOK
<1> HIDE DEF row, l, a, f
<1>7. /\ Leased(w, j) \in JobRow
      /\ Leased(w, j).status = "leased"
      /\ Leased(w, j).attempts = a
      /\ Leased(w, j).lease = l
      /\ Leased(w, j).result = row.result
  BY <1>1, <1>2, <1>4, <1>5, Zenon DEF JobRow
<1> QED
  BY <1>3, <1>6, <1>7, MaxAttemptsType DEF RowOK

----------------------------------------------------------------------------
(***************************************************************************)
(* The inductive invariant.  Rows are in order; what a transaction has     *)
(* locked is still as it found it; no row is locked twice; a result in     *)
(* flight belongs to a lease that was granted, and a retry it asks for was *)
(* decided when that lease was not yet beyond the last attempt.            *)
(***************************************************************************)
Types ==
  /\ RegistryTypeOK
  /\ job \in [Jobs -> JobRow]
  /\ tx \in [Workers -> Tx]
  /\ requests \subseteq Request
  /\ usage \in [Jobs -> Seq(UsageEvent)]
  /\ granted \in [Jobs -> Seq(Identity)]

RowsInv == \A j \in Jobs : RowOK(job[j], Len(granted[j]), MaxAttempts[j])

Rows(w) == tx[w].reclaimed \cup tx[w].locked

TxInv ==
  \A w \in Workers :
    /\ tx[w].now <= clock
    /\ tx[w].pc # "idle" => tx[w].instance \in Instances
    /\ tx[w].pc \in {"idle", "read"} => tx[w].reclaimed = {}
    /\ tx[w].pc # "selected" => tx[w].locked = {} /\ tx[w].pick = NoJob
    /\ \A j \in tx[w].reclaimed : Expired(job[j], tx[w].now)
    /\ \A j \in tx[w].locked : View(w, j).status = "queued"
    /\ tx[w].pick # NoJob => tx[w].pick \in tx[w].locked

LocksInv == \A v, w \in Workers : v # w => Rows(v) \cap Rows(w) = {}

FinishInv(r) ==
  /\ r.outcome \in {"queued", "failed"} => r.lease_id < MaxAttempts[r.job]
  /\ r.outcome = "dead_letter" => Len(granted[r.job]) >= MaxAttempts[r.job]

RequestInv ==
  \A r \in requests :
    /\ r.lease_id \in 1 .. Len(granted[r.job])
    /\ r.op = "finish" => FinishInv(r)

IInv == Types /\ RowsInv /\ TxInv /\ LocksInv /\ RequestInv

\* The number of leases of a job is a natural number.
LEMMA GrantedType ==
  ASSUME Types
  PROVE  \A j \in Jobs : Len(granted[j]) \in Nat
BY DEF Types

\* The fields of a lease transaction.
LEMMA TxTypes ==
  ASSUME Types
  PROVE  \A w \in Workers :
           /\ tx[w] \in Tx
           /\ tx[w].now \in Nat
           /\ tx[w].instance \in Instances \cup {NoInstance}
           /\ tx[w].reclaimed \subseteq Jobs
           /\ tx[w].locked \subseteq Jobs
           /\ tx[w].pick \in Jobs \cup {NoJob}
           /\ tx[w].pc \in Phase
BY DEF Types, Tx

\* A step that leaves locked rows and transactions alone keeps what is known of them.
LEMMA LockedRowsKept ==
  ASSUME TxInv, LocksInv, Types, UNCHANGED tx, clock' \in Nat, clock' >= clock,
         \A w \in Workers : \A j \in Rows(w) : job'[j] = job[j]
  PROVE  TxInv' /\ LocksInv'
<1>1. ASSUME NEW w \in Workers
      PROVE  TxInv!(w)'
  <2>1. TxInv!(w)
    BY DEF TxInv
  <2>2. \A j \in tx[w].reclaimed : job'[j] = job[j]
    BY DEF Rows
  <2>3. \A j \in tx[w].locked : View(w, j)' = View(w, j)
    BY DEF Rows, View, Reclaimed
  <2>4. tx[w].now <= clock'
    BY <2>1, TxTypes DEF Types, RegistryTypeOK
  <2> QED
    BY <2>1, <2>2, <2>3, <2>4 DEF Expired
<1>2. TxInv'
  BY <1>1 DEF TxInv
<1>3. LocksInv'
  BY DEF LocksInv, Rows
<1> QED
  BY <1>2, <1>3

\* No new request: those left keep what is known of them.
LEMMA RequestsKept ==
  ASSUME RequestInv, Types, UNCHANGED granted,
         \A r \in requests' :
           \E q \in requests : /\ q.job = r.job /\ q.lease_id = r.lease_id
                             /\ q.outcome = r.outcome /\ (r.op = "finish" => q.op = "finish")
  PROVE  RequestInv'
BY DEF RequestInv, FinishInv

----------------------------------------------------------------------------
(* Initial states and the steps of the registry and the clock.             *)

\* The invariant holds before the first request.
LEMMA InitIInv == Init => IInv
<1> SUFFICES ASSUME Init PROVE IInv
  OBVIOUS
<1> USE DEF Init, RegistryInit
<1>1. IdleTx \in Tx
  BY DEF IdleTx, Tx, Phase
<1>2. NoRowYet \in JobRow
  BY MaybeLeases DEF NoRowYet, JobRow, Status
<1>3. Types
  <2>1. RegistryTypeOK
    BY DEF RegistryTypeOK, NoRow, WorkerRow
  <2>2. <<>> \in Seq(UsageEvent) /\ <<>> \in Seq(Identity)
    OBVIOUS
  <2> QED
    BY <1>1, <1>2, <2>1, <2>2 DEF Types
<1>4. RowsInv
  <2>1. /\ NoRowYet.status = "absent" /\ NoRowYet.attempts = 0
        /\ NoRowYet.lease = NoLease /\ NoRowYet.result = 0
    BY DEF NoRowYet
  <2> QED
    BY <1>2, <2>1, MaxAttemptsType DEF RowsInv, RowOK
<1>5. /\ IdleTx.now = 0 /\ IdleTx.pc = "idle" /\ IdleTx.reclaimed = {}
      /\ IdleTx.locked = {} /\ IdleTx.pick = NoJob
  BY DEF IdleTx
<1>6. TxInv
  BY <1>5 DEF TxInv
<1>7. LocksInv
  BY <1>5 DEF LocksInv, Rows
<1>8. RequestInv
  BY DEF RequestInv
<1> QED
  BY <1>3, <1>4, <1>6, <1>7, <1>8 DEF IInv

\* Time passes: no stamp of an open transaction lies in the future.
LEMMA TickIInv ==
  ASSUME IInv, Tick, UNCHANGED <<worker, calls, jobVars>>
  PROVE  IInv'
<1> USE DEF IInv, jobVars
<1>1. clock' \in Nat /\ clock' >= clock
  BY DEF Tick, Types, RegistryTypeOK
<1>2. Types'
  BY <1>1 DEF Types, RegistryTypeOK
<1>3. RowsInv'
  BY DEF RowsInv
<1>4. TxInv' /\ LocksInv'
  BY <1>1, LockedRowsKept
<1>5. RequestInv'
  BY RequestsKept
<1> QED
  BY <1>2, <1>3, <1>4, <1>5

\* Registry statements replace whole rows of the right type.
LEMMA RegistryType ==
  ASSUME RegistryTypeOK, RegistryStep
  PROVE  RegistryTypeOK' /\ clock' = clock
<1> USE DEF RegistryTypeOK
<1>1. ASSUME NEW c \in Call, Send(c)
      PROVE  RegistryTypeOK' /\ clock' = clock
  BY <1>1 DEF Send
<1>2. ASSUME NEW w \in Workers, NEW i \in Instances, NEW d \in BOOLEAN, NEW f \in BOOLEAN,
             RegisterWorker(w, i, d, f) \/ Heartbeat(w, i, d, f)
      PROVE  RegistryTypeOK' /\ clock' = clock
  BY <1>1, <1>2 DEF RegisterWorker, Heartbeat, Call
<1>3. ASSUME NEW w \in Workers, NEW i \in Instances, NEW d \in BOOLEAN, Drain(w, i, d)
      PROVE  RegistryTypeOK' /\ clock' = clock
  BY <1>1, <1>3 DEF Drain, Call
<1>4. ASSUME NEW c \in calls, SaveWorker(c)
      PROVE  RegistryTypeOK' /\ clock' = clock
  <2>1. [instance |-> c.instance, draining |-> c.draining, free |-> c.free,
         last_heartbeat_at |-> c.at] \in WorkerRow
    BY DEF Call, WorkerRow
  <2> QED
    BY <1>4, <2>1 DEF SaveWorker
<1>5. ASSUME NEW c \in calls, PatchWorker(c)
      PROVE  RegistryTypeOK' /\ clock' = clock
  <2>1. c \in Call
    OBVIOUS
  <2>2. worker[c.worker] \in WorkerRow /\ c.draining \in BOOLEAN /\ c.at \in Nat
        /\ c.free \in BOOLEAN /\ c.worker \in Workers
    BY <2>1 DEF Call
  <2> DEFINE f == IF c.op = "heartbeat" THEN c.free ELSE worker[c.worker].free
  <2>3. f \in BOOLEAN
    BY <2>2, Zenon DEF WorkerRow
  <2>4. Patched(worker[c.worker], c) =
          [worker[c.worker] EXCEPT !.draining = c.draining, !.free = f,
                                   !.last_heartbeat_at = c.at]
    BY DEF Patched
  <2> HIDE DEF f
  <2>5. Patched(worker[c.worker], c) \in WorkerRow
    BY <2>2, <2>3, <2>4, Zenon DEF WorkerRow
  <2> QED
    BY <1>5, <2>2, <2>5 DEF PatchWorker
<1>6. ASSUME NEW c \in calls, LoseCall(c)
      PROVE  RegistryTypeOK' /\ clock' = clock
  BY <1>6 DEF LoseCall
<1> QED
  BY <1>2, <1>3, <1>4, <1>5, <1>6 DEF RegistryStep

\* Registry steps leave the jobs alone.
LEMMA RegistryIInv ==
  ASSUME IInv, RegistryStep, UNCHANGED jobVars
  PROVE  IInv'
<1> USE DEF IInv, jobVars
<1>1. RegistryTypeOK' /\ clock' = clock
  BY RegistryType DEF Types
<1>2. Types'
  BY <1>1 DEF Types
<1>3. RowsInv'
  BY DEF RowsInv
<1>4. TxInv' /\ LocksInv'
  BY <1>1, LockedRowsKept DEF Types, RegistryTypeOK
<1>5. RequestInv'
  BY RequestsKept
<1> QED
  BY <1>2, <1>3, <1>4, <1>5

----------------------------------------------------------------------------
(* Steps on rows of compute_jobs outside a lease transaction.              *)

\* Replacing one row that no transaction has locked.
LEMMA RowReplaced ==
  ASSUME IInv, NEW j \in Jobs, NEW b, job' = [job EXCEPT ![j] = b],
         RowOK(b, Len(granted[j]), MaxAttempts[j]),
         UNCHANGED <<clock, worker, calls, tx, granted>>,
         \A w \in Workers : j \notin Rows(w)
  PROVE  /\ job' \in [Jobs -> JobRow]
         /\ RowsInv'
         /\ TxInv' /\ LocksInv'
<1> USE DEF IInv
<1>1. job' \in [Jobs -> JobRow]
  BY DEF RowOK, Types
<1>2. RowsInv'
  BY DEF RowsInv, Types
<1>3. \A w \in Workers : \A k \in Rows(w) : job'[k] = job[k]
  BY TxTypes DEF Rows, Types
<1>4. TxInv' /\ LocksInv'
  BY <1>3, LockedRowsKept DEF Types, RegistryTypeOK
<1> QED
  BY <1>1, <1>2, <1>4

\* A row that can be locked is in no open transaction.
LEMMA UnlockedRows ==
  ASSUME NEW j \in Jobs, Unlocked(j)
  PROVE  \A w \in Workers : j \notin Rows(w)
BY DEF Unlocked, Rows

\* submitJob keeps the invariant: a row that was absent is locked by nobody.
LEMMA SubmitIInv ==
  ASSUME IInv, NEW j \in Jobs, SubmitJob(j)
  PROVE  IInv'
<1> USE DEF IInv
<1> DEFINE b == [job[j] EXCEPT !.status = "queued"]
<1>1. job' = [job EXCEPT ![j] = b]
  BY DEF SubmitJob
<1>2. RowOK(b, Len(granted[j]), MaxAttempts[j])
  BY SubmittedOK, MaxAttemptsType, GrantedType DEF SubmitJob, RowsInv
<1>3. \A w \in Workers : j \notin Rows(w)
  BY DEF SubmitJob, TxInv, Rows, Expired, View
<1> HIDE DEF b
<1>4. job' \in [Jobs -> JobRow] /\ RowsInv' /\ TxInv' /\ LocksInv'
  BY <1>1, <1>2, <1>3, RowReplaced DEF SubmitJob
<1>5. Types'
  BY <1>4 DEF SubmitJob, Types, RegistryTypeOK
<1>6. RequestInv'
  BY RequestsKept DEF SubmitJob
<1> QED
  BY <1>4, <1>5, <1>6

\* cancelJob keeps the invariant.
LEMMA CancelIInv ==
  ASSUME IInv, NEW j \in Jobs, CancelJob(j)
  PROVE  IInv'
<1> USE DEF IInv
<1>1. job[j].status \in {"queued", "leased"}
  BY RowType DEF CancelJob, Types, Status
<1>2. RowOK(Cancelled(job[j]), Len(granted[j]), MaxAttempts[j])
  BY <1>1, CancelledOK, MaxAttemptsType, GrantedType DEF RowsInv
<1>3. job' \in [Jobs -> JobRow] /\ RowsInv' /\ TxInv' /\ LocksInv'
  BY <1>2, RowReplaced, UnlockedRows DEF CancelJob
<1>4. Types'
  BY <1>3 DEF CancelJob, Types, RegistryTypeOK
<1>5. RequestInv'
  BY RequestsKept DEF CancelJob
<1> QED
  BY <1>3, <1>4, <1>5

\* reclaimExpired keeps the invariant.
LEMMA ReclaimIInv ==
  ASSUME IInv, ReclaimExpired
  PROVE  IInv'
<1> USE DEF IInv
<1>1. \A j \in Jobs : Unlocked(j) /\ Expired(job[j], clock) =>
        RowOK(Reclaimed(j, job[j]), Len(granted[j]), MaxAttempts[j])
  BY ReclaimedOK, GrantedType DEF RowsInv, Expired
<1>2. \A j \in Jobs : RowOK(job'[j], Len(granted[j]), MaxAttempts[j])
  BY <1>1 DEF ReclaimExpired, RowsInv
<1>3. RowsInv'
  BY <1>2 DEF RowsInv, ReclaimExpired
<1>4. job' \in [Jobs -> JobRow]
  BY <1>2 DEF ReclaimExpired, RowOK
<1>5. \A w \in Workers : \A k \in Rows(w) : job'[k] = job[k]
  BY TxTypes, UnlockedRows DEF ReclaimExpired, Rows
<1>6. TxInv' /\ LocksInv'
  BY <1>5, LockedRowsKept DEF ReclaimExpired, Types, RegistryTypeOK
<1>7. Types'
  BY <1>4 DEF ReclaimExpired, Types, RegistryTypeOK
<1>8. RequestInv'
  BY RequestsKept DEF ReclaimExpired
<1> QED
  BY <1>3, <1>6, <1>7, <1>8

----------------------------------------------------------------------------
(* Renewals and results.                                                   *)

\* A new request under lease l of job j.
LEMMA AskIInv ==
  ASSUME IInv, NEW j \in Jobs, NEW l \in DOMAIN granted[j], NEW r,
         r \in Request, r.job = j, r.lease_id = l,
         r.op = "finish" => FinishInv(r), Ask(r)
  PROVE  IInv'
<1> USE DEF IInv
<1>1. Types'
  BY DEF Ask, Types, RegistryTypeOK
<1>2. RowsInv'
  BY DEF Ask, RowsInv
<1>3. TxInv' /\ LocksInv'
  BY LockedRowsKept DEF Ask, Types, RegistryTypeOK
<1>4. l \in 1 .. Len(granted[j])
  BY DEF Types
<1>5. RequestInv'
  BY <1>4 DEF Ask, RequestInv, FinishInv
<1> QED
  BY <1>1, <1>2, <1>3, <1>5

\* A renewal, a result or a failure under a lease that was granted, as it is sent.
LEMMA AskStepIInv ==
  ASSUME IInv, NEW j \in Jobs, NEW l \in DOMAIN granted[j],
         RenewLease(j, l) \/ Complete(j, l) \/ (\E retryable \in BOOLEAN : Fail(j, l, retryable))
  PROVE  IInv'
<1> USE DEF IInv
<1>1. l \in 1 .. Len(granted[j]) /\ l \in Nat /\ granted[j][l] \in Identity /\ clock \in Nat
  BY DEF Types, RegistryTypeOK
<1>2. CASE RenewLease(j, l)
  BY <1>1, <1>2, AskIInv DEF RenewLease, Request, Outcome
<1>3. CASE Complete(j, l)
  BY <1>1, <1>3, AskIInv DEF Complete, Request, Outcome, FinishInv
<1>4. ASSUME NEW retryable \in BOOLEAN, Fail(j, l, retryable)
      PROVE  IInv'
  <2> DEFINE r == [op |-> "finish", job |-> j, lease_id |-> l, by |-> granted[j][l],
                   at |-> clock, outcome |-> FailStatus(j, retryable)]
  <2>1. job[j].attempts = Len(granted[j])
    BY DEF RowsInv, RowOK
  <2>2. /\ FailStatus(j, retryable) \in {"queued", "failed"} => l < MaxAttempts[j]
        /\ FailStatus(j, retryable) = "dead_letter" => Len(granted[j]) >= MaxAttempts[j]
        /\ FailStatus(j, retryable) \in Outcome
    BY <1>1, <2>1, MaxAttemptsType, GrantedType DEF FailStatus, Outcome
  <2>3. r \in Request
    BY <1>1, <2>2 DEF Request
  <2>4. FinishInv(r)
    BY <2>2 DEF FinishInv
  <2> QED
    BY <1>4, <2>3, <2>4, AskIInv DEF Fail
<1> QED
  BY <1>2, <1>3, <1>4

\* The fields of a request in flight.
LEMMA RequestType ==
  ASSUME Types
  PROVE  \A r \in requests :
           /\ r \in Request /\ r.job \in Jobs /\ r.lease_id \in Nat /\ r.at \in Nat
           /\ r.outcome \in Outcome
BY DEF Types, Request

\* A request under the current lease: the row is leased, under the lease it names.
LEMMA CurrentLeaseRow ==
  ASSUME IInv, NEW r \in requests, CurrentLease(r)
  PROVE  /\ job[r.job].status = "leased"
         /\ r.lease_id = Len(granted[r.job])
BY RequestType DEF IInv, RowsInv, RowOK, CurrentLease

\* renewLease keeps the invariant, whether the lease is current or not.
LEMMA RenewIInv ==
  ASSUME IInv, NEW r \in requests, ApplyRenew(r)
  PROVE  IInv'
<1> USE DEF IInv
<1>1. r.job \in Jobs /\ r.at \in Nat
  BY RequestType
<1>2. job' \in [Jobs -> JobRow] /\ RowsInv' /\ TxInv' /\ LocksInv'
  <2>1. CASE CurrentLease(r)
    <3>1. RowOK(Renewed(job[r.job], r.at), Len(granted[r.job]), MaxAttempts[r.job])
      BY <1>1, <2>1, CurrentLeaseRow, RenewedOK, GrantedType, MaxAttemptsType DEF RowsInv
    <3> QED
      BY <1>1, <2>1, <3>1, RowReplaced, UnlockedRows DEF ApplyRenew
  <2>2. CASE ~CurrentLease(r)
    <3>1. UNCHANGED <<job, granted, tx, clock>>
      BY <2>2 DEF ApplyRenew
    <3>2. TxInv' /\ LocksInv'
      BY <3>1, LockedRowsKept DEF Types, RegistryTypeOK
    <3> QED
      BY <3>1, <3>2 DEF RowsInv, Types
  <2> QED
    BY <2>1, <2>2
<1>3. Types'
  BY <1>2 DEF ApplyRenew, Types, RegistryTypeOK
<1>4. RequestInv'
  BY RequestsKept DEF ApplyRenew
<1> QED
  BY <1>2, <1>3, <1>4

\* finishJob keeps the invariant: a retry is only written where an attempt is left.
LEMMA FinishIInv ==
  ASSUME IInv, NEW r \in requests, ApplyFinish(r)
  PROVE  IInv'
<1> USE DEF IInv
<1>1. r \in Request /\ r.job \in Jobs /\ r.lease_id \in Nat
  BY RequestType
<1>2. CASE CurrentLease(r)
  <2> DEFINE u == [r EXCEPT !.op = "usage"]
  <2>1. /\ job' = [job EXCEPT ![r.job] = Finished(job[r.job], r)]
        /\ requests' = (requests \ {r}) \cup {u}
        /\ UNCHANGED <<clock, worker, calls, tx, usage, granted>>
    BY <1>2 DEF ApplyFinish
  <2>2. r.outcome = "queued" => Len(granted[r.job]) < MaxAttempts[r.job]
    BY <1>2, CurrentLeaseRow DEF RequestInv, FinishInv, ApplyFinish
  <2>3. RowOK(Finished(job[r.job], r), Len(granted[r.job]), MaxAttempts[r.job])
    BY <1>1, <1>2, <2>2, CurrentLeaseRow, FinishedOK, GrantedType, MaxAttemptsType
    DEF RowsInv
  <2>4. job' \in [Jobs -> JobRow] /\ RowsInv' /\ TxInv' /\ LocksInv'
    BY <1>1, <2>1, <2>3, RowReplaced, UnlockedRows DEF ApplyFinish
  <2>5. /\ u \in Request /\ u.job = r.job /\ u.lease_id = r.lease_id
        /\ u.outcome = r.outcome /\ u.op = "usage"
    BY <1>1, Zenon DEF Request
  <2> HIDE DEF u
  <2>6. Types'
    BY <2>1, <2>4, <2>5 DEF Types, RegistryTypeOK
  <2>7. RequestInv'
    BY <2>1, <2>5, RequestsKept
  <2> QED
    BY <2>4, <2>6, <2>7
<1>3. CASE ~CurrentLease(r)
  <2>1. UNCHANGED <<clock, worker, calls, job, tx, usage, granted>> /\ requests' \subseteq requests
    BY <1>3 DEF ApplyFinish
  <2>2. TxInv' /\ LocksInv'
    BY <2>1, LockedRowsKept DEF Types, RegistryTypeOK
  <2>3. Types' /\ RowsInv'
    BY <2>1 DEF Types, RegistryTypeOK, RowsInv
  <2>4. RequestInv'
    BY <2>1, RequestsKept
  <2> QED
    BY <2>2, <2>3, <2>4
<1> QED
  BY <1>2, <1>3

\* addUsage keeps the invariant.
LEMMA UsageIInv ==
  ASSUME IInv, NEW r \in requests, AddUsage(r)
  PROVE  IInv'
<1> USE DEF IInv
<1> DEFINE e == [lease_id |-> r.lease_id, status |-> r.outcome]
<1>1. e \in UsageEvent /\ r.job \in Jobs
  BY RequestType DEF UsageEvent
<1> HIDE DEF e
<1>2. Append(usage[r.job], e) \in Seq(UsageEvent)
  BY <1>1 DEF Types
<1>3. usage' \in [Jobs -> Seq(UsageEvent)]
  <2>1. usage' = [usage EXCEPT ![r.job] = Append(usage[r.job], e)]
    BY DEF AddUsage, e
  <2> QED
    BY <1>2, <2>1 DEF Types
<1>4. UNCHANGED <<clock, worker, calls, job, tx, granted>> /\ requests' \subseteq requests
  BY DEF AddUsage
<1>5. Types' /\ RowsInv'
  BY <1>3, <1>4 DEF Types, RegistryTypeOK, RowsInv
<1>6. TxInv' /\ LocksInv'
  BY <1>4, LockedRowsKept DEF Types, RegistryTypeOK
<1>7. RequestInv'
  BY <1>4, RequestsKept
<1> QED
  BY <1>5, <1>6, <1>7

\* A lost request keeps the invariant.
LEMMA LoseRequestIInv ==
  ASSUME IInv, NEW r \in requests, LoseRequest(r)
  PROVE  IInv'
<1> USE DEF IInv
<1>1. UNCHANGED <<clock, worker, calls, job, tx, usage, granted>> /\ requests' \subseteq requests
  BY DEF LoseRequest
<1>2. Types' /\ RowsInv'
  BY <1>1 DEF Types, RegistryTypeOK, RowsInv
<1>3. TxInv' /\ LocksInv'
  BY <1>1, LockedRowsKept DEF Types, RegistryTypeOK
<1>4. RequestInv'
  BY <1>1, RequestsKept
<1> QED
  BY <1>2, <1>3, <1>4

----------------------------------------------------------------------------
(* The statements of a lease transaction.                                  *)

\* What TxInv says of one transaction, as a predicate of its record.
TxOK(b) ==
  /\ b.now <= clock
  /\ b.pc # "idle" => b.instance \in Instances
  /\ b.pc \in {"idle", "read"} => b.reclaimed = {}
  /\ b.pc # "selected" => b.locked = {} /\ b.pick = NoJob
  /\ \A j \in b.reclaimed : Expired(job[j], b.now)
  /\ \A j \in b.locked :
       (IF j \in b.reclaimed THEN Reclaimed(j, job[j]) ELSE job[j]).status = "queued"
  /\ b.pick # NoJob => b.pick \in b.locked

\* TxInv, one transaction at a time.
LEMMA TxInvIsTxOK == TxInv <=> \A w \in Workers : TxOK(tx[w])
BY DEF TxInv, TxOK, View

\* A statement of one transaction that locks no row of another one.
LEMMA TxReplaced ==
  ASSUME IInv, NEW w \in Workers, NEW b \in Tx, tx' = [tx EXCEPT ![w] = b], TxOK(b),
         UNCHANGED <<clock, worker, calls, job, requests, usage, granted>>,
         \A v \in Workers \ {w} : (b.reclaimed \cup b.locked) \cap Rows(v) = {}
  PROVE  IInv'
<1> USE DEF IInv
<1>1. /\ \A v \in Workers : tx'[v] = IF v = w THEN b ELSE tx[v]
      /\ tx' \in [Workers -> Tx]
  BY DEF Types
<1>2. Types'
  BY <1>1 DEF Types, RegistryTypeOK
<1>3. RowsInv'
  BY DEF RowsInv
<1>4. TxInv'
  <2>1. \A v \in Workers : TxOK(tx'[v])
    BY <1>1, TxInvIsTxOK
  <2> QED
    BY <2>1 DEF TxInv, TxOK, View, Expired, Reclaimed
<1>5. LocksInv'
  BY <1>1 DEF LocksInv, Rows
<1>6. RequestInv'
  BY RequestsKept
<1> QED
  BY <1>2, <1>3, <1>4, <1>5, <1>6

\* A transaction that has ended holds no row.
LEMMA IdleTxOK ==
  ASSUME Types
  PROVE  IdleTx \in Tx /\ TxOK(IdleTx) /\ IdleTx.reclaimed \cup IdleTx.locked = {}
<1>1. IdleTx \in Tx
  BY DEF IdleTx, Tx, Phase
<1>2. /\ IdleTx.now = 0 /\ IdleTx.pc = "idle" /\ IdleTx.reclaimed = {}
      /\ IdleTx.locked = {} /\ IdleTx.pick = NoJob
  BY DEF IdleTx
<1> QED
  BY <1>1, <1>2 DEF TxOK, Types, RegistryTypeOK

\* A rollback keeps the invariant.
LEMMA RollbackIInv ==
  ASSUME IInv, NEW w \in Workers, LeaseRollback(w)
  PROVE  IInv'
BY IdleTxOK, TxReplaced DEF LeaseRollback, IInv

\* Reading the worker row keeps the invariant.
LEMMA ReadIInv ==
  ASSUME IInv, NEW w \in Workers, LeaseRead(w)
  PROVE  IInv'
<1> USE DEF IInv
<1> DEFINE i == worker[w].instance
           b == [IdleTx EXCEPT !.pc = "read", !.now = clock, !.instance = i]
<1>1. i \in Instances /\ clock \in Nat
  BY DEF LeaseRead, Types, RegistryTypeOK, WorkerRow
<1>2. IdleTx \in Tx
  BY IdleTxOK
<1>3. "read" \in Phase
  BY DEF Phase
<1> HIDE DEF i
<1>4. /\ b \in Tx /\ b.pc = "read" /\ b.now = clock /\ b.instance = i
      /\ b.reclaimed = IdleTx.reclaimed /\ b.locked = IdleTx.locked /\ b.pick = IdleTx.pick
  BY <1>1, <1>2, <1>3, Zenon DEF Tx
<1>5. IdleTx.reclaimed = {} /\ IdleTx.locked = {} /\ IdleTx.pick = NoJob
  BY DEF IdleTx
<1>6. tx' = [tx EXCEPT ![w] = b]
  BY DEF LeaseRead, i
<1> HIDE DEF b
<1>7. TxOK(b)
  BY <1>1, <1>4, <1>5 DEF TxOK
<1> QED
  BY <1>4, <1>5, <1>6, <1>7, TxReplaced DEF LeaseRead

\* The reclaim inside leaseNext locks expired leases only, none of another transaction.
LEMMA LeaseReclaimIInv ==
  ASSUME IInv, NEW w \in Workers, LeaseReclaim(w)
  PROVE  IInv'
<1> USE DEF IInv
<1> DEFINE a == tx[w]
           due == {j \in Jobs : Unlocked(j) /\ Expired(job[j], a.now)}
           b == [a EXCEPT !.pc = "reclaimed", !.reclaimed = due]
<1>1. a \in Tx /\ TxOK(a) /\ a.pc = "read"
  BY TxTypes, TxInvIsTxOK DEF LeaseReclaim
<1>2. /\ due \in SUBSET Jobs
      /\ \A j \in due : Expired(job[j], a.now)
      /\ \A v \in Workers : due \cap Rows(v) = {}
  BY DEF Unlocked, Rows
<1>3. tx' = [tx EXCEPT ![w] = b]
  BY DEF LeaseReclaim
<1>4. "reclaimed" \in Phase
  BY DEF Phase
<1> HIDE DEF due
<1>5. /\ b \in Tx /\ b.pc = "reclaimed" /\ b.now = a.now /\ b.instance = a.instance
      /\ b.reclaimed = due /\ b.locked = a.locked /\ b.pick = a.pick
  BY <1>1, <1>2, <1>4, Zenon DEF Tx
<1> HIDE DEF a, b
<1>6. b.locked = {} /\ b.pick = NoJob
  BY <1>1, <1>5 DEF TxOK
<1>7. TxOK(b)
  BY <1>1, <1>2, <1>5, <1>6 DEF TxOK
<1> QED
  BY <1>2, <1>3, <1>5, <1>6, <1>7, TxReplaced DEF LeaseReclaim

\* Counting the leased jobs of a tenant locks nothing.
LEMMA LeaseCountIInv ==
  ASSUME IInv, NEW w \in Workers, LeaseCount(w)
  PROVE  IInv'
<1> USE DEF IInv
<1> DEFINE a == tx[w]
           n == [t \in Tenants |->
                  Cardinality({j \in Jobs : TenantOf[j] = t /\ View(w, j).status = "leased"})]
           b == [a EXCEPT !.pc = "counted", !.active = n]
<1>1. a \in Tx /\ TxOK(a) /\ a.pc = "reclaimed"
  BY TxTypes, TxInvIsTxOK DEF LeaseCount
<1>2. n \in [Tenants -> Nat]
  <2>1. \A t \in Tenants :
          IsFiniteSet({j \in Jobs : TenantOf[j] = t /\ View(w, j).status = "leased"})
    BY JobsAssumption, FS_Subset
  <2> QED
    BY <2>1, FS_CardinalityType
<1>3. tx' = [tx EXCEPT ![w] = b]
  BY DEF LeaseCount
<1>4. "counted" \in Phase
  BY DEF Phase
<1> HIDE DEF n
<1>5. /\ b \in Tx /\ b.pc = "counted" /\ b.now = a.now /\ b.instance = a.instance
      /\ b.reclaimed = a.reclaimed /\ b.locked = a.locked /\ b.pick = a.pick
  BY <1>1, <1>2, <1>4, Zenon DEF Tx
<1>6. \A v \in Workers \ {w} : (b.reclaimed \cup b.locked) \cap Rows(v) = {}
  BY <1>5 DEF LocksInv, Rows
<1> HIDE DEF a, b
<1>7. TxOK(b)
  BY <1>1, <1>5 DEF TxOK
<1> QED
  BY <1>3, <1>5, <1>6, <1>7, TxReplaced DEF LeaseCount

\* SKIP LOCKED: the candidates are in no other transaction.
LEMMA LeaseSelectIInv ==
  ASSUME IInv, NEW w \in Workers, LeaseSelect(w)
  PROVE  IInv'
<1> USE DEF IInv
<1> DEFINE a == tx[w]
           c == Candidates(w)
<1>1. a \in Tx /\ TxOK(a) /\ a.pc = "counted"
  BY TxTypes, TxInvIsTxOK DEF LeaseSelect
<1>2. /\ c \in SUBSET Jobs
      /\ \A j \in c : View(w, j).status = "queued"
      /\ \A v \in Workers \ {w} : c \cap Rows(v) = {}
  BY DEF Candidates, Rows
<1>3. First(w) \subseteq c
  BY DEF First, Runnable
<1>4. PICK p \in IF Runnable(w) = {} THEN {NoJob} ELSE First(w) :
        tx' = [tx EXCEPT ![w] = [a EXCEPT !.pc = "selected", !.locked = c, !.pick = p]]
  BY DEF LeaseSelect
<1>5. p \in c \cup {NoJob}
  BY <1>3, <1>4
<1>6. p \in Jobs \cup {NoJob} /\ "selected" \in Phase
  BY <1>2, <1>5 DEF Phase
<1> DEFINE b == [a EXCEPT !.pc = "selected", !.locked = c, !.pick = p]
<1> HIDE DEF c
<1>7. /\ b \in Tx /\ b.pc = "selected" /\ b.now = a.now /\ b.instance = a.instance
      /\ b.reclaimed = a.reclaimed /\ b.locked = c /\ b.pick = p
  BY <1>1, <1>2, <1>6, Zenon DEF Tx
<1>8. \A v \in Workers \ {w} : (b.reclaimed \cup b.locked) \cap Rows(v) = {}
  BY <1>2, <1>7 DEF LocksInv, Rows
<1>9. \A j \in c :
        (IF j \in a.reclaimed THEN Reclaimed(j, job[j]) ELSE job[j]).status = "queued"
  BY <1>2 DEF View
<1>10. tx' = [tx EXCEPT ![w] = b]
  BY <1>4
<1> HIDE DEF a, b
<1>11. TxOK(b)
  BY <1>1, <1>5, <1>7, <1>9 DEF TxOK
<1> QED
  BY <1>7, <1>8, <1>10, <1>11, TxReplaced DEF LeaseSelect

\* The rows as a transaction sees them are in order too.
LEMMA ViewOK ==
  ASSUME IInv, NEW w \in Workers, NEW j \in Jobs
  PROVE  /\ RowOK(View(w, j), Len(granted[j]), MaxAttempts[j])
         /\ j \notin Rows(w) => View(w, j) = job[j]
<1>1. RowOK(job[j], Len(granted[j]), MaxAttempts[j]) /\ Len(granted[j]) \in Nat
  BY GrantedType DEF IInv, RowsInv
<1>2. j \in tx[w].reclaimed => job[j].status = "leased"
  BY DEF IInv, TxInv, Expired
<1>3. j \in tx[w].reclaimed => RowOK(Reclaimed(j, job[j]), Len(granted[j]), MaxAttempts[j])
  BY <1>1, <1>2, ReclaimedOK
<1> QED
  BY <1>1, <1>3 DEF View, Rows

\* What LeaseCommit does to one row: the row and its history stay in step.
LEMMA CommittedRow ==
  ASSUME IInv, NEW w \in Workers, LeaseCommit(w), NEW j \in Jobs
  PROVE  /\ RowOK(job'[j], Len(granted'[j]), MaxAttempts[j])
         /\ granted'[j] \in Seq(Identity)
         /\ Len(granted'[j]) \in Nat /\ Len(granted'[j]) >= Len(granted[j])
         /\ j \notin Rows(w) => job'[j] = job[j] /\ granted'[j] = granted[j]
<1> USE DEF IInv
<1>1. Len(granted[j]) \in Nat /\ granted[j] \in Seq(Identity)
  BY GrantedType DEF Types
<1>2. CASE j = tx[w].pick
  <2>1. tx[w].pick # NoJob /\ j \in tx[w].locked /\ tx[w].pc # "idle"
    BY <1>2, JobsAssumption DEF TxInv, LeaseCommit
  <2>2. View(w, j).status = "queued" /\ tx[w].now \in Nat /\ tx[w].instance \in Instances
    BY <2>1, TxTypes DEF TxInv
  <2>3. Holder(w) \in Identity
    BY <2>2 DEF Holder, Identity
  <2>4. RowOK(Leased(w, j), Len(granted[j]) + 1, MaxAttempts[j])
    BY <1>1, <2>2, <2>3, ViewOK, LeasedOK
  <2>5. job'[j] = Leased(w, j) /\ granted'[j] = Append(granted[j], Holder(w))
    BY <1>2 DEF LeaseCommit
  <2>6. /\ Append(granted[j], Holder(w)) \in Seq(Identity)
        /\ Len(Append(granted[j], Holder(w))) = Len(granted[j]) + 1
    BY <1>1, <2>3
  <2>7. j \in Rows(w)
    BY <2>1 DEF Rows
  <2> QED
    BY <1>1, <2>4, <2>5, <2>6, <2>7
<1>3. CASE j # tx[w].pick
  <2>1. job'[j] = View(w, j) /\ granted'[j] = granted[j]
    BY <1>3 DEF LeaseCommit
  <2> QED
    BY <1>1, <2>1, ViewOK
<1> QED
  BY <1>2, <1>3

\* The commit of leaseNext keeps the invariant.
LEMMA CommitIInv ==
  ASSUME IInv, NEW w \in Workers, LeaseCommit(w)
  PROVE  IInv'
<1> USE DEF IInv
<1>1. /\ DOMAIN job' = Jobs /\ job' = [j \in Jobs |-> job'[j]]
      /\ DOMAIN granted' = Jobs /\ granted' = [j \in Jobs |-> granted'[j]]
      /\ tx' = [tx EXCEPT ![w] = IdleTx]
      /\ UNCHANGED <<clock, worker, calls, requests, usage>>
  BY DEF LeaseCommit
<1>2. \A v \in Workers : tx'[v] = IF v = w THEN IdleTx ELSE tx[v]
  BY <1>1 DEF Types
<1>3. Types'
  <2>1. job' \in [Jobs -> JobRow]
    BY <1>1, CommittedRow DEF RowOK
  <2>2. granted' \in [Jobs -> Seq(Identity)]
    BY <1>1, CommittedRow
  <2>3. tx' \in [Workers -> Tx]
    BY <1>1, IdleTxOK DEF Types
  <2> QED
    BY <1>1, <2>1, <2>2, <2>3 DEF Types, RegistryTypeOK
<1>4. RowsInv'
  BY CommittedRow DEF RowsInv
<1>5. ASSUME NEW v \in Workers, v # w, NEW j \in Rows(v)
      PROVE  job'[j] = job[j]
  <2>1. j \in Jobs /\ j \notin Rows(w)
    BY <1>5, TxTypes DEF LocksInv, Rows
  <2> QED
    BY <2>1, CommittedRow
<1>6. TxInv'
  <2>1. ASSUME NEW v \in Workers
        PROVE  TxOK(tx[v])' 
    <3>1. CASE v = w
      <4>1. /\ tx'[v].now = 0 /\ tx'[v].pc = "idle" /\ tx'[v].reclaimed = {}
            /\ tx'[v].locked = {} /\ tx'[v].pick = NoJob
        BY <1>2, <3>1 DEF IdleTx
      <4> QED
        BY <1>1, <4>1 DEF TxOK, Types, RegistryTypeOK
    <3>2. CASE v # w
      <4>1. tx'[v] = tx[v] /\ \A j \in Rows(v) : job'[j] = job[j]
        BY <1>2, <1>5, <3>2
      <4>2. TxOK(tx[v])
        BY TxInvIsTxOK
      <4> QED
        BY <1>1, <4>1, <4>2 DEF TxOK, Rows, Expired, Reclaimed
    <3> QED
      BY <3>1, <3>2
  <2> QED
    BY <2>1 DEF TxInv, TxOK, View, Expired, Reclaimed
<1>7. LocksInv'
  <2>1. IdleTx.reclaimed \cup IdleTx.locked = {}
    BY IdleTxOK
  <2> QED
    BY <1>2, <2>1 DEF LocksInv, Rows
<1>8. RequestInv'
  <2>1. ASSUME NEW r \in requests
        PROVE  r.lease_id \in 1 .. Len(granted'[r.job]) /\ (r.op = "finish" => FinishInv(r)')
    <3>1. r.job \in Jobs /\ r.lease_id \in Nat
      BY RequestType
    <3>2. /\ Len(granted[r.job]) \in Nat /\ Len(granted'[r.job]) \in Nat
          /\ Len(granted'[r.job]) >= Len(granted[r.job])
          /\ MaxAttempts[r.job] \in Nat
      BY <3>1, CommittedRow, GrantedType, MaxAttemptsType
    <3>3. r.lease_id \in 1 .. Len(granted[r.job]) /\ (r.op = "finish" => FinishInv(r))
      BY DEF RequestInv
    <3> QED
      BY <3>1, <3>2, <3>3 DEF FinishInv
  <2> QED
    BY <1>1, <2>1 DEF RequestInv
<1> QED
  BY <1>3, <1>4, <1>6, <1>7, <1>8

----------------------------------------------------------------------------
(* The invariance theorem and what follows from it.                        *)

\* Every step keeps the invariant.
LEMMA StepIInv == IInv /\ [Next]_vars => IInv'
<1> SUFFICES ASSUME IInv, [Next]_vars PROVE IInv'
  OBVIOUS
<1>1. CASE Tick /\ UNCHANGED <<worker, calls, jobVars>>
  BY <1>1, TickIInv
<1>2. CASE RegistryStep /\ UNCHANGED jobVars
  BY <1>2, RegistryIInv
<1>3. CASE JobStep
  <2>1. CASE \E j \in Jobs : SubmitJob(j) \/ CancelJob(j)
    BY <2>1, SubmitIInv, CancelIInv
  <2>2. CASE ReclaimExpired
    BY <2>2, ReclaimIInv
  <2>3. CASE LeaseStep
    <3>1. PICK w \in Workers : LeaseRead(w) \/ TxStep(w)
      BY <2>3 DEF LeaseStep
    <3> QED
      BY <3>1, ReadIInv, LeaseReclaimIInv, LeaseCountIInv, LeaseSelectIInv, CommitIInv,
         RollbackIInv DEF TxStep
  <2>4. CASE AskStep
    BY <2>4, AskStepIInv DEF AskStep, AskAbout
  <2>5. CASE ApplyStep
    BY <2>5, RenewIInv, FinishIInv, UsageIInv, LoseRequestIInv DEF ApplyStep
  <2> QED
    BY <1>3, <2>1, <2>2, <2>3, <2>4, <2>5 DEF JobStep
<1>4. CASE UNCHANGED vars
  <2>1. UNCHANGED <<clock, worker, calls, job, tx, requests, usage, granted>>
    BY <1>4 DEF vars
  <2>2. TxInv' /\ LocksInv'
    BY <2>1, LockedRowsKept DEF IInv, Types, RegistryTypeOK
  <2>3. Types' /\ RowsInv'
    BY <2>1 DEF IInv, Types, RegistryTypeOK, RowsInv
  <2>4. RequestInv'
    BY <2>1, RequestsKept DEF IInv
  <2> QED
    BY <2>2, <2>3, <2>4 DEF IInv
<1> QED
  BY <1>1, <1>2, <1>3, <1>4 DEF Next

(***************************************************************************)
(* The invariant holds in every reachable state.                           *)
(***************************************************************************)
THEOREM Invariance == Spec => []IInv
BY InitIInv, StepIInv, PTL DEF Spec

(***************************************************************************)
(* Types, and that a row carries a lease exactly while it is leased        *)
(* (finishJob, cancelJob and reclaimExpired all clear it).                 *)
(***************************************************************************)
THEOREM TypeCorrect == Spec => []TypeOK
<1>1. IInv => TypeOK
  <2> SUFFICES ASSUME IInv, NEW j \in Jobs
               PROVE  job[j].status = "leased" <=> job[j].lease # NoLease
    BY DEF IInv, Types, TypeOK, JobsTypeOK
  <2>1. job[j].status = "leased" => job[j].lease \in Lease /\ job[j].lease.lease_id > 0
    BY GrantedType DEF IInv, RowsInv, RowOK
  <2> QED
    BY <2>1, LeaseIsNotNull DEF IInv, RowsInv, RowOK
<1> QED
  BY <1>1, Invariance, PTL

(***************************************************************************)
(* Fencing, for any number of workers, jobs and requests in flight: what a *)
(* succeeded job stores is the result of the last lease granted for it.    *)
(***************************************************************************)
THEOREM Fencing == Spec => []ResultFromLastLease
<1>1. IInv => ResultFromLastLease
  BY DEF IInv, RowsInv, RowOK, ResultFromLastLease
<1> QED
  BY <1>1, Invariance, PTL

(***************************************************************************)
(* limits.max_attempts bounds the leases of every job.                     *)
(***************************************************************************)
THEOREM BoundedAttempts == Spec => []AttemptsBounded
<1>1. IInv => AttemptsBounded
  BY DEF IInv, RowsInv, RowOK, AttemptsBounded
<1> QED
  BY <1>1, Invariance, PTL

----------------------------------------------------------------------------
(* Action properties and the refinement.                                   *)

\* The ways in which the row and the leases of one job can change.
JobChange(j) ==
  \/ job'[j] = job[j] /\ granted'[j] = granted[j]
  \/ SubmitJob(j)
  \/ CancelJob(j)
  \/ /\ Expired(job[j], clock)
     /\ job'[j] = Reclaimed(j, job[j]) /\ granted' = granted
  \/ \E w \in Workers : LeaseCommit(w) /\ j \in Rows(w)
  \/ \E r \in requests :
       /\ r.job = j /\ CurrentLease(r) /\ granted' = granted
       /\ \/ job'[j] = Renewed(job[j], r.at)
          \/ r.op = "finish" /\ job'[j] = Finished(job[j], r)

\* Every step of the specification changes a job in one of these ways.
LEMMA Changes ==
  ASSUME IInv, [Next]_vars, NEW j \in Jobs
  PROVE  JobChange(j)
<1> USE DEF IInv
<1>1. CASE UNCHANGED <<job, granted>>
  BY <1>1 DEF JobChange
<1>2. CASE Tick /\ UNCHANGED <<worker, calls, jobVars>>
  BY <1>1, <1>2 DEF jobVars
<1>3. CASE RegistryStep /\ UNCHANGED jobVars
  BY <1>1, <1>3 DEF jobVars
<1>4. CASE UNCHANGED vars
  BY <1>1, <1>4 DEF vars
<1>5. CASE JobStep
  <2>1. ASSUME NEW k \in Jobs, SubmitJob(k) \/ CancelJob(k)
        PROVE  JobChange(j)
    <3>1. granted' = granted /\ (k # j => job'[j] = job[j])
      BY <2>1 DEF SubmitJob, CancelJob, Types
    <3> QED
      BY <2>1, <3>1 DEF JobChange
  <2>2. CASE ReclaimExpired
    BY <2>2 DEF ReclaimExpired, JobChange
  <2>3. CASE LeaseStep
    <3>1. PICK w \in Workers : LeaseRead(w) \/ TxStep(w)
      BY <2>3 DEF LeaseStep
    <3>2. CASE LeaseCommit(w)
      BY <3>2, CommittedRow DEF JobChange
    <3>3. CASE ~LeaseCommit(w)
      BY <1>1, <3>1, <3>3
      DEF TxStep, LeaseRead, LeaseReclaim, LeaseCount, LeaseSelect, LeaseRollback
    <3> QED
      BY <3>2, <3>3
  <2>4. CASE AskStep
    BY <1>1, <2>4 DEF AskStep, AskAbout, RenewLease, Complete, Fail, Ask
  <2>5. ASSUME NEW r \in requests, ApplyRenew(r)
        PROVE  JobChange(j)
    BY <2>5, RequestType DEF ApplyRenew, JobChange, Types
  <2>6. ASSUME NEW r \in requests, ApplyFinish(r)
        PROVE  JobChange(j)
    BY <2>6, RequestType DEF ApplyFinish, JobChange, Types
  <2>7. ASSUME NEW r \in requests, AddUsage(r) \/ LoseRequest(r)
        PROVE  JobChange(j)
    BY <1>1, <2>7 DEF AddUsage, LoseRequest
  <2> QED
    BY <1>5, <2>1, <2>2, <2>3, <2>4, <2>5, <2>6, <2>7 DEF JobStep, ApplyStep
<1> QED
  BY <1>2, <1>3, <1>4, <1>5 DEF Next

\* A row that a lease transaction has locked is queued, or leased and expired.
LEMMA LockedRow ==
  ASSUME IInv, NEW w \in Workers, NEW j \in Rows(w)
  PROVE  \/ job[j].status = "queued" /\ j \notin tx[w].reclaimed
         \/ Expired(job[j], tx[w].now) /\ j \in tx[w].reclaimed
BY DEF IInv, TxInv, Rows, View

(***************************************************************************)
(* No step changes a finished job (cancelJob, currentLease, the reclaim    *)
(* and the candidates of leaseNext all look at the status first).          *)
(***************************************************************************)
THEOREM FinishedForGood == Spec => TerminalStable
<1>1. ASSUME IInv, [Next]_vars
      PROVE  [\A j \in Jobs : job[j].status \in Terminal => job'[j] = job[j]]_job
  <2> SUFFICES ASSUME NEW j \in Jobs, job[j].status \in Terminal
               PROVE  job'[j] = job[j]
    OBVIOUS
  <2>1. JobChange(j)
    BY <1>1, Changes
  <2>2. job[j].status \notin {"absent", "queued", "leased"}
    BY DEF Terminal
  <2>3. ~ \E w \in Workers : j \in Rows(w)
    BY <1>1, <2>2, LockedRow DEF Expired
  <2> QED
    BY <2>1, <2>2, <2>3 DEF JobChange, SubmitJob, CancelJob, Expired, CurrentLease
<1> QED
  BY <1>1, Invariance, PTL DEF Spec, TerminalStable

(***************************************************************************)
(* A leased job is granted again only after its lease has run out, however *)
(* many leaseNext transactions run at a time (FOR UPDATE SKIP LOCKED).     *)
(***************************************************************************)
THEOREM NoDoubleGrant == Spec => NoDoubleAssignment
<1>1. ASSUME IInv, [Next]_vars
      PROVE  [\A j \in Jobs : granted'[j] # granted[j] /\ job[j].status = "leased"
                => job[j].lease.expires_at <= clock]_granted
  <2> SUFFICES ASSUME NEW j \in Jobs, granted'[j] # granted[j], job[j].status = "leased"
               PROVE  job[j].lease.expires_at <= clock
    OBVIOUS
  <2>1. JobChange(j)
    BY <1>1, Changes
  <2>2. PICK w \in Workers : j \in Rows(w)
    BY <2>1 DEF JobChange, SubmitJob, CancelJob
  <2>3. job[j].lease.expires_at <= tx[w].now
    BY <1>1, <2>2, LockedRow DEF Expired
  <2>4. job[j].lease \in Lease
    BY <1>1 DEF IInv, RowsInv, RowOK
  <2>5. tx[w].now \in Nat /\ clock \in Nat /\ tx[w].now <= clock
    BY <1>1, TxTypes DEF IInv, TxInv, Types, RegistryTypeOK
  <2>6. job[j].lease.expires_at \in Int
    BY <2>4 DEF Lease
  <2> QED
    BY <2>3, <2>5, <2>6
<1> QED
  BY <1>1, Invariance, PTL DEF Spec, NoDoubleAssignment

----------------------------------------------------------------------------
(* The refinement of JobLifecycle.                                         *)

\* The life of a job has the type of the abstract specification.
LEMMA LifeType ==
  ASSUME IInv, NEW j \in Jobs
  PROVE  LifeOf(j) \in Lifecycle!Life
<1>1. job[j] \in JobRow /\ Len(granted[j]) \in Nat
  BY GrantedType DEF IInv, Types
<1> QED
  BY <1>1, RowType DEF LifeOf, Lifecycle!Life, Lifecycle!Terminal, Status, Terminal

\* Every change of a job is a move of the abstract life cycle.
LEMMA MoveStep ==
  ASSUME IInv, IInv', [Next]_vars, NEW j \in Jobs
  PROVE  LifeOf(j)' = LifeOf(j) \/ Lifecycle!Move(j, LifeOf(j), LifeOf(j)')
<1> DEFINE a == LifeOf(j)
           n == Len(granted[j])
           max == MaxAttempts[j]
           s == job'[j].status
           n1 == Len(granted'[j])
           q1 == job'[j].result
           b == [status |-> s, leases |-> n1, result |-> q1]
<1>1. /\ RowOK(job[j], n, max) /\ RowOK(job'[j], n1, max)
      /\ n \in Nat /\ max \in Nat /\ n1 \in Nat
  <2>1. n \in Nat /\ max \in Nat
    BY GrantedType, MaxAttemptsType DEF IInv
  <2>2. RowOK(job[j], n, max)
    BY DEF IInv, RowsInv
  <2>3. RowOK(job'[j], n1, max)
    BY DEF IInv, RowsInv
  <2>4. n1 \in Nat
    BY DEF IInv, Types
  <2> QED
    BY <2>1, <2>2, <2>3, <2>4
<1>2. LifeOf(j)' = b /\ LifeOf(j) = a
      /\ a = [status |-> job[j].status, leases |-> n, result |-> job[j].result]
  BY DEF LifeOf
<1>3. JobChange(j)
  BY Changes
<1>4. a.status = job[j].status /\ a.leases = n
  BY <1>2
<1>5. job[j].status # "succeeded" => job[j].result = 0
  BY <1>1 DEF RowOK
<1>6. s # "succeeded" => q1 = 0
  BY <1>1 DEF RowOK
<1> HIDE DEF a, b
<1>7. CASE job'[j] = job[j] /\ granted'[j] = granted[j]
  BY <1>2, <1>7 DEF b
<1>8. ASSUME NEW x, job[j].status # "succeeded", s = x, x # "succeeded", n1 = n
      PROVE  Lifecycle!Becomes(a, b, x)
  BY <1>2, <1>5, <1>6, <1>8 DEF a, b, LifeOf, Lifecycle!Becomes
<1>9. CASE SubmitJob(j)
  <2>1. job[j].status = "absent" /\ s = "queued" /\ n1 = n
    BY <1>1, <1>9, SubmittedOK DEF SubmitJob, IInv, Types
  <2> QED
    BY <1>2, <1>4, <1>8, <2>1 DEF Lifecycle!Move, Lifecycle!Submit
<1>10. CASE CancelJob(j)
  <2>1. job[j].status \in {"queued", "leased"}
    BY <1>10, RowType DEF CancelJob, IInv, Types, Status
  <2>2. s = "cancelled" /\ n1 = n
    BY <1>1, <1>10, <2>1, CancelledOK DEF CancelJob, IInv, Types
  <2> QED
    BY <1>2, <1>4, <1>8, <2>1, <2>2 DEF Lifecycle!Move, Lifecycle!Cancel
<1>11. CASE Expired(job[j], clock) /\ job'[j] = Reclaimed(j, job[j]) /\ granted' = granted
  <2>1. job[j].status = "leased" /\ n1 = n
        /\ s = IF n < max THEN "queued" ELSE "dead_letter"
    BY <1>1, <1>11, ReclaimedOK DEF Expired
  <2>2. CASE n < max
    BY <1>2, <1>4, <1>8, <2>1, <2>2 DEF Lifecycle!Move, Lifecycle!Return
  <2>3. CASE ~(n < max)
    BY <1>2, <1>4, <1>8, <2>1, <2>3 DEF Lifecycle!Move, Lifecycle!GiveUp
  <2> QED
    BY <2>2, <2>3
<1>12. ASSUME NEW w \in Workers, LeaseCommit(w), j \in Rows(w)
       PROVE  LifeOf(j)' = LifeOf(j) \/ Lifecycle!Move(j, LifeOf(j), LifeOf(j)')
  <2>1. job[j].status \in {"queued", "leased"}
    BY <1>12, LockedRow DEF Expired
  <2>2. CASE j = tx[w].pick
    <3>1. n1 = n + 1
      <4>1. granted'[j] = Append(granted[j], Holder(w)) /\ granted[j] \in Seq(Identity)
        BY <1>12, <2>2 DEF LeaseCommit, IInv, Types
      <4> QED
        BY <4>1
    <3>2. s = "leased"
      <4>1. job'[j] = Leased(w, j)
        BY <1>12, <2>2 DEF LeaseCommit
      <4>2. job[j] \in JobRow /\ View(w, j) \in JobRow
        BY <1>1, ViewOK DEF RowOK
      <4>3. Leased(w, j).status = "leased"
        BY <4>2, Zenon DEF Leased, JobRow
      <4> QED
        BY <4>1, <4>3
    <3>3. n < max
      BY <1>1, <3>1 DEF RowOK
    <3>4. b = [status |-> "leased", leases |-> n + 1, result |-> a.result]
      BY <1>2, <1>5, <1>6, <2>1, <3>1, <3>2 DEF b
    <3> QED
      BY <1>2, <1>4, <2>1, <3>3, <3>4 DEF Lifecycle!Move, Lifecycle!Grant
  <2>3. CASE j # tx[w].pick
    <3>1. job'[j] = View(w, j) /\ granted'[j] = granted[j]
      BY <1>12, <2>3 DEF LeaseCommit
    <3>2. CASE j \notin tx[w].reclaimed
      BY <1>7, <3>1, <3>2 DEF View
    <3>3. CASE j \in tx[w].reclaimed
      <4>1. job[j].status = "leased" /\ n1 = n
            /\ s = IF n < max THEN "queued" ELSE "dead_letter"
        BY <1>1, <1>12, <3>1, <3>3, LockedRow, ReclaimedOK DEF Expired, View
      <4>2. CASE n < max
        BY <1>2, <1>4, <1>8, <4>1, <4>2 DEF Lifecycle!Move, Lifecycle!Return
      <4>3. CASE ~(n < max)
        BY <1>2, <1>4, <1>8, <4>1, <4>3 DEF Lifecycle!Move, Lifecycle!GiveUp
      <4> QED
        BY <4>2, <4>3
    <3> QED
      BY <3>2, <3>3
  <2> QED
    BY <2>2, <2>3
<1>13. ASSUME NEW r \in requests, r.job = j, CurrentLease(r), granted' = granted,
              \/ job'[j] = Renewed(job[j], r.at)
              \/ r.op = "finish" /\ job'[j] = Finished(job[j], r)
       PROVE  LifeOf(j)' = LifeOf(j) \/ Lifecycle!Move(j, LifeOf(j), LifeOf(j)')
  <2>1. job[j].status = "leased" /\ r.lease_id = n /\ n1 = n /\ r \in Request
    BY <1>13, CurrentLeaseRow, RequestType DEF IInv
  <2>2. CASE job'[j] = Renewed(job[j], r.at)
    <3>1. s = "leased"
      BY <1>1, <1>13, <2>1, <2>2, RenewedOK, RequestType DEF IInv
    <3> QED
      BY <1>2, <1>5, <1>6, <2>1, <3>1 DEF b
  <2>3. CASE r.op = "finish" /\ job'[j] = Finished(job[j], r)
    <3>1. FinishInv(r) /\ r.outcome \in Outcome
      BY <1>13, <2>3, RequestType DEF IInv, RequestInv
    <3>2. r.outcome = "queued" => n < max
      BY <1>13, <2>1, <3>1 DEF FinishInv
    <3>3. s = r.outcome
      <4>1. Finished(job[j], r).status = r.outcome
        BY <1>1, <2>1, <3>2, FinishedOK
      <4> QED
        BY <2>3, <4>1
    <3>4. CASE r.outcome = "succeeded"
      <4>1. q1 = n
        BY <1>1, <2>1, <3>3, <3>4 DEF RowOK
      <4>2. b = [status |-> "succeeded", leases |-> n, result |-> n]
        BY <2>1, <3>3, <3>4, <4>1 DEF b
      <4> QED
        BY <1>2, <1>4, <2>1, <4>2 DEF Lifecycle!Move, Lifecycle!Succeed
    <3>5. CASE r.outcome = "queued"
      BY <1>2, <1>4, <1>8, <2>1, <3>2, <3>3, <3>5 DEF Lifecycle!Move, Lifecycle!Return
    <3>6. CASE r.outcome = "failed"
      <4>1. n < max
        BY <1>13, <2>1, <3>1, <3>6 DEF FinishInv
      <4> QED
        BY <1>2, <1>4, <1>8, <2>1, <3>3, <3>6, <4>1 DEF Lifecycle!Move, Lifecycle!GiveUp
    <3>7. CASE r.outcome = "dead_letter"
      <4>1. ~(n < max)
        BY <1>1, <1>13, <2>1, <3>1, <3>7 DEF FinishInv
      <4> QED
        BY <1>2, <1>4, <1>8, <2>1, <3>3, <3>7, <4>1 DEF Lifecycle!Move, Lifecycle!GiveUp
    <3> QED
      BY <3>1, <3>4, <3>5, <3>6, <3>7 DEF Outcome
  <2> QED
    BY <1>13, <2>2, <2>3
<1> QED
  BY <1>3, <1>7, <1>9, <1>10, <1>11, <1>12, <1>13 DEF JobChange

(***************************************************************************)
(* The control plane, with its transactions, fencing and late requests,    *)
(* implements the life cycle of JobLifecycle: steps map to moves.          *)
(***************************************************************************)
THEOREM ImplementsLifecycle == Spec => LifecycleSpec
<1>1. Init => Lifecycle!Init
  BY DEF Init, Lifecycle!Init, LifeOf, NoRowYet
<1>2. IInv => \A j \in Jobs : LifeOf(j) \in Lifecycle!Life
  BY LifeType
<1>3. ASSUME IInv, IInv', [Next]_vars, (\A j \in Jobs : LifeOf(j) \in Lifecycle!Life)'
      PROVE  [Lifecycle!Next]_([j \in Jobs |-> LifeOf(j)])
  <2>1. \A j \in Jobs : LifeOf(j)' \in Lifecycle!Life
    BY <1>3
  <2>2. \A j \in Jobs :
          LifeOf(j)' = LifeOf(j) \/ Lifecycle!Move(j, LifeOf(j), LifeOf(j)')
    BY <1>3, MoveStep
  <2> QED
    BY <2>1, <2>2 DEF Lifecycle!Next
<1> QED
  BY <1>1, <1>2, <1>3, Invariance, PTL DEF Spec, LifecycleSpec, Lifecycle!Spec

=============================================================================
