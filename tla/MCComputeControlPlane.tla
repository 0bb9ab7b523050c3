----------------------- MODULE MCComputeControlPlane -----------------------
(***************************************************************************)
(* Instances of ComputeControlPlane for TLC.  The lease runs start from a  *)
(* state the registry reaches by itself (every worker registered at time   *)
(* 0, no call in flight) and take no further registry steps; the full run  *)
(* composes both with fewer jobs.                                          *)
(***************************************************************************)
EXTENDS ComputeControlPlane

CONSTANTS w1, w2, i1, i2, j1, j2, t1, none

MCTenantOf == [j \in Jobs |-> t1]
MCMaxAttempts == [j \in Jobs |-> IF j = j2 THEN 1 ELSE 2]
MCDeadline == [j \in Jobs |-> IF j = j2 THEN 2 ELSE MaxClock]
MCPriority == [j \in Jobs |-> IF j = j1 THEN 0 ELSE 1]
MCCanRun == [w \in Workers |-> IF w = w2 THEN Jobs \ {j2} ELSE Jobs]

LeaseInit ==
  /\ clock = 0
  /\ worker = [w \in Workers |->
                 [instance |-> i1, draining |-> FALSE, free |-> TRUE, last_heartbeat_at |-> 0]]
  /\ calls = {}
  /\ job = [j \in Jobs |-> NoRowYet]
  /\ tx = [w \in Workers |-> IdleTx]
  /\ requests = {}
  /\ usage = [j \in Jobs |-> <<>>]
  /\ granted = [j \in Jobs |-> <<>>]

LeaseNext ==
  \/ Tick /\ UNCHANGED <<worker, calls, jobVars>>
  \/ JobStep

LeaseSpec == LeaseInit /\ [][LeaseNext]_vars

\* Both together; every call reports a free slot, so that only draining tells workers
\* apart, and a worker stops draining when it registers again.  MaxInFlight bounds the
\* registry calls and the requests of lease holders in flight together.
MaxInFlight == 2
Bounded == Cardinality(calls') + Cardinality(requests') <= MaxInFlight

FullNext ==
  \/ Tick /\ UNCHANGED <<worker, calls, jobVars>>
  \/ /\ \/ \E w \in Workers, i \in Instances : RegisterWorker(w, i, FALSE, TRUE)
        \/ \E w \in Workers, i \in Instances : Drain(w, i, TRUE)
        \/ \E w \in Workers, i \in Instances : Heartbeat(w, i, FALSE, TRUE)
        \/ \E c \in calls : SaveWorker(c) \/ PatchWorker(c) \/ LoseCall(c)
     /\ UNCHANGED jobVars
     /\ Bounded
  \/ JobStep /\ Bounded

FullSpec == Init /\ [][FullNext]_vars

HeldBy(j, w) == job[j].status = "leased" /\ job[j].lease.holder.worker = w

(***************************************************************************)
(* Liveness: from LastAsk on worker w1 is gone (crash, lost network): it   *)
(* sends nothing any more, and a transaction it left open runs on or is    *)
(* rolled back.  w2 may go on as before.  No timer of the service returns  *)
(* expired leases, only requests do (leaseNext, the operations summary),   *)
(* and nothing makes anybody send one: fair are time and the database, and *)
(* that w2 keeps polling is a hypothesis of the property.  Nothing is      *)
(* renewed or reported any more once the clock has reached its bound.      *)
(***************************************************************************)
LastAsk == 1

Present(w) == w = w2 \/ clock <= LastAsk

OrphanNext ==
  \/ Tick /\ UNCHANGED <<worker, calls, jobVars>>
  \/ \E j \in Jobs : SubmitJob(j) \/ CancelJob(j)
  \/ ReclaimExpired
  \/ \E w \in Workers : TxStep(w) \/ (Present(w) /\ LeaseRead(w))
  \/ /\ clock < MaxClock
     /\ \E j \in Jobs : \E l \in DOMAIN granted[j] :
          Present(granted[j][l].worker) /\ AskAbout(j, l)
  \/ ApplyStep

OrphanSpec ==
  /\ LeaseInit /\ [][OrphanNext]_vars
  /\ WF_vars(Tick /\ UNCHANGED <<worker, calls, jobVars>>)
  /\ WF_vars(TxStep(w1))

(***************************************************************************)
(* As long as another worker's leaseNext calls keep being answered, the    *)
(* lease of a worker that vanished ends: the job is queued again, granted  *)
(* to the other worker or dead-lettered.  Rows that an open transaction    *)
(* has locked are skipped by the reclaim, and a rollback gives them back.  *)
(***************************************************************************)
OrphanedLeaseEnds ==
  []<><<LeaseCommit(w2)>>_vars =>
    \A j \in Jobs : HeldBy(j, w1) ~> ~HeldBy(j, w1)

=============================================================================
