--------------------------- MODULE WorkerRegistry ---------------------------
(***************************************************************************)
(* The worker registry of the compute control plane: the rows of the table *)
(* compute_workers and the calls register, heartbeat and drain on them.    *)
(*                                                                         *)
(* Every call is a request of its own.  The service stamps it with the     *)
(* time it read (`at`), awaits the database, and the statement that        *)
(* finally changes the row runs later, in any order with those of other    *)
(* requests.  Control-plane replicas and the database share one clock.     *)
(***************************************************************************)
EXTENDS Integers, FiniteSets

CONSTANTS
  Workers,        \* worker_id
  Instances,      \* instance_id
  NoInstance,     \* the instance of a worker id that has no row
  LeaseTtl,       \* leaseTtlMs, in clock ticks
  MaxClock,       \* bound: the clock stops here
  MaxCalls        \* bound: registry calls in flight at a time

ASSUME RegistryAssumption ==
  /\ LeaseTtl \in Nat \ {0}
  /\ MaxClock \in Nat
  /\ MaxCalls \in Nat
  /\ NoInstance \notin Instances

VARIABLES
  clock,          \* the time every replica reads
  worker,         \* the rows of compute_workers
  calls           \* registry calls between their time stamp and their statement

registryVars == <<worker, calls>>

\* A slot count only matters as zero or more (workerCanRun, leaseNext).
WorkerRow ==
  [instance : Instances \cup {NoInstance}, draining : BOOLEAN,
   free : BOOLEAN, last_heartbeat_at : Nat]

NoRow == [instance |-> NoInstance, draining |-> FALSE, free |-> FALSE,
          last_heartbeat_at |-> 0]

Call ==
  [op : {"register", "heartbeat", "drain"}, worker : Workers, instance : Instances,
   draining : BOOLEAN, free : BOOLEAN, at : Nat]

RegistryTypeOK ==
  /\ clock \in Nat
  /\ worker \in [Workers -> WorkerRow]
  /\ calls \subseteq Call

RegistryInit ==
  /\ clock = 0
  /\ worker = [w \in Workers |-> NoRow]
  /\ calls = {}

Tick ==
  /\ clock < MaxClock
  /\ clock' = clock + 1

Send(c) ==
  /\ Cardinality(calls) < MaxCalls
  /\ calls' = calls \cup {c}
  /\ UNCHANGED <<clock, worker>>

(***************************************************************************)
(* registerWorker: stamp, read the row, refuse early when another instance *)
(* was heard of within two lease times; the upsert is still to come.       *)
(***************************************************************************)
RegisterWorker(w, i, draining, free) ==
  /\ \/ worker[w].instance \in {NoInstance, i}
     \/ clock - worker[w].last_heartbeat_at > 2 * LeaseTtl
  /\ Send([op |-> "register", worker |-> w, instance |-> i,
           draining |-> draining, free |-> free, at |-> clock])

\* heartbeat: no read before the locked patch.
Heartbeat(w, i, draining, free) ==
  Send([op |-> "heartbeat", worker |-> w, instance |-> i,
        draining |-> draining, free |-> free, at |-> clock])

\* drain: the service first checks that the caller's instance owns the row.
Drain(w, i, draining) ==
  /\ worker[w].instance = i
  /\ Send([op |-> "drain", worker |-> w, instance |-> i,
           draining |-> draining, free |-> FALSE, at |-> clock])

\* Mutant: the upsert trusts the check registerWorker made earlier.
MayReplaceUnchecked(row, c) == TRUE

\* saveWorker: INSERT ... ON CONFLICT DO UPDATE ... WHERE, one statement.
MayReplace(row, c) ==
  \/ row.instance \in {NoInstance, c.instance}
  \/ row.last_heartbeat_at < c.at - 2 * LeaseTtl

SaveWorker(c) ==
  /\ c.op = "register"
  /\ worker' = IF MayReplace(worker[c.worker], c)
               THEN [worker EXCEPT ![c.worker] =
                       [instance |-> c.instance, draining |-> c.draining,
                        free |-> c.free, last_heartbeat_at |-> c.at]]
               ELSE worker
  /\ calls' = calls \ {c}
  /\ UNCHANGED clock

(***************************************************************************)
(* #patchWorker for heartbeat and setWorkerDraining: the row is read and   *)
(* written under its lock, and only for the instance that owns it.         *)
(***************************************************************************)
Patched(row, c) ==
  [row EXCEPT !.draining = c.draining,
              !.free = IF c.op = "heartbeat" THEN c.free ELSE row.free,
              !.last_heartbeat_at = c.at]

PatchWorker(c) ==
  /\ c.op \in {"heartbeat", "drain"}
  /\ worker' = IF worker[c.worker].instance = c.instance
               THEN [worker EXCEPT ![c.worker] = Patched(worker[c.worker], c)]
               ELSE worker
  /\ calls' = calls \ {c}
  /\ UNCHANGED clock

\* The replica dies or the database refuses: the call has no effect.
LoseCall(c) ==
  /\ calls' = calls \ {c}
  /\ UNCHANGED <<clock, worker>>

RegistryStep ==
  \/ \E w \in Workers, i \in Instances, d, f \in BOOLEAN : RegisterWorker(w, i, d, f)
  \/ \E w \in Workers, i \in Instances, d, f \in BOOLEAN : Heartbeat(w, i, d, f)
  \/ \E w \in Workers, i \in Instances, d \in BOOLEAN : Drain(w, i, d)
  \/ \E c \in calls : SaveWorker(c)
  \/ \E c \in calls : PatchWorker(c)
  \/ \E c \in calls : LoseCall(c)

(***************************************************************************)
(* An instance that was heard of within two lease times keeps its worker   *)
(* id, whatever registrations of other instances are in flight: the early  *)
(* check of registerWorker alone could not guarantee it.                   *)
(***************************************************************************)
ActiveInstanceKept ==
  [][\A w \in Workers :
       \/ worker'[w].instance = worker[w].instance
       \/ worker[w].instance = NoInstance
       \/ clock - worker[w].last_heartbeat_at > 2 * LeaseTtl]_worker

=============================================================================
