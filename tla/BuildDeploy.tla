---------------------------- MODULE BuildDeploy ----------------------------
(***************************************************************************)
(* Build and deploy servers that share PostgreSQL: every server keeps its  *)
(* jobs and the device lock in memory, the rows of build_execution_jobs    *)
(* carry their status, cancellation requests and the loss of a server, and *)
(* an advisory lock makes builds of one target exclusive.                  *)
(*                                                                         *)
(* JavaScript runs one handler up to its next await: an action is such a   *)
(* segment, together with the statement it awaits where nothing else of    *)
(* the job happens in between.                                             *)
(***************************************************************************)
EXTENDS FiniteSets

CONSTANTS
  Servers,          \* worker_id of the build servers
  Jobs,
  Devices, NoDevice,
  DeviceOf,         \* job -> device_id
  Targets, NoTarget,
  TargetOf,         \* job -> buildTargetKey
  Projects,
  ProjectOf,        \* job -> project_id
  NoJob, NoServer

ASSUME BuildAssumption ==
  /\ DeviceOf \in [Jobs -> Devices \cup {NoDevice}] /\ NoDevice \notin Devices
  /\ TargetOf \in [Jobs -> Targets \cup {NoTarget}] /\ NoTarget \notin Targets
  /\ ProjectOf \in [Jobs -> Projects]
  /\ NoJob \notin Jobs /\ NoServer \notin Servers

VARIABLES
  job,              \* the jobs in the memory of their server
  saves,            \* job -> status being written and status to be written next
  active, waiting,  \* DeviceJobLock of every server
  row,              \* build_execution_jobs
  holder,           \* target -> job that holds the advisory lock
  fresh,            \* server -> its heartbeat is younger than staleMs
  up,               \* servers whose process runs
  answers,          \* jobs whose cancelJob awaits the answer of the database
  cleaning          \* <<server, project>>: cleanProjectCache has passed its checks

vars == <<job, saves, active, waiting, row, holder, fresh, up, answers, cleaning>>

Unfinished == {"accepted", "queued", "running", "cancelling"}
Final == {"succeeded", "failed", "replaced", "cancelled"}
Status == {"absent"} \cup Unfinished \cup Final

\* Where the handler of a job stands; "gone" when its process died.
Pc == {"out", "inserted", "queued", "locking", "building", "cleanup", "closing",
       "flushing", "dequeued", "done", "gone"}

Job == [at : Servers \cup {NoServer}, pc : Pc, status : Status, aborted : BOOLEAN,
        output : {"none", "artifacts", "deployed"}]

NewJob == [at |-> NoServer, pc |-> "out", status |-> "absent", aborted |-> FALSE,
           output |-> "none"]

Row == [status : Status, worker : Servers \cup {NoServer}, lost : BOOLEAN]
NewRow == [status |-> "absent", worker |-> NoServer, lost |-> FALSE]

Saves == [sending : Status, latest : Status]
NoSaves == [sending |-> "absent", latest |-> "absent"]

\* Between the grant of the target and its release: the task and its `finally`.
InTask(j) == job[j].pc \in {"building", "cleanup"}

\* startJob has called runJob, which has not settled yet; the poll for cancellations runs.
Underway(j) == job[j].pc \in {"locking", "building", "cleanup"}

TypeOK ==
  /\ job \in [Jobs -> Job]
  /\ saves \in [Jobs -> Saves]
  /\ active \in [Servers -> [Devices -> Jobs \cup {NoJob}]]
  /\ waiting \in [Servers -> [Devices -> Jobs \cup {NoJob}]]
  /\ row \in [Jobs -> Row]
  /\ holder \in [Targets -> Jobs \cup {NoJob}]
  /\ fresh \in [Servers -> BOOLEAN]
  /\ up \subseteq Servers
  /\ answers \subseteq Jobs
  /\ cleaning \subseteq Servers \X Projects
  /\ \A j \in Jobs : job[j].pc \in {"queued", "gone"} \/ job[j].status # "queued"

Init ==
  /\ job = [j \in Jobs |-> NewJob]
  /\ saves = [j \in Jobs |-> NoSaves]
  /\ active = [s \in Servers |-> [d \in Devices |-> NoJob]]
  /\ waiting = active
  /\ row = [j \in Jobs |-> NewRow]
  /\ holder = [t \in Targets |-> NoJob]
  /\ fresh = [s \in Servers |-> TRUE]
  /\ up = Servers
  /\ answers = {}
  /\ cleaning = {}

----------------------------------------------------------------------------
(* scheduleSharedPersist: one statement at a time, the latest status wins. *)

\* Mutant: what is reported while a statement runs is not remembered.
PersistOnlyIdle(sv, s) ==
  IF sv.sending = "absent" THEN [sending |-> s, latest |-> "absent"] ELSE sv

Persist(sv, s) ==
  IF sv.sending = "absent" THEN [sending |-> s, latest |-> "absent"]
  ELSE [sv EXCEPT !.latest = s]

\* Mutant: the progress is reported when the new status is saved already.
ReportAfter(j, s) == Persist(Persist(saves[j], s), job[j].status)

\* reportProgress saves the status of before, then the new one is saved.
Report(j, s) == Persist(Persist(saves[j], job[j].status), s)

CancelRequested(j) == row[j].status \in {"cancelling", "cancelled"}

\* Mutant: a late result overwrites a requested cancellation.
MaySaveLate(j, s) == ~row[j].lost

\* Mutant: a server that was given up for lost still reports.
MaySaveLost(j, s) == ~CancelRequested(j) \/ s \in {"cancelled", "failed"}

\* The WHERE clause of saveJob; a lost row stays "failed".
MaySave(j, s) ==
  /\ ~row[j].lost
  /\ ~CancelRequested(j) \/ s \in {"cancelled", "failed"}

\* Mutant: a refused save goes unnoticed.
SaveThrowsNever(j, s) == FALSE

\* A refused save counts as done while the row is being cancelled and the job, by
\* now, has not ended as cancelled or failed; else it throws.
SaveThrows(j, s) ==
  ~MaySave(j, s) /\ ~(CancelRequested(j) /\ job[j].status \notin {"cancelled", "failed"})

Saved(j, s) == [row[j] EXCEPT !.status = s, !.worker = job[j].at]

SaveStatement(j) ==
  LET s == saves[j].sending IN
  /\ s # "absent"
  /\ row' = IF MaySave(j, s) THEN [row EXCEPT ![j] = Saved(j, s)] ELSE row
  /\ fresh' = IF MaySave(j, s) THEN [fresh EXCEPT ![job[j].at] = TRUE] ELSE fresh
  /\ saves' = [saves EXCEPT ![j] =
                 IF SaveThrows(j, s) THEN [@ EXCEPT !.sending = "absent"]
                 ELSE [sending |-> @.latest, latest |-> "absent"]]
  /\ UNCHANGED <<job, active, waiting, holder, up, answers, cleaning>>

----------------------------------------------------------------------------
(* Submission and the device lock.                                         *)

SubmitJob(s, j) ==
  /\ s \in up
  /\ row[j].status = "absent"
  /\ row' = [row EXCEPT ![j] = [status |-> "accepted", worker |-> s, lost |-> FALSE]]
  /\ job' = [job EXCEPT ![j] = [@ EXCEPT !.at = s, !.pc = "inserted"]]
  /\ UNCHANGED <<saves, active, waiting, holder, fresh, up, answers, cleaning>>

\* What a map of the device lock of s holds for the device of j.
Held(map, s, j) == IF DeviceOf[j] = NoDevice THEN NoJob ELSE map[s][DeviceOf[j]]

CanStart(s, j) == Held(active, s, j) = NoJob

MarkActive(s, j) ==
  IF DeviceOf[j] = NoDevice THEN active ELSE [active EXCEPT ![s][DeviceOf[j]] = j]

Started(j) == [job[j] EXCEPT !.pc = "locking", !.status = "running", !.aborted = FALSE]

\* The rest of submitJob once registerJob has answered.
AdmitJob(j) ==
  LET s == job[j].at
      d == DeviceOf[j]
  IN
  /\ job[j].pc = "inserted"
  /\ \/ /\ CanStart(s, j)
        /\ job' = [job EXCEPT ![j] = Started(j)]
        /\ active' = MarkActive(s, j)
        /\ saves' = [saves EXCEPT ![j] = Persist(Persist(@, "accepted"), "running")]
        /\ UNCHANGED waiting
     \/ /\ ~CanStart(s, j)
        /\ LET replaced == {k \in Jobs : k = Held(waiting, s, j) /\ job[k].status = "queued"} IN
           /\ job' = [k \in Jobs |->
                CASE k = j -> [job[k] EXCEPT !.pc = "queued", !.status = "queued"]
                  [] k \in replaced -> [job[k] EXCEPT !.pc = "done", !.status = "replaced"]
                  [] OTHER -> job[k]]
           /\ saves' = [k \in Jobs |->
                CASE k = j -> Persist(Persist(saves[k], "accepted"), "queued")
                  [] k \in replaced -> Persist(saves[k], "replaced")
                  [] OTHER -> saves[k]]
        /\ waiting' = [waiting EXCEPT ![s][d] = j]
        /\ UNCHANGED active
  /\ UNCHANGED <<row, holder, fresh, up, answers, cleaning>>

----------------------------------------------------------------------------
(* Running a job.                                                          *)

\* Mutant: the advisory lock is not asked.
TakeTargetLockAnyway(j) ==
  /\ job[j].pc = "locking" /\ ~job[j].aborted
  /\ job' = [job EXCEPT ![j] = [@ EXCEPT !.pc = "building"]]
  /\ holder' = IF TargetOf[j] = NoTarget THEN holder ELSE [holder EXCEPT ![TargetOf[j]] = j]
  /\ UNCHANGED <<saves, active, waiting, row, fresh, up, answers, cleaning>>

\* runJob up to the task: cache, cache generation, advisory lock of the target.
TakeTargetLock(j) ==
  /\ job[j].pc = "locking" /\ ~job[j].aborted
  /\ \/ TargetOf[j] = NoTarget /\ UNCHANGED holder
     \/ /\ TargetOf[j] # NoTarget /\ holder[TargetOf[j]] = NoJob
        /\ holder' = [holder EXCEPT ![TargetOf[j]] = j]
  /\ job' = [job EXCEPT ![j] = [@ EXCEPT !.pc = "building"]]
  /\ UNCHANGED <<saves, active, waiting, row, fresh, up, answers, cleaning>>

Unlocked(j) == [t \in Targets |-> IF holder[t] = j THEN NoJob ELSE holder[t]]

\* A stage of the task ends; the next one starts unless the job was aborted.
Stage(j, from, to) ==
  /\ job[j].pc = "building" /\ job[j].output = from /\ ~job[j].aborted
  /\ job' = [job EXCEPT ![j] = [@ EXCEPT !.output = to]]
  /\ UNCHANGED <<saves, active, waiting, row, holder, fresh, up, answers, cleaning>>

SaveArtifacts(j) == Stage(j, "none", "artifacts")
CreateDeploy(j) == Stage(j, "artifacts", "deployed")

\* The end of the task: the success is saved before the workspace is removed.
Succeed(j) ==
  /\ job[j].pc = "building" /\ job[j].output = "deployed" /\ ~job[j].aborted
  /\ job' = [job EXCEPT ![j] = [@ EXCEPT !.pc = "cleanup", !.status = "succeeded"]]
  /\ saves' = [saves EXCEPT ![j] = Report(j, "succeeded")]
  /\ UNCHANGED <<active, waiting, row, holder, fresh, up, answers, cleaning>>

CleanUp(j) ==
  /\ job[j].pc = "cleanup"
  /\ job' = [job EXCEPT ![j] = [@ EXCEPT !.pc = "closing"]]
  /\ holder' = Unlocked(j)
  /\ UNCHANGED <<saves, active, waiting, row, fresh, up, answers, cleaning>>

\* The catch of startJob.
Close(j, s) ==
  /\ Underway(j)
  /\ job' = [job EXCEPT ![j] = [@ EXCEPT !.pc = "closing", !.status = s]]
  /\ saves' = [saves EXCEPT ![j] = Report(j, s)]
  /\ holder' = Unlocked(j)
  /\ UNCHANGED <<active, waiting, row, fresh, up, answers, cleaning>>

\* A step of the task fails, or the removal of the workspace after its success.
FailJob(j) == ~job[j].aborted /\ Close(j, "failed")

\* throwIfCancelled, the poll of the lock, the signal given to the compiler, or
\* a failing removal of the workspace once the job has been aborted.
StopAborted(j) == job[j].aborted /\ Close(j, "cancelled")

\* Mutant: the device stays taken when its job ends.
ReleasedNever(s, j) == active

Released(s, j) ==
  IF Held(active, s, j) = j
  THEN [active EXCEPT ![s][DeviceOf[j]] = NoJob] ELSE active

\* applyLateCancellation, then the device is released and the final status saved.
LateCheck(j) ==
  LET late == job[j].status = "succeeded" /\ CancelRequested(j)
      s == IF late THEN "cancelled" ELSE job[j].status
  IN
  /\ job[j].pc = "closing"
  /\ job' = [job EXCEPT ![j] = [@ EXCEPT !.pc = "flushing", !.status = s]]
  /\ saves' = [saves EXCEPT ![j] = Persist(@, s)]
  /\ active' = Released(job[j].at, j)
  /\ UNCHANGED <<waiting, row, holder, fresh, up, answers, cleaning>>

\* flushSharedJob repeats the save; then the job waiting for the device starts.
FlushJob(j) ==
  LET s == job[j].at
      d == DeviceOf[j]
      status == job[j].status
      next == {k \in Jobs : k = Held(waiting, s, j) /\ job[k].status = "queued"}
  IN
  /\ job[j].pc = "flushing" /\ saves[j].sending = "absent"
  /\ row' = IF MaySave(j, status) THEN [row EXCEPT ![j] = Saved(j, status)] ELSE row
  /\ fresh' = IF MaySave(j, status) THEN [fresh EXCEPT ![s] = TRUE] ELSE fresh
  /\ job' = [k \in Jobs |->
       CASE k = j -> [job[k] EXCEPT !.pc = "done",
                        !.status = IF SaveThrows(j, status) THEN "failed" ELSE status]
         [] k \in next -> Started(k)
         [] OTHER -> job[k]]
  /\ saves' = [k \in Jobs |-> IF k \in next THEN Persist(saves[k], "running") ELSE saves[k]]
  /\ waiting' = IF d = NoDevice THEN waiting ELSE [waiting EXCEPT ![s][d] = NoJob]
  /\ active' = IF next = {} THEN active
               ELSE [active EXCEPT ![s][d] = CHOOSE k \in next : TRUE]
  /\ UNCHANGED <<holder, up, answers, cleaning>>

----------------------------------------------------------------------------
(* Cancellation.                                                           *)

\* requestCancellation; `here`: the call reached the server that knows the job.
RequestCancellation(j, here) ==
  /\ row[j].status \in Unfinished
  /\ here => job[j].pc \notin {"out", "inserted", "gone"}
  /\ row' = [row EXCEPT ![j] = [@ EXCEPT !.status = "cancelling"]]
  /\ answers' = IF here THEN answers \cup {j} ELSE answers
  /\ UNCHANGED <<job, saves, active, waiting, holder, fresh, up, cleaning>>

\* Mutant: the job leaves the queue but keeps its status.
CancelQueuedHalf(j) ==
  /\ job' = [job EXCEPT ![j] = [@ EXCEPT !.pc = "dequeued"]]
  /\ waiting' = IF Held(waiting, job[j].at, j) = j
                THEN [waiting EXCEPT ![job[j].at][DeviceOf[j]] = NoJob] ELSE waiting
  /\ UNCHANGED saves

\* cancelWaiting and the final status.
CancelQueued(j) ==
  LET s == job[j].at
      d == DeviceOf[j]
  IN
  /\ job' = [job EXCEPT ![j] = [@ EXCEPT !.pc = "dequeued", !.status = "cancelled"]]
  /\ saves' = [saves EXCEPT ![j] = Persist(@, "cancelled")]
  /\ waiting' = IF Held(waiting, s, j) = j THEN [waiting EXCEPT ![s][d] = NoJob]
                ELSE waiting

\* flushSharedJob at the end of cancelQueuedJob.
FlushQueued(j) ==
  LET s == job[j].status IN
  /\ job[j].pc = "dequeued" /\ saves[j].sending = "absent"
  /\ row' = IF MaySave(j, s) THEN [row EXCEPT ![j] = Saved(j, s)] ELSE row
  /\ fresh' = IF MaySave(j, s) THEN [fresh EXCEPT ![job[j].at] = TRUE] ELSE fresh
  /\ job' = [job EXCEPT ![j] = [@ EXCEPT !.pc = "done"]]
  /\ UNCHANGED <<saves, active, waiting, holder, up, answers, cleaning>>

\* cancelJob once the database has answered that the row was active.
CancelLocal(j) ==
  /\ j \in answers
  /\ answers' = answers \ {j}
  /\ \/ job[j].status = "queued" /\ CancelQueued(j)
     \/ /\ job[j].status # "queued"
        /\ job' = [job EXCEPT ![j] = [@ EXCEPT !.status = "cancelling", !.aborted = TRUE]]
        /\ saves' = [saves EXCEPT ![j] = Persist(@, "cancelling")]
        /\ UNCHANGED waiting
  /\ UNCHANGED <<active, row, holder, fresh, up, cleaning>>

\* The poll of a queued job.
QueuedMonitor(j) ==
  /\ job[j].pc = "queued" /\ CancelRequested(j)
  /\ CancelQueued(j)
  /\ UNCHANGED <<active, row, holder, fresh, up, answers, cleaning>>

\* The poll of a running job.
RunningMonitor(j) ==
  /\ Underway(j) /\ ~job[j].aborted /\ CancelRequested(j)
  /\ job' = [job EXCEPT ![j] = [@ EXCEPT !.aborted = TRUE]]
  /\ UNCHANGED <<saves, active, waiting, row, holder, fresh, up, answers, cleaning>>

----------------------------------------------------------------------------
(* Servers: crash, restart, heartbeats, loss.                              *)

\* Mutant: only running jobs of a lost server are failed.
FailedRowsRunning ==
  [j \in Jobs |-> IF row[j].status = "running" /\ ~fresh[row[j].worker]
                  THEN [row[j] EXCEPT !.status = "failed", !.lost = TRUE] ELSE row[j]]

\* failJobsFromStaleWorkers
FailedRows ==
  [j \in Jobs |-> IF row[j].status \in Unfinished /\ ~fresh[row[j].worker]
                  THEN [row[j] EXCEPT !.status = "failed", !.lost = TRUE] ELSE row[j]]

\* The process ends: its memory, its statements and its database session are gone.
Crash(s) ==
  LET mine == {j \in Jobs : job[j].at = s /\ job[j].pc # "gone"} IN
  /\ s \in up
  /\ up' = up \ {s}
  /\ job' = [j \in Jobs |-> IF j \in mine THEN [job[j] EXCEPT !.pc = "gone"] ELSE job[j]]
  /\ saves' = [j \in Jobs |-> IF j \in mine THEN NoSaves ELSE saves[j]]
  /\ active' = [active EXCEPT ![s] = [d \in Devices |-> NoJob]]
  /\ waiting' = [waiting EXCEPT ![s] = [d \in Devices |-> NoJob]]
  /\ holder' = [t \in Targets |-> IF holder[t] \in mine THEN NoJob ELSE holder[t]]
  /\ answers' = answers \ mine
  /\ cleaning' = {c \in cleaning : c[1] # s}
  /\ UNCHANGED <<row, fresh>>

\* PostgresBuildCoordination.create
Restart(s) ==
  /\ s \notin up
  /\ up' = up \cup {s}
  /\ row' = FailedRows
  /\ fresh' = [fresh EXCEPT ![s] = TRUE]
  /\ UNCHANGED <<job, saves, active, waiting, holder, answers, cleaning>>

\* No heartbeat for staleMs: the server is down, or its process hangs.
GoStale(s) ==
  /\ fresh[s]
  /\ fresh' = [fresh EXCEPT ![s] = FALSE]
  /\ UNCHANGED <<job, saves, active, waiting, row, holder, up, answers, cleaning>>

\* The own heartbeat first, then the jobs of every stale server are failed.
Heartbeat(s) ==
  /\ s \in up
  /\ fresh' = [fresh EXCEPT ![s] = TRUE]
  /\ row' = [j \in Jobs |-> IF row[j].worker = s THEN row[j] ELSE FailedRows[j]]
  /\ UNCHANGED <<job, saves, active, waiting, holder, up, answers, cleaning>>

----------------------------------------------------------------------------
(* cleanProjectCache: two checks, the new cache generation, the removal.   *)

CleanCheck(s, p) ==
  /\ s \in up
  /\ \A j \in Jobs : ProjectOf[j] = p =>
       /\ row[j].status \notin Unfinished
       /\ job[j].at = s /\ job[j].pc \notin {"inserted", "gone"}
            => job[j].status \notin Unfinished
  /\ cleaning' = cleaning \cup {<<s, p>>}
  /\ UNCHANGED <<job, saves, active, waiting, row, holder, fresh, up, answers>>

CleanRemove(s, p) ==
  /\ <<s, p>> \in cleaning
  /\ cleaning' = cleaning \ {<<s, p>>}
  /\ UNCHANGED <<job, saves, active, waiting, row, holder, fresh, up, answers>>

----------------------------------------------------------------------------

\* The handlers of one job, the steps that need no further request.
Handler(j) ==
  \/ AdmitJob(j)
  \/ TakeTargetLock(j)
  \/ SaveArtifacts(j)
  \/ CreateDeploy(j)
  \/ Succeed(j)
  \/ CleanUp(j)
  \/ FailJob(j)
  \/ StopAborted(j)
  \/ LateCheck(j)
  \/ FlushJob(j)
  \/ FlushQueued(j)

Cancellation(j) ==
  \/ \E here \in BOOLEAN : RequestCancellation(j, here)
  \/ CancelLocal(j)
  \/ QueuedMonitor(j)
  \/ RunningMonitor(j)

ServerStep(s) == Crash(s) \/ Restart(s) \/ GoStale(s) \/ Heartbeat(s)

CleanStep(s, p) == CleanCheck(s, p) \/ CleanRemove(s, p)

Next ==
  \/ \E s \in Servers, j \in Jobs : SubmitJob(s, j)
  \/ \E j \in Jobs : Handler(j) \/ SaveStatement(j) \/ Cancellation(j)
  \/ \E s \in Servers : ServerStep(s)
  \/ \E s \in Servers, p \in Projects : CleanStep(s, p)

Spec == Init /\ [][Next]_vars

----------------------------------------------------------------------------
(* Properties.                                                             *)

(***************************************************************************)
(* At most one build per target at a time, over all servers, also when a   *)
(* server dies inside a build (the lock goes with its session).            *)
(***************************************************************************)
TargetExclusive ==
  \A j, k \in Jobs :
    InTask(j) /\ InTask(k) /\ TargetOf[j] = TargetOf[k] /\ TargetOf[j] # NoTarget => j = k

(***************************************************************************)
(* A queued job is the one its device lock remembers, and somebody will    *)
(* start it: the device is taken, or its last job is just being finished.  *)
(***************************************************************************)
NoStrandedWaiter ==
  \A j \in Jobs : job[j].pc = "queued" =>
    LET s == job[j].at
        d == DeviceOf[j]
    IN
    /\ Held(waiting, s, j) = j
    /\ \E k \in Jobs : /\ job[k].at = s /\ DeviceOf[k] = d
                       /\ \/ Held(active, s, j) = k /\ (Underway(k) \/ job[k].pc = "closing")
                          \/ job[k].pc = "flushing"

(***************************************************************************)
(* Although saves are coalesced and refused, no job that has ended is left *)
(* in the database as one that is still to run or running, and one that    *)
(* was cancelled or failed has that status there too.                      *)
(***************************************************************************)
EndedJobSaved ==
  \A j \in Jobs :
    job[j].pc = "done" /\ saves[j].sending = "absent" =>
      /\ row[j].status \in Final \cup {"cancelling"}
      /\ job[j].status \in {"cancelled", "failed"} =>
           row[j].status = job[j].status \/ row[j].lost

(***************************************************************************)
(* A cancellation accepted by the database is never answered by a success, *)
(* a restart or a replacement, whatever saves of the job are under way.    *)
(***************************************************************************)
CancellationKept ==
  [][\A j \in Jobs : CancelRequested(j)
        => row'[j].status \in {"cancelling", "cancelled", "failed"}]_row

(***************************************************************************)
(* A job given up as worker_lost stays so, even if the server that was     *)
(* taken for dead still finishes it.                                       *)
(***************************************************************************)
WorkerLostIsFinal ==
  [][\A j \in Jobs : row[j].lost => row'[j] = row[j]]_row

(***************************************************************************)
(* A server that finishes a job given up as worker_lost does not tell its  *)
(* own callers success: the refused save turns the local status too.       *)
(***************************************************************************)
LostJobNotReported ==
  [][\A j \in Jobs :
       row[j].lost /\ job[j].pc # "done" /\ job'[j].pc = "done"
         => job'[j].status # "succeeded"]_job

(***************************************************************************)
(* README: at most one active build or deploy job per device.              *)
(***************************************************************************)
OneJobPerDevice ==
  \A j, k \in Jobs :
    InTask(j) /\ InTask(k) /\ DeviceOf[j] = DeviceOf[k] /\ DeviceOf[j] # NoDevice => j = k

(***************************************************************************)
(* A queued job leaves the queue: started, replaced or cancelled.          *)
(***************************************************************************)
QueueMoves == \A j \in Jobs : (job[j].pc = "queued") ~> (job[j].pc # "queued")

(***************************************************************************)
(* The row of a job whose server died does not stay unfinished.            *)
(***************************************************************************)
OrphansFail == \A j \in Jobs : (job[j].pc = "gone") ~> (row[j].status \in Final)

(***************************************************************************)
(* What clients see of a job, its row, follows the life cycle that         *)
(* BuildLifecycle promises: coalesced, repeated, late and refused saves    *)
(* never take a job back (scheduleSharedPersist, saveJob).                 *)
(***************************************************************************)
LifeOf(j) == [status |-> row[j].status, lost |-> row[j].lost]
Lifecycle == INSTANCE BuildLifecycle WITH life <- [j \in Jobs |-> LifeOf(j)]
LifecycleSpec == Lifecycle!Spec

=============================================================================
