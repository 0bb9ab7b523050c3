------------------------- MODULE BuildDeployProofs -------------------------
(***************************************************************************)
(* Theorems about BuildDeploy for every number of servers, jobs, devices   *)
(* and targets.                                                            *)
(***************************************************************************)
EXTENDS BuildDeploy, TLAPS

(***************************************************************************)
(* Where a job is: its server is known once it was submitted, its status   *)
(* follows its handler, and no answer is awaited for a job without process.*)
(***************************************************************************)
PlaceInv ==
  \A j \in Jobs :
    /\ job[j].pc = "out" => job[j].at = NoServer
    /\ job[j].pc # "out" => job[j].at \in Servers /\ row[j].status # "absent"
    /\ job[j].pc = "queued" => job[j].status = "queued"
    /\ job[j].pc = "dequeued" => job[j].status \in {"cancelled", "cancelling"}
    /\ job[j].pc \notin {"out", "inserted", "gone"} => job[j].status # "absent"
    /\ j \in answers => job[j].pc \notin {"out", "inserted", "gone"}

\* A job that failed as worker_lost has that status.
LostInv == \A j \in Jobs : row[j].lost => row[j].status = "failed"

\* A task holds the advisory lock of its target.
HolderInv ==
  \A j \in Jobs : InTask(j) /\ TargetOf[j] # NoTarget => holder[TargetOf[j]] = j

Running == {"locking", "building", "cleanup", "closing"}

\* The device lock remembers jobs of its server and device that are under way.
ActiveInv ==
  \A s \in Servers, d \in Devices :
    active[s][d] # NoJob =>
      LET k == active[s][d] IN job[k].at = s /\ DeviceOf[k] = d /\ job[k].pc \in Running

WaitingInv ==
  \A s \in Servers, d \in Devices :
    waiting[s][d] # NoJob =>
      LET k == waiting[s][d]
      IN  job[k].at = s /\ DeviceOf[k] = d /\ job[k].pc \notin {"out", "inserted", "gone"}

\* k will start the job waiting for device d of server s when it ends.
Starts(k, s, d) ==
  /\ job[k].at = s /\ DeviceOf[k] = d
  /\ active[s][d] = k \/ job[k].pc = "flushing"

QueueInv ==
  \A j \in Jobs : job[j].pc = "queued" =>
    /\ DeviceOf[j] \in Devices
    /\ waiting[job[j].at][DeviceOf[j]] = j
    /\ \E k \in Jobs : Starts(k, job[j].at, DeviceOf[j])

\* The device locks of all servers are in order.
DevicesInv == ActiveInv /\ WaitingInv /\ QueueInv

IInv == TypeOK /\ PlaceInv /\ DevicesInv /\ LostInv /\ HolderInv

----------------------------------------------------------------------------
(* Types.                                                                   *)

\* Persisting a status keeps the type of the queue of saves.
LEMMA PersistType ==
  ASSUME NEW sv \in Saves, NEW s \in Status
  PROVE  Persist(sv, s) \in Saves
BY DEF Persist, Saves, Status

\* The fields of a job, one by one.
LEMMA JobFields ==
  ASSUME NEW r \in Job
  PROVE  /\ r.at \in Servers \cup {NoServer} /\ r.pc \in Pc /\ r.status \in Status
         /\ r.aborted \in BOOLEAN /\ r.output \in {"none", "artifacts", "deployed"}
BY DEF Job

\* A job that starts, field by field.
LEMMA StartedFields ==
  ASSUME NEW j \in Jobs, job[j] \in Job
  PROVE  /\ Started(j) \in Job
         /\ Started(j).at = job[j].at
         /\ Started(j).pc = "locking"
         /\ Started(j).status = "running" /\ Started(j).aborted = FALSE
BY DEF Started, Job, Pc, Status, Unfinished, Final

\* A row that is saved, field by field.
LEMMA SavedFields ==
  ASSUME NEW j \in Jobs, job[j] \in Job, row[j] \in Row, NEW s \in Status
  PROVE  /\ Saved(j, s) \in Row
         /\ Saved(j, s).status = s
         /\ Saved(j, s).lost = row[j].lost
BY DEF Saved, Row, Job

\* The rows of stale servers, field by field.
LEMMA FailedRowsFields ==
  ASSUME row \in [Jobs -> Row]
  PROVE  /\ FailedRows \in [Jobs -> Row]
         /\ \A j \in Jobs :
              \/ FailedRows[j] = row[j]
              \/ /\ FailedRows[j].status = "failed" /\ FailedRows[j].lost
                 /\ row[j].status \in Unfinished
<1>1. ASSUME NEW j \in Jobs
      PROVE  /\ FailedRows[j] \in Row
             /\ \/ FailedRows[j] = row[j]
                \/ /\ FailedRows[j].status = "failed" /\ FailedRows[j].lost
                   /\ row[j].status \in Unfinished
  BY <1>1 DEF FailedRows, Row, Status, Final
<1> QED
  BY <1>1 DEF FailedRows

\* The initial states are well typed.
LEMMA InitType == Init => TypeOK
BY BuildAssumption DEF Init, TypeOK, NewJob, NewRow, NoSaves, Job, Row, Saves, Pc, Status, Unfinished,
  Final

\* Types of the parts of a job, a queue of saves and the device lock.
LEMMA PartTypes ==
  ASSUME TypeOK, NEW j \in Jobs
  PROVE  /\ job[j] \in Job /\ saves[j] \in Saves /\ row[j] \in Row
         /\ job[j].status \in Status /\ job[j].pc \in Pc
BY JobFields DEF TypeOK

\* What the device lock holds for a job.
LEMMA HeldType ==
  ASSUME NEW map \in [Servers -> [Devices -> Jobs \cup {NoJob}]], NEW s \in Servers,
         NEW j \in Jobs
  PROVE  /\ Held(map, s, j) \in Jobs \cup {NoJob}
         /\ Held(map, s, j) # NoJob =>
              DeviceOf[j] \in Devices /\ Held(map, s, j) = map[s][DeviceOf[j]]
BY BuildAssumption DEF Held

\* A device lock that changes at one place keeps its type.
LEMMA LockType ==
  ASSUME NEW map \in [Servers -> [Devices -> Jobs \cup {NoJob}]], NEW s, NEW d,
         NEW v \in Jobs \cup {NoJob}
  PROVE  [map EXCEPT ![s][d] = v] \in [Servers -> [Devices -> Jobs \cup {NoJob}]]
OBVIOUS

\* Admission keeps the types.
LEMMA AdmitType ==
  ASSUME TypeOK, NEW j \in Jobs, AdmitJob(j)
  PROVE  TypeOK'
<1> DEFINE s == job[j].at
<1> DEFINE d == DeviceOf[j]
<1>1. CASE CanStart(s, j)
  <2>1. /\ job' = [job EXCEPT ![j] = Started(j)]
        /\ active' = MarkActive(s, j)
        /\ saves' = [saves EXCEPT ![j] = Persist(Persist(@, "accepted"), "running")]
        /\ UNCHANGED <<waiting, row, holder, fresh, up, answers, cleaning>>
    BY <1>1 DEF AdmitJob
  <2>2. Started(j) \in Job /\ Started(j).status # "queued"
    BY PartTypes, StartedFields
  <2>3. Persist(Persist(saves[j], "accepted"), "running") \in Saves
    BY PartTypes, PersistType DEF Status, Unfinished
  <2>4. active' \in [Servers -> [Devices -> Jobs \cup {NoJob}]]
    BY <2>1, LockType DEF MarkActive, TypeOK
  <2> QED
    BY <2>1, <2>2, <2>3, <2>4 DEF TypeOK
<1>2. CASE ~CanStart(s, j)
  <2> DEFINE replaced == {k \in Jobs : k = Held(waiting, s, j) /\ job[k].status = "queued"}
  <2>1. /\ job' = [k \in Jobs |->
                CASE k = j -> [job[k] EXCEPT !.pc = "queued", !.status = "queued"]
                  [] k \in replaced -> [job[k] EXCEPT !.pc = "done", !.status = "replaced"]
                  [] OTHER -> job[k]]
        /\ saves' = [k \in Jobs |->
                CASE k = j -> Persist(Persist(saves[k], "accepted"), "queued")
                  [] k \in replaced -> Persist(saves[k], "replaced")
                  [] OTHER -> saves[k]]
        /\ waiting' = [waiting EXCEPT ![s][d] = j]
        /\ UNCHANGED <<active, row, holder, fresh, up, answers, cleaning>>
    BY <1>2 DEF AdmitJob
  <2> HIDE DEF replaced
  <2>2. ASSUME NEW k \in Jobs
        PROVE  /\ job'[k] \in Job /\ saves'[k] \in Saves
               /\ job'[k].pc \in {"queued", "gone"} \/ job'[k].status # "queued"
    <3>1. "accepted" \in Status /\ "queued" \in Status /\ "replaced" \in Status
      BY DEF Status, Unfinished, Final
    <3>2. job[k] \in Job /\ saves[k] \in Saves
      BY PartTypes
    <3>3. saves'[k] \in Saves
      BY <2>1, <3>1, <3>2, PersistType
    <3>4. CASE k = j
      <4>1. j \notin replaced
        BY DEF AdmitJob, TypeOK, replaced
      <4>2. job'[k] = [job[k] EXCEPT !.pc = "queued", !.status = "queued"]
        BY <2>1, <3>4, <4>1
      <4> QED
        BY <3>1, <3>2, <3>3, <4>2 DEF Job, Pc
    <3>5. CASE k # j /\ k \in replaced
      BY <2>1, <3>2, <3>3, <3>5 DEF Job, Pc, Status, Final
    <3>6. CASE k # j /\ k \notin replaced
      BY <2>1, <3>2, <3>3, <3>6 DEF TypeOK
    <3> QED
      BY <3>4, <3>5, <3>6
  <2>3. job' \in [Jobs -> Job] /\ saves' \in [Jobs -> Saves]
    <3> DEFINE J(k) == CASE k = j -> [job[k] EXCEPT !.pc = "queued", !.status = "queued"]
                         [] k \in replaced -> [job[k] EXCEPT !.pc = "done", !.status = "replaced"]
                         [] OTHER -> job[k]
    <3> DEFINE S(k) == CASE k = j -> Persist(Persist(saves[k], "accepted"), "queued")
                         [] k \in replaced -> Persist(saves[k], "replaced")
                         [] OTHER -> saves[k]
    <3>1. job' = [k \in Jobs |-> J(k)] /\ saves' = [k \in Jobs |-> S(k)]
      BY <2>1
    <3> HIDE DEF J, S
    <3> QED
      BY <2>2, <3>1
  <2>4. waiting' \in [Servers -> [Devices -> Jobs \cup {NoJob}]]
    BY <2>1, LockType DEF TypeOK
  <2> QED
    BY <2>1, <2>2, <2>3, <2>4 DEF TypeOK
<1> QED
  BY <1>1, <1>2

\* The end of a job keeps the types.
LEMMA FlushType ==
  ASSUME TypeOK, NEW j \in Jobs, FlushJob(j)
  PROVE  TypeOK'
<1> DEFINE s == job[j].at
<1> DEFINE d == DeviceOf[j]
<1> DEFINE status == job[j].status
<1> DEFINE next == {k \in Jobs : k = Held(waiting, s, j) /\ job[k].status = "queued"}
<1>1. /\ job[j].pc = "flushing"
      /\ row' = IF MaySave(j, status) THEN [row EXCEPT ![j] = Saved(j, status)] ELSE row
      /\ fresh' = IF MaySave(j, status) THEN [fresh EXCEPT ![s] = TRUE] ELSE fresh
      /\ job' = [k \in Jobs |->
           CASE k = j -> [job[k] EXCEPT !.pc = "done",
                            !.status = IF SaveThrows(j, status) THEN "failed" ELSE status]
             [] k \in next -> Started(k)
             [] OTHER -> job[k]]
      /\ saves' = [k \in Jobs |-> IF k \in next THEN Persist(saves[k], "running") ELSE saves[k]]
      /\ waiting' = IF d = NoDevice THEN waiting ELSE [waiting EXCEPT ![s][d] = NoJob]
      /\ active' = IF next = {} THEN active
                   ELSE [active EXCEPT ![s][d] = CHOOSE k \in next : TRUE]
      /\ UNCHANGED <<holder, up, answers, cleaning>>
  BY DEF FlushJob
<1>2. next \subseteq Jobs /\ (next # {} => (CHOOSE k \in next : TRUE) \in Jobs)
  OBVIOUS
<1> HIDE DEF next
<1>3. ASSUME NEW k \in Jobs
      PROVE  /\ job'[k] \in Job /\ saves'[k] \in Saves
             /\ job'[k].pc \in {"queued", "gone"} \/ job'[k].status # "queued"
  <2>1. job[k] \in Job /\ saves[k] \in Saves
    BY PartTypes
  <2>2. saves'[k] \in Saves
    BY <1>1, <2>1, PersistType DEF Status, Unfinished
  <2>3. CASE k = j
    <3> DEFINE st == IF SaveThrows(j, status) THEN "failed" ELSE status
    <3>0. j \notin next
      BY <1>1 DEF TypeOK, next
    <3>1. job'[k] = [job[k] EXCEPT !.pc = "done", !.status = st]
      BY <1>1, <2>3, <3>0
    <3>2. st \in Status /\ st # "queued"
      BY <1>1, PartTypes DEF TypeOK, Status, Final
    <3> HIDE DEF st
    <3> QED
      BY <2>1, <2>2, <3>1, <3>2 DEF Job, Pc
  <2>4. CASE k # j /\ k \in next
    BY <1>1, <2>1, <2>2, <2>4, StartedFields
  <2>5. CASE k # j /\ k \notin next
    BY <1>1, <2>1, <2>2, <2>5 DEF TypeOK
  <2> QED
    BY <2>3, <2>4, <2>5
<1>4. job' \in [Jobs -> Job] /\ saves' \in [Jobs -> Saves]
  <2> DEFINE J(k) == CASE k = j -> [job[k] EXCEPT !.pc = "done",
                              !.status = IF SaveThrows(j, status) THEN "failed" ELSE status]
                       [] k \in next -> Started(k)
                       [] OTHER -> job[k]
  <2>1. job' = [k \in Jobs |-> J(k)]
    BY <1>1
  <2> HIDE DEF J
  <2>2. job' \in [Jobs -> Job]
    BY <1>3, <2>1
  <2>3. saves' \in [Jobs -> Saves]
    BY <1>1, <1>3
  <2> QED
    BY <2>2, <2>3
<1>5. /\ waiting' \in [Servers -> [Devices -> Jobs \cup {NoJob}]]
      /\ active' \in [Servers -> [Devices -> Jobs \cup {NoJob}]]
  BY <1>1, <1>2, LockType DEF TypeOK
<1>6. row' \in [Jobs -> Row] /\ fresh' \in [Servers -> BOOLEAN]
  BY <1>1, PartTypes, SavedFields DEF TypeOK
<1> QED
  BY <1>1, <1>3, <1>4, <1>5, <1>6 DEF TypeOK

\* The end of a task: its success, the removal of its workspace, or a failure of either.
EndsTask(j) == Succeed(j) \/ CleanUp(j) \/ FailJob(j) \/ StopAborted(j)

\* What such a step does to its job and to the lock of its target.
LEMMA TaskEnd ==
  ASSUME TypeOK, NEW j \in Jobs, EndsTask(j)
  PROVE  /\ Underway(j)
         /\ UNCHANGED <<active, waiting, row, answers>>
         /\ \E p \in {"cleanup", "closing"}, s \in Final \cup {job[j].status} :
              /\ job' = [job EXCEPT ![j] = [@ EXCEPT !.pc = p, !.status = s]]
              /\ p = "cleanup" => job[j].pc = "building" /\ holder' = holder
              /\ p = "closing" => holder' = Unlocked(j)
<1>1. CASE Succeed(j)
  BY <1>1 DEF Succeed, Underway, Final
<1>2. CASE CleanUp(j)
  <2>1. [job[j] EXCEPT !.pc = "closing"]
          = [job[j] EXCEPT !.pc = "closing", !.status = job[j].status]
    BY PartTypes DEF Job
  <2>2. job' = [job EXCEPT ![j] = [job[j] EXCEPT !.pc = "closing"]] /\ holder' = Unlocked(j)
    BY <1>2 DEF CleanUp
  <2>3. job' = [job EXCEPT ![j] = [job[j] EXCEPT !.pc = "closing", !.status = job[j].status]]
    BY <2>1, <2>2
  <2>4. Underway(j) /\ UNCHANGED <<active, waiting, row, answers>>
    BY <1>2 DEF CleanUp, Underway
  <2> QED
    BY <2>2, <2>3, <2>4
<1>3. ASSUME NEW s \in {"failed", "cancelled"}, Close(j, s)
      PROVE  /\ Underway(j)
             /\ UNCHANGED <<active, waiting, row, answers>>
             /\ s \in Final
             /\ job' = [job EXCEPT ![j] = [@ EXCEPT !.pc = "closing", !.status = s]]
             /\ holder' = Unlocked(j)
  BY <1>3 DEF Close, Final
<1>4. CASE FailJob(j)
  BY <1>3, <1>4 DEF FailJob
<1>5. CASE StopAborted(j)
  BY <1>3, <1>5 DEF StopAborted
<1> QED
  BY <1>1, <1>2, <1>4, <1>5 DEF EndsTask

\* A step of the handler of a job keeps the types.
LEMMA HandlerType ==
  ASSUME TypeOK, NEW j \in Jobs, Handler(j)
  PROVE  TypeOK'
<1>1. CASE AdmitJob(j)
  BY <1>1, AdmitType
<1>2. CASE TakeTargetLock(j)
  <2>1. [job[j] EXCEPT !.pc = "building"] \in Job
    BY PartTypes DEF Job, Pc
  <2>2. holder' \in [Targets -> Jobs \cup {NoJob}]
    BY <1>2 DEF TakeTargetLock, TypeOK
  <2> QED
    BY <1>2, <2>1, <2>2 DEF TakeTargetLock, TypeOK
<1>3. CASE SaveArtifacts(j) \/ CreateDeploy(j)
  <2>1. PICK to \in {"artifacts", "deployed"} :
          job[j].pc = "building" /\ job' = [job EXCEPT ![j] = [@ EXCEPT !.output = to]]
    BY <1>3 DEF SaveArtifacts, CreateDeploy, Stage
  <2>2. [job[j] EXCEPT !.output = to] \in Job
    BY PartTypes DEF Job
  <2>3. UNCHANGED <<saves, active, waiting, row, holder, fresh, up, answers, cleaning>>
    BY <1>3 DEF SaveArtifacts, CreateDeploy, Stage
  <2> QED
    BY <2>1, <2>2, <2>3 DEF TypeOK
<1>4. CASE EndsTask(j)
  <2>1. PICK p \in {"cleanup", "closing"}, s \in Final \cup {job[j].status} :
          /\ job' = [job EXCEPT ![j] = [@ EXCEPT !.pc = p, !.status = s]]
          /\ p = "cleanup" => job[j].pc = "building" /\ holder' = holder
          /\ p = "closing" => holder' = Unlocked(j)
    BY <1>4, TaskEnd
  <2>2. s \in Status /\ s # "queued"
    BY <1>4, TaskEnd, PartTypes DEF Underway, TypeOK, Status, Final
  <2>3. [job[j] EXCEPT !.pc = p, !.status = s] \in Job
    BY <2>2, PartTypes DEF Job, Pc
  <2>4. holder' \in [Targets -> Jobs \cup {NoJob}]
    BY <2>1 DEF Unlocked, TypeOK
  <2>5. Report(j, "succeeded") \in Saves /\ Report(j, "failed") \in Saves
        /\ Report(j, "cancelled") \in Saves
    BY PartTypes, PersistType DEF Report, Status, Final
  <2>6. /\ saves' = saves \/ \E r \in Saves : saves' = [saves EXCEPT ![j] = r]
        /\ UNCHANGED <<active, waiting, row, fresh, up, answers, cleaning>>
    BY <1>4, <2>5 DEF EndsTask, Succeed, CleanUp, FailJob, StopAborted, Close
  <2>7. saves' \in [Jobs -> Saves]
    BY <2>6 DEF TypeOK
  <2>8. job' \in [Jobs -> Job] /\ \A k \in Jobs : job'[k].pc \in {"queued", "gone"} \/ job'[k].status # "queued"
    BY <2>1, <2>2, <2>3 DEF TypeOK
  <2> QED
    BY <2>4, <2>6, <2>7, <2>8 DEF TypeOK
<1>6. CASE LateCheck(j)
  <2> DEFINE late == job[j].status = "succeeded" /\ CancelRequested(j)
  <2> DEFINE s == IF late THEN "cancelled" ELSE job[j].status
  <2>1. /\ job' = [job EXCEPT ![j] = [@ EXCEPT !.pc = "flushing", !.status = s]]
        /\ saves' = [saves EXCEPT ![j] = Persist(@, s)]
        /\ active' = Released(job[j].at, j)
        /\ UNCHANGED <<waiting, row, holder, fresh, up, answers, cleaning>>
    BY <1>6 DEF LateCheck
  <2>2. s \in Status /\ s # "queued"
    BY <1>6, PartTypes DEF LateCheck, TypeOK, Status, Final
  <2> HIDE DEF s
  <2>3. Persist(saves[j], s) \in Saves
    BY <2>2, PartTypes, PersistType
  <2>4. [job[j] EXCEPT !.pc = "flushing", !.status = s] \in Job
    BY <2>2, PartTypes DEF Job, Pc
  <2>5. active' \in [Servers -> [Devices -> Jobs \cup {NoJob}]]
    BY <2>1, LockType DEF Released, TypeOK
  <2> QED
    BY <2>1, <2>2, <2>3, <2>4, <2>5 DEF TypeOK
<1>7. CASE FlushJob(j)
  BY <1>7, FlushType
<1>8. CASE FlushQueued(j)
  <2>1. [job[j] EXCEPT !.pc = "done"] \in Job /\ job[j].status # "queued"
    BY <1>8, PartTypes DEF FlushQueued, TypeOK, Job, Pc
  <2>2. row' \in [Jobs -> Row] /\ fresh' \in [Servers -> BOOLEAN]
    BY <1>8, PartTypes, SavedFields DEF FlushQueued, TypeOK
  <2> QED
    BY <1>8, <2>1, <2>2 DEF FlushQueued, TypeOK
<1> QED
  BY <1>1, <1>2, <1>3, <1>4, <1>6, <1>7, <1>8 DEF Handler, EndsTask

\* A cancellation step keeps the types.
LEMMA CancellationType ==
  ASSUME TypeOK, NEW j \in Jobs, Cancellation(j)
  PROVE  TypeOK'
<1>1. ASSUME CancelQueued(j), UNCHANGED <<active, row, holder, fresh, up, cleaning>>,
             answers' \subseteq Jobs
      PROVE  TypeOK'
  <2>1. "cancelled" \in Status
    BY DEF Status, Final
  <2>2. [job[j] EXCEPT !.pc = "dequeued", !.status = "cancelled"] \in Job
    BY <2>1, PartTypes DEF Job, Pc
  <2>3. Persist(saves[j], "cancelled") \in Saves
    BY <2>1, PartTypes, PersistType
  <2>4. waiting' \in [Servers -> [Devices -> Jobs \cup {NoJob}]]
    BY <1>1, LockType DEF CancelQueued, TypeOK
  <2> QED
    BY <1>1, <2>2, <2>3, <2>4 DEF CancelQueued, TypeOK
<1>2. ASSUME NEW here \in BOOLEAN, RequestCancellation(j, here)
      PROVE  TypeOK'
  <2>1. [row[j] EXCEPT !.status = "cancelling"] \in Row
    BY PartTypes DEF Row, Status, Unfinished
  <2> QED
    BY <1>2, <2>1 DEF RequestCancellation, TypeOK
<1>3. CASE CancelLocal(j)
  <2>1. answers' \subseteq Jobs
    BY <1>3 DEF CancelLocal, TypeOK
  <2>2. CASE job[j].status = "queued"
    BY <1>1, <1>3, <2>1, <2>2 DEF CancelLocal
  <2>3. CASE job[j].status # "queued"
    <3>1. "cancelling" \in Status
      BY DEF Status, Unfinished
    <3>2. [job[j] EXCEPT !.status = "cancelling", !.aborted = TRUE] \in Job
      BY <3>1, PartTypes DEF Job
    <3>3. Persist(saves[j], "cancelling") \in Saves
      BY <3>1, PartTypes, PersistType
    <3>4. /\ job' = [job EXCEPT ![j] = [@ EXCEPT !.status = "cancelling", !.aborted = TRUE]]
          /\ saves' = [saves EXCEPT ![j] = Persist(@, "cancelling")]
          /\ UNCHANGED <<active, waiting, row, holder, fresh, up, cleaning>>
      BY <1>3, <2>3 DEF CancelLocal
    <3>5. \A k \in Jobs : job'[k].pc \in {"queued", "gone"} \/ job'[k].status # "queued"
      BY <3>4, <3>2, PartTypes DEF TypeOK, Job
    <3>6. job' \in [Jobs -> Job] /\ saves' \in [Jobs -> Saves]
      BY <3>2, <3>3, <3>4 DEF TypeOK
    <3> QED
      BY <2>1, <3>4, <3>5, <3>6 DEF TypeOK
  <2> QED
    BY <2>2, <2>3
<1>4. CASE QueuedMonitor(j)
  BY <1>1, <1>4 DEF QueuedMonitor, TypeOK
<1>5. CASE RunningMonitor(j)
  <2>1. [job[j] EXCEPT !.aborted = TRUE] \in Job
    BY PartTypes DEF Job
  <2> QED
    BY <1>5, <2>1 DEF RunningMonitor, TypeOK
<1> QED
  BY <1>2, <1>3, <1>4, <1>5 DEF Cancellation

\* A crash, restart, hang or heartbeat keeps the types.
LEMMA ServerType ==
  ASSUME TypeOK, NEW s \in Servers, ServerStep(s)
  PROVE  TypeOK'
<1>1. CASE Crash(s)
  <2> DEFINE mine == {j \in Jobs : job[j].at = s /\ job[j].pc # "gone"}
  <2>1. /\ job' = [j \in Jobs |-> IF j \in mine THEN [job[j] EXCEPT !.pc = "gone"] ELSE job[j]]
        /\ saves' = [j \in Jobs |-> IF j \in mine THEN NoSaves ELSE saves[j]]
    BY <1>1 DEF Crash
  <2> HIDE DEF mine
  <2>2. ASSUME NEW j \in Jobs
        PROVE  /\ job'[j] \in Job /\ saves'[j] \in Saves
               /\ job'[j].pc \in {"queued", "gone"} \/ job'[j].status # "queued"
    <3>1. NoSaves \in Saves
      BY DEF NoSaves, Saves, Status
    <3>2. [job[j] EXCEPT !.pc = "gone"] \in Job
      BY PartTypes DEF Job, Pc
    <3> QED
      BY <2>1, <3>1, <3>2, PartTypes DEF TypeOK, Job
  <2>3. job' \in [Jobs -> Job] /\ saves' \in [Jobs -> Saves]
    BY <2>1, <2>2
  <2>4. /\ active' = [active EXCEPT ![s] = [d \in Devices |-> NoJob]]
        /\ waiting' = [waiting EXCEPT ![s] = [d \in Devices |-> NoJob]]
        /\ up' = up \ {s} /\ answers' \subseteq answers /\ cleaning' \subseteq cleaning
        /\ UNCHANGED <<row, fresh>>
    BY <1>1 DEF Crash
  <2>5. holder' \in [Targets -> Jobs \cup {NoJob}]
    BY <1>1 DEF Crash, TypeOK
  <2> QED
    BY <2>2, <2>3, <2>4, <2>5 DEF TypeOK
<1>2. CASE Restart(s)
  BY <1>2, FailedRowsFields DEF Restart, TypeOK
<1>3. CASE GoStale(s)
  BY <1>3 DEF GoStale, TypeOK
<1>4. CASE Heartbeat(s)
  <2>1. row' \in [Jobs -> Row]
    BY <1>4, FailedRowsFields DEF Heartbeat, TypeOK
  <2> QED
    BY <1>4, <2>1 DEF Heartbeat, TypeOK
<1> QED
  BY <1>1, <1>2, <1>3, <1>4 DEF ServerStep

\* Every step keeps the types.
LEMMA StepType ==
  ASSUME TypeOK, PlaceInv, [Next]_vars
  PROVE  TypeOK'
<1>1. ASSUME NEW s \in Servers, NEW j \in Jobs, SubmitJob(s, j)
      PROVE  TypeOK'
  <2>1. [status |-> "accepted", worker |-> s, lost |-> FALSE] \in Row
    BY DEF Row, Status, Unfinished
  <2>2. [job[j] EXCEPT !.at = s, !.pc = "inserted"] \in Job
    BY PartTypes DEF Job, Pc
  <2>3. /\ job' = [job EXCEPT ![j] = [@ EXCEPT !.at = s, !.pc = "inserted"]]
        /\ row' = [row EXCEPT ![j] = [status |-> "accepted", worker |-> s, lost |-> FALSE]]
        /\ UNCHANGED <<saves, active, waiting, holder, fresh, up, answers, cleaning>>
    BY <1>1 DEF SubmitJob
  <2>4. job[j].status # "queued"
    BY <1>1 DEF SubmitJob, PlaceInv, TypeOK
  <2> QED
    BY <2>1, <2>2, <2>3, <2>4 DEF TypeOK
<1>2. ASSUME NEW j \in Jobs, SaveStatement(j)
      PROVE  TypeOK'
  <2> DEFINE s == saves[j].sending
  <2>1. s \in Status /\ saves[j].latest \in Status /\ "absent" \in Status
    BY PartTypes DEF Saves, Status
  <2>2. row' \in [Jobs -> Row] /\ fresh' \in [Servers -> BOOLEAN]
    BY <1>2, <2>1, PartTypes, SavedFields DEF SaveStatement, TypeOK
  <2>3. saves' \in [Jobs -> Saves]
    BY <1>2, <2>1 DEF SaveStatement, TypeOK, Saves
  <2> QED
    BY <1>2, <2>2, <2>3 DEF SaveStatement, TypeOK
<1>3. ASSUME NEW s \in Servers, NEW p \in Projects, CleanStep(s, p)
      PROVE  TypeOK'
  BY <1>3 DEF CleanStep, CleanCheck, CleanRemove, TypeOK
<1>4. CASE UNCHANGED vars
  BY <1>4 DEF vars, TypeOK
<1> QED
  BY <1>1, <1>2, <1>3, <1>4, HandlerType, CancellationType, ServerType DEF Next

----------------------------------------------------------------------------
(* Jobs and their places.                                                   *)

\* A row that exists is never removed.
LEMMA RowsStay ==
  ASSUME TypeOK, PlaceInv, [Next]_vars, NEW k \in Jobs, row[k].status # "absent"
  PROVE  row'[k].status # "absent"
<1>1. ASSUME NEW s \in Servers, NEW j \in Jobs, SubmitJob(s, j)
      PROVE  row'[k].status # "absent"
  BY <1>1 DEF SubmitJob, TypeOK
<1>2. ASSUME NEW j \in Jobs, SaveStatement(j)
      PROVE  row'[k].status # "absent"
  BY <1>2, SavedFields, PartTypes DEF SaveStatement, TypeOK, Saves
<1>3. ASSUME NEW j \in Jobs, FlushJob(j) \/ FlushQueued(j)
      PROVE  row'[k].status # "absent"
  <2>1. job[j].status # "absent"
    BY <1>3 DEF FlushJob, FlushQueued, PlaceInv
  <2>2. Saved(j, job[j].status).status # "absent"
    BY <2>1, SavedFields, PartTypes
  <2>3. row' = row \/ row' = [row EXCEPT ![j] = Saved(j, job[j].status)]
    BY <1>3 DEF FlushJob, FlushQueued
  <2> QED
    BY <2>2, <2>3 DEF TypeOK
<1>4. ASSUME NEW j \in Jobs, NEW here \in BOOLEAN, RequestCancellation(j, here)
      PROVE  row'[k].status # "absent"
  BY <1>4, PartTypes DEF RequestCancellation, TypeOK, Row
<1>5. ASSUME NEW s \in Servers, Restart(s) \/ Heartbeat(s)
      PROVE  row'[k].status # "absent"
  BY <1>5, FailedRowsFields DEF Restart, Heartbeat, TypeOK
<1>6. ASSUME row' = row
      PROVE  row'[k].status # "absent"
  BY <1>6
<1>7. ASSUME NEW j \in Jobs, Handler(j)
      PROVE  row'[k].status # "absent"
  BY <1>3, <1>6, <1>7 DEF Handler, AdmitJob, TakeTargetLock, SaveArtifacts, CreateDeploy, Stage,
    Succeed, CleanUp, FailJob, StopAborted, Close, LateCheck
<1>8. ASSUME NEW j \in Jobs, Cancellation(j)
      PROVE  row'[k].status # "absent"
  BY <1>4, <1>6, <1>8 DEF Cancellation, CancelLocal, QueuedMonitor, RunningMonitor
<1>9. ASSUME NEW s \in Servers, ServerStep(s)
      PROVE  row'[k].status # "absent"
  BY <1>5, <1>6, <1>9 DEF ServerStep, Crash, GoStale
<1> QED
  BY <1>1, <1>2, <1>6, <1>7, <1>8, <1>9 DEF Next, CleanStep, CleanCheck, CleanRemove, vars

\* What a submission that finds its device taken does to each job.
LEMMA QueuedEffect ==
  ASSUME TypeOK, NEW j \in Jobs, AdmitJob(j), ~CanStart(job[j].at, j), NEW k \in Jobs
  PROVE  /\ k = j => /\ job'[k].at = job[k].at
                     /\ job'[k].pc = "queued" /\ job'[k].status = "queued"
                     /\ job'[k].aborted = job[k].aborted
         /\ k # j => \/ job'[k] = job[k] /\ ~(k = Held(waiting, job[j].at, j) /\ job[k].status = "queued")
                     \/ /\ k = Held(waiting, job[j].at, j) /\ job[k].status = "queued"
                        /\ job'[k].at = job[k].at
                        /\ job'[k].pc = "done" /\ job'[k].status = "replaced"
                        /\ job'[k].aborted = job[k].aborted
<1> DEFINE replaced == {l \in Jobs : l = Held(waiting, job[j].at, j) /\ job[l].status = "queued"}
<1>1. job' = [l \in Jobs |->
          CASE l = j -> [job[l] EXCEPT !.pc = "queued", !.status = "queued"]
            [] l \in replaced -> [job[l] EXCEPT !.pc = "done", !.status = "replaced"]
            [] OTHER -> job[l]]
  BY DEF AdmitJob
<1>2. j \notin replaced
  BY DEF AdmitJob, TypeOK
<1>3. k \in replaced <=> k = Held(waiting, job[j].at, j) /\ job[k].status = "queued"
  OBVIOUS
<1> HIDE DEF replaced
<1>4. CASE k = j
  BY <1>1, <1>2, <1>4, PartTypes DEF Job
<1>5. CASE k # j /\ k \in replaced
  BY <1>1, <1>3, <1>5, PartTypes DEF Job
<1>6. CASE k # j /\ k \notin replaced
  BY <1>1, <1>3, <1>6
<1> QED
  BY <1>4, <1>5, <1>6

\* What the end of a job does to each job and to the device lock.
LEMMA FlushEffect ==
  ASSUME TypeOK, NEW j \in Jobs, FlushJob(j), NEW k \in Jobs
  PROVE  /\ k = j => /\ job'[k].at = job[k].at /\ job'[k].pc = "done"
                     /\ job'[k].status \in {"failed", job[k].status}
                     /\ job'[k].aborted = job[k].aborted
         /\ k # j => \/ /\ job'[k] = job[k]
                        /\ ~(k = Held(waiting, job[j].at, j) /\ job[k].status = "queued")
                     \/ /\ k = Held(waiting, job[j].at, j) /\ job[k].status = "queued"
                        /\ job'[k] = Started(k)
<1> DEFINE next == {l \in Jobs : l = Held(waiting, job[j].at, j) /\ job[l].status = "queued"}
<1> DEFINE st == IF SaveThrows(j, job[j].status) THEN "failed" ELSE job[j].status
<1>1. job' = [l \in Jobs |->
          CASE l = j -> [job[l] EXCEPT !.pc = "done", !.status = st]
            [] l \in next -> Started(l)
            [] OTHER -> job[l]]
  BY DEF FlushJob
<1>2. j \notin next
  BY DEF FlushJob, TypeOK
<1>3. k \in next <=> k = Held(waiting, job[j].at, j) /\ job[k].status = "queued"
  OBVIOUS
<1>4. st \in {"failed", job[j].status}
  OBVIOUS
<1> HIDE DEF next, st
<1>5. CASE k = j
  BY <1>1, <1>2, <1>4, <1>5, PartTypes DEF Job
<1>6. CASE k # j /\ k \in next
  BY <1>1, <1>3, <1>6
<1>7. CASE k # j /\ k \notin next
  BY <1>1, <1>3, <1>7
<1> QED
  BY <1>5, <1>6, <1>7

\* What PlaceInv says of one job.
Placed(k) ==
  /\ job[k].pc = "out" => job[k].at = NoServer
  /\ job[k].pc # "out" => job[k].at \in Servers
  /\ job[k].pc = "queued" => job[k].status = "queued"
  /\ job[k].pc = "dequeued" => job[k].status \in {"cancelled", "cancelling"}
  /\ job[k].pc \notin {"out", "inserted", "gone"} => job[k].status # "absent"
  /\ k \in answers => job[k].pc \notin {"out", "inserted", "gone"}

\* A job moved by its handler, and those it starts or replaces, keep their places.
LEMMA HandlerPlace ==
  ASSUME TypeOK, PlaceInv, NEW j \in Jobs, Handler(j), NEW k \in Jobs
  PROVE  /\ Placed(k)'
         /\ job'[k].at = job[k].at
         /\ job[k].pc = "out" => job'[k].pc = "out"
<1>0. Placed(k)
  BY DEF PlaceInv, Placed
<1>1. CASE AdmitJob(j)
  <2>1. CASE CanStart(job[j].at, j)
    <3>1. job' = [job EXCEPT ![j] = Started(j)] /\ answers' = answers /\ job[j].pc = "inserted"
      BY <1>1, <2>1 DEF AdmitJob
    <3> QED
      BY <1>0, <3>1, StartedFields, PartTypes DEF Placed, TypeOK
  <2>2. CASE ~CanStart(job[j].at, j)
    <3>1. answers' = answers /\ job[j].pc = "inserted"
      BY <1>1 DEF AdmitJob
    <3> QED
      BY <1>0, <1>1, <2>2, <3>1, QueuedEffect DEF Placed, TypeOK
  <2> QED
    BY <2>1, <2>2
<1>2. CASE TakeTargetLock(j)
  BY <1>2, PartTypes DEF TakeTargetLock, PlaceInv, Placed, TypeOK, Job
<1>3. CASE SaveArtifacts(j) \/ CreateDeploy(j)
  <2>1. PICK to \in {"artifacts", "deployed"} :
          job' = [job EXCEPT ![j] = [@ EXCEPT !.output = to]]
    BY <1>3 DEF SaveArtifacts, CreateDeploy, Stage
  <2>2. answers' = answers
    BY <1>3 DEF SaveArtifacts, CreateDeploy, Stage
  <2> QED
    BY <1>0, <2>1, <2>2, PartTypes DEF Placed, TypeOK, Job
<1>4. CASE EndsTask(j)
  <2>1. PICK p \in {"cleanup", "closing"}, s \in Final \cup {job[j].status} :
          job' = [job EXCEPT ![j] = [@ EXCEPT !.pc = p, !.status = s]]
    BY <1>4, TaskEnd
  <2>2. Underway(j) /\ answers' = answers
    BY <1>4, TaskEnd
  <2>3. CASE k = j
    <3>1. job'[k].pc = p /\ job'[k].status = s /\ job'[k].at = job[k].at
      BY <2>1, <2>3, PartTypes DEF TypeOK, Job
    <3>2. s # "absent"
      BY <1>0, <2>2, <2>3 DEF Placed, Underway, Final
    <3> QED
      BY <1>0, <2>2, <2>3, <3>1, <3>2 DEF Placed, Underway
  <2>4. CASE k # j
    BY <1>0, <2>1, <2>2, <2>4 DEF Placed, TypeOK
  <2> QED
    BY <2>3, <2>4
<1>5. CASE LateCheck(j)
  <2>1. PICK s \in {"cancelled", job[j].status} :
          job' = [job EXCEPT ![j] = [@ EXCEPT !.pc = "flushing", !.status = s]]
    BY <1>5 DEF LateCheck
  <2>2. job[j].pc = "closing" /\ answers' = answers
    BY <1>5 DEF LateCheck
  <2>3. CASE k = j
    BY <1>0, <2>1, <2>2, <2>3, PartTypes DEF Placed, TypeOK, Job
  <2>4. CASE k # j
    BY <1>0, <2>1, <2>2, <2>4 DEF Placed, TypeOK
  <2> QED
    BY <2>3, <2>4
<1>6. CASE FlushJob(j)
  <2>1. answers' = answers /\ job[j].pc = "flushing"
    BY <1>6 DEF FlushJob
  <2>2. Started(k).at = job[k].at /\ Started(k).pc = "locking" /\ Started(k).status = "running"
    BY StartedFields, PartTypes
  <2>3. CASE k = j
    <3>1. job'[k].at = job[k].at /\ job'[k].pc = "done" /\ job'[k].status \in {"failed", job[k].status}
      BY <1>6, <2>3, FlushEffect
    <3> QED
      BY <1>0, <2>1, <2>3, <3>1 DEF Placed
  <2>4. CASE k # j
    <3>1. \/ job'[k] = job[k]
          \/ job'[k] = Started(k) /\ job[k].status = "queued"
      BY <1>6, <2>4, FlushEffect
    <3>2. CASE job'[k] = job[k]
      BY <1>0, <2>1, <3>2 DEF Placed
    <3>3. CASE job'[k] = Started(k) /\ job[k].status = "queued"
      <4>1. k \notin answers \/ job[k].pc \notin {"out", "inserted", "gone"}
        BY <1>0 DEF Placed
      <4>2. job[k].pc # "out"
        BY <1>0, <3>3, PartTypes DEF Placed, TypeOK
      <4>3. job[k].at \in Servers
        BY <1>0, <4>2 DEF Placed
      <4>4. job'[k].at \in Servers /\ job'[k].pc = "locking" /\ job'[k].status = "running"
        BY <2>2, <3>3, <4>3
      <4>5. job'[k].at = job[k].at
        BY <2>2, <3>3
      <4> QED
        BY <4>2, <4>4, <4>5 DEF Placed
    <3> QED
      BY <3>1, <3>2, <3>3
  <2> QED
    BY <2>3, <2>4
<1>7. CASE FlushQueued(j)
  BY <1>7, PartTypes DEF FlushQueued, PlaceInv, Placed, TypeOK, Job
<1> QED
  BY <1>1, <1>2, <1>3, <1>4, <1>5, <1>6, <1>7 DEF Handler, EndsTask

\* A cancellation keeps every job in its place.
LEMMA CancellationPlace ==
  ASSUME TypeOK, PlaceInv, NEW j \in Jobs, Cancellation(j), NEW k \in Jobs
  PROVE  Placed(k)' /\ job'[k].at = job[k].at /\ (job[k].pc = "out" => job'[k].pc = "out")
<1>0. Placed(k) /\ Placed(j)
  BY DEF PlaceInv, Placed
<1>1. ASSUME CancelQueued(j), answers' \subseteq answers, job[j].pc = "queued"
      PROVE  Placed(k)' /\ job'[k].at = job[k].at /\ (job[k].pc = "out" => job'[k].pc = "out")
  BY <1>0, <1>1, PartTypes DEF CancelQueued, Placed, TypeOK, Job
<1>2. ASSUME NEW here \in BOOLEAN, RequestCancellation(j, here)
      PROVE  Placed(k)' /\ job'[k].at = job[k].at /\ (job[k].pc = "out" => job'[k].pc = "out")
  BY <1>0, <1>2 DEF RequestCancellation, Placed, TypeOK
<1>3. CASE CancelLocal(j)
  <2>1. j \in answers /\ answers' = answers \ {j} /\ job[j].pc \notin {"out", "inserted", "gone"}
    BY <1>0, <1>3 DEF CancelLocal, Placed
  <2>2. CASE job[j].status = "queued"
    BY <1>1, <1>3, <2>1, <2>2 DEF CancelLocal, TypeOK
  <2>3. CASE job[j].status # "queued"
    <3>1. job' = [job EXCEPT ![j] = [@ EXCEPT !.status = "cancelling", !.aborted = TRUE]]
      BY <1>3, <2>3 DEF CancelLocal
    <3> QED
      BY <1>0, <2>1, <2>3, <3>1, PartTypes DEF Placed, TypeOK, Job
  <2> QED
    BY <2>2, <2>3
<1>4. CASE QueuedMonitor(j)
  BY <1>1, <1>4 DEF QueuedMonitor
<1>5. CASE RunningMonitor(j)
  BY <1>0, <1>5, PartTypes DEF RunningMonitor, Placed, TypeOK, Job
<1> QED
  BY <1>2, <1>3, <1>4, <1>5 DEF Cancellation

\* Every step keeps every job in its place.
LEMMA StepPlace ==
  ASSUME TypeOK, PlaceInv, [Next]_vars
  PROVE  PlaceInv'
<1>1. SUFFICES ASSUME NEW k \in Jobs
               PROVE  /\ Placed(k)'
                      /\ job[k].pc = "out" /\ job'[k].pc # "out" => row'[k].status # "absent"
  BY RowsStay DEF PlaceInv, Placed
<1>2. Placed(k)
  BY DEF PlaceInv, Placed
<1>3. ASSUME NEW s \in Servers, NEW j \in Jobs, SubmitJob(s, j)
      PROVE  /\ Placed(k)'
             /\ job[k].pc = "out" /\ job'[k].pc # "out" => row'[k].status # "absent"
  BY <1>2, <1>3, PartTypes DEF SubmitJob, PlaceInv, Placed, TypeOK, Job
<1>4. ASSUME NEW j \in Jobs, SaveStatement(j)
      PROVE  Placed(k)' /\ job' = job
  BY <1>2, <1>4 DEF SaveStatement, Placed
<1>5. ASSUME NEW s \in Servers, Crash(s)
      PROVE  Placed(k)' /\ (job[k].pc = "out" => job'[k].pc = "out")
  <2>1. /\ job'[k] = IF job[k].at = s /\ job[k].pc # "gone"
                     THEN [job[k] EXCEPT !.pc = "gone"] ELSE job[k]
        /\ k \in answers' => k \in answers /\ ~(job[k].at = s /\ job[k].pc # "gone")
    BY <1>5 DEF Crash
  <2> QED
    BY <1>2, <2>1, PartTypes, BuildAssumption DEF Placed, Job
<1>6. ASSUME NEW s \in Servers, Restart(s) \/ GoStale(s) \/ Heartbeat(s)
      PROVE  Placed(k)' /\ job' = job
  BY <1>2, <1>6 DEF Restart, GoStale, Heartbeat, Placed
<1>7. ASSUME NEW s \in Servers, NEW p \in Projects, CleanStep(s, p)
      PROVE  Placed(k)' /\ job' = job
  BY <1>2, <1>7 DEF CleanStep, CleanCheck, CleanRemove, Placed
<1>8. CASE UNCHANGED vars
  BY <1>2, <1>8 DEF vars, Placed
<1> QED
  BY <1>3, <1>4, <1>5, <1>6, <1>7, <1>8, HandlerPlace, CancellationPlace DEF Next, ServerStep

----------------------------------------------------------------------------
(* The device lock and the jobs waiting for it.                             *)

\* A job moves without touching the device lock and its waiting place.
QuietMove(k) ==
  /\ job'[k].at = job[k].at \/ job[k].pc = "out"
  /\ \/ job'[k].pc = job[k].pc
     \/ job[k].pc \in Running /\ job'[k].pc \in Running
     \/ job[k].pc = "out" /\ job'[k].pc = "inserted"
     \/ job[k].pc = "inserted" /\ job'[k].pc = "locking"
     \/ job[k].pc = "dequeued" /\ job'[k].pc = "done"

\* Quiet moves keep the device locks in order.
LEMMA QuietDevices ==
  ASSUME TypeOK, PlaceInv, DevicesInv, UNCHANGED <<active, waiting>>,
         \A k \in Jobs : QuietMove(k)
  PROVE  DevicesInv'
<1>1. ASSUME NEW s \in Servers, NEW d \in Devices
      PROVE  active[s][d] \in Jobs \cup {NoJob} /\ waiting[s][d] \in Jobs \cup {NoJob}
  BY DEF TypeOK
<1>2. ActiveInv'
  BY <1>1 DEF DevicesInv, ActiveInv, QuietMove, Running
<1>3. WaitingInv'
  BY <1>1 DEF DevicesInv, WaitingInv, QuietMove, Running
<1>4. ASSUME NEW j \in Jobs, job'[j].pc = "queued"
      PROVE  /\ DeviceOf[j] \in Devices
             /\ waiting[job'[j].at][DeviceOf[j]] = j
             /\ \E k \in Jobs : Starts(k, job[j].at, DeviceOf[j])'
  <2>1. job[j].pc = "queued" /\ job'[j].at = job[j].at
    BY <1>4 DEF QuietMove, Running
  <2>2. PICK k \in Jobs : Starts(k, job[j].at, DeviceOf[j])
    BY <2>1 DEF DevicesInv, QueueInv
  <2>3. job[j].at \in Servers /\ DeviceOf[j] \in Devices
    BY <2>1 DEF PlaceInv, DevicesInv, QueueInv
  <2>4. job[k].pc # "out" /\ job[k].pc \in Running \cup {"flushing"}
    BY <2>2, <2>3, BuildAssumption DEF Starts, DevicesInv, ActiveInv, Running
  <2>5. Starts(k, job[j].at, DeviceOf[j])'
    BY <2>1, <2>2, <2>4 DEF Starts, QuietMove, Running
  <2> QED
    BY <2>1, <2>5 DEF DevicesInv, QueueInv
<1> QED
  BY <1>2, <1>3, <1>4 DEF DevicesInv, QueueInv

\* A job that finds its device free takes it.
LEMMA StartDevices ==
  ASSUME TypeOK, PlaceInv, DevicesInv, NEW j \in Jobs, AdmitJob(j), CanStart(job[j].at, j)
  PROVE  DevicesInv'
<1> DEFINE s == job[j].at
<1> DEFINE d == DeviceOf[j]
<1>1. /\ job[j].pc = "inserted" /\ job' = [job EXCEPT ![j] = Started(j)]
      /\ active' = MarkActive(s, j) /\ waiting' = waiting
  BY DEF AdmitJob
<1>2. /\ \A k \in Jobs : k # j => job'[k] = job[k]
      /\ job'[j].at = s /\ job'[j].pc = "locking" /\ s \in Servers
  BY <1>1, StartedFields, PartTypes DEF TypeOK, PlaceInv
<1>3. \A k \in Jobs : QuietMove(k)
  BY <1>1, <1>2 DEF QuietMove
<1>4. CASE d = NoDevice
  BY <1>1, <1>3, <1>4, QuietDevices DEF MarkActive
<1>5. CASE d # NoDevice
  <2>1. d \in Devices /\ active[s][d] = NoJob /\ active' = [active EXCEPT ![s][d] = j]
    BY <1>1, <1>5, BuildAssumption DEF CanStart, Held, MarkActive
  <2>2. ASSUME NEW t \in Servers, NEW e \in Devices
        PROVE  /\ active[t][e] \in Jobs \cup {NoJob} /\ waiting[t][e] \in Jobs \cup {NoJob}
               /\ active'[t][e] = IF t = s /\ e = d THEN j ELSE active[t][e]
    BY <2>1 DEF TypeOK
  <2>3. ActiveInv'
    BY <1>2, <1>3, <2>2 DEF DevicesInv, ActiveInv, QuietMove, Running
  <2>4. WaitingInv'
    BY <1>1, <1>2, <1>3, <2>2 DEF DevicesInv, WaitingInv, QuietMove, Running
  <2>5. ASSUME NEW k \in Jobs, job'[k].pc = "queued"
        PROVE  /\ DeviceOf[k] \in Devices
               /\ waiting'[job'[k].at][DeviceOf[k]] = k
               /\ \E l \in Jobs : Starts(l, job[k].at, DeviceOf[k])'
    <3>1. k # j /\ job[k].pc = "queued" /\ job'[k].at = job[k].at /\ job[k].at \in Servers
      BY <1>2, <2>5 DEF PlaceInv
    <3>2. DeviceOf[k] \in Devices
      BY <3>1 DEF DevicesInv, QueueInv
    <3>3. PICK l \in Jobs : Starts(l, job[k].at, DeviceOf[k])
      BY <3>1 DEF DevicesInv, QueueInv
    <3>4. job[l].pc \in Running \cup {"flushing"}
      BY <3>1, <3>2, <3>3, BuildAssumption DEF Starts, DevicesInv, ActiveInv, Running
    <3>5. l # j
      BY <1>1, <3>4 DEF Running
    <3>6. Starts(l, job[k].at, DeviceOf[k])'
      BY <1>2, <2>1, <2>2, <3>1, <3>2, <3>3, <3>5, BuildAssumption DEF Starts
    <3> QED
      BY <1>1, <3>1, <3>6 DEF DevicesInv, QueueInv
  <2> QED
    BY <2>3, <2>4, <2>5 DEF DevicesInv, QueueInv
<1> QED
  BY <1>4, <1>5

\* What is known of a queued job and of the job that will start it.
LEMMA Starter ==
  ASSUME TypeOK, PlaceInv, DevicesInv, NEW k \in Jobs, job[k].pc = "queued"
  PROVE  /\ job[k].at \in Servers /\ DeviceOf[k] \in Devices /\ job[k].status = "queued"
         /\ waiting[job[k].at][DeviceOf[k]] = k
         /\ \E l \in Jobs : /\ Starts(l, job[k].at, DeviceOf[k])
                            /\ job[l].pc \in Running \cup {"flushing"}
                            /\ job[l].status # "queued"
<1>1. /\ job[k].at \in Servers /\ job[k].status = "queued"
      /\ DeviceOf[k] \in Devices /\ waiting[job[k].at][DeviceOf[k]] = k
  BY DEF PlaceInv, DevicesInv, QueueInv
<1>2. PICK l \in Jobs : Starts(l, job[k].at, DeviceOf[k])
  BY DEF DevicesInv, QueueInv
<1>3. job[l].pc \in Running \cup {"flushing"}
  BY <1>1, <1>2, BuildAssumption DEF Starts, DevicesInv, ActiveInv, Running
<1>4. job[l].status # "queued"
  BY <1>3 DEF TypeOK, Running
<1> QED
  BY <1>1, <1>2, <1>3, <1>4

\* A job that finds its device taken waits in place of the one before.
LEMMA QueuedDevices ==
  ASSUME TypeOK, PlaceInv, DevicesInv, NEW j \in Jobs, AdmitJob(j), ~CanStart(job[j].at, j)
  PROVE  DevicesInv'
<1> DEFINE s == job[j].at
<1> DEFINE d == DeviceOf[j]
<1>1. /\ job[j].pc = "inserted" /\ active' = active
      /\ waiting' = [waiting EXCEPT ![s][d] = j] /\ s \in Servers /\ job[j].status # "queued"
  BY DEF AdmitJob, PlaceInv, TypeOK
<1>2. d \in Devices /\ active[s][d] \in Jobs /\ Held(waiting, s, j) = waiting[s][d]
  BY <1>1, HeldType, BuildAssumption DEF CanStart, Held, TypeOK
<1>3. ASSUME NEW t \in Servers, NEW e \in Devices
      PROVE  /\ active[t][e] \in Jobs \cup {NoJob} /\ waiting[t][e] \in Jobs \cup {NoJob}
             /\ waiting'[t][e] = IF t = s /\ e = d THEN j ELSE waiting[t][e]
  BY <1>1, <1>2 DEF TypeOK
<1>4. job'[j].at = s /\ job'[j].pc = "queued"
  BY QueuedEffect
<1>5. ASSUME NEW k \in Jobs, k # j
      PROVE  /\ job'[k].at = job[k].at
             /\ job'[k].pc = "queued" => job'[k] = job[k]
             /\ job[k].status # "queued" => job'[k] = job[k]
             /\ job'[k].pc = "queued" => waiting[s][d] # k
             /\ job'[k].pc \in {job[k].pc, "done"}
  BY <1>2, <1>5, QueuedEffect, PlaceInv DEF PlaceInv
<1>6. ActiveInv'
  <2>1. SUFFICES ASSUME NEW t \in Servers, NEW e \in Devices, active[t][e] # NoJob
                 PROVE  job'[active[t][e]] = job[active[t][e]]
    BY <1>1 DEF DevicesInv, ActiveInv
  <2>2. active[t][e] \in Jobs /\ job[active[t][e]].pc \in Running
    BY <1>3, <2>1 DEF DevicesInv, ActiveInv
  <2> QED
    BY <1>1, <1>5, <2>2 DEF TypeOK, Running
<1>7. WaitingInv'
  BY <1>1, <1>3, <1>4, <1>5 DEF DevicesInv, WaitingInv
<1>8. ASSUME NEW k \in Jobs, job'[k].pc = "queued"
      PROVE  /\ DeviceOf[k] \in Devices
             /\ waiting'[job'[k].at][DeviceOf[k]] = k
             /\ \E l \in Jobs : Starts(l, job[k].at, DeviceOf[k])'
  <2>1. CASE k = j
    <3> DEFINE l == active[s][d]
    <3>1. l \in Jobs /\ job[l].at = s /\ DeviceOf[l] = d /\ job[l].pc \in Running
      BY <1>1, <1>2, BuildAssumption DEF DevicesInv, ActiveInv
    <3>2. job'[l] = job[l]
      BY <1>1, <1>5, <3>1 DEF TypeOK, Running
    <3>3. Starts(l, job[k].at, DeviceOf[k])'
      BY <1>1, <1>4, <2>1, <3>1, <3>2 DEF Starts
    <3> QED
      BY <1>1, <1>2, <1>3, <1>4, <2>1, <3>1, <3>3
  <2>2. CASE k # j
    <3>1. job'[k] = job[k] /\ waiting[s][d] # k
      BY <1>5, <1>8, <2>2
    <3>2. /\ job[k].at \in Servers /\ DeviceOf[k] \in Devices
          /\ waiting[job[k].at][DeviceOf[k]] = k
      BY <1>8, <3>1, Starter
    <3>3. PICK l \in Jobs : /\ Starts(l, job[k].at, DeviceOf[k])
                            /\ job[l].pc \in Running \cup {"flushing"}
                            /\ job[l].status # "queued"
      BY <1>8, <3>1, Starter
    <3>4. job'[l] = job[l]
      BY <1>1, <1>5, <3>3 DEF Running
    <3>5. Starts(l, job[k].at, DeviceOf[k])'
      BY <1>1, <3>1, <3>3, <3>4 DEF Starts
    <3> QED
      BY <1>3, <3>1, <3>2, <3>5
  <2> QED
    BY <2>1, <2>2
<1> QED
  BY <1>6, <1>7, <1>8 DEF DevicesInv, QueueInv

\* A job that ends leaves its device, and its handler will start the next one.
LEMMA LateDevices ==
  ASSUME TypeOK, PlaceInv, DevicesInv, NEW j \in Jobs, LateCheck(j)
  PROVE  DevicesInv'
<1> DEFINE s == job[j].at
<1> DEFINE d == DeviceOf[j]
<1>1. /\ job[j].pc = "closing" /\ active' = Released(s, j) /\ waiting' = waiting
      /\ s \in Servers
  BY DEF LateCheck, PlaceInv
<1>2. /\ job'[j].at = s /\ job'[j].pc = "flushing"
      /\ \A k \in Jobs : k # j => job'[k] = job[k]
  BY PartTypes DEF LateCheck, TypeOK, Job
<1>3. ASSUME NEW t \in Servers, NEW e \in Devices
      PROVE  /\ active[t][e] \in Jobs \cup {NoJob} /\ waiting[t][e] \in Jobs \cup {NoJob}
             /\ active'[t][e] = IF active[t][e] = j THEN NoJob ELSE active[t][e]
  <2>1. active[t][e] \in Jobs \cup {NoJob} /\ waiting[t][e] \in Jobs \cup {NoJob}
    BY DEF TypeOK
  <2>2. active[t][e] = j => t = s /\ e = d
    BY BuildAssumption DEF DevicesInv, ActiveInv
  <2>3. Held(active, s, j) = IF d \in Devices THEN active[s][d] ELSE NoJob
    BY BuildAssumption DEF Held
  <2> QED
    BY <1>1, <2>1, <2>2, <2>3, BuildAssumption DEF Released, TypeOK
<1>4. ActiveInv'
  BY <1>2, <1>3 DEF DevicesInv, ActiveInv
<1>5. WaitingInv'
  BY <1>1, <1>2, <1>3 DEF DevicesInv, WaitingInv
<1>6. ASSUME NEW k \in Jobs, job'[k].pc = "queued"
      PROVE  /\ DeviceOf[k] \in Devices
             /\ waiting'[job'[k].at][DeviceOf[k]] = k
             /\ \E l \in Jobs : Starts(l, job[k].at, DeviceOf[k])'
  <2>1. job'[k] = job[k]
    BY <1>2, <1>6
  <2>2. PICK l \in Jobs : Starts(l, job[k].at, DeviceOf[k])
    BY <1>6, <2>1, Starter
  <2>3. Starts(l, job[k].at, DeviceOf[k])'
    BY <1>2, <1>3, <1>6, <2>1, <2>2, Starter DEF Starts
  <2> QED
    BY <1>1, <1>6, <2>1, <2>3, Starter
<1> QED
  BY <1>4, <1>5, <1>6 DEF DevicesInv, QueueInv

\* A job that has ended frees its device; the job waiting for it starts.
LEMMA FlushDevices ==
  ASSUME TypeOK, PlaceInv, DevicesInv, NEW j \in Jobs, FlushJob(j)
  PROVE  DevicesInv'
<1> DEFINE s == job[j].at
<1> DEFINE d == DeviceOf[j]
<1> DEFINE m == Held(waiting, s, j)
<1> DEFINE next == {k \in Jobs : k = m /\ job[k].status = "queued"}
<1>1. /\ job[j].pc = "flushing" /\ s \in Servers /\ job[j].status # "queued"
      /\ waiting' = IF d = NoDevice THEN waiting ELSE [waiting EXCEPT ![s][d] = NoJob]
      /\ active' = IF next = {} THEN active
                   ELSE [active EXCEPT ![s][d] = CHOOSE k \in next : TRUE]
  BY DEF FlushJob, PlaceInv, TypeOK
<1>2. m \in Jobs \cup {NoJob} /\ (m # NoJob => d \in Devices /\ m = waiting[s][d])
  BY <1>1, HeldType DEF TypeOK
<1>3. m \in Jobs /\ job[m].status = "queued" => next # {} /\ (CHOOSE k \in next : TRUE) = m
  OBVIOUS
<1>4. next # {} => m \in Jobs /\ job[m].status = "queued"
  OBVIOUS
<1> HIDE DEF next
<1>5. ASSUME NEW t \in Servers, NEW e \in Devices
      PROVE  /\ active[t][e] \in Jobs \cup {NoJob} /\ waiting[t][e] \in Jobs \cup {NoJob}
             /\ waiting'[t][e] = IF t = s /\ e = d THEN NoJob ELSE waiting[t][e]
             /\ active'[t][e] = IF t = s /\ e = d /\ next # {} THEN m ELSE active[t][e]
  <2>1. active[t][e] \in Jobs \cup {NoJob} /\ waiting[t][e] \in Jobs \cup {NoJob}
    BY DEF TypeOK
  <2>2. e # NoDevice
    BY BuildAssumption
  <2>3. waiting'[t][e] = IF t = s /\ e = d THEN NoJob ELSE waiting[t][e]
    BY <1>1, <2>2 DEF TypeOK
  <2>4. active'[t][e] = IF t = s /\ e = d /\ next # {} THEN m ELSE active[t][e]
    BY <1>1, <1>3, <1>4 DEF TypeOK
  <2> QED
    BY <2>1, <2>3, <2>4
<1>6. job'[j].at = s /\ job'[j].pc = "done"
  BY FlushEffect
<1>7. ASSUME NEW k \in Jobs, k # j
      PROVE  IF next # {} /\ k = m THEN job'[k].at = job[k].at /\ job'[k].pc = "locking"
                                   ELSE job'[k] = job[k]
  <2>1. next # {} <=> m \in Jobs /\ job[m].status = "queued"
    BY <1>3, <1>4
  <2>2. \/ job'[k] = job[k] /\ ~(k = m /\ job[k].status = "queued")
        \/ k = m /\ job[k].status = "queued" /\ job'[k] = Started(k)
    BY <1>7, FlushEffect
  <2>3. Started(k).at = job[k].at /\ Started(k).pc = "locking"
    BY StartedFields, PartTypes
  <2> HIDE DEF m
  <2> QED
    BY <1>7, <2>1, <2>2, <2>3
<1>8. next # {} => /\ m # j /\ d \in Devices /\ m = waiting[s][d] /\ m \in Jobs
                   /\ job[m].at = s /\ DeviceOf[m] = d
  BY <1>1, <1>2, <1>4, BuildAssumption DEF DevicesInv, WaitingInv
<1>9. ActiveInv'
  <2>1. SUFFICES ASSUME NEW t \in Servers, NEW e \in Devices, active'[t][e] # NoJob
                 PROVE  LET k == active'[t][e]
                        IN  job'[k].at = t /\ DeviceOf[k] = e /\ job'[k].pc \in Running
    BY DEF ActiveInv
  <2>2. CASE t = s /\ e = d /\ next # {}
    BY <1>5, <1>7, <1>8, <2>2 DEF Running
  <2>3. CASE ~(t = s /\ e = d /\ next # {})
    <3> DEFINE k == active[t][e]
    <3>1. /\ active'[t][e] = k /\ k \in Jobs
          /\ job[k].at = t /\ DeviceOf[k] = e /\ job[k].pc \in Running
      BY <1>5, <2>1, <2>3 DEF DevicesInv, ActiveInv
    <3>2. job'[k] = job[k]
      BY <1>1, <1>4, <1>7, <3>1 DEF TypeOK, Running
    <3> QED
      BY <3>1, <3>2
  <2> QED
    BY <2>2, <2>3
<1>10. WaitingInv'
  <2>1. SUFFICES ASSUME NEW t \in Servers, NEW e \in Devices, waiting'[t][e] # NoJob
                 PROVE  LET k == waiting'[t][e]
                        IN  /\ job'[k].at = t /\ DeviceOf[k] = e
                            /\ job'[k].pc \notin {"out", "inserted", "gone"}
    BY DEF WaitingInv
  <2> DEFINE k == waiting[t][e]
  <2>2. /\ waiting'[t][e] = k /\ k \in Jobs
        /\ job[k].at = t /\ DeviceOf[k] = e /\ job[k].pc \notin {"out", "inserted", "gone"}
    BY <1>5, <2>1 DEF DevicesInv, WaitingInv
  <2> QED
    BY <1>6, <1>7, <2>2
<1>11. ASSUME NEW k \in Jobs, job'[k].pc = "queued"
       PROVE  /\ DeviceOf[k] \in Devices
              /\ waiting'[job'[k].at][DeviceOf[k]] = k
              /\ \E l \in Jobs : Starts(l, job[k].at, DeviceOf[k])'
  <2>1. k # j /\ job'[k] = job[k] /\ ~(next # {} /\ k = m)
    BY <1>6, <1>7, <1>11
  <2>2. /\ job[k].at \in Servers /\ DeviceOf[k] \in Devices /\ job[k].status = "queued"
        /\ waiting[job[k].at][DeviceOf[k]] = k
    BY <1>11, <2>1, Starter
  <2>3. ~(job[k].at = s /\ DeviceOf[k] = d)
    <3>1. SUFFICES ASSUME job[k].at = s, DeviceOf[k] = d
                   PROVE  FALSE
      OBVIOUS
    <3>2. m = k
      BY <2>2, <3>1, BuildAssumption DEF Held
    <3> QED
      BY <1>3, <2>1, <2>2, <3>2
  <2>4. PICK l \in Jobs : /\ Starts(l, job[k].at, DeviceOf[k])
                          /\ job[l].pc \in Running \cup {"flushing"}
                          /\ job[l].status # "queued"
    BY <1>11, <2>1, Starter
  <2>5. job'[l] = job[l]
    BY <1>4, <1>7, <2>3, <2>4 DEF Starts
  <2>6. Starts(l, job[k].at, DeviceOf[k])'
    BY <1>5, <2>1, <2>2, <2>3, <2>4, <2>5 DEF Starts
  <2> QED
    BY <1>5, <2>1, <2>2, <2>3, <2>6
<1> QED
  BY <1>9, <1>10, <1>11 DEF DevicesInv, QueueInv

\* A queued job that is cancelled gives up its place.
LEMMA CancelDevices ==
  ASSUME TypeOK, PlaceInv, DevicesInv, NEW j \in Jobs, job[j].pc = "queued", CancelQueued(j),
         active' = active
  PROVE  DevicesInv'
<1> DEFINE s == job[j].at
<1> DEFINE d == DeviceOf[j]
<1>1. s \in Servers /\ d \in Devices /\ waiting[s][d] = j
  BY Starter
<1>2. waiting' = [waiting EXCEPT ![s][d] = NoJob]
  BY <1>1, BuildAssumption DEF CancelQueued, Held
<1>3. /\ job'[j].at = s /\ job'[j].pc = "dequeued"
      /\ \A k \in Jobs : k # j => job'[k] = job[k]
  BY PartTypes DEF CancelQueued, TypeOK, Job
<1>4. ASSUME NEW t \in Servers, NEW e \in Devices
      PROVE  /\ active[t][e] \in Jobs \cup {NoJob} /\ waiting[t][e] \in Jobs \cup {NoJob}
             /\ waiting'[t][e] = IF t = s /\ e = d THEN NoJob ELSE waiting[t][e]
  BY <1>1, <1>2 DEF TypeOK
<1>5. ActiveInv'
  BY <1>3, <1>4 DEF DevicesInv, ActiveInv, Running
<1>6. WaitingInv'
  BY <1>3, <1>4 DEF DevicesInv, WaitingInv
<1>7. ASSUME NEW k \in Jobs, job'[k].pc = "queued"
      PROVE  /\ DeviceOf[k] \in Devices
             /\ waiting'[job'[k].at][DeviceOf[k]] = k
             /\ \E l \in Jobs : Starts(l, job[k].at, DeviceOf[k])'
  <2>1. k # j /\ job'[k] = job[k]
    BY <1>3, <1>7
  <2>2. PICK l \in Jobs : /\ Starts(l, job[k].at, DeviceOf[k])
                          /\ job[l].pc \in Running \cup {"flushing"}
    BY <1>7, <2>1, Starter
  <2>3. job'[l] = job[l]
    BY <1>3, <2>2 DEF Running
  <2>4. Starts(l, job[k].at, DeviceOf[k])'
    BY <2>1, <2>2, <2>3 DEF Starts
  <2> QED
    BY <1>1, <1>4, <1>7, <2>1, <2>4, Starter
<1> QED
  BY <1>5, <1>6, <1>7 DEF DevicesInv, QueueInv

\* A crash empties the device lock of its server and leaves the others alone.
LEMMA CrashDevices ==
  ASSUME TypeOK, PlaceInv, DevicesInv, NEW s \in Servers, Crash(s)
  PROVE  DevicesInv'
<1>1. ASSUME NEW t \in Servers, NEW e \in Devices
      PROVE  /\ active[t][e] \in Jobs \cup {NoJob} /\ waiting[t][e] \in Jobs \cup {NoJob}
             /\ waiting'[t][e] = IF t = s THEN NoJob ELSE waiting[t][e]
             /\ active'[t][e] = IF t = s THEN NoJob ELSE active[t][e]
  BY DEF Crash, TypeOK
<1>2. ASSUME NEW k \in Jobs
      PROVE  IF job[k].at = s THEN job'[k].pc = "gone" /\ job'[k].at = s ELSE job'[k] = job[k]
  <2>1. job'[k] = IF job[k].at = s /\ job[k].pc # "gone"
                  THEN [job[k] EXCEPT !.pc = "gone"] ELSE job[k]
    BY DEF Crash
  <2> QED
    BY <2>1, PartTypes DEF Job
<1>3. ActiveInv'
  BY <1>1, <1>2 DEF DevicesInv, ActiveInv
<1>4. WaitingInv'
  BY <1>1, <1>2 DEF DevicesInv, WaitingInv
<1>5. ASSUME NEW k \in Jobs, job'[k].pc = "queued"
      PROVE  /\ DeviceOf[k] \in Devices
             /\ waiting'[job'[k].at][DeviceOf[k]] = k
             /\ \E l \in Jobs : Starts(l, job[k].at, DeviceOf[k])'
  <2>1. job[k].at # s /\ job'[k] = job[k]
    BY <1>2, <1>5
  <2>2. PICK l \in Jobs : Starts(l, job[k].at, DeviceOf[k])
    BY <1>5, <2>1, Starter
  <2>3. Starts(l, job[k].at, DeviceOf[k])'
    BY <1>1, <1>2, <1>5, <2>1, <2>2, Starter DEF Starts
  <2> QED
    BY <1>1, <1>5, <2>1, <2>3, Starter
<1> QED
  BY <1>3, <1>4, <1>5 DEF DevicesInv, QueueInv

\* A step of the handler of a job keeps the device locks in order.
LEMMA HandlerDevices ==
  ASSUME TypeOK, PlaceInv, DevicesInv, NEW j \in Jobs, Handler(j)
  PROVE  DevicesInv'
<1>1. ASSUME NEW a, NEW b, job[j].pc = a, job'[j].pc = b, job'[j].at = job[j].at,
             \A k \in Jobs : k # j => job'[k] = job[k],
             UNCHANGED <<active, waiting>>,
             (a \in Running /\ b \in Running) \/ (a = "dequeued" /\ b = "done")
      PROVE  DevicesInv'
  <2>1. \A k \in Jobs : QuietMove(k)
    BY <1>1 DEF QuietMove
  <2> QED
    BY <1>1, <2>1, QuietDevices
<1>2. CASE AdmitJob(j)
  BY <1>2, StartDevices, QueuedDevices
<1>3. CASE TakeTargetLock(j)
  BY <1>1, <1>3, PartTypes DEF TakeTargetLock, TypeOK, Job, Running
<1>4. CASE SaveArtifacts(j) \/ CreateDeploy(j)
  <2>1. PICK to \in {"artifacts", "deployed"} :
          job' = [job EXCEPT ![j] = [@ EXCEPT !.output = to]]
    BY <1>4 DEF SaveArtifacts, CreateDeploy, Stage
  <2>2. job[j].pc = "building" /\ UNCHANGED <<active, waiting>>
    BY <1>4 DEF SaveArtifacts, CreateDeploy, Stage, InTask
  <2> QED
    BY <1>1, <2>1, <2>2, PartTypes DEF TypeOK, Job, Running
<1>5. CASE EndsTask(j)
  <2>1. PICK p \in {"cleanup", "closing"}, s \in Final \cup {job[j].status} :
          job' = [job EXCEPT ![j] = [@ EXCEPT !.pc = p, !.status = s]]
    BY <1>5, TaskEnd
  <2>2. job[j].pc \in Running /\ UNCHANGED <<active, waiting>>
    BY <1>5, TaskEnd DEF Underway, Running
  <2> QED
    BY <1>1, <2>1, <2>2, PartTypes DEF TypeOK, Job, Running
<1>6. CASE LateCheck(j)
  BY <1>6, LateDevices
<1>7. CASE FlushJob(j)
  BY <1>7, FlushDevices
<1>8. CASE FlushQueued(j)
  BY <1>1, <1>8, PartTypes DEF FlushQueued, TypeOK, Job
<1> QED
  BY <1>2, <1>3, <1>4, <1>5, <1>6, <1>7, <1>8 DEF Handler, EndsTask

\* Every step keeps the device locks in order.
LEMMA StepDevices ==
  ASSUME TypeOK, PlaceInv, DevicesInv, [Next]_vars
  PROVE  DevicesInv'
<1>1. ASSUME UNCHANGED <<job, active, waiting>>
      PROVE  DevicesInv'
  BY <1>1, QuietDevices DEF QuietMove
<1>2. ASSUME NEW s \in Servers, NEW j \in Jobs, SubmitJob(s, j)
      PROVE  DevicesInv'
  <2>1. \A k \in Jobs : QuietMove(k)
    BY <1>2, PartTypes DEF SubmitJob, PlaceInv, QuietMove, TypeOK, Job
  <2> QED
    BY <1>2, <2>1, QuietDevices DEF SubmitJob
<1>3. ASSUME NEW j \in Jobs, Cancellation(j)
      PROVE  DevicesInv'
  <2>1. ASSUME NEW here \in BOOLEAN, RequestCancellation(j, here)
        PROVE  DevicesInv'
    BY <1>1, <2>1 DEF RequestCancellation
  <2>2. CASE CancelLocal(j)
    <3>1. job[j].pc \notin {"out", "inserted", "gone"} /\ active' = active
      BY <2>2 DEF CancelLocal, PlaceInv
    <3>2. CASE job[j].status = "queued"
      BY <2>2, <3>1, <3>2, CancelDevices DEF CancelLocal, TypeOK
    <3>3. CASE job[j].status # "queued"
      <4>1. /\ job' = [job EXCEPT ![j] = [@ EXCEPT !.status = "cancelling", !.aborted = TRUE]]
            /\ UNCHANGED <<active, waiting>>
        BY <2>2, <3>3 DEF CancelLocal
      <4>2. \A k \in Jobs : QuietMove(k)
        BY <4>1, PartTypes DEF QuietMove, TypeOK, Job
      <4> QED
        BY <4>1, <4>2, QuietDevices
    <3> QED
      BY <3>2, <3>3
  <2>3. CASE QueuedMonitor(j)
    BY <2>3, CancelDevices DEF QueuedMonitor
  <2>4. CASE RunningMonitor(j)
    <3>1. \A k \in Jobs : QuietMove(k)
      BY <2>4, PartTypes DEF RunningMonitor, QuietMove, TypeOK, Job
    <3> QED
      BY <2>4, <3>1, QuietDevices DEF RunningMonitor
  <2> QED
    BY <1>3, <2>1, <2>2, <2>3, <2>4 DEF Cancellation
<1>4. ASSUME NEW s \in Servers, ServerStep(s)
      PROVE  DevicesInv'
  BY <1>1, <1>4, CrashDevices DEF ServerStep, Restart, GoStale, Heartbeat
<1>5. ASSUME NEW j \in Jobs, SaveStatement(j)
      PROVE  DevicesInv'
  BY <1>1, <1>5 DEF SaveStatement
<1>6. ASSUME NEW s \in Servers, NEW p \in Projects, CleanStep(s, p)
      PROVE  DevicesInv'
  BY <1>1, <1>6 DEF CleanStep, CleanCheck, CleanRemove
<1>7. CASE UNCHANGED vars
  BY <1>1, <1>7 DEF vars
<1> QED
  BY <1>2, <1>3, <1>4, <1>5, <1>6, <1>7, HandlerDevices DEF Next

----------------------------------------------------------------------------
(* Rows of lost servers.                                                    *)

\* What a step does to the row of a job that was given up, or is being cancelled.
LEMMA RowChanges ==
  ASSUME TypeOK, PlaceInv, LostInv, [Next]_vars, NEW k \in Jobs
  PROVE  \/ row'[k] = row[k]
         \/ row[k].status = "absent" /\ ~row'[k].lost
         \/ \E s \in Status : /\ MaySave(k, s)
                              /\ row'[k].status = s /\ row'[k].lost = row[k].lost
         \/ /\ row[k].status \in Unfinished /\ row'[k].status = "cancelling"
            /\ row'[k].lost = row[k].lost
         \/ row[k].status \in Unfinished /\ row'[k].status = "failed" /\ row'[k].lost
<1> DEFINE Change ==
         \/ row'[k] = row[k]
         \/ row[k].status = "absent" /\ ~row'[k].lost
         \/ \E s \in Status : /\ MaySave(k, s)
                              /\ row'[k].status = s /\ row'[k].lost = row[k].lost
         \/ /\ row[k].status \in Unfinished /\ row'[k].status = "cancelling"
            /\ row'[k].lost = row[k].lost
         \/ row[k].status \in Unfinished /\ row'[k].status = "failed" /\ row'[k].lost
<1>0. ASSUME row' = row
      PROVE  Change
  BY <1>0
<1>1. ASSUME NEW s \in Servers, NEW j \in Jobs, SubmitJob(s, j)
      PROVE  Change
  BY <1>1 DEF SubmitJob, TypeOK
<1>2. ASSUME NEW j \in Jobs, NEW s \in Status, 
             row' = IF MaySave(j, s) THEN [row EXCEPT ![j] = Saved(j, s)] ELSE row
      PROVE  Change
  <2>1. CASE k = j /\ MaySave(j, s)
    BY <1>2, <2>1, SavedFields, PartTypes DEF TypeOK
  <2>2. CASE ~(k = j /\ MaySave(j, s))
    BY <1>2, <2>2 DEF TypeOK
  <2> QED
    BY <2>1, <2>2
<1>3. ASSUME NEW j \in Jobs, SaveStatement(j)
      PROVE  Change
  <2>1. saves[j].sending \in Status
    BY PartTypes DEF Saves
  <2> QED
    BY <1>2, <1>3, <2>1 DEF SaveStatement
<1>4. ASSUME NEW j \in Jobs, FlushJob(j) \/ FlushQueued(j)
      PROVE  Change
  <2>1. row' = IF MaySave(j, job[j].status)
               THEN [row EXCEPT ![j] = Saved(j, job[j].status)] ELSE row
    BY <1>4 DEF FlushJob, FlushQueued
  <2> QED
    BY <1>2, <2>1, PartTypes
<1>5. ASSUME NEW j \in Jobs, Handler(j)
      PROVE  Change
  BY <1>0, <1>4, <1>5 DEF Handler, AdmitJob, TakeTargetLock, SaveArtifacts, CreateDeploy, Stage,
    Succeed, CleanUp, FailJob, StopAborted, Close, LateCheck
<1>6. ASSUME NEW j \in Jobs, NEW here \in BOOLEAN, RequestCancellation(j, here)
      PROVE  Change
  BY <1>6, PartTypes DEF RequestCancellation, TypeOK, Row
<1>7. ASSUME NEW j \in Jobs, Cancellation(j)
      PROVE  Change
  BY <1>0, <1>6, <1>7 DEF Cancellation, CancelLocal, QueuedMonitor, RunningMonitor
<1>8. ASSUME NEW s \in Servers, ServerStep(s)
      PROVE  Change
  BY <1>0, <1>8, FailedRowsFields DEF ServerStep, Crash, GoStale, Restart, Heartbeat, TypeOK
<1> QED
  BY <1>0, <1>1, <1>3, <1>5, <1>7, <1>8 DEF Next, CleanStep, CleanCheck, CleanRemove, vars

\* A lost job stays failed.
LEMMA StepLost ==
  ASSUME TypeOK, PlaceInv, LostInv, [Next]_vars
  PROVE  LostInv'
<1>1. SUFFICES ASSUME NEW k \in Jobs, row'[k].lost
               PROVE  row'[k].status = "failed"
  BY DEF LostInv
<1>2. CASE row[k].lost
  <2>1. row[k].status = "failed" /\ \A s \in Status : ~MaySave(k, s)
    BY <1>2 DEF LostInv, MaySave
  <2> QED
    BY <2>1, RowChanges DEF Unfinished
<1>3. CASE ~row[k].lost
  BY <1>1, <1>3, RowChanges
<1> QED
  BY <1>2, <1>3

----------------------------------------------------------------------------
(* The advisory locks.                                                      *)

Holding == {"building", "cleanup"}

\* A step of the handler of j leaves the task and the lock of other jobs alone.
LEMMA HandlerHolder ==
  ASSUME TypeOK, HolderInv, NEW j \in Jobs, Handler(j)
  PROVE  HolderInv'
<1>1. SUFFICES ASSUME NEW k \in Jobs, job'[k].pc \in Holding, TargetOf[k] # NoTarget
               PROVE  holder'[TargetOf[k]] = k
  BY DEF HolderInv, InTask, Holding
<1>2. TargetOf[k] \in Targets
  BY <1>1, BuildAssumption
<1>3. ASSUME job[k].pc \in Holding, holder' = holder
      PROVE  holder'[TargetOf[k]] = k
  BY <1>1, <1>3 DEF HolderInv, InTask, Holding
<1>4. CASE AdmitJob(j)
  <2>1. holder' = holder
    BY <1>4 DEF AdmitJob
  <2>2. CASE CanStart(job[j].at, j)
    <3>1. job' = [job EXCEPT ![j] = Started(j)]
      BY <1>4, <2>2 DEF AdmitJob
    <3> QED
      BY <1>1, <1>3, <2>1, <3>1, StartedFields, PartTypes DEF TypeOK, Holding
  <2>3. CASE ~CanStart(job[j].at, j)
    BY <1>1, <1>3, <1>4, <2>1, <2>3, QueuedEffect DEF Holding
  <2> QED
    BY <2>2, <2>3
<1>5. CASE TakeTargetLock(j)
  <2>1. CASE k = j
    BY <1>1, <1>2, <1>5, <2>1 DEF TakeTargetLock, TypeOK
  <2>2. CASE k # j
    <3>1. job[k].pc \in Holding
      BY <1>1, <1>5, <2>2 DEF TakeTargetLock, TypeOK
    <3>2. holder[TargetOf[k]] = k
      BY <1>1, <3>1 DEF HolderInv, InTask, Holding
    <3> QED
      BY <1>2, <1>5, <3>2, BuildAssumption DEF TakeTargetLock, TypeOK
  <2> QED
    BY <2>1, <2>2
<1>6. CASE SaveArtifacts(j) \/ CreateDeploy(j)
  <2>1. PICK to \in {"artifacts", "deployed"} :
          job' = [job EXCEPT ![j] = [@ EXCEPT !.output = to]]
    BY <1>6 DEF SaveArtifacts, CreateDeploy, Stage
  <2>2. holder' = holder
    BY <1>6 DEF SaveArtifacts, CreateDeploy, Stage
  <2> QED
    BY <1>1, <1>3, <2>1, <2>2, PartTypes DEF TypeOK, Job
<1>7. CASE EndsTask(j)
  <2>1. PICK p \in {"cleanup", "closing"}, s \in Final \cup {job[j].status} :
          /\ job' = [job EXCEPT ![j] = [@ EXCEPT !.pc = p, !.status = s]]
          /\ p = "cleanup" => job[j].pc = "building" /\ holder' = holder
          /\ p = "closing" => holder' = Unlocked(j)
    BY <1>7, TaskEnd
  <2>2. job'[k].pc = (IF k = j THEN p ELSE job[k].pc)
    BY <2>1, PartTypes DEF TypeOK, Job
  <2>3. CASE p = "cleanup"
    BY <1>1, <1>3, <2>1, <2>2, <2>3 DEF Holding
  <2>4. CASE p = "closing"
    <3>1. k # j /\ job[k].pc \in Holding
      BY <1>1, <2>2, <2>4 DEF Holding
    <3>2. holder[TargetOf[k]] = k
      BY <1>1, <3>1 DEF HolderInv, InTask, Holding
    <3> QED
      BY <1>2, <2>1, <2>4, <3>1, <3>2 DEF Unlocked
  <2> QED
    BY <2>3, <2>4
<1>8. CASE LateCheck(j)
  BY <1>1, <1>3, <1>8, PartTypes DEF LateCheck, TypeOK, Job, Holding
<1>9. CASE FlushJob(j)
  <2>1. holder' = holder
    BY <1>9 DEF FlushJob
  <2> QED
    BY <1>1, <1>3, <1>9, <2>1, FlushEffect, StartedFields, PartTypes DEF Holding
<1>10. CASE FlushQueued(j)
  BY <1>1, <1>3, <1>10, PartTypes DEF FlushQueued, TypeOK, Job, Holding
<1> QED
  BY <1>4, <1>5, <1>6, <1>7, <1>8, <1>9, <1>10 DEF Handler, EndsTask

\* Every step leaves a task with the lock of its target.
LEMMA StepHolder ==
  ASSUME TypeOK, HolderInv, [Next]_vars
  PROVE  HolderInv'
<1>1. ASSUME holder' = holder, \A k \in Jobs : InTask(k)' => InTask(k)
      PROVE  HolderInv'
  BY <1>1 DEF HolderInv
<1>2. ASSUME NEW s \in Servers, NEW j \in Jobs, SubmitJob(s, j)
      PROVE  HolderInv'
  BY <1>1, <1>2, PartTypes DEF SubmitJob, TypeOK, Job, InTask
<1>3. ASSUME NEW j \in Jobs, SaveStatement(j)
      PROVE  HolderInv'
  BY <1>1, <1>3 DEF SaveStatement, InTask
<1>4. ASSUME NEW j \in Jobs, Cancellation(j)
      PROVE  HolderInv'
  <2>1. ASSUME NEW here \in BOOLEAN, RequestCancellation(j, here)
        PROVE  HolderInv'
    BY <1>1, <2>1 DEF RequestCancellation, InTask
  <2>2. ASSUME CancelQueued(j), holder' = holder
        PROVE  HolderInv'
    BY <1>1, <2>2, PartTypes DEF CancelQueued, TypeOK, Job, InTask
  <2>3. CASE CancelLocal(j)
    <3>1. CASE job[j].status = "queued"
      BY <2>2, <2>3, <3>1 DEF CancelLocal
    <3>2. CASE job[j].status # "queued"
      <4>1. /\ job' = [job EXCEPT ![j] = [@ EXCEPT !.status = "cancelling", !.aborted = TRUE]]
            /\ holder' = holder
        BY <2>3, <3>2 DEF CancelLocal
      <4> QED
        BY <1>1, <4>1, PartTypes DEF TypeOK, Job, InTask
    <3> QED
      BY <3>1, <3>2
  <2>4. CASE QueuedMonitor(j)
    BY <2>2, <2>4 DEF QueuedMonitor
  <2>5. CASE RunningMonitor(j)
    BY <1>1, <2>5, PartTypes DEF RunningMonitor, TypeOK, Job, InTask
  <2> QED
    BY <1>4, <2>1, <2>3, <2>4, <2>5 DEF Cancellation
<1>5. ASSUME NEW s \in Servers, Crash(s)
      PROVE  HolderInv'
  <2> DEFINE mine == {j \in Jobs : job[j].at = s /\ job[j].pc # "gone"}
  <2>1. SUFFICES ASSUME NEW k \in Jobs, InTask(k)', TargetOf[k] # NoTarget
                 PROVE  holder'[TargetOf[k]] = k
    BY DEF HolderInv
  <2>2. /\ job'[k] = IF k \in mine THEN [job[k] EXCEPT !.pc = "gone"] ELSE job[k]
        /\ \A t \in Targets : holder'[t] = IF holder[t] \in mine THEN NoJob ELSE holder[t]
    BY <1>5 DEF Crash
  <2> HIDE DEF mine
  <2>3. k \notin mine /\ InTask(k)
    BY <2>1, <2>2, PartTypes DEF Job, InTask
  <2>4. holder[TargetOf[k]] = k /\ TargetOf[k] \in Targets
    BY <2>1, <2>3, BuildAssumption DEF HolderInv
  <2> QED
    BY <2>2, <2>3, <2>4
<1>6. ASSUME NEW s \in Servers, Restart(s) \/ GoStale(s) \/ Heartbeat(s)
      PROVE  HolderInv'
  BY <1>1, <1>6 DEF Restart, GoStale, Heartbeat, InTask
<1>7. ASSUME NEW s \in Servers, NEW p \in Projects, CleanStep(s, p)
      PROVE  HolderInv'
  BY <1>1, <1>7 DEF CleanStep, CleanCheck, CleanRemove, InTask
<1>8. CASE UNCHANGED vars
  BY <1>1, <1>8 DEF vars, InTask
<1> QED
  BY <1>2, <1>3, <1>4, <1>5, <1>6, <1>7, <1>8, HandlerHolder DEF Next, ServerStep

----------------------------------------------------------------------------
(* Theorems.                                                                *)

\* The initial states are in order.
LEMMA InitIInv == Init => IInv
<1> SUFFICES ASSUME Init
             PROVE  IInv
  OBVIOUS
<1>1. TypeOK
  BY InitType
<1>2. PlaceInv /\ LostInv /\ HolderInv
  BY DEF Init, PlaceInv, LostInv, HolderInv, InTask, NewJob, NewRow
<1>3. DevicesInv
  BY DEF Init, DevicesInv, ActiveInv, WaitingInv, QueueInv, NewJob
<1> QED
  BY <1>1, <1>2, <1>3 DEF IInv

\* Every step keeps them in order.
LEMMA StepIInv == IInv /\ [Next]_vars => IInv'
BY StepType, StepPlace, StepDevices, StepLost, StepHolder DEF IInv

(***************************************************************************)
(* The inductive invariant of the build servers: types, places, device     *)
(* locks, lost rows and advisory locks.                                    *)
(***************************************************************************)
THEOREM Invariance == Spec => []IInv
<1> QED
  BY InitIInv, StepIInv, PTL DEF Spec

(***************************************************************************)
(* Every variable keeps its type.                                          *)
(***************************************************************************)
THEOREM TypeCorrect == Spec => []TypeOK
<1>1. IInv => TypeOK
  BY DEF IInv
<1> QED
  BY <1>1, Invariance, PTL

(***************************************************************************)
(* Never two builds of one target, over all servers and their crashes: the *)
(* task runs only while its job holds the advisory lock (runExclusive).    *)
(***************************************************************************)
THEOREM ExclusiveTargets == Spec => []TargetExclusive
<1>1. IInv => TargetExclusive
  BY DEF IInv, HolderInv, TargetExclusive
<1> QED
  BY <1>1, Invariance, PTL

(***************************************************************************)
(* The job that waits for a device is remembered by its lock and there is  *)
(* a job whose end starts it (submitJob, startJob, startWaitingJob),       *)
(* however submissions, ends, cancellations and crashes interleave.        *)
(***************************************************************************)
THEOREM WaitersNotStranded == Spec => []NoStrandedWaiter
<1>1. ASSUME IInv
      PROVE  NoStrandedWaiter
  <2>1. SUFFICES ASSUME NEW j \in Jobs, job[j].pc = "queued"
                 PROVE  LET s == job[j].at
                            d == DeviceOf[j]
                        IN
                        /\ Held(waiting, s, j) = j
                        /\ \E k \in Jobs : /\ job[k].at = s /\ DeviceOf[k] = d
                                           /\ \/ /\ Held(active, s, j) = k
                                                 /\ Underway(k) \/ job[k].pc = "closing"
                                              \/ job[k].pc = "flushing"
    BY DEF NoStrandedWaiter
  <2> DEFINE s == job[j].at
  <2> DEFINE d == DeviceOf[j]
  <2>2. s \in Servers /\ d \in Devices /\ waiting[s][d] = j
    BY <1>1, <2>1, Starter DEF IInv
  <2>3. PICK k \in Jobs : Starts(k, s, d) /\ job[k].pc \in Running \cup {"flushing"}
    BY <1>1, <2>1, Starter DEF IInv
  <2>4. Held(waiting, s, j) = j /\ Held(active, s, j) = active[s][d]
    BY <2>2, BuildAssumption DEF Held
  <2> QED
    BY <2>3, <2>4 DEF Starts, Running, Underway
<1> QED
  BY <1>1, Invariance, PTL

(***************************************************************************)
(* A job given up as worker_lost stays so (the WHERE clause of saveJob).   *)
(***************************************************************************)
THEOREM LostForGood == Spec => WorkerLostIsFinal
<1>1. IInv /\ [Next]_vars => [\A j \in Jobs : row[j].lost => row'[j] = row[j]]_row
  <2>1. SUFFICES ASSUME IInv, [Next]_vars, NEW j \in Jobs, row[j].lost
                 PROVE  row'[j] = row[j]
    OBVIOUS
  <2>2. row[j].status = "failed" /\ \A s \in Status : ~MaySave(j, s)
    BY <2>1 DEF IInv, LostInv, MaySave
  <2> QED
    BY <2>1, <2>2, RowChanges DEF IInv, Unfinished
<1> QED
  BY <1>1, Invariance, PTL DEF Spec, WorkerLostIsFinal

(***************************************************************************)
(* A cancellation the database has accepted is never answered by a success *)
(* or a new start, whatever saves are under way.                           *)
(***************************************************************************)
THEOREM CancellationsKept == Spec => CancellationKept
<1>1. IInv /\ [Next]_vars => [\A j \in Jobs : CancelRequested(j)
                    => row'[j].status \in {"cancelling", "cancelled", "failed"}]_row
  <2>1. SUFFICES ASSUME IInv, [Next]_vars, NEW j \in Jobs, CancelRequested(j)
                 PROVE  row'[j].status \in {"cancelling", "cancelled", "failed"}
    OBVIOUS
  <2>2. /\ row[j].status \in {"cancelling", "cancelled"}
        /\ \A s \in Status : MaySave(j, s) => s \in {"cancelled", "failed"}
    BY <2>1 DEF CancelRequested, MaySave
  <2> QED
    BY <2>1, <2>2, RowChanges DEF IInv
<1> QED
  BY <1>1, Invariance, PTL DEF Spec, CancellationKept

(***************************************************************************)
(* The server of a job that was given up as worker_lost never ends it as   *)
(* succeeded: the refused save makes startJob report a failure.            *)
(***************************************************************************)
THEOREM LostNotReported == Spec => LostJobNotReported
<1>1. IInv /\ [Next]_vars =>
        [\A j \in Jobs : row[j].lost /\ job[j].pc # "done" /\ job'[j].pc = "done"
                           => job'[j].status # "succeeded"]_job
  <2>1. SUFFICES ASSUME IInv, [Next]_vars, NEW k \in Jobs,
                        row[k].lost, job[k].pc # "done", job'[k].pc = "done"
                 PROVE  job'[k].status # "succeeded"
    OBVIOUS
  <2>2. ~CancelRequested(k) /\ \A s \in Status : ~MaySave(k, s)
    BY <2>1 DEF IInv, LostInv, MaySave, CancelRequested
  <2>3. TypeOK /\ PlaceInv
    BY <2>1 DEF IInv
  <2>4. ASSUME NEW j \in Jobs, Handler(j)
        PROVE  job'[k].status # "succeeded"
    <3>1. CASE AdmitJob(j)
      <4>1. CASE CanStart(job[j].at, j)
        <5>1. job' = [job EXCEPT ![j] = Started(j)]
          BY <3>1, <4>1 DEF AdmitJob
        <5> QED
          BY <2>1, <2>3, <5>1, StartedFields, PartTypes DEF TypeOK
      <4>2. CASE ~CanStart(job[j].at, j)
        BY <2>1, <2>3, <3>1, <4>2, QueuedEffect
      <4> QED
        BY <4>1, <4>2
    <3>2. CASE FlushJob(j)
      <4>1. CASE k = j
        <5> DEFINE next == {l \in Jobs : l = Held(waiting, job[j].at, j) /\ job[l].status = "queued"}
        <5>1. j \notin next
          BY <2>3, <3>2 DEF FlushJob, TypeOK
        <5>2. SaveThrows(j, job[j].status)
          BY <2>2, <2>3, <4>1, PartTypes DEF SaveThrows
        <5>3. job' = [l \in Jobs |->
                 CASE l = j -> [job[l] EXCEPT !.pc = "done",
                                  !.status = IF SaveThrows(j, job[j].status) THEN "failed"
                                             ELSE job[j].status]
                   [] l \in next -> Started(l)
                   [] OTHER -> job[l]]
          BY <3>2 DEF FlushJob
        <5> HIDE DEF next
        <5>4. job'[j] = [job[j] EXCEPT !.pc = "done", !.status = "failed"]
          BY <5>1, <5>2, <5>3
        <5> QED
          BY <2>3, <4>1, <5>4, PartTypes DEF Job
      <4>2. CASE k # j
        BY <2>1, <2>3, <3>2, <4>2, FlushEffect, StartedFields, PartTypes
      <4> QED
        BY <4>1, <4>2
    <3>3. CASE FlushQueued(j)
      BY <2>1, <2>3, <3>3, PartTypes DEF FlushQueued, PlaceInv, TypeOK, Job
    <3>4. CASE TakeTargetLock(j)
      BY <2>1, <2>3, <3>4, PartTypes DEF TakeTargetLock, TypeOK, Job
    <3>5. CASE SaveArtifacts(j) \/ CreateDeploy(j)
      <4>1. PICK to \in {"artifacts", "deployed"} :
              job' = [job EXCEPT ![j] = [@ EXCEPT !.output = to]]
        BY <3>5 DEF SaveArtifacts, CreateDeploy, Stage
      <4> QED
        BY <2>1, <2>3, <4>1, PartTypes DEF TypeOK, Job
    <3>6. CASE EndsTask(j)
      <4>1. PICK p \in {"cleanup", "closing"}, s \in Final \cup {job[j].status} :
              job' = [job EXCEPT ![j] = [@ EXCEPT !.pc = p, !.status = s]]
        BY <2>3, <3>6, TaskEnd
      <4> QED
        BY <2>1, <2>3, <4>1, PartTypes DEF TypeOK, Job
    <3>7. CASE LateCheck(j)
      BY <2>1, <2>3, <3>7, PartTypes DEF LateCheck, TypeOK, Job
    <3> QED
      BY <2>4, <3>1, <3>2, <3>3, <3>4, <3>5, <3>6, <3>7 DEF Handler, EndsTask
  <2>5. ASSUME NEW s \in Servers, NEW j \in Jobs, SubmitJob(s, j)
        PROVE  job'[k].status # "succeeded"
    BY <2>1, <2>3, <2>5, PartTypes DEF SubmitJob, TypeOK, Job
  <2>6. ASSUME NEW j \in Jobs, Cancellation(j)
        PROVE  job'[k].status # "succeeded"
    <3>1. job'[k].pc \in {job[k].pc, "dequeued"}
      <4>1. ASSUME CancelQueued(j)
            PROVE  job'[k].pc \in {job[k].pc, "dequeued"}
        BY <2>3, <4>1, PartTypes DEF CancelQueued, TypeOK, Job
      <4>2. ASSUME job' = [job EXCEPT ![j] =
                             [@ EXCEPT !.status = "cancelling", !.aborted = TRUE]]
            PROVE  job'[k].pc \in {job[k].pc, "dequeued"}
        BY <2>3, <4>2, PartTypes DEF TypeOK, Job
      <4>3. CASE RunningMonitor(j)
        BY <2>3, <4>3, PartTypes DEF RunningMonitor, TypeOK, Job
      <4> QED
        BY <2>6, <4>1, <4>2, <4>3 DEF Cancellation, RequestCancellation, CancelLocal, QueuedMonitor
    <3> QED
      BY <2>1, <3>1
  <2>7. ASSUME NEW s \in Servers, Crash(s)
        PROVE  job'[k].status # "succeeded"
    <3>1. job'[k] = IF job[k].at = s /\ job[k].pc # "gone"
                    THEN [job[k] EXCEPT !.pc = "gone"] ELSE job[k]
      BY <2>7 DEF Crash
    <3> QED
      BY <2>1, <2>3, <3>1, PartTypes DEF Job
  <2>8. ASSUME job' = job
        PROVE  FALSE
    BY <2>1, <2>8
  <2> QED
    BY <2>1, <2>4, <2>5, <2>6, <2>7, <2>8 DEF Next, SaveStatement, ServerStep, Restart, GoStale,
      Heartbeat, CleanStep, CleanCheck, CleanRemove, vars
<1> QED
  BY <1>1, Invariance, PTL DEF Spec, LostJobNotReported

=============================================================================
