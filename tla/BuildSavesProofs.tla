-------------------------- MODULE BuildSavesProofs --------------------------
(***************************************************************************)
(* What the database says of a build job: that it has ended, and which     *)
(* status may follow which.  The server saves a status while later ones    *)
(* are already reported, drops what a refused statement leaves behind, and *)
(* a cancellation may arrive at any time.                                  *)
(***************************************************************************)
EXTENDS BuildDeployProofs

\* What may stand in the row of a job that has ended.
Ending == Final \cup {"cancelling"}

\* The status that the statements under way will have written at last.
LastSave(sv) == IF sv.latest = "absent" THEN sv.sending ELSE sv.latest

(***************************************************************************)
(* The inductive invariant, for one job: it closes with a final status or  *)
(* a late cancellation; and once done, either its row says how it ended or *)
(* the statement that will say so is still under way.  A cancelled or      *)
(* failed job is done only after its last statement, and has that status.  *)
(***************************************************************************)
SaveOK(k) ==
  IF job[k].status \in {"cancelled", "failed"}
  THEN saves[k].sending = "absent" /\ row[k].status = job[k].status
  ELSE IF saves[k].sending = "absent" THEN row[k].status \in Ending
       ELSE LastSave(saves[k]) \in Ending

EndOK(k) ==
  /\ job[k].pc \in {"cleanup", "closing", "flushing"} =>
       job[k].status \in Ending \ {"replaced"}
  /\ job[k].pc = "done" /\ ~row[k].lost => SaveOK(k)

EndingInv == \A k \in Jobs : EndOK(k)

\* Whatever was being saved, the status reported last is saved at last.
LEMMA PersistLast ==
  ASSUME NEW sv \in Saves, NEW s \in Status, s # "absent"
  PROVE  Persist(sv, s).sending # "absent" /\ LastSave(Persist(sv, s)) = s
BY DEF Persist, LastSave, Saves

\* A row that is failed, or only gets a request to cancel, is still as good as before.
LEMMA EndKept ==
  ASSUME NEW k \in Jobs, EndOK(k), job'[k] = job[k], saves'[k] = saves[k],
         \/ row'[k] = row[k]
         \/ row'[k].lost
         \/ /\ row[k].status \in Unfinished /\ row'[k].status = "cancelling"
            /\ row'[k].lost = row[k].lost
  PROVE  EndOK(k)'
BY DEF EndOK, SaveOK, Ending, Unfinished, Final

\* A job that is not about to end has nothing to answer for.
LEMMA NotEnding ==
  ASSUME NEW k \in Jobs, job'[k].pc \notin {"cleanup", "closing", "flushing", "done"}
  PROVE  EndOK(k)'
BY DEF EndOK

----------------------------------------------------------------------------
(* The steps of a job's handler.                                           *)

\* Admission: only the job that is replaced ends.
LEMMA AdmitEnds ==
  ASSUME IInv, EndingInv, NEW j \in Jobs, AdmitJob(j), NEW k \in Jobs
  PROVE  EndOK(k)'
<1>1. TypeOK /\ EndOK(k) /\ row' = row /\ saves[k] \in Saves /\ job[k] \in Job
  BY PartTypes DEF IInv, EndingInv, AdmitJob
<1>2. CASE CanStart(job[j].at, j)
  <2>1. /\ job' = [job EXCEPT ![j] = Started(j)]
        /\ k # j => saves'[k] = saves[k]
    BY <1>1, <1>2 DEF AdmitJob, TypeOK
  <2>2. CASE k = j
    <3>1. job'[k].pc = "locking"
      BY <1>1, <2>1, <2>2, StartedFields DEF TypeOK
    <3> QED
      BY <3>1, NotEnding
  <2>3. CASE k # j
    BY <1>1, <2>1, <2>3, EndKept DEF TypeOK
  <2> QED
    BY <2>2, <2>3
<1>3. CASE ~CanStart(job[j].at, j)
  <2> DEFINE replaced == {l \in Jobs : l = Held(waiting, job[j].at, j) /\ job[l].status = "queued"}
  <2>1. saves' = [l \in Jobs |->
                    CASE l = j -> Persist(Persist(saves[l], "accepted"), "queued")
                      [] l \in replaced -> Persist(saves[l], "replaced")
                      [] OTHER -> saves[l]]
    BY <1>3 DEF AdmitJob
  <2>2. k \in replaced <=> k = Held(waiting, job[j].at, j) /\ job[k].status = "queued"
    OBVIOUS
  <2> HIDE DEF replaced
  <2>3. CASE k = j
    BY <1>1, <1>3, <2>3, QueuedEffect, NotEnding
  <2>4. CASE k # j /\ k \notin replaced
    BY <1>1, <1>3, <2>1, <2>2, <2>4, QueuedEffect, EndKept
  <2>5. CASE k # j /\ k \in replaced
    <3>1. job'[k].pc = "done" /\ job'[k].status = "replaced"
      BY <1>1, <1>3, <2>2, <2>5, QueuedEffect
    <3>2. saves'[k] = Persist(saves[k], "replaced")
      BY <2>1, <2>5
    <3>3. saves'[k].sending # "absent" /\ LastSave(saves'[k]) = "replaced"
      BY <1>1, <3>2, PersistLast DEF Status, Final
    <3> QED
      BY <3>1, <3>3 DEF EndOK, SaveOK, LastSave, Ending, Final
  <2> QED
    BY <2>3, <2>4, <2>5
<1> QED
  BY <1>2, <1>3

\* A job that takes its place among those that end: its status is one to end with.
LEMMA MovedEnds ==
  ASSUME TypeOK, NEW j \in Jobs, NEW k \in Jobs, EndOK(k), NEW s \in Ending \ {"replaced"},
         NEW pc \in {"cleanup", "closing", "flushing"}, row' = row, k # j => saves'[k] = saves[k],
         job' = [job EXCEPT ![j] = [@ EXCEPT !.pc = pc, !.status = s]]
  PROVE  EndOK(k)'
<1>1. CASE k = j
  <2>1. job'[k].pc = pc /\ job'[k].status = s
    BY <1>1, PartTypes DEF TypeOK, Job
  <2> QED
    BY <2>1 DEF EndOK
<1>2. CASE k # j
  BY <1>2, EndKept DEF TypeOK
<1> QED
  BY <1>1, <1>2

\* The end of a task, and the late check for cancellations.
LEMMA CloseEnds ==
  ASSUME TypeOK, EndingInv, NEW j \in Jobs, NEW k \in Jobs,
         EndsTask(j) \/ LateCheck(j)
  PROVE  EndOK(k)'
<1>1. EndOK(k) /\ EndOK(j)
  BY DEF EndingInv
<1>2. row' = row /\ (k # j => saves'[k] = saves[k])
  BY DEF EndsTask, Succeed, CleanUp, FailJob, StopAborted, Close, LateCheck, TypeOK
<1>3. CASE Succeed(j) \/ FailJob(j) \/ StopAborted(j)
  <2>1. PICK pc \in {"cleanup", "closing"}, s \in {"succeeded", "failed", "cancelled"} :
          job' = [job EXCEPT ![j] = [@ EXCEPT !.pc = pc, !.status = s]]
    BY <1>3 DEF Succeed, FailJob, StopAborted, Close
  <2>2. s \in Ending \ {"replaced"}
    BY DEF Ending, Final
  <2> QED
    BY <1>1, <1>2, <2>1, <2>2, MovedEnds
<1>4. CASE LateCheck(j)
  <2>1. PICK s \in {"cancelled", job[j].status} :
          job' = [job EXCEPT ![j] = [@ EXCEPT !.pc = "flushing", !.status = s]]
    BY <1>4 DEF LateCheck
  <2>2. s \in Ending \ {"replaced"}
    BY <1>1, <1>4, <2>1 DEF LateCheck, EndOK, Ending, Final
  <2> QED
    BY <1>1, <1>2, <2>1, <2>2, MovedEnds
<1>5. CASE CleanUp(j)
  <2>1. /\ job' = [job EXCEPT ![j] = [@ EXCEPT !.pc = "closing"]]
        /\ job[j].pc = "cleanup"
    BY <1>5 DEF CleanUp
  <2>2. CASE k = j
    <3>1. job'[k].pc = "closing" /\ job'[k].status = job[k].status
      BY <2>1, <2>2, PartTypes DEF TypeOK, Job
    <3> QED
      BY <1>1, <2>1, <2>2, <3>1 DEF EndOK
  <2>3. CASE k # j
    BY <1>1, <1>2, <2>1, <2>3, EndKept DEF TypeOK
  <2> QED
    BY <2>2, <2>3
<1> QED
  BY <1>3, <1>4, <1>5 DEF EndsTask

\* A save that is not refused writes the status; one that is refused finds the row
\* lost or being cancelled.
LEMMA Flushed ==
  ASSUME TypeOK, NEW j \in Jobs, NEW s \in Ending,
         row' = IF MaySave(j, s) THEN [row EXCEPT ![j] = Saved(j, s)] ELSE row
  PROVE  /\ row'[j].lost = row[j].lost
         /\ ~row[j].lost => row'[j].status \in {s, "cancelling", "cancelled"}
         /\ ~row[j].lost /\ s \in {"cancelled", "failed"} => row'[j].status = s
<1>1. s \in Status
  BY DEF Ending, Status, Unfinished
<1>2. CASE MaySave(j, s)
  BY <1>1, <1>2, SavedFields, PartTypes DEF TypeOK
<1>3. CASE ~MaySave(j, s)
  BY <1>3 DEF MaySave, CancelRequested
<1> QED
  BY <1>2, <1>3

\* The repeated save at the end of a job: it ends as its row says, or its row is lost.
LEMMA FlushEnds ==
  ASSUME TypeOK, EndingInv, NEW j \in Jobs, FlushJob(j), NEW k \in Jobs
  PROVE  EndOK(k)'
<1> DEFINE next == {l \in Jobs : l = Held(waiting, job[j].at, j) /\ job[l].status = "queued"}
           st == IF SaveThrows(j, job[j].status) THEN "failed" ELSE job[j].status
<1>1. EndOK(k) /\ EndOK(j)
  BY DEF EndingInv
<1>2. /\ job' = [l \in Jobs |->
            CASE l = j -> [job[l] EXCEPT !.pc = "done", !.status = st]
              [] l \in next -> Started(l)
              [] OTHER -> job[l]]
      /\ saves' = [l \in Jobs |-> IF l \in next THEN Persist(saves[l], "running") ELSE saves[l]]
      /\ row' = IF MaySave(j, job[j].status)
                THEN [row EXCEPT ![j] = Saved(j, job[j].status)] ELSE row
      /\ job[j].pc = "flushing" /\ saves[j].sending = "absent"
  BY DEF FlushJob
<1>3. j \notin next
  BY DEF FlushJob, TypeOK
<1>4. job[j].status \in Ending \ {"replaced"}
  BY <1>1, <1>2 DEF EndOK
<1>5. k # j => row'[k] = row[k]
  BY <1>2 DEF TypeOK
<1> HIDE DEF next
<1>6. CASE k = j
  <2>1. ~row[j].lost => st = job[j].status
    BY <1>4 DEF SaveThrows, MaySave
  <2> HIDE DEF st
  <2>2. job'[k].pc = "done" /\ job'[k].status = st
    BY <1>2, <1>3, <1>6, PartTypes DEF Job
  <2>3. saves'[k].sending = "absent"
    BY <1>2, <1>3, <1>6
  <2>4. /\ row'[j].lost = row[j].lost
        /\ ~row[j].lost => row'[j].status \in {job[j].status, "cancelling", "cancelled"}
        /\ ~row[j].lost /\ job[j].status \in {"cancelled", "failed"} =>
             row'[j].status = job[j].status
    BY <1>2, <1>4, Flushed
  <2> QED
    BY <1>4, <1>6, <2>1, <2>2, <2>3, <2>4 DEF EndOK, SaveOK, Ending, Final
<1>7. CASE k # j /\ k \in next
  <2>1. job'[k].pc = "locking"
    BY <1>2, <1>7, StartedFields, PartTypes
  <2> QED
    BY <2>1, NotEnding
<1>8. CASE k # j /\ k \notin next
  BY <1>1, <1>2, <1>5, <1>8, EndKept
<1> QED
  BY <1>6, <1>7, <1>8

\* The save at the end of a job that was cancelled while queued.
LEMMA FlushQueuedEnds ==
  ASSUME TypeOK, PlaceInv, EndingInv, NEW j \in Jobs, FlushQueued(j), NEW k \in Jobs
  PROVE  EndOK(k)'
<1>1. EndOK(k) /\ job[j].status \in {"cancelled", "cancelling"}
  BY DEF EndingInv, FlushQueued, PlaceInv
<1>2. /\ row' = IF MaySave(j, job[j].status)
                THEN [row EXCEPT ![j] = Saved(j, job[j].status)] ELSE row
      /\ job' = [job EXCEPT ![j] = [@ EXCEPT !.pc = "done"]]
      /\ saves' = saves /\ saves[j].sending = "absent"
  BY DEF FlushQueued
<1>3. CASE k = j
  <2>1. job[j].status \in Ending
    BY <1>1 DEF Ending, Final
  <2>2. /\ row'[j].lost = row[j].lost
        /\ ~row[j].lost => row'[j].status \in {job[j].status, "cancelling", "cancelled"}
        /\ ~row[j].lost /\ job[j].status \in {"cancelled", "failed"} =>
             row'[j].status = job[j].status
    BY <1>2, <2>1, Flushed
  <2>3. job'[k].pc = "done" /\ job'[k].status = job[k].status
    BY <1>2, <1>3, PartTypes DEF TypeOK, Job
  <2> QED
    BY <1>1, <1>2, <1>3, <2>2, <2>3 DEF EndOK, SaveOK, Ending, Final
<1>4. CASE k # j
  BY <1>1, <1>2, <1>4, EndKept DEF TypeOK
<1> QED
  BY <1>3, <1>4

\* The handler of a job keeps the invariant.
LEMMA HandlerEnds ==
  ASSUME IInv, EndingInv, NEW j \in Jobs, Handler(j), NEW k \in Jobs
  PROVE  EndOK(k)'
<1>1. TypeOK /\ PlaceInv /\ EndOK(k) /\ job[j] \in Job
  BY PartTypes DEF IInv, EndingInv
<1>2. CASE TakeTargetLock(j) \/ SaveArtifacts(j) \/ CreateDeploy(j)
  <2>1. /\ row' = row /\ saves' = saves
        /\ \E b : job' = [job EXCEPT ![j] = b] /\ b.pc = "building"
    <3>1. CASE TakeTargetLock(j)
      <4>1. [job[j] EXCEPT !.pc = "building"].pc = "building"
        BY <1>1 DEF Job
      <4> QED
        BY <3>1, <4>1 DEF TakeTargetLock
    <3>2. CASE SaveArtifacts(j) \/ CreateDeploy(j)
      <4>1. PICK to \in {"artifacts", "deployed"} :
              job' = [job EXCEPT ![j] = [@ EXCEPT !.output = to]]
        BY <3>2 DEF SaveArtifacts, CreateDeploy, Stage
      <4>2. [job[j] EXCEPT !.output = to].pc = job[j].pc /\ job[j].pc = "building"
        BY <1>1, <3>2 DEF Job, SaveArtifacts, CreateDeploy, Stage
      <4> QED
        BY <3>2, <4>1, <4>2 DEF SaveArtifacts, CreateDeploy, Stage
    <3> QED
      BY <1>2, <3>1, <3>2
  <2>2. CASE k = j
    BY <1>1, <2>1, <2>2, NotEnding DEF TypeOK
  <2>3. CASE k # j
    BY <1>1, <2>1, <2>3, EndKept DEF TypeOK
  <2> QED
    BY <2>2, <2>3
<1> QED
  BY <1>1, <1>2, AdmitEnds, CloseEnds, FlushEnds, FlushQueuedEnds DEF Handler, EndsTask

----------------------------------------------------------------------------
(* Statements under way, cancellations and servers.                        *)

\* One statement of the queue: refused, written, or dropped with what follows it.
LEMMA StatementEnds ==
  ASSUME IInv, EndingInv, NEW j \in Jobs, SaveStatement(j), NEW k \in Jobs
  PROVE  EndOK(k)'
<1> DEFINE s == saves[j].sending
<1>1. TypeOK /\ EndOK(k) /\ saves[j] \in Saves /\ s \in Status /\ s # "absent" /\ job' = job
  BY PartTypes DEF IInv, EndingInv, SaveStatement, Saves
<1>2. /\ row' = IF MaySave(j, s) THEN [row EXCEPT ![j] = Saved(j, s)] ELSE row
      /\ saves' = [saves EXCEPT ![j] =
                     IF SaveThrows(j, s) THEN [@ EXCEPT !.sending = "absent"]
                     ELSE [sending |-> @.latest, latest |-> "absent"]]
  BY DEF SaveStatement
<1>3. CASE k # j
  BY <1>1, <1>2, <1>3, EndKept DEF TypeOK
<1>4. CASE k = j
  <2>1. row'[k].lost = row[k].lost
    BY <1>1, <1>2, <1>4, SavedFields, PartTypes DEF TypeOK
  <2>2. SUFFICES ASSUME job[k].pc = "done", ~row[k].lost
                 PROVE  SaveOK(k)'
    BY <1>1, <2>1 DEF EndOK
  <2>3. job[k].status \notin {"cancelled", "failed"} /\ LastSave(saves[k]) \in Ending
    BY <1>1, <1>4, <2>2 DEF EndOK, SaveOK
  <2>4. ~SaveThrows(j, s)
    BY <1>4, <2>2, <2>3 DEF SaveThrows, MaySave
  <2>5. saves'[k] = [sending |-> saves[k].latest, latest |-> "absent"]
    BY <1>1, <1>2, <1>4, <2>4 DEF TypeOK
  <2>6. CASE saves[k].latest = "absent"
    <3>1. s \in Ending
      BY <1>4, <2>3, <2>6 DEF LastSave
    <3>2. row'[k].status \in {s, "cancelling", "cancelled"}
      BY <1>1, <1>2, <1>4, <2>2, <3>1, Flushed
    <3> QED
      BY <1>1, <2>3, <2>5, <2>6, <3>1, <3>2 DEF SaveOK, Ending, Final
  <2>7. CASE saves[k].latest # "absent"
    BY <1>1, <2>3, <2>5, <2>7 DEF SaveOK, LastSave
  <2> QED
    BY <2>6, <2>7
<1> QED
  BY <1>3, <1>4

\* A cancellation takes a job from the queue, or is the last status of one that ends.
LEMMA CancellationEnds ==
  ASSUME IInv, EndingInv, NEW j \in Jobs, Cancellation(j), NEW k \in Jobs
  PROVE  EndOK(k)'
<1>1. TypeOK /\ EndOK(k) /\ job[j] \in Job /\ saves[j] \in Saves /\ row[j] \in Row
  BY PartTypes DEF IInv, EndingInv
<1>2. ASSUME NEW here \in BOOLEAN, RequestCancellation(j, here)
      PROVE  EndOK(k)'
  <2>1. /\ job' = job /\ saves' = saves /\ row[j].status \in Unfinished
        /\ row' = [row EXCEPT ![j] = [@ EXCEPT !.status = "cancelling"]]
    BY <1>2 DEF RequestCancellation
  <2>2. CASE k = j
    <3>1. row'[k].status = "cancelling" /\ row'[k].lost = row[k].lost
      BY <1>1, <2>1, <2>2 DEF TypeOK, Row
    <3> QED
      BY <1>1, <2>1, <2>2, <3>1, EndKept
  <2>3. CASE k # j
    BY <1>1, <2>1, <2>3, EndKept DEF TypeOK
  <2> QED
    BY <2>2, <2>3
<1>3. ASSUME CancelQueued(j), row' = row
      PROVE  EndOK(k)'
  <2>1. CASE k = j
    <3>1. job'[k].pc = "dequeued"
      BY <1>1, <1>3, <2>1 DEF CancelQueued, TypeOK, Job
    <3> QED
      BY <3>1, NotEnding
  <2>2. CASE k # j
    BY <1>1, <1>3, <2>2, EndKept DEF CancelQueued, TypeOK
  <2> QED
    BY <2>1, <2>2
<1>4. CASE CancelLocal(j) /\ job[j].status # "queued"
  <2>1. /\ job' = [job EXCEPT ![j] = [@ EXCEPT !.status = "cancelling", !.aborted = TRUE]]
        /\ saves' = [saves EXCEPT ![j] = Persist(@, "cancelling")]
        /\ row' = row
    BY <1>4 DEF CancelLocal
  <2>2. CASE k = j
    <3>1. job'[k].pc = job[k].pc /\ job'[k].status = "cancelling"
      BY <1>1, <2>1, <2>2 DEF TypeOK, Job
    <3>2. saves'[k].sending # "absent" /\ LastSave(saves'[k]) = "cancelling"
      BY <1>1, <2>1, <2>2, PersistLast DEF TypeOK, Status, Unfinished
    <3> QED
      BY <3>1, <3>2 DEF EndOK, SaveOK, LastSave, Ending
  <2>3. CASE k # j
    BY <1>1, <2>1, <2>3, EndKept DEF TypeOK
  <2> QED
    BY <2>2, <2>3
<1>5. CASE RunningMonitor(j)
  <2>1. /\ job' = [job EXCEPT ![j] = [@ EXCEPT !.aborted = TRUE]]
        /\ saves' = saves /\ row' = row /\ job[j].pc # "done"
    BY <1>5 DEF RunningMonitor, Underway
  <2>2. CASE k = j
    <3>1. job'[k].pc = job[k].pc /\ job'[k].status = job[k].status
      BY <1>1, <2>1, <2>2 DEF TypeOK, Job
    <3> QED
      BY <1>1, <2>1, <2>2, <3>1 DEF EndOK
  <2>3. CASE k # j
    BY <1>1, <2>1, <2>3, EndKept DEF TypeOK
  <2> QED
    BY <2>2, <2>3
<1> QED
  BY <1>2, <1>3, <1>4, <1>5 DEF Cancellation, CancelLocal, QueuedMonitor

\* Crashes end handlers, not jobs; a server given up for lost has its rows failed.
LEMMA ServerEnds ==
  ASSUME IInv, EndingInv, NEW s \in Servers, ServerStep(s), NEW k \in Jobs
  PROVE  EndOK(k)'
<1>1. TypeOK /\ EndOK(k) /\ job[k] \in Job
  BY PartTypes DEF IInv, EndingInv
<1>2. CASE Crash(s)
  <2>1. CASE job[k].at = s /\ job[k].pc # "gone"
    <3>1. job'[k] = [job[k] EXCEPT !.pc = "gone"]
      BY <1>2, <2>1 DEF Crash
    <3>2. job'[k].pc = "gone"
      BY <1>1, <3>1 DEF Job
    <3> QED
      BY <3>2, NotEnding
  <2>2. CASE ~(job[k].at = s /\ job[k].pc # "gone")
    <3>1. job'[k] = job[k] /\ saves'[k] = saves[k] /\ row' = row
      BY <1>2, <2>2 DEF Crash
    <3> QED
      BY <1>1, <3>1, EndKept
  <2> QED
    BY <2>1, <2>2
<1>3. CASE Restart(s) \/ Heartbeat(s)
  <2>1. /\ job' = job /\ saves' = saves
        /\ row'[k] = row[k] \/ row'[k] = FailedRows[k]
    BY <1>3 DEF Restart, Heartbeat
  <2>2. row'[k] = row[k] \/ row'[k].lost
    BY <1>1, <2>1, FailedRowsFields DEF TypeOK
  <2> QED
    BY <1>1, <2>1, <2>2, EndKept
<1>4. CASE GoStale(s)
  BY <1>1, <1>4, EndKept DEF GoStale
<1> QED
  BY <1>2, <1>3, <1>4 DEF ServerStep

\* Every step keeps the invariant.
LEMMA StepEnding ==
  ASSUME IInv, EndingInv, [Next]_vars
  PROVE  EndingInv'
<1> SUFFICES ASSUME NEW k \in Jobs
             PROVE  EndOK(k)'
  BY DEF EndingInv
<1>1. EndOK(k) /\ TypeOK
  BY DEF EndingInv, IInv
<1>2. ASSUME NEW s \in Servers, NEW j \in Jobs, SubmitJob(s, j)
      PROVE  EndOK(k)'
  <2>1. CASE k = j
    <3>1. job'[k].pc = "inserted"
      BY <1>1, <1>2, <2>1, PartTypes DEF SubmitJob, TypeOK, Job
    <3> QED
      BY <3>1, NotEnding
  <2>2. CASE k # j
    BY <1>1, <1>2, <2>2, EndKept DEF SubmitJob, TypeOK
  <2> QED
    BY <2>1, <2>2
<1>3. CASE UNCHANGED <<job, saves, row>>
  BY <1>1, <1>3, EndKept
<1> QED
  BY <1>2, <1>3, HandlerEnds, StatementEnds, CancellationEnds, ServerEnds
  DEF Next, CleanStep, CleanCheck, CleanRemove, vars

(***************************************************************************)
(* No job that has ended is left in the database as one that is still to   *)
(* run, and a cancelled or failed one has that status there, unless its    *)
(* server was given up for lost (scheduleSharedPersist, flushSharedJob and *)
(* the WHERE clause of saveJob, for all interleavings of their statements  *)
(* with cancellations, replacements, crashes and restarts).                *)
(***************************************************************************)
THEOREM EndedJobsSaved == Spec => []EndedJobSaved
<1>1. Init => EndingInv
  BY DEF Init, EndingInv, EndOK, NewJob
<1>2. IInv /\ EndingInv /\ [Next]_vars => EndingInv'
  BY StepEnding
<1>3. IInv /\ EndingInv => EndedJobSaved
  BY DEF IInv, LostInv, EndingInv, EndOK, SaveOK, Ending, Final, EndedJobSaved
<1> QED
  BY <1>1, <1>2, <1>3, Invariance, PTL DEF Spec

----------------------------------------------------------------------------
(***************************************************************************)
(* The life cycle of a row.  A status is on its way to the row: it is      *)
(* reported, remembered as the latest one, sent, written.  What is sent    *)
(* later may follow what is sent before, as long as no cancellation was    *)
(* accepted; then the row takes only the end of the job.                   *)
(***************************************************************************)

Plain == {"accepted", "queued", "running", "succeeded", "failed", "replaced"}
Asks == {"cancelling", "cancelled"}
Ends == {"cancelled", "failed"}

Ordered(a, b) == a \in Plain /\ b \in Plain => a = b \/ b \in Lifecycle!After(a)

\* The row as later saves find it, and the status to be sent after the one being sent.
Head(r) == IF r.lost THEN "absent" ELSE r.status
Behind(v) == IF v.sending = "absent" THEN "absent" ELSE v.latest

\* The status that the handler of b still has to save.
Tail(b) ==
  IF b.pc = "inserted" THEN "accepted"
  ELSE IF b.pc \in {"queued", "locking", "building", "cleanup", "closing", "flushing"}
       THEN b.status
  ELSE "absent"

Chain(h, x, y, t) ==
  /\ Ordered(h, x) /\ Ordered(h, y) /\ Ordered(h, t)
  /\ Ordered(x, y) /\ Ordered(x, t) /\ Ordered(y, t)

\* Somebody in the server of b, with saves v, knows of a cancellation.
Asked(b, v, a) ==
  a \/ b.aborted \/ b.status \in Asks \/ v.sending \in Asks \/ Behind(v) \in Asks

\* s is in the row or on its way to it.
Said(b, v, r, s) ==
  \/ Head(r) = s \/ v.sending = s \/ Behind(v) = s
  \/ b.pc \in {"closing", "flushing", "dequeued"} /\ b.status = s

LifeOK(b, v, r, a) ==
  /\ b.pc = "out" => v.sending = "absent"
  /\ b.pc \in {"locking", "building"} =>
       b.status = "running" \/ (b.status = "cancelling" /\ b.aborted)
  /\ b.pc = "cleanup" =>
       b.status = "succeeded" \/ (b.status = "cancelling" /\ b.aborted)
  /\ Chain(Head(r), v.sending, Behind(v), Tail(b))
  /\ Asked(b, v, a) => r.status \in Asks \cup {"failed"}
  /\ ~(Said(b, v, r, "cancelled") /\ Said(b, v, r, "failed"))
  /\ \A s \in Ends : Said(b, v, r, s) =>
                       b.pc \in {"closing", "flushing", "dequeued", "done", "gone"}

\* A statement that saves s finds the row r and leaves r2.
Written(r, r2, s) ==
  \/ r2 = r
  \/ /\ ~r.lost /\ r2.lost = r.lost /\ r2.status = s
     /\ r.status \in Asks => s \in Ends

Moved(r, r2) == (r2.status = r.status /\ r2.lost = r.lost) \/ Lifecycle!Move(r, r2)

Lives(k) == LifeOK(job[k], saves[k], row[k], k \in answers)

LifeInv == \A k \in Jobs : Lives(k)

\* The step leaves what the row of k says, or moves it on.
Follows(k) == Moved(row[k], row'[k])

----------------------------------------------------------------------------
(* Chains of statuses.                                                     *)

LEMMA OrderedFacts ==
  /\ \A s : Ordered(s, s)
  /\ \A s, t : s \notin Plain \/ t \notin Plain => Ordered(s, t)
  /\ \A s : Ordered(s, "running") => Ordered(s, "succeeded") /\ Ordered(s, "failed")
  /\ \A s : Ordered(s, "succeeded") => Ordered(s, "failed")
  /\ \A s : Ordered(s, "queued") => Ordered(s, "running") /\ Ordered(s, "replaced")
  /\ \A s : Ordered(s, "accepted") => Ordered(s, "running") /\ Ordered(s, "queued")
BY DEF Ordered, Plain, Lifecycle!After

LEMMA PersistFields ==
  ASSUME NEW v \in Saves, NEW s, s # "absent"
  PROVE  /\ Persist(v, s).sending = IF v.sending = "absent" THEN s ELSE v.sending
         /\ Behind(Persist(v, s)) = IF v.sending = "absent" THEN "absent" ELSE s
BY DEF Persist, Behind, Saves

\* A status that may follow the last one may be persisted behind all others.
LEMMA PersistChain ==
  ASSUME NEW v \in Saves, NEW h, NEW t, NEW s, s # "absent",
         Chain(h, v.sending, Behind(v), t), \A q : Ordered(q, t) => Ordered(q, s)
  PROVE  Chain(h, Persist(v, s).sending, Behind(Persist(v, s)), s)
<1>1. /\ Persist(v, s).sending = IF v.sending = "absent" THEN s ELSE v.sending
      /\ Behind(Persist(v, s)) = IF v.sending = "absent" THEN "absent" ELSE s
  BY PersistFields
<1>2. Ordered(s, s) /\ Ordered(h, "absent") /\ Ordered(s, "absent") /\ Ordered("absent", s)
  BY OrderedFacts DEF Plain
<1>3. Ordered(h, s) /\ Ordered(v.sending, s) /\ Ordered(h, v.sending)
  BY DEF Chain
<1> QED
  BY <1>1, <1>2, <1>3 DEF Chain

\* So may a cancellation, which every row takes in its own way.
LEMMA PersistAsk ==
  ASSUME NEW v \in Saves, NEW h, NEW t, NEW s \in Asks, NEW u, u \notin Plain,
         Chain(h, v.sending, Behind(v), t)
  PROVE  Chain(h, Persist(v, s).sending, Behind(Persist(v, s)), u)
<1>1. /\ Persist(v, s).sending = IF v.sending = "absent" THEN s ELSE v.sending
      /\ Behind(Persist(v, s)) = IF v.sending = "absent" THEN "absent" ELSE s
      /\ s \notin Plain /\ "absent" \notin Plain
  BY PersistFields DEF Asks, Plain
<1>2. Ordered(h, v.sending)
  BY DEF Chain
<1> QED
  BY <1>1, <1>2, OrderedFacts DEF Chain

\* The chain without its end.
LEMMA OpenChain ==
  ASSUME NEW h, NEW x, NEW y, NEW t, NEW u, u \notin Plain, Chain(h, x, y, t)
  PROVE  Chain(h, x, y, u)
BY OrderedFacts DEF Chain

----------------------------------------------------------------------------
(* What a step does to the handler b, the saves v and the row r of a job,  *)
(* and to the answer a that is awaited for it.                             *)

\* A handler that has not come to the end of its job has no end to save.
LEMMA NoEndYet ==
  ASSUME NEW b, NEW v, NEW r, NEW a, LifeOK(b, v, r, a),
         b.pc \in {"out", "inserted", "queued", "locking", "building", "cleanup"}, NEW s \in Ends
  PROVE  Head(r) # s /\ v.sending # s /\ Behind(v) # s
BY DEF LifeOK, Said

\* Admission, start and replacement report statuses before the end.
LEMMA EarlyMove ==
  ASSUME NEW b, NEW v \in Saves, NEW r, NEW a, LifeOK(b, v, r, a),
         b.pc \in {"inserted", "queued"}, b.pc = "queued" => b.status = "queued",
         NEW b2, NEW v2, Chain(Head(r), v2.sending, Behind(v2), b2.status),
         v2.sending \in {v.sending} \cup (Plain \ Ends), Behind(v2) \in (Plain \ Ends) \cup {"absent"},
         \/ b2.pc = "queued" /\ b2.status = "queued" /\ b2.aborted = b.aborted
         \/ b2.pc = "locking" /\ b2.status = "running" /\ b2.aborted = FALSE
         \/ b2.pc = "done" /\ b2.status = "replaced" /\ b2.aborted = b.aborted
  PROVE  LifeOK(b2, v2, r, a)
<1>1. Asked(b2, v2, a) => Asked(b, v, a)
  BY DEF Asked, Plain, Asks
<1>2. \A s \in Ends : Head(r) # s /\ v2.sending # s /\ Behind(v2) # s
  BY NoEndYet DEF Ends, Plain
<1>3. \A s \in Ends : ~Said(b2, v2, r, s)
  BY <1>2 DEF Said
<1>4. Chain(Head(r), v2.sending, Behind(v2), Tail(b2))
  BY OpenChain DEF Tail, Plain
<1> QED
  BY <1>1, <1>3, <1>4 DEF LifeOK, Ends

\* A job starts, waits or is replaced; its progress is reported first.
LEMMA AdmittedOK ==
  ASSUME NEW b, NEW v \in Saves, NEW r, NEW a, LifeOK(b, v, r, a), b.pc = "inserted",
         NEW b2, NEW s \in {"queued", "running"}, b2.status = s,
         \/ s = "queued" /\ b2.pc = "queued" /\ b2.aborted = b.aborted
         \/ s = "running" /\ b2.pc = "locking" /\ b2.aborted = FALSE
  PROVE  LifeOK(b2, Persist(Persist(v, "accepted"), s), r, a)
<1> DEFINE w == Persist(v, "accepted")
<1>1. Chain(Head(r), v.sending, Behind(v), "accepted")
  BY DEF LifeOK, Tail
<1>2. Chain(Head(r), w.sending, Behind(w), "accepted")
  BY <1>1, PersistChain
<1>3. w.sending \in {v.sending, "accepted"} /\ Behind(w) \in {"absent", "accepted"}
  BY PersistFields
<1>4. w \in Saves
  BY PersistType DEF Status, Unfinished
<1>5. \A q : Ordered(q, "accepted") => Ordered(q, s)
  BY OrderedFacts
<1> HIDE DEF w
<1> DEFINE x == Persist(w, s)
<1>6. Chain(Head(r), x.sending, Behind(x), s)
  BY <1>2, <1>4, <1>5, PersistChain
<1>7. x.sending \in {w.sending, s} /\ Behind(x) \in {"absent", s}
  BY <1>4, PersistFields
<1> HIDE DEF x
<1>8. x.sending \in {v.sending} \cup (Plain \ Ends) /\ Behind(x) \in (Plain \ Ends) \cup {"absent"}
  BY <1>3, <1>7 DEF Plain, Ends
<1>9. LifeOK(b2, x, r, a)
  BY <1>6, <1>8, EarlyMove
<1> QED
  BY <1>9 DEF w, x

LEMMA DequeuedOK ==
  ASSUME NEW b, NEW v \in Saves, NEW r, NEW a, LifeOK(b, v, r, a),
         b.pc = "queued", b.status = "queued",
         NEW b2, NEW s \in {"running", "replaced"}, b2.status = s,
         \/ s = "replaced" /\ b2.pc = "done" /\ b2.aborted = b.aborted
         \/ s = "running" /\ b2.pc = "locking" /\ b2.aborted = FALSE
  PROVE  LifeOK(b2, Persist(v, s), r, a)
<1>1. Chain(Head(r), v.sending, Behind(v), "queued")
  BY DEF LifeOK, Tail
<1>2. \A q : Ordered(q, "queued") => Ordered(q, s)
  BY OrderedFacts
<1> DEFINE x == Persist(v, s)
<1>3. Chain(Head(r), x.sending, Behind(x), s)
  BY <1>1, <1>2, PersistChain
<1>4. x.sending \in {v.sending, s} /\ Behind(x) \in {"absent", s}
  BY PersistFields
<1> HIDE DEF x
<1>5. x.sending \in {v.sending} \cup (Plain \ Ends) /\ Behind(x) \in (Plain \ Ends) \cup {"absent"}
  BY <1>4 DEF Plain, Ends
<1>6. LifeOK(b2, x, r, a)
  BY <1>3, <1>5, EarlyMove
<1> QED
  BY <1>6 DEF x

\* The advisory lock is taken, or a stage of the task ends.
LEMMA BuildingOK ==
  ASSUME NEW b, NEW v, NEW r, NEW a, LifeOK(b, v, r, a), b.pc \in {"locking", "building"},
         NEW b2, b2.pc = "building", b2.status = b.status, b2.aborted = b.aborted
  PROVE  LifeOK(b2, v, r, a)
<1>1. Asked(b2, v, a) => Asked(b, v, a)
  BY DEF Asked
<1>2. Tail(b2) = Tail(b)
  BY DEF Tail
<1>3. \A s \in Ends : ~Said(b2, v, r, s)
  BY NoEndYet DEF Said
<1>4. b.status = "running" \/ (b.status = "cancelling" /\ b.aborted)
  BY DEF LifeOK
<1> QED
  BY <1>1, <1>2, <1>3, <1>4 DEF LifeOK, Ends

\* The poll of the row finds a cancellation.
LEMMA MonitoredOK ==
  ASSUME NEW b, NEW v, NEW r, NEW a, LifeOK(b, v, r, a),
         b.pc \in {"locking", "building", "cleanup"}, r.status \in Asks, NEW b2, b2.pc = b.pc, b2.status = b.status, b2.aborted = TRUE
  PROVE  LifeOK(b2, v, r, a)
<1>1. Tail(b2) = Tail(b)
  BY DEF Tail
<1>2. \A s \in Ends : ~Said(b2, v, r, s)
  BY NoEndYet DEF Said
<1>3. /\ b2.pc \in {"locking", "building"} =>
           b2.status = "running" \/ (b2.status = "cancelling" /\ b2.aborted)
      /\ b2.pc = "cleanup" =>
           b2.status = "succeeded" \/ (b2.status = "cancelling" /\ b2.aborted)
  BY DEF LifeOK
<1> QED
  BY <1>1, <1>2, <1>3 DEF LifeOK, Ends

\* The progress of before is reported once more, then the new status.
LEMMA ReportedOK ==
  ASSUME NEW b, NEW v \in Saves, NEW r, NEW a, LifeOK(b, v, r, a),
         b.pc \in {"locking", "building", "cleanup"}, NEW s \in Status \ {"absent"},
         s = "cancelled" \/ \A q : Ordered(q, b.status) => Ordered(q, s)
  PROVE  LET x == Persist(Persist(v, b.status), s)
         IN  /\ x.sending \in {v.sending, b.status, s}
             /\ Behind(x) \in {"absent", s}
             /\ Chain(Head(r), x.sending, Behind(x), s)
<1> DEFINE w == Persist(v, b.status)
<1>1. b.status \in {"running", "succeeded", "cancelling"}
  BY DEF LifeOK
<1>2. Chain(Head(r), v.sending, Behind(v), b.status)
  BY DEF LifeOK, Tail
<1>3. Chain(Head(r), w.sending, Behind(w), b.status)
  BY <1>1, <1>2, PersistChain
<1>4. w.sending \in {v.sending, b.status} /\ Behind(w) \in {"absent", b.status}
  BY <1>1, PersistFields
<1>5. w \in Saves
  BY <1>1, PersistType DEF Status, Unfinished, Final
<1> HIDE DEF w
<1> DEFINE x == Persist(w, s)
<1>6. x.sending \in {w.sending, s} /\ Behind(x) \in {"absent", s}
  BY <1>5, PersistFields
<1>7. Chain(Head(r), x.sending, Behind(x), s)
  <2>1. CASE s = "cancelled"
    BY <1>3, <1>5, <2>1, PersistAsk DEF Asks, Plain
  <2>2. CASE \A q : Ordered(q, b.status) => Ordered(q, s)
    BY <1>3, <1>5, <2>2, PersistChain
  <2> QED
    BY <2>1, <2>2
<1> QED
  BY <1>4, <1>6, <1>7 DEF w

\* The success is reported before the workspace is removed.
LEMMA SucceededOK ==
  ASSUME NEW b, NEW v \in Saves, NEW r, NEW a, LifeOK(b, v, r, a), b.pc = "building",
         ~b.aborted, NEW b2, b2.pc = "cleanup", b2.aborted = b.aborted, b2.status = "succeeded"
  PROVE  LifeOK(b2, Persist(Persist(v, b.status), "succeeded"), r, a)
<1> DEFINE x == Persist(Persist(v, b.status), "succeeded")
<1>1. b.status = "running"
  BY DEF LifeOK
<1>2. /\ x.sending \in {v.sending, b.status, "succeeded"}
      /\ Behind(x) \in {"absent", "succeeded"}
      /\ Chain(Head(r), x.sending, Behind(x), "succeeded")
  BY <1>1, OrderedFacts, ReportedOK DEF Status, Final
<1> HIDE DEF x
<1>3. Asked(b2, x, a) => Asked(b, v, a)
  BY <1>1, <1>2 DEF Asked, Asks
<1>4. \A e \in Ends : Head(r) # e /\ v.sending # e
  BY NoEndYet
<1>5. \A e \in Ends : ~Said(b2, x, r, e)
  BY <1>1, <1>2, <1>4 DEF Said, Ends
<1>6. LifeOK(b2, x, r, a)
  BY <1>2, <1>3, <1>5 DEF LifeOK, Tail, Ends
<1> QED
  BY <1>6 DEF x

\* The workspace is removed.
LEMMA CleanedOK ==
  ASSUME NEW b, NEW v, NEW r, NEW a, LifeOK(b, v, r, a), b.pc = "cleanup",
         NEW b2, b2.pc = "closing", b2.status = b.status, b2.aborted = b.aborted
  PROVE  LifeOK(b2, v, r, a)
<1>1. Asked(b2, v, a) => Asked(b, v, a)
  BY DEF Asked
<1>2. Tail(b2) = Tail(b)
  BY DEF Tail
<1>3. \A e \in Ends : b.status # e /\ Head(r) # e /\ v.sending # e /\ Behind(v) # e
  BY NoEndYet DEF LifeOK, Ends
<1>4. \A e \in Ends : ~Said(b2, v, r, e)
  BY <1>3 DEF Said
<1> QED
  BY <1>1, <1>2, <1>4 DEF LifeOK, Ends

\* The catch around a task that fails, is stopped, or cannot clean up.
LEMMA ClosedOK ==
  ASSUME NEW b, NEW v \in Saves, NEW r, NEW a, LifeOK(b, v, r, a),
         b.pc \in {"locking", "building", "cleanup"},
         NEW b2, b2.pc = "closing", b2.aborted = b.aborted,
         NEW s, s = (IF b.aborted THEN "cancelled" ELSE "failed"), b2.status = s
  PROVE  LifeOK(b2, Persist(Persist(v, b.status), s), r, a)
<1> DEFINE x == Persist(Persist(v, b.status), s)
<1>1. b.status \in {"running", "succeeded"} \/ (b.status = "cancelling" /\ b.aborted)
  BY DEF LifeOK
<1>2. s = "cancelled" \/ \A q : Ordered(q, b.status) => Ordered(q, s)
  BY <1>1, OrderedFacts
<1>3. s \in Status \ {"absent"}
  BY DEF Status, Final
<1>4. /\ x.sending \in {v.sending, b.status, s}
      /\ Behind(x) \in {"absent", s}
      /\ Chain(Head(r), x.sending, Behind(x), s)
  BY <1>2, <1>3, ReportedOK
<1> HIDE DEF x
<1>5. Asked(b2, x, a) => Asked(b, v, a)
  BY <1>1, <1>4 DEF Asked, Asks
<1>6. \A e \in Ends : Said(b2, x, r, e) => e = s
  <2>1. \A e \in Ends : Head(r) # e /\ v.sending # e /\ b.status # e
    BY <1>1, NoEndYet DEF Ends
  <2> QED
    BY <1>4, <2>1 DEF Said, Ends
<1>7. LifeOK(b2, x, r, a)
  BY <1>4, <1>5, <1>6 DEF LifeOK, Tail, Ends
<1> QED
  BY <1>7 DEF x

\* The late check for cancellations.
LEMMA LateOK ==
  ASSUME NEW b, NEW v \in Saves, NEW r, NEW a, LifeOK(b, v, r, a), b.pc = "closing",
         b.status \in Ending \ {"replaced"},
         NEW b2, b2.pc = "flushing", b2.aborted = b.aborted,
         NEW s, b2.status = s,
         \/ s = b.status
         \/ b.status = "succeeded" /\ r.status \in Asks /\ s = "cancelled"
  PROVE  LifeOK(b2, Persist(v, s), r, a)
<1> DEFINE x == Persist(v, s)
<1>1. Chain(Head(r), v.sending, Behind(v), b.status)
  BY DEF LifeOK, Tail
<1>2. s # "absent"
  BY DEF Ending, Final
<1>3. x.sending \in {v.sending, s} /\ Behind(x) \in {"absent", s}
  BY <1>2, PersistFields
<1>4. CASE s = b.status
  <2>1. Chain(Head(r), x.sending, Behind(x), s)
    BY <1>1, <1>2, <1>4, PersistChain
  <2> HIDE DEF x
  <2>2. Asked(b2, x, a) => Asked(b, v, a)
    BY <1>3, <1>4 DEF Asked, Asks
  <2>3. \A e \in Ends : Said(b2, x, r, e) => Said(b, v, r, e)
    BY <1>3, <1>4 DEF Said, Ends
  <2>4. LifeOK(b2, x, r, a)
    BY <2>1, <2>2, <2>3 DEF LifeOK, Tail, Ends
  <2> QED
    BY <2>4 DEF x
<1>5. CASE s # b.status
  <2>1. b.status = "succeeded" /\ r.status \in Asks /\ s = "cancelled"
    BY <1>5
  <2>2. Chain(Head(r), x.sending, Behind(x), s)
    BY <1>1, <2>1, PersistAsk DEF Asks, Plain
  <2>3. ~Ordered("failed", "succeeded")
    BY DEF Ordered, Plain, Lifecycle!After
  <2>4. v.sending # "failed" /\ Head(r) # "failed"
    BY <1>1, <2>1, <2>3 DEF Chain, Head, Asks
  <2> HIDE DEF x
  <2>5. ~Said(b2, x, r, "failed")
    BY <1>3, <2>1, <2>4 DEF Said
  <2>6. LifeOK(b2, x, r, a)
    BY <2>1, <2>2, <2>5 DEF LifeOK, Tail, Ends
  <2> QED
    BY <2>6 DEF x
<1> QED
  BY <1>4, <1>5

\* What a statement writes into a row may follow what it finds there.
LEMMA WriteMoves ==
  ASSUME NEW b, NEW v, NEW r, NEW a, LifeOK(b, v, r, a), ~r.lost, r.status \in Status \ {"absent"},
         NEW s \in Status \ {"absent"}, Said(b, v, r, s), Ordered(r.status, s),
         s \in Asks => Asked(b, v, a), r.status \in Asks => s \in Ends
  PROVE  s = r.status \/ s \in Lifecycle!After(r.status)
<1>1. ~(Said(b, v, r, "cancelled") /\ Said(b, v, r, "failed")) /\ Said(b, v, r, r.status)
  BY DEF LifeOK, Said, Head
<1>2. s \in Asks => r.status \in Asks \cup {"failed"}
  BY DEF LifeOK
<1>3. CASE r.status \in Asks
  <2>1. r.status = "cancelled" => s = r.status
    BY <1>1, <1>3 DEF Ends
  <2>2. r.status = "cancelling" => s \in Lifecycle!After(r.status)
    BY <1>3 DEF Ends, Lifecycle!After
  <2> QED
    BY <1>3, <2>1, <2>2 DEF Asks
<1>4. CASE s \in Asks /\ r.status = "failed"
  <2>1. s = "cancelling"
    BY <1>1, <1>4 DEF Asks
  <2> QED
    BY <1>4, <2>1 DEF Lifecycle!After
<1>5. CASE s \notin Asks /\ r.status \notin Asks
  BY <1>5 DEF Ordered, Plain, Asks, Status, Unfinished, Final
<1> QED
  BY <1>2, <1>3, <1>4, <1>5 DEF Asks

\* The last save of a job, repeated when no statement is under way.
LEMMA FlushedOK ==
  ASSUME NEW b, NEW v, NEW r \in Row, NEW a, LifeOK(b, v, r, a), v.sending = "absent",
         b.pc \in {"flushing", "dequeued"}, b.pc = "dequeued" => b.status \in Asks,
         b.status \in Ending \ {"replaced"}, r.status # "absent",
         NEW b2, b2.pc = "done", b2.aborted = b.aborted, b2.status \in {b.status, "failed"},
         NEW r2, Written(r, r2, b.status)
  PROVE  LifeOK(b2, v, r2, a) /\ Moved(r, r2)
<1>1. Asked(b2, v, a) => Asked(b, v, a)
  BY DEF Asked, Asks
<1>2. Behind(v) = "absent" /\ Tail(b2) = "absent"
  BY DEF Behind, Tail
<1>3. Chain(Head(r2), v.sending, Behind(v), Tail(b2))
  BY <1>2, OrderedFacts DEF Chain, Plain
<1>4. \A e \in Ends : Said(b2, v, r2, e) => Said(b, v, r, e)
  BY DEF Said, Head, Ends, Written
<1>5. CASE r2 = r
  BY <1>1, <1>3, <1>4, <1>5 DEF LifeOK, Ends, Moved
<1>6. CASE r2 # r
  <2>0. /\ ~r.lost /\ r2.lost = r.lost /\ r2.status = b.status
        /\ r.status \in Asks => b.status \in Ends
    BY <1>6 DEF Written
  <2>1. Ordered(r.status, b.status) /\ Said(b, v, r, b.status)
    <3>1. CASE b.pc = "flushing"
      BY <2>0, <3>1 DEF LifeOK, Chain, Tail, Head, Said
    <3>2. CASE b.pc = "dequeued"
      BY <3>2, OrderedFacts DEF Said, Asks, Plain
    <3> QED
      BY <3>1, <3>2
  <2>2. b.status \in Asks => Asked(b, v, a)
    BY DEF Asked
  <2>3. r.status \in Status /\ b.status \in Status \ {"absent"}
    BY DEF Row, Ending, Final, Status, Unfinished
  <2>4. b.status = r.status \/ b.status \in Lifecycle!After(r.status)
    BY <2>0, <2>1, <2>2, <2>3, WriteMoves
  <2>5. Asked(b2, v, a) => r2.status \in Asks \cup {"failed"}
    <3>1. SUFFICES ASSUME Asked(b, v, a)
                   PROVE  b.status \in Asks \cup {"failed"}
      BY <1>1, <2>0
    <3>2. r.status \in Asks \cup {"failed"}
      BY <3>1 DEF LifeOK
    <3>3. r.status \in Asks => b.status \in Ends
      BY <2>0
    <3> QED
      BY <2>4, <3>2, <3>3 DEF Lifecycle!After, Asks, Ends
  <2>6. Moved(r, r2)
    BY <2>0, <2>4 DEF Moved, Lifecycle!Move, Lifecycle!Advance
  <2> QED
    BY <1>3, <1>4, <2>5, <2>6 DEF LifeOK, Ends
<1> QED
  BY <1>5, <1>6

\* One statement of the queue; what follows it moves up or is dropped.
LEMMA StatementOK ==
  ASSUME NEW b, NEW v \in Saves, NEW r \in Row, NEW a, LifeOK(b, v, r, a), v.sending # "absent",
         r.status # "absent",
         NEW v2, v2.sending \in {"absent", v.latest}, Behind(v2) = "absent",
         NEW r2, Written(r, r2, v.sending)
  PROVE  LifeOK(b, v2, r2, a) /\ Moved(r, r2)
<1> DEFINE s == v.sending
           t == Tail(b)
<1>1. Behind(v) = v.latest /\ s \in Status \ {"absent"} /\ r.status \in Status
  BY DEF Behind, Saves, Row
<1>2. Asked(b, v2, a) => Asked(b, v, a)
  BY <1>1 DEF Asked, Asks
<1>3. \A e \in Ends : Said(b, v2, r2, e) => Said(b, v, r, e)
  BY <1>1 DEF Said, Head, Ends, Written
<1>4. Chain(Head(r), s, v.latest, t)
  BY <1>1 DEF LifeOK
<1>5. \A q : Ordered("absent", q) /\ Ordered(q, "absent")
  BY OrderedFacts DEF Plain
<1>6. b.pc # "out"
  BY DEF LifeOK
<1> HIDE DEF s, t
<1>7. CASE r2 = r
  <2>1. Chain(Head(r2), v2.sending, "absent", t)
    BY <1>4, <1>5, <1>7 DEF Chain
  <2> QED
    BY <1>2, <1>3, <1>6, <1>7, <2>1 DEF LifeOK, Ends, Moved, t
<1>8. CASE r2 # r
  <2>0. /\ ~r.lost /\ r2.lost = r.lost /\ r2.status = s
        /\ r.status \in Asks => s \in Ends
    BY <1>8 DEF Written, s
  <2>1. Head(r2) = s /\ Head(r) = r.status /\ ~r.lost /\ ~r2.lost
    BY <2>0 DEF Head
  <2>2. Chain(Head(r2), v2.sending, "absent", t)
    BY <1>4, <1>5, <2>1 DEF Chain
  <2>3. Said(b, v, r, s) /\ Ordered(r.status, s)
    BY <1>4, <2>1 DEF Said, Chain, s
  <2>4. s \in Asks => Asked(b, v, a)
    BY DEF Asked, s
  <2>5. r.status \in Asks => s \in Ends
    BY <2>0
  <2>6. s = r.status \/ s \in Lifecycle!After(r.status)
    BY <1>1, <2>1, <2>3, <2>4, <2>5, WriteMoves
  <2>7. Asked(b, v2, a) => r2.status \in Asks \cup {"failed"}
    <3>1. SUFFICES ASSUME Asked(b, v, a)
                   PROVE  s \in Asks \cup {"failed"}
      BY <1>2, <2>0
    <3>2. r.status \in Asks \cup {"failed"}
      BY <3>1 DEF LifeOK
    <3> QED
      BY <2>5, <2>6, <3>2 DEF Lifecycle!After, Asks, Ends
  <2>8. Moved(r, r2)
    BY <2>0, <2>6 DEF Moved, Lifecycle!Move, Lifecycle!Advance
  <2> QED
    BY <1>3, <1>6, <2>2, <2>7, <2>8 DEF LifeOK, Ends, t
<1> QED
  BY <1>7, <1>8

\* The database accepts a cancellation.
LEMMA RequestedOK ==
  ASSUME NEW b, NEW v, NEW r, NEW a, LifeOK(b, v, r, a), r.status \in Unfinished, ~r.lost,
         NEW r2, r2.status = "cancelling", ~r2.lost, NEW a2
  PROVE  LifeOK(b, v, r2, a2) /\ Lifecycle!Move(r, r2)
<1>1. Chain(Head(r2), v.sending, Behind(v), Tail(b))
  BY OrderedFacts DEF LifeOK, Chain, Head, Plain
<1>2. \A e \in Ends : Said(b, v, r2, e) => Said(b, v, r, e)
  BY DEF Said, Head, Ends
<1>3. LifeOK(b, v, r2, a2)
  BY <1>1, <1>2 DEF LifeOK, Ends, Asks
<1>4. Lifecycle!Move(r, r2)
  BY DEF Lifecycle!Move, Lifecycle!Cancel, Lifecycle!Unfinished, Unfinished
<1> QED
  BY <1>3, <1>4

\* A cancellation reaches a job in the queue.
LEMMA TakenOutOK ==
  ASSUME NEW b, NEW v \in Saves, NEW r, NEW a, LifeOK(b, v, r, a),
         b.pc = "queued", r.status \in Asks \cup {"failed"},
         NEW b2, b2.pc = "dequeued", b2.status = "cancelled", NEW a2
  PROVE  LifeOK(b2, Persist(v, "cancelled"), r, a2)
<1> DEFINE x == Persist(v, "cancelled")
<1>1. Chain(Head(r), x.sending, Behind(x), Tail(b2))
  <2>1. Tail(b2) = "absent"
    BY DEF Tail
  <2> QED
    BY <2>1, PersistAsk DEF LifeOK, Asks, Plain
<1>2. x.sending \in {v.sending, "cancelled"} /\ Behind(x) \in {"absent", "cancelled"}
  BY PersistFields
<1>3. Head(r) # "failed" /\ v.sending # "failed"
  BY NoEndYet DEF Ends
<1> HIDE DEF x
<1>4. ~Said(b2, x, r, "failed")
  BY <1>2, <1>3 DEF Said
<1>5. LifeOK(b2, x, r, a2)
  BY <1>1, <1>4 DEF LifeOK, Ends
<1> QED
  BY <1>5 DEF x

\* A cancellation reaches a job that is not in the queue.
LEMMA AbortedOK ==
  ASSUME NEW b, NEW v \in Saves, NEW r, NEW a, LifeOK(b, v, r, a), a,
         b.pc \notin {"out", "inserted"},
         NEW b2, b2.pc = b.pc, b2.status = "cancelling", b2.aborted = TRUE, NEW a2
  PROVE  LifeOK(b2, Persist(v, "cancelling"), r, a2)
<1> DEFINE x == Persist(v, "cancelling")
<1>1. Chain(Head(r), x.sending, Behind(x), Tail(b2))
  <2>1. Tail(b2) \notin Plain
    BY DEF Tail, Plain
  <2> QED
    BY <2>1, PersistAsk DEF LifeOK, Asks
<1>2. x.sending \in {v.sending, "cancelling"} /\ Behind(x) \in {"absent", "cancelling"}
  BY PersistFields
<1>3. r.status \in Asks \cup {"failed"}
  BY DEF LifeOK, Asked
<1> HIDE DEF x
<1>4. \A e \in Ends : Said(b2, x, r, e) => Said(b, v, r, e)
  BY <1>2 DEF Said, Ends
<1>5. LifeOK(b2, x, r, a2)
  BY <1>1, <1>3, <1>4 DEF LifeOK, Ends
<1> QED
  BY <1>5 DEF x

\* The process of a job ends.
LEMMA GoneOK ==
  ASSUME NEW b, NEW v, NEW r, NEW a, LifeOK(b, v, r, a),
         NEW b2, b2.pc = "gone", b2.status = b.status, b2.aborted = b.aborted,
         NEW a2, ~a2
  PROVE  LifeOK(b2, NoSaves, r, a2)
<1>1. Asked(b2, NoSaves, a2) => Asked(b, v, a)
  BY DEF Asked, Asks, NoSaves, Behind
<1>2. Chain(Head(r), NoSaves.sending, Behind(NoSaves), Tail(b2))
  BY OrderedFacts DEF NoSaves, Behind, Tail, Chain, Plain
<1>3. \A e \in Ends : Said(b2, NoSaves, r, e) => Said(b, v, r, e)
  BY DEF Said, NoSaves, Behind, Ends
<1> QED
  BY <1>1, <1>2, <1>3 DEF LifeOK, Ends

\* A job is given up with its server.
LEMMA LostOK ==
  ASSUME NEW b, NEW v, NEW r, NEW a, LifeOK(b, v, r, a), r.status \in Unfinished,
         NEW r2, r2.status = "failed", r2.lost
  PROVE  LifeOK(b, v, r2, a) /\ Lifecycle!Move(r, r2)
<1>1. Chain(Head(r2), v.sending, Behind(v), Tail(b))
  BY OrderedFacts DEF LifeOK, Chain, Head, Plain
<1>2. \A e \in Ends : Said(b, v, r2, e) => Said(b, v, r, e)
  BY DEF Said, Head, Ends
<1>3. Lifecycle!Move(r, r2)
  BY DEF Lifecycle!Move, Lifecycle!Lose, Lifecycle!Unfinished, Unfinished
<1> QED
  BY <1>1, <1>2, <1>3 DEF LifeOK, Ends

\* A job is submitted.
LEMMA SubmittedOK ==
  ASSUME NEW b, NEW v, NEW r, NEW a, LifeOK(b, v, r, a), b.pc = "out",
         r.status = "absent", ~r.lost,
         NEW b2, b2.pc = "inserted", b2.status = b.status, b2.aborted = b.aborted,
         NEW r2, r2.status = "accepted", ~r2.lost
  PROVE  LifeOK(b2, v, r2, a) /\ Lifecycle!Move(r, r2)
<1>1. v.sending = "absent" /\ Behind(v) = "absent"
  BY DEF LifeOK, Behind
<1>2. ~Asked(b, v, a)
  BY DEF LifeOK, Asks
<1>3. ~Asked(b2, v, a)
  BY <1>2 DEF Asked
<1>4. Chain(Head(r2), v.sending, Behind(v), Tail(b2))
  BY <1>1, OrderedFacts DEF Chain, Head, Tail, Plain
<1>5. \A e \in Ends : ~Said(b2, v, r2, e)
  BY <1>1 DEF Said, Head, Ends
<1>6. Lifecycle!Move(r, r2)
  BY DEF Lifecycle!Move, Lifecycle!Advance, Lifecycle!After
<1> QED
  BY <1>3, <1>4, <1>5, <1>6 DEF LifeOK, Ends

----------------------------------------------------------------------------
(* The steps of a job's handler.                                           *)

\* A job and its row stay as they are.
LEMMA LifeKept ==
  ASSUME NEW k \in Jobs, Lives(k), job'[k] = job[k], saves'[k] = saves[k], row'[k] = row[k],
         k \in answers' => k \in answers
  PROVE  Lives(k)' /\ Follows(k)
BY DEF Lives, Follows, Moved, LifeOK, Asked, Said

\* A job that waits for its device is queued.
LEMMA WaiterQueued ==
  ASSUME IInv, NEW j \in Jobs, job[j].at \in Servers, NEW k \in Jobs,
         k = Held(waiting, job[j].at, j), job[k].status = "queued"
  PROVE  job[k].pc = "queued"
<1>1. k # NoJob
  BY BuildAssumption
<1>2. DeviceOf[j] \in Devices /\ k = waiting[job[j].at][DeviceOf[j]]
  BY <1>1, HeldType DEF IInv, TypeOK
<1>3. job[k].pc # "gone"
  BY <1>1, <1>2 DEF IInv, DevicesInv, WaitingInv
<1> QED
  BY <1>3 DEF IInv, TypeOK

\* A job is submitted; the others stay as they are.
LEMMA SubmitLives ==
  ASSUME IInv, LifeInv, NEW s \in Servers, NEW j \in Jobs, SubmitJob(s, j), NEW k \in Jobs
  PROVE  Lives(k)' /\ Follows(k)
<1>1. TypeOK /\ PlaceInv /\ LostInv /\ Lives(k) /\ job[k] \in Job /\ row[k] \in Row
  BY PartTypes DEF IInv, LifeInv
<1>2. /\ row[j].status = "absent" /\ saves' = saves /\ answers' = answers
      /\ row' = [row EXCEPT ![j] = [status |-> "accepted", worker |-> s, lost |-> FALSE]]
      /\ job' = [job EXCEPT ![j] = [@ EXCEPT !.at = s, !.pc = "inserted"]]
  BY DEF SubmitJob
<1>3. CASE k = j
  <2>1. /\ job'[k].pc = "inserted" /\ job'[k].status = job[k].status
        /\ job'[k].aborted = job[k].aborted
    BY <1>1, <1>2, <1>3 DEF TypeOK, Job
  <2>2. row'[k].status = "accepted" /\ ~row'[k].lost
    BY <1>1, <1>2, <1>3 DEF TypeOK
  <2>3. job[k].pc = "out" /\ ~row[k].lost /\ row[k].status = "absent"
    BY <1>1, <1>2, <1>3 DEF PlaceInv, LostInv
  <2>4. /\ LifeOK(job'[k], saves[k], row'[k], k \in answers)
        /\ Lifecycle!Move(row[k], row'[k])
    BY <1>1, <2>1, <2>2, <2>3, SubmittedOK DEF Lives
  <2> QED
    BY <1>2, <2>4 DEF Lives, Follows, Moved
<1>4. CASE k # j
  BY <1>1, <1>2, <1>4, LifeKept DEF TypeOK
<1> QED
  BY <1>3, <1>4

\* Admission: the job starts or waits, and the one it replaces is done.
LEMMA AdmitLives ==
  ASSUME IInv, LifeInv, NEW j \in Jobs, AdmitJob(j), NEW k \in Jobs
  PROVE  Lives(k)' /\ Follows(k)
<1>1. /\ TypeOK /\ PlaceInv /\ Lives(k) /\ job[k] \in Job /\ saves[k] \in Saves
      /\ row' = row /\ answers' = answers /\ job[j].pc = "inserted"
  BY PartTypes DEF IInv, LifeInv, AdmitJob
<1>2. SUFFICES Lives(k)'
  BY <1>1 DEF Follows, Moved
<1>3. CASE CanStart(job[j].at, j)
  <2>1. /\ job' = [job EXCEPT ![j] = Started(j)]
        /\ saves' = [saves EXCEPT ![j] = Persist(Persist(@, "accepted"), "running")]
    BY <1>3 DEF AdmitJob
  <2>2. CASE k = j
    <3>1. job'[k].pc = "locking" /\ job'[k].status = "running" /\ job'[k].aborted = FALSE
      BY <1>1, <2>1, <2>2, StartedFields DEF TypeOK
    <3>2. saves'[k] = Persist(Persist(saves[k], "accepted"), "running")
      BY <1>1, <2>1, <2>2 DEF TypeOK
    <3>3. LifeOK(job'[k], Persist(Persist(saves[k], "accepted"), "running"), row[k], k \in answers)
      BY <1>1, <2>2, <3>1, AdmittedOK DEF Lives
    <3> QED
      BY <1>1, <3>2, <3>3 DEF Lives
  <2>3. CASE k # j
    BY <1>1, <2>1, <2>3, LifeKept DEF TypeOK
  <2> QED
    BY <2>2, <2>3
<1>4. CASE ~CanStart(job[j].at, j)
  <2> DEFINE replaced == {l \in Jobs : l = Held(waiting, job[j].at, j) /\ job[l].status = "queued"}
  <2>1. saves' = [l \in Jobs |->
                    CASE l = j -> Persist(Persist(saves[l], "accepted"), "queued")
                      [] l \in replaced -> Persist(saves[l], "replaced")
                      [] OTHER -> saves[l]]
    BY <1>4 DEF AdmitJob
  <2>2. k \in replaced <=> k = Held(waiting, job[j].at, j) /\ job[k].status = "queued"
    OBVIOUS
  <2> HIDE DEF replaced
  <2>3. CASE k = j
    <3>1. /\ job'[k].pc = "queued" /\ job'[k].status = "queued"
          /\ job'[k].aborted = job[k].aborted
      BY <1>1, <1>4, <2>3, QueuedEffect
    <3>2. saves'[k] = Persist(Persist(saves[k], "accepted"), "queued")
      BY <1>1, <2>1, <2>2, <2>3 DEF TypeOK
    <3>3. LifeOK(job'[k], Persist(Persist(saves[k], "accepted"), "queued"), row[k], k \in answers)
      BY <1>1, <2>3, <3>1, AdmittedOK DEF Lives
    <3> QED
      BY <1>1, <3>2, <3>3 DEF Lives
  <2>4. CASE k # j /\ k \notin replaced
    BY <1>1, <1>4, <2>1, <2>2, <2>4, QueuedEffect, LifeKept
  <2>5. CASE k # j /\ k \in replaced
    <3>1. job'[k].pc = "done" /\ job'[k].status = "replaced" /\ job'[k].aborted = job[k].aborted
      BY <1>1, <1>4, <2>2, <2>5, QueuedEffect
    <3>2. saves'[k] = Persist(saves[k], "replaced")
      BY <2>1, <2>5
    <3>3. job[k].pc = "queued" /\ job[k].status = "queued"
      BY <1>1, <2>2, <2>5, WaiterQueued DEF PlaceInv
    <3>4. LifeOK(job'[k], Persist(saves[k], "replaced"), row[k], k \in answers)
      BY <1>1, <3>1, <3>3, DequeuedOK DEF Lives
    <3> QED
      BY <1>1, <3>2, <3>4 DEF Lives
  <2> QED
    BY <2>3, <2>4, <2>5
<1> QED
  BY <1>3, <1>4

\* A lock is taken, a stage or the whole task ends.
LEMMA TaskLives ==
  ASSUME TypeOK, LifeInv, NEW j \in Jobs, NEW k \in Jobs,
         TakeTargetLock(j) \/ SaveArtifacts(j) \/ CreateDeploy(j) \/ EndsTask(j)
  PROVE  Lives(k)' /\ Follows(k)
<1>1. /\ Lives(k) /\ job[k] \in Job /\ saves[k] \in Saves
      /\ row' = row /\ answers' = answers /\ (k # j => job'[k] = job[k] /\ saves'[k] = saves[k])
  BY PartTypes DEF LifeInv, TypeOK, TakeTargetLock, SaveArtifacts, CreateDeploy, Stage,
    EndsTask, Succeed, CleanUp, FailJob, StopAborted, Close
<1>2. SUFFICES Lives(k)'
  BY <1>1 DEF Follows, Moved
<1>3. CASE k # j
  BY <1>1, <1>3, LifeKept
<1>4. CASE k = j /\ (TakeTargetLock(j) \/ SaveArtifacts(j) \/ CreateDeploy(j))
  <2>1. saves' = saves
    BY <1>4 DEF TakeTargetLock, SaveArtifacts, CreateDeploy, Stage
  <2>2. /\ job'[k].pc = "building" /\ job'[k].status = job[k].status
        /\ job'[k].aborted = job[k].aborted
    <3>1. CASE TakeTargetLock(j)
      BY <1>1, <1>4, <3>1 DEF TakeTargetLock, TypeOK, Job
    <3>2. CASE SaveArtifacts(j) \/ CreateDeploy(j)
      BY <1>1, <1>4, <3>2 DEF SaveArtifacts, CreateDeploy, Stage, TypeOK, Job
    <3> QED
      BY <1>4, <3>1, <3>2
  <2>3. LifeOK(job'[k], saves[k], row[k], k \in answers)
    <3>1. LifeOK(job[k], saves[k], row[k], k \in answers) /\ job[k].pc \in {"locking", "building"}
      BY <1>1, <1>4 DEF Lives, TakeTargetLock, SaveArtifacts, CreateDeploy, Stage
    <3> QED
      BY <2>2, <3>1, BuildingOK
  <2> QED
    BY <1>1, <2>1, <2>3 DEF Lives
<1>5. CASE k = j /\ Succeed(j)
  <2>1. /\ job' = [job EXCEPT ![j] = [@ EXCEPT !.pc = "cleanup", !.status = "succeeded"]]
        /\ saves' = [saves EXCEPT ![j] = Persist(Persist(saves[j], job[j].status), "succeeded")]
        /\ job[j].pc = "building" /\ ~job[j].aborted
    BY <1>5 DEF Succeed, Report
  <2>2. /\ job'[k].pc = "cleanup" /\ job'[k].status = "succeeded"
        /\ job'[k].aborted = job[k].aborted
    BY <1>1, <1>5, <2>1 DEF TypeOK, Job
  <2>3. saves'[k] = Persist(Persist(saves[k], job[k].status), "succeeded")
    BY <1>1, <1>5, <2>1 DEF TypeOK
  <2>4. LifeOK(job'[k], Persist(Persist(saves[k], job[k].status), "succeeded"), row[k], k \in answers)
    BY <1>1, <1>5, <2>1, <2>2, SucceededOK DEF Lives
  <2> QED
    BY <1>1, <2>3, <2>4 DEF Lives
<1>6. CASE k = j /\ CleanUp(j)
  <2>1. /\ job' = [job EXCEPT ![j] = [@ EXCEPT !.pc = "closing"]]
        /\ saves' = saves /\ job[j].pc = "cleanup"
    BY <1>6 DEF CleanUp
  <2>2. /\ job'[k].pc = "closing" /\ job'[k].status = job[k].status
        /\ job'[k].aborted = job[k].aborted
    BY <1>1, <1>6, <2>1 DEF TypeOK, Job
  <2>3. LifeOK(job'[k], saves[k], row[k], k \in answers)
    BY <1>1, <1>6, <2>1, <2>2, CleanedOK DEF Lives
  <2> QED
    BY <1>1, <2>1, <2>3 DEF Lives
<1>7. CASE k = j /\ (FailJob(j) \/ StopAborted(j))
  <2> DEFINE s == IF job[j].aborted THEN "cancelled" ELSE "failed"
  <2>1. Close(j, s)
    BY <1>7 DEF FailJob, StopAborted
  <2> HIDE DEF s
  <2>2. /\ job' = [job EXCEPT ![j] = [@ EXCEPT !.pc = "closing", !.status = s]]
        /\ saves' = [saves EXCEPT ![j] = Persist(Persist(saves[j], job[j].status), s)]
        /\ job[j].pc \in {"locking", "building", "cleanup"}
    BY <2>1 DEF Close, Report, Underway
  <2>3. job'[k].pc = "closing" /\ job'[k].status = s /\ job'[k].aborted = job[k].aborted
    BY <1>1, <1>7, <2>2 DEF TypeOK, Job
  <2>4. saves'[k] = Persist(Persist(saves[k], job[k].status), s)
    BY <1>1, <1>7, <2>2 DEF TypeOK
  <2>5. s = (IF job[k].aborted THEN "cancelled" ELSE "failed")
    BY <1>7 DEF s
  <2>6. LifeOK(job'[k], Persist(Persist(saves[k], job[k].status), s), row[k], k \in answers)
    BY <1>1, <1>7, <2>2, <2>3, <2>5, ClosedOK DEF Lives
  <2> QED
    BY <1>1, <2>4, <2>6 DEF Lives
<1> QED
  BY <1>3, <1>4, <1>5, <1>6, <1>7 DEF EndsTask

\* The late check for cancellations.
LEMMA LateLives ==
  ASSUME TypeOK, EndingInv, LifeInv, NEW j \in Jobs, LateCheck(j), NEW k \in Jobs
  PROVE  Lives(k)' /\ Follows(k)
<1>1. /\ Lives(k) /\ EndOK(k) /\ job[k] \in Job /\ saves[k] \in Saves /\ job[j].pc = "closing"
      /\ row' = row /\ answers' = answers /\ (k # j => job'[k] = job[k] /\ saves'[k] = saves[k])
  BY PartTypes DEF EndingInv, LifeInv, TypeOK, LateCheck
<1>2. SUFFICES Lives(k)'
  BY <1>1 DEF Follows, Moved
<1>3. CASE k # j
  BY <1>1, <1>3, LifeKept
<1>4. CASE k = j
  <2>1. PICK s : /\ job' = [job EXCEPT ![j] = [@ EXCEPT !.pc = "flushing", !.status = s]]
                 /\ saves' = [saves EXCEPT ![j] = Persist(@, s)]
                 /\ \/ s = job[j].status
                    \/ job[j].status = "succeeded" /\ row[j].status \in Asks /\ s = "cancelled"
    BY DEF LateCheck, CancelRequested, Asks
  <2>2. job'[k].pc = "flushing" /\ job'[k].status = s /\ job'[k].aborted = job[k].aborted
    BY <1>1, <1>4, <2>1 DEF TypeOK, Job
  <2>3. saves'[k] = Persist(saves[k], s)
    BY <1>1, <1>4, <2>1 DEF TypeOK
  <2>4. job[k].status \in Ending \ {"replaced"}
    BY <1>1, <1>4 DEF EndOK
  <2>5. LifeOK(job'[k], Persist(saves[k], s), row[k], k \in answers)
    BY <1>1, <1>4, <2>1, <2>2, <2>4, LateOK DEF Lives
  <2> QED
    BY <1>1, <2>3, <2>5 DEF Lives
<1> QED
  BY <1>3, <1>4

\* What the save of a status does to the rows.
LEMMA SaveEffect ==
  ASSUME TypeOK, NEW j \in Jobs, NEW s \in Status,
         row' = IF MaySave(j, s) THEN [row EXCEPT ![j] = Saved(j, s)] ELSE row
  PROVE  /\ Written(row[j], row'[j], s)
         /\ \A k \in Jobs : k # j => row'[k] = row[k]
<1>1. CASE MaySave(j, s)
  <2>1. ~row[j].lost /\ (row[j].status \in Asks => s \in Ends)
    BY <1>1 DEF MaySave, CancelRequested, Asks, Ends
  <2>2. row' = [row EXCEPT ![j] = Saved(j, s)] /\ row[j] \in Row
    BY <1>1, PartTypes
  <2>3. Saved(j, s).status = s /\ Saved(j, s).lost = row[j].lost
    BY SavedFields, PartTypes
  <2> QED
    BY <2>1, <2>2, <2>3 DEF TypeOK, Written
<1>2. CASE ~MaySave(j, s)
  BY <1>2 DEF Written
<1> QED
  BY <1>1, <1>2

\* The repeated save at the end of a job; the job waiting for the device starts.
LEMMA FlushLives ==
  ASSUME IInv, EndingInv, LifeInv, NEW j \in Jobs, FlushJob(j), NEW k \in Jobs
  PROVE  Lives(k)' /\ Follows(k)
<1> DEFINE next == {l \in Jobs : l = Held(waiting, job[j].at, j) /\ job[l].status = "queued"}
<1>1. /\ TypeOK /\ PlaceInv /\ Lives(k) /\ EndOK(k) /\ job[k] \in Job /\ saves[k] \in Saves
      /\ row[k] \in Row /\ job[j].status \in Status /\ answers' = answers
      /\ job[j].pc = "flushing" /\ saves[j].sending = "absent"
  BY PartTypes DEF IInv, EndingInv, LifeInv, FlushJob
<1>2. /\ row' = IF MaySave(j, job[j].status)
                THEN [row EXCEPT ![j] = Saved(j, job[j].status)] ELSE row
      /\ saves' = [l \in Jobs |-> IF l \in next THEN Persist(saves[l], "running") ELSE saves[l]]
  BY DEF FlushJob
<1>3. k \in next <=> k = Held(waiting, job[j].at, j) /\ job[k].status = "queued"
  OBVIOUS
<1>4. j \notin next
  BY <1>1 DEF TypeOK
<1> HIDE DEF next
<1>5. CASE k = j
  <2>1. /\ job'[k].pc = "done" /\ job'[k].status \in {job[k].status, "failed"}
        /\ job'[k].aborted = job[k].aborted
    BY <1>1, <1>5, FlushEffect
  <2>2. saves'[k] = saves[k]
    BY <1>2, <1>4, <1>5
  <2>3. Written(row[k], row'[k], job[k].status)
    BY <1>1, <1>2, <1>5, SaveEffect
  <2>4. job[k].status \in Ending \ {"replaced"} /\ row[k].status # "absent"
    BY <1>1, <1>5 DEF EndOK, PlaceInv
  <2>5. /\ LifeOK(job[k], saves[k], row[k], k \in answers) /\ row[k] \in Row
        /\ job[k].pc = "flushing" /\ saves[k].sending = "absent"
    BY <1>1, <1>5 DEF Lives
  <2>6. /\ LifeOK(job'[k], saves[k], row'[k], k \in answers)
        /\ Moved(row[k], row'[k])
    <3>1. job[k].pc \in {"flushing", "dequeued"} /\ job[k].pc # "dequeued"
      BY <2>5
    <3> QED
      BY <2>1, <2>3, <2>4, <2>5, <3>1, FlushedOK
  <2> QED
    BY <1>1, <2>2, <2>3, <2>6 DEF Lives, Follows, Moved
<1>6. CASE k # j /\ k \in next
  <2>1. job[k].pc = "queued" /\ job[k].status = "queued"
    BY <1>1, <1>3, <1>6, WaiterQueued DEF PlaceInv
  <2>2. job'[k] = Started(k) /\ saves'[k] = Persist(saves[k], "running") /\ row'[k] = row[k]
    BY <1>1, <1>2, <1>3, <1>6, FlushEffect, SaveEffect
  <2>3. job'[k].pc = "locking" /\ job'[k].status = "running" /\ job'[k].aborted = FALSE
    BY <1>1, <2>2, StartedFields
  <2>4. LifeOK(job'[k], Persist(saves[k], "running"), row[k], k \in answers)
    BY <1>1, <2>1, <2>3, DequeuedOK DEF Lives
  <2> QED
    BY <1>1, <2>2, <2>4 DEF Lives, Follows, Moved
<1>7. CASE k # j /\ k \notin next
  <2>1. job'[k] = job[k] /\ saves'[k] = saves[k] /\ row'[k] = row[k]
    BY <1>1, <1>2, <1>3, <1>7, FlushEffect, SaveEffect
  <2> QED
    BY <1>1, <2>1, LifeKept
<1> QED
  BY <1>5, <1>6, <1>7

\* The save at the end of a job that was cancelled while queued.
LEMMA FlushQueuedLives ==
  ASSUME TypeOK, PlaceInv, LifeInv, NEW j \in Jobs, FlushQueued(j), NEW k \in Jobs
  PROVE  Lives(k)' /\ Follows(k)
<1>1. /\ Lives(k) /\ job[k] \in Job /\ saves[k] \in Saves /\ row[k] \in Row
      /\ job[j].status \in Status /\ answers' = answers /\ saves' = saves
      /\ job[j].pc = "dequeued" /\ saves[j].sending = "absent"
      /\ job' = [job EXCEPT ![j] = [@ EXCEPT !.pc = "done"]]
  BY PartTypes DEF LifeInv, FlushQueued
<1>2. row' = IF MaySave(j, job[j].status)
             THEN [row EXCEPT ![j] = Saved(j, job[j].status)] ELSE row
  BY DEF FlushQueued
<1>3. CASE k = j
  <2>1. /\ job'[k].pc = "done" /\ job'[k].status = job[k].status
        /\ job'[k].aborted = job[k].aborted
    BY <1>1, <1>3 DEF TypeOK, Job
  <2>2. Written(row[k], row'[k], job[k].status)
    BY <1>1, <1>2, <1>3, SaveEffect
  <2>3. job[k].status \in Asks /\ row[k].status # "absent"
    BY <1>1, <1>3 DEF PlaceInv, Asks
  <2>4. job[k].status \in Ending \ {"replaced"}
    BY <2>3 DEF Asks, Ending, Final
  <2>5. /\ LifeOK(job[k], saves[k], row[k], k \in answers)
        /\ job[k].pc = "dequeued" /\ saves[k].sending = "absent"
    BY <1>1, <1>3 DEF Lives
  <2>6. /\ LifeOK(job'[k], saves[k], row'[k], k \in answers)
        /\ Moved(row[k], row'[k])
    BY <1>1, <2>1, <2>2, <2>3, <2>4, <2>5, FlushedOK
  <2> QED
    BY <1>1, <2>2, <2>6 DEF Lives, Follows, Moved
<1>4. CASE k # j
  <2>1. job'[k] = job[k] /\ row'[k] = row[k]
    BY <1>1, <1>2, <1>4, SaveEffect DEF TypeOK
  <2> QED
    BY <1>1, <2>1, LifeKept
<1> QED
  BY <1>3, <1>4

----------------------------------------------------------------------------
(* Statements under way, cancellations and servers.                        *)

\* One statement of the queue.
LEMMA StatementLives ==
  ASSUME IInv, LifeInv, NEW j \in Jobs, SaveStatement(j), NEW k \in Jobs
  PROVE  Lives(k)' /\ Follows(k)
<1> DEFINE s == saves[j].sending
<1>1. /\ TypeOK /\ PlaceInv /\ Lives(k) /\ saves[k] \in Saves /\ row[k] \in Row
      /\ s \in Status /\ s # "absent" /\ job' = job /\ answers' = answers
  BY PartTypes DEF IInv, LifeInv, SaveStatement, Saves
<1>2. /\ row' = IF MaySave(j, s) THEN [row EXCEPT ![j] = Saved(j, s)] ELSE row
      /\ saves' = [saves EXCEPT ![j] =
                     IF SaveThrows(j, s) THEN [@ EXCEPT !.sending = "absent"]
                     ELSE [sending |-> @.latest, latest |-> "absent"]]
  BY DEF SaveStatement
<1>3. CASE k = j
  <2>1. /\ LifeOK(job[k], saves[k], row[k], k \in answers)
        /\ saves[k].sending # "absent"
    BY <1>1, <1>3 DEF Lives
  <2>2. row[k].status # "absent"
    BY <1>1, <2>1 DEF LifeOK, PlaceInv
  <2>3. saves'[k].sending \in {"absent", saves[k].latest} /\ Behind(saves'[k]) = "absent"
    BY <1>1, <1>2, <1>3 DEF TypeOK, Saves, Behind
  <2>4. Written(row[k], row'[k], saves[k].sending)
    BY <1>1, <1>2, <1>3, SaveEffect
  <2>5. /\ LifeOK(job[k], saves'[k], row'[k], k \in answers)
        /\ Moved(row[k], row'[k])
    BY <1>1, <2>1, <2>2, <2>3, <2>4, StatementOK
  <2> QED
    BY <1>1, <2>4, <2>5 DEF Lives, Follows, Moved
<1>4. CASE k # j
  <2>1. saves'[k] = saves[k] /\ row'[k] = row[k]
    BY <1>1, <1>2, <1>4, SaveEffect DEF TypeOK
  <2> QED
    BY <1>1, <2>1, LifeKept
<1> QED
  BY <1>3, <1>4

\* A cancellation is accepted, or reaches the job in the memory of its server.
LEMMA CancellationLives ==
  ASSUME IInv, LifeInv, NEW j \in Jobs, Cancellation(j), NEW k \in Jobs
  PROVE  Lives(k)' /\ Follows(k)
<1>1. /\ TypeOK /\ PlaceInv /\ LostInv /\ Lives(k)
      /\ job[k] \in Job /\ saves[k] \in Saves /\ row[k] \in Row
  BY PartTypes DEF IInv, LifeInv
<1>2. ASSUME NEW here \in BOOLEAN, RequestCancellation(j, here)
      PROVE  Lives(k)' /\ Follows(k)
  <2>1. /\ job' = job /\ saves' = saves /\ row[j].status \in Unfinished
        /\ row' = [row EXCEPT ![j] = [@ EXCEPT !.status = "cancelling"]]
        /\ k # j => (k \in answers' => k \in answers)
    BY <1>2 DEF RequestCancellation
  <2>2. CASE k = j
    <3>1. row'[k].status = "cancelling" /\ row'[k].lost = row[k].lost
      BY <1>1, <2>1, <2>2 DEF TypeOK, Row
    <3>2. row[k].status \in Unfinished /\ ~row[k].lost
      BY <1>1, <2>1, <2>2 DEF LostInv, Unfinished
    <3>3. /\ LifeOK(job[k], saves[k], row'[k], k \in answers')
          /\ Lifecycle!Move(row[k], row'[k])
      BY <1>1, <3>1, <3>2, RequestedOK DEF Lives
    <3> QED
      BY <2>1, <3>3 DEF Lives, Follows, Moved
  <2>3. CASE k # j
    BY <1>1, <2>1, <2>3, LifeKept DEF TypeOK
  <2> QED
    BY <2>2, <2>3
<1>3. ASSUME CancelQueued(j), row' = row, answers' \subseteq answers,
             job[j].pc = "queued", row[j].status \in Asks \cup {"failed"}
      PROVE  Lives(k)' /\ Follows(k)
  <2>1. /\ job' = [job EXCEPT ![j] = [@ EXCEPT !.pc = "dequeued", !.status = "cancelled"]]
        /\ saves' = [saves EXCEPT ![j] = Persist(@, "cancelled")]
    BY <1>3 DEF CancelQueued
  <2>2. CASE k = j
    <3>1. job'[k].pc = "dequeued" /\ job'[k].status = "cancelled"
      BY <1>1, <2>1, <2>2 DEF TypeOK, Job
    <3>2. saves'[k] = Persist(saves[k], "cancelled")
      BY <1>1, <2>1, <2>2 DEF TypeOK
    <3>3. LifeOK(job'[k], Persist(saves[k], "cancelled"), row[k], k \in answers')
      BY <1>1, <1>3, <2>2, <3>1, TakenOutOK DEF Lives
    <3> QED
      BY <1>3, <3>2, <3>3 DEF Lives, Follows, Moved
  <2>3. CASE k # j
    BY <1>1, <1>3, <2>1, <2>3, LifeKept DEF TypeOK
  <2> QED
    BY <2>2, <2>3
<1>4. CASE CancelLocal(j) /\ job[j].status = "queued"
  <2>1. CancelQueued(j) /\ row' = row /\ answers' \subseteq answers /\ j \in answers
    BY <1>4 DEF CancelLocal
  <2>2. job[j].pc = "queued"
    BY <1>1, <1>4, <2>1 DEF TypeOK, PlaceInv
  <2>3. row[j].status \in Asks \cup {"failed"}
    BY <2>1 DEF LifeInv, Lives, LifeOK, Asked
  <2> QED
    BY <1>3, <2>1, <2>2, <2>3
<1>5. CASE CancelLocal(j) /\ job[j].status # "queued"
  <2>1. /\ job' = [job EXCEPT ![j] = [@ EXCEPT !.status = "cancelling", !.aborted = TRUE]]
        /\ saves' = [saves EXCEPT ![j] = Persist(@, "cancelling")]
        /\ row' = row /\ answers' = answers \ {j} /\ j \in answers
    BY <1>5 DEF CancelLocal
  <2>2. CASE k = j
    <3>1. /\ job'[k].pc = job[k].pc /\ job'[k].status = "cancelling"
          /\ job'[k].aborted = TRUE
      BY <1>1, <2>1, <2>2 DEF TypeOK, Job
    <3>2. saves'[k] = Persist(saves[k], "cancelling")
      BY <1>1, <2>1, <2>2 DEF TypeOK
    <3>3. job[k].pc \notin {"out", "inserted"} /\ k \in answers
      BY <1>1, <2>1, <2>2 DEF PlaceInv
    <3>4. LifeOK(job'[k], Persist(saves[k], "cancelling"), row[k], k \in answers')
      BY <1>1, <3>1, <3>3, AbortedOK DEF Lives
    <3> QED
      BY <2>1, <3>2, <3>4 DEF Lives, Follows, Moved
  <2>3. CASE k # j
    BY <1>1, <2>1, <2>3, LifeKept DEF TypeOK
  <2> QED
    BY <2>2, <2>3
<1>6. CASE QueuedMonitor(j)
  BY <1>3, <1>6 DEF QueuedMonitor, CancelRequested, Asks
<1>7. CASE RunningMonitor(j)
  <2>1. /\ job' = [job EXCEPT ![j] = [@ EXCEPT !.aborted = TRUE]]
        /\ saves' = saves /\ row' = row /\ answers' = answers
        /\ job[j].pc \in {"locking", "building", "cleanup"} /\ row[j].status \in Asks
    BY <1>7 DEF RunningMonitor, Underway, CancelRequested, Asks
  <2>2. CASE k = j
    <3>1. /\ job'[k].pc = job[k].pc /\ job'[k].status = job[k].status
          /\ job'[k].aborted = TRUE
      BY <1>1, <2>1, <2>2 DEF TypeOK, Job
    <3>2. LifeOK(job'[k], saves[k], row[k], k \in answers)
      BY <1>1, <2>1, <2>2, <3>1, MonitoredOK DEF Lives
    <3> QED
      BY <2>1, <3>2 DEF Lives, Follows, Moved
  <2>3. CASE k # j
    BY <1>1, <2>1, <2>3, LifeKept DEF TypeOK
  <2> QED
    BY <2>2, <2>3
<1> QED
  BY <1>2, <1>4, <1>5, <1>6, <1>7 DEF Cancellation

\* Crashes end handlers, not rows; a server given up for lost has its rows failed.
LEMMA ServerLives ==
  ASSUME IInv, LifeInv, NEW s \in Servers, ServerStep(s), NEW k \in Jobs
  PROVE  Lives(k)' /\ Follows(k)
<1>1. TypeOK /\ Lives(k) /\ job[k] \in Job
  BY PartTypes DEF IInv, LifeInv
<1>2. CASE Crash(s)
  <2>1. CASE job[k].at = s /\ job[k].pc # "gone"
    <3>1. /\ job'[k] = [job[k] EXCEPT !.pc = "gone"] /\ saves'[k] = NoSaves
          /\ row' = row /\ k \notin answers'
      BY <1>2, <2>1 DEF Crash
    <3>2. /\ job'[k].pc = "gone" /\ job'[k].status = job[k].status
          /\ job'[k].aborted = job[k].aborted
      BY <1>1, <3>1 DEF Job
    <3>3. LifeOK(job'[k], NoSaves, row[k], k \in answers')
      BY <1>1, <3>1, <3>2, GoneOK DEF Lives
    <3> QED
      BY <3>1, <3>3 DEF Lives, Follows, Moved
  <2>2. CASE ~(job[k].at = s /\ job[k].pc # "gone")
    <3>1. /\ job'[k] = job[k] /\ saves'[k] = saves[k] /\ row'[k] = row[k]
          /\ k \in answers' => k \in answers
      BY <1>2, <2>2 DEF Crash
    <3> QED
      BY <1>1, <3>1, LifeKept
  <2> QED
    BY <2>1, <2>2
<1>3. CASE Restart(s) \/ Heartbeat(s)
  <2>1. /\ job' = job /\ saves' = saves /\ answers' = answers
        /\ row'[k] = row[k] \/ row'[k] = FailedRows[k]
    BY <1>3 DEF Restart, Heartbeat
  <2>2. CASE row'[k] = row[k]
    BY <1>1, <2>1, <2>2, LifeKept
  <2>3. CASE row'[k] # row[k]
    <3>1. row'[k].status = "failed" /\ row'[k].lost /\ row[k].status \in Unfinished
      BY <1>1, <2>1, <2>3, FailedRowsFields DEF TypeOK
    <3>2. /\ LifeOK(job[k], saves[k], row'[k], k \in answers)
          /\ Lifecycle!Move(row[k], row'[k])
      BY <1>1, <3>1, LostOK DEF Lives
    <3> QED
      BY <2>1, <3>2 DEF Lives, Follows, Moved
  <2> QED
    BY <2>2, <2>3
<1>4. CASE GoStale(s)
  BY <1>1, <1>4, LifeKept DEF GoStale
<1> QED
  BY <1>2, <1>3, <1>4 DEF ServerStep

\* Every step keeps the invariant, and every row follows the life cycle.
LEMMA StepLife ==
  ASSUME IInv, EndingInv, LifeInv, [Next]_vars, NEW k \in Jobs
  PROVE  Lives(k)' /\ Follows(k)
<1>1. Lives(k) /\ TypeOK /\ PlaceInv
  BY DEF LifeInv, IInv
<1>2. CASE UNCHANGED <<job, saves, row, answers>>
  BY <1>1, <1>2, LifeKept
<1>3. ASSUME NEW j \in Jobs, Handler(j)
      PROVE  Lives(k)' /\ Follows(k)
  BY <1>1, <1>3, AdmitLives, TaskLives, LateLives, FlushLives, FlushQueuedLives
  DEF Handler, EndsTask
<1> QED
  BY <1>2, <1>3, SubmitLives, StatementLives, CancellationLives, ServerLives
  DEF Next, CleanStep, CleanCheck, CleanRemove, vars

(***************************************************************************)
(* The build servers implement BuildLifecycle: whatever saves of a job are *)
(* coalesced, repeated, refused or dropped, whoever cancels it and whoever *)
(* dies meanwhile, its row only moves on along the life cycle.             *)
(***************************************************************************)
THEOREM FollowsLifecycle == Spec => LifecycleSpec
<1>1. Init => LifeInv
  BY OrderedFacts DEF Init, LifeInv, Lives, LifeOK, NewJob, NewRow, NoSaves, Asked, Said, Asks, Ends,
    Behind, Head, Tail, Chain, Plain
<1>2. Init => EndingInv
  BY DEF Init, EndingInv, EndOK, NewJob
<1>3. IInv /\ EndingInv /\ [Next]_vars => EndingInv'
  BY StepEnding
<1>4. IInv /\ EndingInv /\ LifeInv /\ [Next]_vars => LifeInv'
  BY StepLife DEF LifeInv
<1>5. Init => Lifecycle!Init
  BY DEF Init, Lifecycle!Init, LifeOf, NewRow
<1>6. IInv /\ IInv' /\ EndingInv /\ LifeInv /\ [Next]_vars
        => [Lifecycle!Next]_([j \in Jobs |-> LifeOf(j)])
  <2> SUFFICES ASSUME IInv, IInv', EndingInv, LifeInv, [Next]_vars
               PROVE  Lifecycle!Next
    OBVIOUS
  <2>1. ASSUME NEW k \in Jobs
        PROVE  /\ LifeOf(k)' \in [status : Lifecycle!Status, lost : BOOLEAN]
               /\ LifeOf(k)' = LifeOf(k) \/ Lifecycle!Move(LifeOf(k), LifeOf(k)')
    <3>1. row[k] \in Row /\ row'[k] \in Row
      BY DEF IInv, TypeOK
    <3>2. Follows(k)
      BY StepLife
    <3>3. LifeOf(k)' \in [status : Lifecycle!Status, lost : BOOLEAN]
      BY <3>1 DEF LifeOf, Row, Status, Final, Unfinished, Lifecycle!Status, Lifecycle!Unfinished
    <3>4. CASE row'[k].status = row[k].status /\ row'[k].lost = row[k].lost
      BY <3>3, <3>4 DEF LifeOf
    <3>5. CASE Lifecycle!Move(row[k], row'[k])
      BY <3>3, <3>5 DEF LifeOf, Lifecycle!Move, Lifecycle!Advance, Lifecycle!Cancel, Lifecycle!Lose
    <3> QED
      BY <3>2, <3>3, <3>4, <3>5 DEF Follows, Moved
  <2> QED
    BY <2>1 DEF Lifecycle!Next
<1> QED
  BY <1>1, <1>2, <1>3, <1>4, <1>5, <1>6, Invariance, PTL
  DEF Spec, LifecycleSpec, Lifecycle!Spec

=============================================================================
