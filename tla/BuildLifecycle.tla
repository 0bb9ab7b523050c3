---------------------------- MODULE BuildLifecycle ----------------------------
(***************************************************************************)
(* What the build servers promise about the row of every single build job, *)
(* with no process, queue, lock or save in sight: the job only moves on;   *)
(* one that was replaced or cancelled is settled for good; a success is    *)
(* never cancelled, restarted or lost, but is taken back as failed when    *)
(* the removal of its workspace fails; a cancellation ends as cancelled or *)
(* failed; a job given up with its server stays failed.  A job that failed *)
(* while it was being cancelled may be marked as cancelling once more.     *)
(***************************************************************************)
CONSTANT Jobs

VARIABLE life    \* job -> its status, and whether it was given up with its server

Unfinished == {"accepted", "queued", "running", "cancelling"}
Status == {"absent", "succeeded", "failed", "replaced", "cancelled"} \cup Unfinished

\* What may follow a status; one that only the memory of the server saw is skipped.
After(s) ==
  CASE s = "absent"     -> {"accepted"}
    [] s = "accepted"   -> {"queued", "running", "replaced", "succeeded", "failed"}
    [] s = "queued"     -> {"running", "replaced", "succeeded", "failed"}
    [] s = "running"    -> {"succeeded", "failed"}
    [] s = "cancelling" -> {"cancelled", "failed"}
    [] s = "succeeded"  -> {"failed"}
    [] s = "failed"     -> {"cancelling"}
    [] OTHER            -> {}

Init == life = [j \in Jobs |-> [status |-> "absent", lost |-> FALSE]]

Advance(a, b) ==
  /\ ~a.lost /\ ~b.lost
  /\ b.status \in After(a.status)

Cancel(a, b) ==
  /\ a.status \in Unfinished
  /\ b.status = "cancelling" /\ ~b.lost

Lose(a, b) ==
  /\ a.status \in Unfinished
  /\ b.status = "failed" /\ b.lost

Move(a, b) == Advance(a, b) \/ Cancel(a, b) \/ Lose(a, b)

\* One statement fails the jobs of every server that is lost.
Next ==
  /\ life' \in [Jobs -> [status : Status, lost : BOOLEAN]]
  /\ \A j \in Jobs : life'[j] = life[j] \/ Move(life[j], life'[j])

Spec == Init /\ [][Next]_life

=============================================================================
