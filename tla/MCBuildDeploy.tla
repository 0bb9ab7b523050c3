--------------------------- MODULE MCBuildDeploy ---------------------------
(***************************************************************************)
(* Instances of BuildDeploy for TLC: each specification takes the part of  *)
(* the next-state relation its question is about.                          *)
(***************************************************************************)
EXTENDS BuildDeploy

CONSTANTS s1, s2, b1, b2, b3, d1, ta, tb, tc, p1, none

MCDeviceOf == [j \in Jobs |-> IF Devices = {} THEN none ELSE d1]
MCTargetOf == [j \in Jobs |-> IF Targets = {ta} \/ j = b1 THEN ta ELSE IF j = b2 THEN tb ELSE tc]
MCProjectOf == [j \in Jobs |-> p1]

RunNext ==
  \/ \E s \in Servers, j \in Jobs : SubmitJob(s, j)
  \/ \E j \in Jobs : Handler(j) \/ SaveStatement(j)

\* Submissions and runs only: nobody cancels, no server fails.
RunSpec == Init /\ [][RunNext]_vars

(***************************************************************************)
(* Jobs of one target and device are alike and submitted in the order b1,  *)
(* b2, b3, one after the other; b2, which waits behind b1 and makes b3     *)
(* wait, may be cancelled once.                                            *)
(***************************************************************************)
Submitted(j) == job[j].pc \notin {"out", "inserted"}

CancelledOnce(j) ==
  \/ ~CancelRequested(j) /\ \E here \in BOOLEAN : RequestCancellation(j, here)
  \/ CancelLocal(j) \/ QueuedMonitor(j) \/ RunningMonitor(j)

QueueNext ==
  \/ \E s \in Servers, j \in Jobs :
       /\ j # b1 => Submitted(b1)
       /\ j = b3 => Submitted(b2)
       /\ SubmitJob(s, j)
  \/ \E j \in Jobs : Handler(j) \/ SaveStatement(j)
  \/ CancelledOnce(b2)

QueueSpec == Init /\ [][QueueNext]_vars

(***************************************************************************)
(* s1 may hang or die for good, s2 stays up and its timer goes on; a dead  *)
(* server sends no heartbeat.  What a handler of a live process awaits     *)
(* answers, and the compiler terminates.                                   *)
(***************************************************************************)
OrphanNext ==
  \/ RunNext
  \/ Crash(s1)
  \/ GoStale(s1)
  \/ \E s \in Servers : Heartbeat(s)

OrphanSpec ==
  /\ Init /\ [][OrphanNext]_vars
  /\ WF_vars(s1 \notin up /\ GoStale(s1))
  /\ WF_vars(Heartbeat(s2))
  /\ \A j \in Jobs : WF_vars(Handler(j)) /\ WF_vars(SaveStatement(j))

=============================================================================
