----------------------- MODULE ProjectRepositoriesProofs -----------------------
(***************************************************************************)
(* The inductive invariant of ProjectRepositories, and its consequences.   *)
(***************************************************************************)
EXTENDS ProjectRepositories, SequenceTheorems, TLAPS

----------------------------------------------------------------------------
(***************************************************************************)
(* The invariant.  What is true of the row, h being the history and a what *)
(* creations have asked for, is true of every copy a request has read.     *)
(***************************************************************************)
RowOK(w, h, a) ==
  /\ w \in Row
  /\ w.status = "none" => w = NoRow
  /\ w.head <= Len(h) /\ w.debug <= Len(h)
  /\ Bound(w) => w.head > 0
  /\ a \subseteq {"template"} => w.status \in {"none", "template"}

JobOK(j, h) == j \in Job /\ j.commit <= Len(h)

VersionsOK(vs, h) == vs \subseteq Version /\ \A v \in vs : v.commit > 0 /\ v.commit <= Len(h)

\* A request refers to commits there are, and is where the checks of its operation allow.
RequestOK(q, h, a) ==
  /\ q \in Request
  /\ RowOK(q.row, h, a) /\ JobOK(q.job, h)
  /\ q.expected <= Len(h) /\ q.commit <= Len(h)
  /\ q.pc \notin {"idle", "insert", "done", "error"} => q.row.status # "none"
  /\ q.pc \in {"fetch", "push"} => q.expected > 0 /\ q.op \in CommitOps
  /\ q.pc = "bind" => q.commit > 0
  /\ q.pc = "save" /\ q.op \in CommitOps => q.commit > 0
  /\ q.pc = "save" /\ q.op = "version" => Bound(q.row)
  /\ q.pc = "compare" => h # << >>
  /\ q.pc \in {"insert", "ensure", "compare", "initialize", "push"} => q.tree \in Trees
  /\ q.pc = "fetch" /\ q.op = "commit" => q.tree \in Trees
  /\ a \subseteq {"template"} => q.op \notin CommitOps \cup PlanOps

RequestsInv ==
  /\ request \in [Requests -> Request]
  /\ \A r \in Requests : RequestOK(request[r], history, asked)

\* What only the repository is concerned with.
HistoryInv ==
  /\ history \in Seq(Trees)
  /\ asked \subseteq {"active", "template"}
  /\ repository \in {"none", "open", "archived"}
  /\ asked \subseteq {"template"} => Len(history) <= 1

IInv ==
  /\ HistoryInv
  /\ RowOK(row, history, asked)
  /\ JobOK(job, history)
  /\ VersionsOK(versions, history)
  /\ RequestsInv

----------------------------------------------------------------------------
(***************************************************************************)
(* Nothing of this is disturbed when the history grows, or more is asked.  *)
(***************************************************************************)

\* The history stays as it is, or gets one commit more; what was asked stays asked.
Grown ==
  /\ history' = history \/ \E t \in Trees : history' = Append(history, t)
  /\ asked \subseteq asked'

\* A longer history has the old one's length at least, and its first commit.
LEMMA GrownHistory ==
  ASSUME history \in Seq(Trees), Grown
  PROVE  /\ history' \in Seq(Trees)
         /\ Len(history) <= Len(history')
         /\ history # << >> => history' # << >> /\ history'[1] = history[1]
<1>1. CASE history' = history
  BY <1>1
<1>2. ASSUME NEW t \in Trees, history' = Append(history, t) PROVE
         /\ history' \in Seq(Trees)
         /\ Len(history) <= Len(history')
         /\ history # << >> => history' # << >> /\ history'[1] = history[1]
  BY <1>2
<1> QED BY <1>1, <1>2 DEF Grown

\* What is known of the rows outlives a commit.
LEMMA GrownRows ==
  ASSUME history \in Seq(Trees), Grown
  PROVE  /\ \A w : RowOK(w, history, asked) => RowOK(w, history', asked')
         /\ \A j : JobOK(j, history) => JobOK(j, history')
         /\ \A vs : VersionsOK(vs, history) => VersionsOK(vs, history')
<1>1. Len(history) \in Nat /\ Len(history') \in Nat /\ Len(history) <= Len(history')
  BY GrownHistory
<1>2. \A w : RowOK(w, history, asked) => RowOK(w, history', asked')
  BY <1>1 DEF RowOK, Row, Grown
<1>3. \A j : JobOK(j, history) => JobOK(j, history')
  BY <1>1 DEF JobOK, Job
<1>4. \A vs : VersionsOK(vs, history) => VersionsOK(vs, history')
  BY <1>1 DEF VersionsOK, Version
<1> QED BY <1>2, <1>3, <1>4

\* What is known of a request outlives a commit.
LEMMA GrownRequest ==
  ASSUME history \in Seq(Trees), Grown, NEW q, RequestOK(q, history, asked)
  PROVE  RequestOK(q, history', asked')
<1>1. Len(history) \in Nat /\ Len(history') \in Nat /\ Len(history) <= Len(history')
  BY GrownHistory
<1>2. RowOK(q.row, history', asked') /\ JobOK(q.job, history')
  BY GrownRows DEF RequestOK
<1>3. q.expected <= Len(history') /\ q.commit <= Len(history')
  BY <1>1 DEF RequestOK, Request
<1>4. history # << >> => history' # << >>
  BY GrownHistory
<1>5. asked' \subseteq {"template"} => asked \subseteq {"template"}
  BY DEF Grown
<1> QED BY <1>2, <1>3, <1>4, <1>5 DEF RequestOK

\* A step that changes one request, and leaves it well, leaves all of them well.
LEMMA OneRequest ==
  ASSUME HistoryInv, RequestsInv, Grown,
         NEW r \in Requests, NEW q, RequestOK(q, history', asked'),
         request' = [request EXCEPT ![r] = q]
  PROVE  RequestsInv'
<1>1. q \in Request
  BY DEF RequestOK
<1>2. request' \in [Requests -> Request]
  BY <1>1 DEF RequestsInv
<1>3. ASSUME NEW s \in Requests PROVE RequestOK(request'[s], history', asked')
  <2>1. CASE s = r
    BY <2>1 DEF RequestsInv
  <2>2. CASE s # r
    BY <2>2, GrownRequest DEF RequestsInv, HistoryInv
  <2> QED BY <2>1, <2>2
<1> QED BY <1>2, <1>3 DEF RequestsInv

\* A request that has ended is well whatever the history.
LEMMA EndedOK ==
  ASSUME NEW h \in Seq(Trees), NEW a, NEW pc \in {"idle", "done", "error"}
  PROVE  RequestOK([NoRequest EXCEPT !.pc = pc], h, a)
<1>1. Len(h) \in Nat
  OBVIOUS
<1>2. RowOK(NoRow, h, a) /\ JobOK(NoJob, h)
  BY <1>1 DEF RowOK, JobOK, NoRow, NoJob, Row, Job, Bound
<1>3. [NoRequest EXCEPT !.pc = pc] =
        [op |-> "none", expected |-> 0, tree |-> NoTree, row |-> NoRow, job |-> NoJob,
         commit |-> 0, pc |-> pc]
  BY DEF NoRequest
<1>4. NoRow \in Row /\ NoJob \in Job
  BY DEF NoRow, NoJob, Row, Job
<1> QED BY <1>1, <1>2, <1>3, <1>4 DEF RequestOK, Request, CommitOps, PlanOps

\* The handler goes on to pc.
LEMMA GotoOK ==
  ASSUME HistoryInv, RequestsInv, Grown, NEW r \in Requests, NEW pc, Goto(r, pc),
         \/ pc \in {"done", "error"}
         \/ RequestOK([request[r] EXCEPT !.pc = pc], history', asked')
  PROVE  RequestsInv'
<1>1. history' \in Seq(Trees)
  BY GrownHistory DEF HistoryInv
<1>2. CASE pc \in {"done", "error"}
  <2>1. request' = [request EXCEPT ![r] = [NoRequest EXCEPT !.pc = pc]]
    BY <1>2 DEF Goto
  <2>2. RequestOK([NoRequest EXCEPT !.pc = pc], history', asked')
    BY <1>1, <1>2, EndedOK
  <2> QED BY <2>1, <2>2, OneRequest
<1>3. CASE pc \notin {"done", "error"}
  <2>1. request' = [request EXCEPT ![r] = [request[r] EXCEPT !.pc = pc]]
    BY <1>3 DEF Goto
  <2> QED BY <1>3, <2>1, OneRequest
<1> QED BY <1>2, <1>3

----------------------------------------------------------------------------
(***************************************************************************)
(* The first state, and each action.                                       *)
(***************************************************************************)

LEMMA InitIInv == RepositoryInit => IInv
<1> SUFFICES ASSUME RepositoryInit PROVE IInv
  OBVIOUS
<1>1. HistoryInv
  BY DEF RepositoryInit, HistoryInv
<1>2. Len(history) = 0 /\ history \in Seq(Trees)
  BY DEF RepositoryInit
<1>3. RowOK(row, history, asked) /\ JobOK(job, history)
  BY <1>2 DEF RepositoryInit, RowOK, JobOK, NoRow, NoJob, Row, Job, Bound
<1>4. VersionsOK(versions, history)
  BY DEF RepositoryInit, VersionsOK
<1>5. RequestOK([NoRequest EXCEPT !.pc = "idle"], history, asked)
  BY <1>1, <1>2, EndedOK
<1>6. [NoRequest EXCEPT !.pc = "idle"] = NoRequest
  BY DEF NoRequest
<1>7. RequestsInv
  <2>1. RequestOK(NoRequest, history, asked)
    BY <1>5, <1>6
  <2>2. NoRequest \in Request
    BY <2>1 DEF RequestOK
  <2> QED BY <2>1, <2>2 DEF RepositoryInit, RequestsInv
<1> QED BY <1>1, <1>3, <1>4, <1>7 DEF IInv

\* What the invariant says of the request that takes a step.
LEMMA Acting ==
  ASSUME IInv, NEW r \in Requests
  PROVE  /\ RequestOK(request[r], history, asked)
         /\ request[r] \in Request /\ request \in [Requests -> Request]
         /\ RowOK(request[r].row, history, asked)
         /\ Len(history) \in Nat
         /\ HistoryInv /\ RequestsInv
BY DEF IInv, RequestsInv, RequestOK, HistoryInv

LEMMA LoadIInv ==
  ASSUME IInv, NEW r \in Requests, NEW op \in Ops, Load(r, op)
  PROVE  IInv'
<1>1. UNCHANGED <<row, repository, history, job, versions, asked>> /\ Grown
  BY DEF Load, Grown
<1>2. PICK e \in 0..Len(history), t \in Trees \cup {NoTree} :
     /\ t \in Trees <=> op \in {"create", "commit"}
     /\ \/ /\ Continues(op, e)
           /\ request' = [request EXCEPT ![r] =
                [op |-> op, expected |-> e, tree |-> t, row |-> row, job |-> job,
                 commit |-> 0, pc |-> FirstStep(op)]]
        \/ ~Continues(op, e) /\ Goto(r, "error")
  BY DEF Load
<1>3. HistoryInv'
  BY <1>1, <1>2 DEF IInv, HistoryInv
<1>4. RequestsInv'
  <2>1. CASE Goto(r, "error")
    BY <1>1, <2>1, Acting, GotoOK
  <2>2. CASE Continues(op, e) /\ request' = [request EXCEPT ![r] =
                [op |-> op, expected |-> e, tree |-> t, row |-> row, job |-> job,
                 commit |-> 0, pc |-> FirstStep(op)]]
    <3> DEFINE q == [op |-> op, expected |-> e, tree |-> t, row |-> row, job |-> job,
                     commit |-> 0, pc |-> FirstStep(op)]
    <3>1. Len(history) \in Nat /\ e \in Nat /\ e <= Len(history)
      BY Acting
    <3>2. RowOK(row, history, asked) /\ JobOK(job, history)
      BY DEF IInv
    <3>3. FirstStep(op) \in {"insert", "fetch", "archive", "save", "savejob"}
      BY DEF FirstStep, Ops, SaveOps, JobOps, CommitOps, PlanOps
    <3>4. /\ FirstStep(op) # "insert" => row.status # "none"
          /\ FirstStep(op) = "fetch" => e > 0 /\ op \in CommitOps
          /\ FirstStep(op) = "save" => op \notin CommitOps
          /\ FirstStep(op) = "save" /\ op = "version" => Bound(row)
          /\ FirstStep(op) = "insert" => t \in Trees
      <4>1. row.status = "none" => row.debug = 0
        BY <3>2 DEF RowOK, NoRow
      <4>2. op # "create" => row.status # "none"
        BY <2>2, <4>1 DEF Continues, Ops, SaveOps, JobOps, CommitOps, PlanOps
      <4>3. FirstStep(op) = "insert" <=> op = "create"
        BY DEF FirstStep, Ops, SaveOps, JobOps, CommitOps, PlanOps
      <4>4. FirstStep(op) = "fetch" <=> op \in CommitOps
        BY DEF FirstStep, Ops, SaveOps, JobOps, CommitOps, PlanOps
      <4>5. op \in CommitOps => e = row.head /\ Bound(row)
        BY <2>2 DEF Continues, CommitOps, PlanOps
      <4>6. Bound(row) => row.head > 0
        BY <3>2 DEF RowOK
      <4>7. op = "version" => Bound(row)
        BY <2>2 DEF Continues, CommitOps, PlanOps
      <4> QED BY <1>2, <4>2, <4>3, <4>4, <4>5, <4>6, <4>7
    <3>5. asked \subseteq {"template"} => op \notin CommitOps \cup PlanOps
      BY <2>2, <3>2 DEF Continues, CommitOps, PlanOps, RowOK, Writable
    <3>6. q \in Request
      BY <3>1, <3>2, <3>3 DEF Request, RowOK, JobOK
    <3>7. op = "commit" => t \in Trees
      BY <1>2
    <3>8. RequestOK(q, history, asked)
      <4>1. /\ q.op = op /\ q.expected = e /\ q.tree = t /\ q.row = row /\ q.job = job
            /\ q.commit = 0 /\ q.pc = FirstStep(op)
        OBVIOUS
      <4> HIDE DEF q
      <4> QED BY <3>1, <3>2, <3>3, <3>4, <3>5, <3>6, <3>7, <4>1 DEF RequestOK
    <3> QED BY <1>1, <2>2, <3>8, Acting, OneRequest
  <2> QED BY <1>2, <2>1, <2>2
<1> QED BY <1>1, <1>3, <1>4 DEF IInv

LEMMA InsertProjectIInv ==
  ASSUME IInv, NEW r \in Requests, InsertProject(r)
  PROVE  IInv'
<1>1. UNCHANGED <<repository, history, job, versions>> /\ Grown
  BY DEF InsertProject, Grown
<1>2. ASSUME NEW s \in {"active", "template"},
             row' = Created(s), asked' = asked \cup {s},
             request' = [request EXCEPT ![r] =
               [request[r] EXCEPT !.row = Created(s), !.pc = "ensure"]]
      PROVE  IInv'
  <2>1. RowOK(Created(s), history', asked') /\ Created(s).status # "none"
    <3>1. Len(history') \in Nat /\ s \in asked'
      BY <1>1, <1>2, Acting DEF HistoryInv
    <3>2. asked' \subseteq {"template"} => s = "template"
      BY <3>1
    <3> QED BY <3>1, <3>2 DEF RowOK, Created, Row, Bound
  <2>2. RequestOK(request[r], history', asked')
    BY <1>1, Acting, GrownRequest DEF HistoryInv
  <2> DEFINE q == [request[r] EXCEPT !.row = Created(s), !.pc = "ensure"]
  <2>3. q \in Request
    BY <2>1, Acting DEF Request, RowOK
  <2>4. RequestOK(q, history', asked')
    BY <2>1, <2>2, <2>3, Acting DEF RequestOK, Request, InsertProject
  <2>5. RequestsInv'
    BY <1>1, <1>2, <2>4, Acting, OneRequest
  <2>6. HistoryInv'
    BY <1>1, <1>2 DEF IInv, HistoryInv
  <2>7. JobOK(job', history') /\ VersionsOK(versions', history')
    BY <1>1 DEF IInv
  <2> QED BY <1>2, <2>1, <2>5, <2>6, <2>7 DEF IInv
<1>3. CASE UNCHANGED <<row, asked>> /\ Goto(r, "error")
  <2>1. RequestsInv'
    BY <1>1, <1>3, Acting, GotoOK
  <2> QED BY <1>1, <1>3, <2>1 DEF IInv, HistoryInv
<1> QED BY <1>2, <1>3 DEF InsertProject

\* Without a row there is nothing that could refer to a commit.
LEMMA DeletedOK ==
  ASSUME IInv, DeleteRow, UNCHANGED <<history, asked>>, repository' = repository, RequestsInv'
  PROVE  IInv'
<1>1. Len(history) \in Nat
  BY DEF IInv, HistoryInv
<1>2. RowOK(row', history, asked) /\ JobOK(job', history) /\ VersionsOK(versions', history)
  BY <1>1 DEF DeleteRow, RowOK, JobOK, VersionsOK, NoRow, NoJob, Row, Job, Bound
<1> QED BY <1>2 DEF IInv, HistoryInv, DeleteRow

LEMMA RefuseProjectIInv ==
  ASSUME IInv, NEW r \in Requests, RefuseProject(r)
  PROVE  IInv'
<1>1. UNCHANGED <<repository, history, asked>> /\ Grown /\ Goto(r, "error")
  BY DEF RefuseProject, Grown
<1>2. RequestsInv'
  BY <1>1, Acting, GotoOK
<1>3. CASE DeleteRow
  BY <1>1, <1>2, <1>3, DeletedOK
<1>4. CASE UNCHANGED <<row, job, versions>>
  BY <1>1, <1>2, <1>4 DEF IInv, HistoryInv
<1> QED BY <1>3, <1>4 DEF RefuseProject

LEMMA EnsureRepositoryIInv ==
  ASSUME IInv, NEW r \in Requests, EnsureRepository(r)
  PROVE  IInv'
<1>1. UNCHANGED <<row, history, job, versions, asked>> /\ Grown
  BY DEF EnsureRepository, Grown
<1>2. PICK pc \in {"compare", "initialize", "fail"} :
        Goto(r, pc) /\ (pc = "compare" => history # << >>)
  BY DEF EnsureRepository
<1>3. RequestOK([request[r] EXCEPT !.pc = pc], history, asked)
  BY <1>2, Acting DEF RequestOK, Request, EnsureRepository
<1>4. RequestsInv'
  BY <1>1, <1>2, <1>3, Acting, GotoOK
<1>5. repository' \in {"none", "open", "archived"}
  BY DEF IInv, HistoryInv, EnsureRepository
<1> QED BY <1>1, <1>4, <1>5 DEF IInv, HistoryInv

LEMMA CompareRepositoryIInv ==
  ASSUME IInv, NEW r \in Requests, CompareRepository(r)
  PROVE  IInv'
<1>1. UNCHANGED <<row, repository, history, job, versions, asked>> /\ Grown
  BY DEF CompareRepository, Grown
<1>2. history # << >> /\ Len(history) > 0 /\ Len(history) \in Nat
  BY Acting DEF CompareRepository, RequestOK, HistoryInv
<1>3. CASE request' = [request EXCEPT ![r] =
             [request[r] EXCEPT !.commit = Len(history), !.pc = "bind"]]
  <2> DEFINE q == [request[r] EXCEPT !.commit = Len(history), !.pc = "bind"]
  <2>1. q \in Request
    BY <1>2, Acting DEF Request
  <2>2. RequestOK(q, history, asked)
    BY <1>2, <2>1, Acting DEF RequestOK, Request, CompareRepository
  <2>3. RequestsInv'
    BY <1>1, <1>3, <2>2, Acting, OneRequest
  <2> QED BY <1>1, <2>3 DEF IInv, HistoryInv
<1>4. CASE Goto(r, "fail")
  <2>1. RequestOK([request[r] EXCEPT !.pc = "fail"], history, asked)
    BY Acting DEF RequestOK, Request, CompareRepository
  <2>2. RequestsInv'
    BY <1>1, <1>4, <2>1, Acting, GotoOK
  <2> QED BY <1>1, <2>2 DEF IInv, HistoryInv
<1> QED BY <1>3, <1>4 DEF CompareRepository

LEMMA PushInitialIInv ==
  ASSUME IInv, NEW r \in Requests, PushInitial(r)
  PROVE  IInv'
<1> DEFINE t == request[r].tree
<1>1. UNCHANGED <<row, repository, job, versions, asked>>
  BY DEF PushInitial
<1>2. RequestOK([request[r] EXCEPT !.pc = "fail"], history, asked)
  BY Acting DEF RequestOK, Request, PushInitial
<1>3. CASE history = << >> /\ history' = <<t>>
  <2>1. t \in Trees /\ Len(<<t>>) = 1
    BY Acting DEF PushInitial, RequestOK
  <2>2. history' = Append(history, t) /\ Grown
    BY <1>1, <1>3, <2>1 DEF Grown
  <2>3. RequestOK(request[r], history', asked')
    BY <2>2, Acting, GrownRequest DEF HistoryInv
  <2>4. RequestsInv'
    <3>1. CASE Goto(r, "fail")
      <4>1. RequestOK([request[r] EXCEPT !.pc = "fail"], history', asked')
        BY <1>2, <2>2, GrownRequest, Acting DEF HistoryInv
      <4> QED BY <2>2, <3>1, <4>1, Acting, GotoOK
    <3>2. CASE request' = [request EXCEPT ![r] = [request[r] EXCEPT !.commit = 1, !.pc = "bind"]]
      <4> DEFINE q == [request[r] EXCEPT !.commit = 1, !.pc = "bind"]
      <4>1. q \in Request
        BY Acting DEF Request
      <4>2. RequestOK(q, history', asked')
        BY <1>3, <2>1, <2>3, <4>1, Acting DEF RequestOK, Request, PushInitial
      <4> QED BY <2>2, <3>2, <4>2, Acting, OneRequest
    <3> QED BY <1>3, <3>1, <3>2 DEF PushInitial
  <2>5. HistoryInv'
    BY <1>1, <1>3, <2>1, <2>2, GrownHistory DEF IInv, HistoryInv
  <2> QED BY <1>1, <2>2, <2>4, <2>5, GrownRows DEF IInv, HistoryInv
<1>4. CASE Goto(r, "fail") /\ UNCHANGED history
  <2>1. RequestsInv'
    BY <1>1, <1>2, <1>4, Acting, GotoOK DEF Grown
  <2> QED BY <1>1, <1>4, <2>1 DEF IInv, HistoryInv
<1> QED BY <1>3, <1>4 DEF PushInitial

LEMMA BindProjectIInv ==
  ASSUME IInv, NEW r \in Requests, BindProject(r)
  PROVE  IInv'
<1>1. UNCHANGED <<repository, history, job, versions, asked>> /\ Grown
  BY DEF BindProject, Grown
<1>2. RowOK(Binding(r), history, asked)
  <2> DEFINE q == request[r]
             w == q.row
  <2>1. w \in Row /\ w.status # "none" /\ RowOK(w, history, asked) /\ Len(history) \in Nat
    BY Acting DEF RowOK, RequestOK, BindProject
  <2>2. q.commit \in Nat /\ q.commit > 0 /\ q.commit <= Len(history)
    BY Acting DEF RequestOK, Request, BindProject
  <2>3. RowOK([w EXCEPT !.binding = "active", !.head = q.commit], history, asked)
    <3> HIDE DEF w, q
    <3> QED BY <2>1, <2>2 DEF RowOK, Row, Bound
  <2> QED BY <2>3 DEF Binding
<1>3. RequestOK([request[r] EXCEPT !.pc = "fail"], history, asked)
  BY Acting DEF RequestOK, Request, BindProject
<1>4. RequestsInv'
  BY <1>1, <1>3, Acting, GotoOK DEF BindProject
<1>5. RowOK(row', history, asked)
  BY <1>2 DEF IInv, BindProject
<1> QED BY <1>1, <1>4, <1>5 DEF IInv, HistoryInv

LEMMA FailProjectIInv ==
  ASSUME IInv, NEW r \in Requests, FailProject(r)
  PROVE  IInv'
<1>1. UNCHANGED <<repository, history, job, versions, asked>> /\ Grown /\ Goto(r, "error")
  BY DEF FailProject, Grown
<1>2. RequestsInv'
  BY <1>1, Acting, GotoOK
<1>3. RowOK([request[r].row EXCEPT !.binding = "failed"], history, asked)
  <2> DEFINE w == request[r].row
             x == [w EXCEPT !.binding = "failed"]
  <2>1. w \in Row /\ w.status # "none" /\ RowOK(w, history, asked) /\ Len(history) \in Nat
    BY Acting DEF RowOK, RequestOK, FailProject
  <2>2. /\ x \in Row /\ x.status = w.status /\ x.binding = "failed"
        /\ x.head = w.head /\ x.debug = w.debug
    BY <2>1 DEF Row
  <2>3. RowOK(x, history, asked)
    <3> HIDE DEF x, w
    <3> QED BY <2>1, <2>2 DEF RowOK, Bound
  <2> QED BY <2>3
<1>4. RowOK(row', history, asked) /\ HistoryInv'
  BY <1>1, <1>3 DEF IInv, HistoryInv, FailProject
<1> QED BY <1>1, <1>2, <1>4 DEF IInv

LEMMA FetchHeadIInv ==
  ASSUME IInv, NEW r \in Requests, FetchHead(r)
  PROVE  IInv'
<1>1. UNCHANGED <<row, repository, history, job, versions, asked>> /\ Grown
  BY DEF FetchHead, Grown
<1>2. CASE Goto(r, "error")
  BY <1>1, <1>2, Acting, GotoOK DEF IInv, HistoryInv
<1>3. CASE request[r].expected = Len(history) /\ ~Goto(r, "error")
  <2> DEFINE q0 == request[r]
             S == IF q0.op = "restore" THEN {history[i] : i \in 1..q0.expected} ELSE {q0.tree}
  <2>1. PICK t \in S : request' = [request EXCEPT ![r] =
          [q0 EXCEPT !.tree = t, !.commit = q0.expected,
                     !.pc = IF t = history[q0.expected] THEN "save" ELSE "push"]]
    BY <1>3 DEF FetchHead
  <2> DEFINE q == [q0 EXCEPT !.tree = t, !.commit = q0.expected,
                             !.pc = IF t = history[q0.expected] THEN "save" ELSE "push"]
  <2>2. t \in Trees
    <3>1. CASE q0.op = "restore"
      BY <1>3, <3>1, Acting DEF HistoryInv, Request
    <3>2. CASE q0.op = "commit"
      BY <3>2, Acting DEF RequestOK, FetchHead
    <3> QED BY <3>1, <3>2, Acting DEF RequestOK, FetchHead, CommitOps
  <2>3. q \in Request
    BY <2>2, Acting DEF Request
  <2>4. RequestOK(q, history, asked)
    <3>1. /\ q0 \in Request /\ q0.pc = "fetch" /\ q0.op \in CommitOps /\ q0.expected > 0
          /\ RequestOK(q0, history, asked)
      BY Acting DEF RequestOK, FetchHead
    <3>2. /\ q.op = q0.op /\ q.row = q0.row /\ q.job = q0.job /\ q.expected = q0.expected
          /\ q.commit = q0.expected /\ q.pc \in {"save", "push"} /\ q.tree = t
      BY <3>1 DEF Request
    <3> HIDE DEF q, q0
    <3> QED BY <2>2, <2>3, <3>1, <3>2 DEF RequestOK, CommitOps, PlanOps
  <2>5. RequestsInv'
    BY <1>1, <2>1, <2>4, Acting, OneRequest
  <2> QED BY <1>1, <2>5 DEF IInv, HistoryInv
<1> QED BY <1>2, <1>3 DEF FetchHead

LEMMA PushCommitIInv ==
  ASSUME IInv, NEW r \in Requests, PushCommit(r)
  PROVE  IInv'
<1>1. UNCHANGED <<row, repository, job, versions, asked>>
  BY DEF PushCommit
<1> DEFINE q0 == request[r]
<1>2. CASE history' = Append(history, q0.tree)
  <2>1. Grown /\ Len(history') = Len(history) + 1 /\ Len(history) \in Nat
    BY <1>1, <1>2, Acting DEF Grown, RequestOK, PushCommit, HistoryInv
  <2>2. RequestOK(q0, history', asked') /\ q0 \in Request
    BY <2>1, Acting, GrownRequest DEF HistoryInv
  <2> DEFINE q == [q0 EXCEPT !.commit = Len(history'), !.pc = "save"]
  <2>3. q \in Request
    <3>1. Len(history') \in Nat
      BY <2>1
    <3>2. [q0 EXCEPT !.commit = Len(history'), !.pc = "save"] \in Request
      BY <2>2, <3>1 DEF Request
    <3> QED BY <3>2
  <2>4. RequestOK(q, history', asked')
    BY <2>1, <2>2, <2>3, Acting DEF RequestOK, Request, PushCommit, CommitOps
  <2>5. RequestsInv'
    <3>1. CASE Goto(r, "error")
      BY <1>1, <2>1, <3>1, Acting, GotoOK
    <3>2. CASE request' = [request EXCEPT ![r] = q]
      BY <1>1, <2>1, <2>4, <3>2, Acting, OneRequest
    <3> QED BY <3>1, <3>2 DEF PushCommit
  <2>6. ~(asked \subseteq {"template"})
    BY Acting DEF RequestOK, PushCommit
  <2>7. HistoryInv'
    BY <1>1, <1>2, <2>1, <2>6, GrownHistory DEF IInv, HistoryInv
  <2> QED BY <1>1, <2>1, <2>5, <2>7, GrownRows DEF IInv, HistoryInv
<1>3. CASE Goto(r, "error") /\ UNCHANGED history
  <2>1. RequestsInv'
    BY <1>1, <1>3, Acting, GotoOK DEF Grown
  <2> QED BY <1>1, <1>3, <2>1 DEF IInv, HistoryInv
<1> QED BY <1>2, <1>3 DEF PushCommit

LEMMA SaveProjectIInv ==
  ASSUME IInv, NEW r \in Requests, SaveProject(r)
  PROVE  IInv'
<1>1. UNCHANGED <<repository, history, job, versions, asked>> /\ Grown
  BY DEF SaveProject, Grown
<1>2. RequestsInv'
  BY <1>1, Acting, GotoOK DEF SaveProject
<1>3. RowOK(Saved(r), history, asked)
  <2> DEFINE q == request[r]
             w == q.row
             x == Saved(r)
  <2>1. w \in Row /\ w.status # "none" /\ RowOK(w, history, asked) /\ Len(history) \in Nat
    BY Acting DEF RowOK, RequestOK, SaveProject
  <2>2. CASE q.op \in CommitOps
    <3>1. q.commit \in Nat /\ q.commit > 0 /\ q.commit <= Len(history)
      BY <2>2, Acting DEF RequestOK, Request, SaveProject
    <3>2. x = [w EXCEPT !.head = q.commit]
      BY <2>2 DEF Saved, CommitOps, PlanOps
    <3>3. RowOK([w EXCEPT !.head = q.commit], history, asked)
      <4> HIDE DEF w, q
      <4> QED BY <2>1, <3>1 DEF RowOK, Row, Bound
    <3> QED BY <3>2, <3>3
  <2>3. CASE q.op \in PlanOps
    <3>1. ~(asked \subseteq {"template"})
      BY <2>3, Acting DEF RequestOK
    <3>2. \E v \in {"plan_locked", "active"} : x = [w EXCEPT !.status = v]
      BY <2>3 DEF Saved, PlanOps, CommitOps
    <3>3. \A v \in {"plan_locked", "active"} : RowOK([w EXCEPT !.status = v], history, asked)
      <4> HIDE DEF w, q
      <4> QED BY <2>1, <3>1 DEF RowOK, Row, Bound
    <3> QED BY <3>2, <3>3
  <2>4. CASE q.op \notin CommitOps \cup PlanOps
    <3>1. \/ x = w
          \/ x = [w EXCEPT !.debug = w.head]
          \/ x = [w EXCEPT !.debug = 0]
      BY <2>4 DEF Saved, PlanOps, CommitOps
    <3>2. RowOK([w EXCEPT !.debug = w.head], history, asked) /\ RowOK([w EXCEPT !.debug = 0], history, asked)
      <4> HIDE DEF w, q
      <4> QED BY <2>1 DEF RowOK, Row, Bound
    <3> QED BY <2>1, <3>1, <3>2
  <2> QED BY <2>2, <2>3, <2>4
<1> QED BY <1>1, <1>2, <1>3 DEF IInv, HistoryInv, SaveProject

LEMMA SaveVersionIInv ==
  ASSUME IInv, NEW r \in Requests, SaveVersion(r)
  PROVE  IInv'
<1>1. UNCHANGED <<row, repository, history, job, asked>> /\ Grown
  BY DEF SaveVersion, Grown
<1>2. RequestsInv'
  BY <1>1, Acting, GotoOK DEF SaveVersion
<1>3. request[r].row.head \in Nat /\ request[r].row.head > 0 /\ request[r].row.head <= Len(history)
  <2>1. Bound(request[r].row) /\ request[r].row \in Row
    BY Acting DEF RequestOK, RowOK, SaveVersion
  <2>2. RowOK(request[r].row, history, asked)
    BY Acting
  <2>3. \A w \in Row : RowOK(w, history, asked) /\ Bound(w) =>
          w.head \in Nat /\ w.head > 0 /\ w.head <= Len(history)
    BY DEF RowOK, Row
  <2> QED BY <2>1, <2>2, <2>3
<1>4. VersionsOK(versions', history)
  <2>1. \/ versions' = versions
        \/ \E b \in BOOLEAN :
             versions' = versions \cup {[commit |-> request[r].row.head, binary |-> b]}
    BY Zenon DEF SaveVersion
  <2>2. VersionsOK(versions, history)
    BY DEF IInv
  <2>3. ASSUME NEW b \in BOOLEAN
        PROVE  VersionsOK(versions \cup {[commit |-> request[r].row.head, binary |-> b]}, history)
    BY <1>3, <2>2 DEF VersionsOK, Version
  <2> QED BY <2>1, <2>2, <2>3
<1> QED BY <1>1, <1>2, <1>4 DEF IInv, HistoryInv

LEMMA CreateBuildJobIInv ==
  ASSUME IInv, NEW r \in Requests, CreateBuildJob(r)
  PROVE  IInv'
<1> DEFINE q == request[r]
           c == IF q.expected = 0 THEN q.row.head ELSE q.expected
<1>1. UNCHANGED <<row, repository, history, versions, asked>> /\ Grown
  BY DEF CreateBuildJob, Grown
<1>2. RequestsInv'
  <2>1. RequestOK([request[r] EXCEPT !.pc = "session"], history, asked)
    BY Acting DEF RequestOK, Request, CreateBuildJob
  <2>2. \/ Goto(r, "session")
        \/ Goto(r, "done")
        \/ Goto(r, "error")
    BY DEF CreateBuildJob
  <2> QED BY <1>1, <2>1, <2>2, Acting, GotoOK
<1>3. c \in Nat /\ c <= Len(history)
  BY Acting DEF RequestOK, RowOK, Row, Request
<1>4. JobOK([status |-> "created", commit |-> c], history)
  BY <1>3 DEF JobOK, Job
<1>5. JobOK(job', history)
  BY <1>4 DEF IInv, CreateBuildJob
<1> QED BY <1>1, <1>2, <1>5 DEF IInv, HistoryInv

LEMMA SaveBuildJobIInv ==
  ASSUME IInv, NEW r \in Requests, SaveBuildJob(r)
  PROVE  IInv'
<1>1. UNCHANGED <<row, repository, history, versions, asked>> /\ Grown
  BY DEF SaveBuildJob, Grown
<1>2. RequestOK([request[r] EXCEPT !.pc = "session"], history, asked)
  BY Acting DEF RequestOK, Request, SaveBuildJob
<1>3. RequestsInv'
  BY <1>1, <1>2, Acting, GotoOK DEF SaveBuildJob
<1>4. JobOK(job', history)
  <2>1. JobOK(request[r].job, history)
    BY Acting DEF RequestOK
  <2>2. \A x \in {"submitted", "succeeded", "failed"} :
          JobOK([request[r].job EXCEPT !.status = x], history)
    BY <2>1 DEF JobOK, Job
  <2> QED BY <2>2 DEF IInv, SaveBuildJob
<1> QED BY <1>1, <1>3, <1>4 DEF IInv, HistoryInv

LEMMA SaveSessionIInv ==
  ASSUME IInv, NEW r \in Requests, SaveSession(r)
  PROVE  IInv'
<1>1. UNCHANGED <<repository, history, job, versions, asked>> /\ Grown /\ Goto(r, "done")
  BY DEF SaveSession, Grown
<1>2. RequestsInv'
  BY <1>1, Acting, GotoOK
<1>3. RowOK(row', history, asked)
  BY Acting DEF IInv, SaveSession
<1> QED BY <1>1, <1>2, <1>3 DEF IInv, HistoryInv

LEMMA ArchiveRepositoryIInv ==
  ASSUME IInv, NEW r \in Requests, ArchiveRepository(r)
  PROVE  IInv'
<1>1. UNCHANGED <<row, history, job, versions, asked>> /\ Grown
  BY DEF ArchiveRepository, Grown
<1>2. RequestOK([request[r] EXCEPT !.pc = "remove"], history, asked)
  BY Acting DEF RequestOK, Request, ArchiveRepository
<1>3. RequestsInv'
  BY <1>1, <1>2, Acting, GotoOK DEF ArchiveRepository
<1> QED BY <1>1, <1>3 DEF IInv, HistoryInv, ArchiveRepository

LEMMA DeleteProjectIInv ==
  ASSUME IInv, NEW r \in Requests, DeleteProject(r)
  PROVE  IInv'
<1>1. UNCHANGED <<repository, history, asked>> /\ Grown
  BY DEF DeleteProject, Grown
<1>2. RequestsInv'
  BY <1>1, Acting, GotoOK DEF DeleteProject
<1>3. CASE DeleteRow
  BY <1>1, <1>2, <1>3, DeletedOK
<1>4. CASE UNCHANGED <<versions, job>> /\ ~DeleteRow
  <2>1. RowOK([request[r].row EXCEPT !.binding = "archived"], history, asked)
    BY Acting DEF RowOK, Row, Bound, RequestOK, DeleteProject
  <2>2. RowOK(row', history, asked)
    BY <1>4, <2>1 DEF IInv, DeleteProject
  <2> QED BY <1>1, <1>2, <1>4, <2>2 DEF IInv, HistoryInv
<1> QED BY <1>3, <1>4 DEF DeleteProject

----------------------------------------------------------------------------

LEMMA StepIInv == IInv /\ [Next]_vars => IInv'
<1> SUFFICES ASSUME IInv, [Next]_vars PROVE IInv'
  OBVIOUS
<1>1. ASSUME NEW r \in Requests, RequestStep(r) PROVE IInv'
  <2>1. CASE InsertProject(r)
    BY <2>1, InsertProjectIInv
  <2>2. CASE RefuseProject(r)
    BY <2>2, RefuseProjectIInv
  <2>3. CASE EnsureRepository(r)
    BY <2>3, EnsureRepositoryIInv
  <2>4. CASE CompareRepository(r)
    BY <2>4, CompareRepositoryIInv
  <2>5. CASE PushInitial(r)
    BY <2>5, PushInitialIInv
  <2>6. CASE BindProject(r)
    BY <2>6, BindProjectIInv
  <2>7. CASE FailProject(r)
    BY <2>7, FailProjectIInv
  <2>8. CASE FetchHead(r)
    BY <2>8, FetchHeadIInv
  <2>9. CASE PushCommit(r)
    BY <2>9, PushCommitIInv
  <2>10. CASE SaveProject(r)
    BY <2>10, SaveProjectIInv
  <2>11. CASE SaveVersion(r)
    BY <2>11, SaveVersionIInv
  <2>12. CASE CreateBuildJob(r)
    BY <2>12, CreateBuildJobIInv
  <2>13. CASE SaveBuildJob(r)
    BY <2>13, SaveBuildJobIInv
  <2>14. CASE SaveSession(r)
    BY <2>14, SaveSessionIInv
  <2>15. CASE ArchiveRepository(r)
    BY <2>15, ArchiveRepositoryIInv
  <2>16. CASE DeleteProject(r)
    BY <2>16, DeleteProjectIInv
  <2> QED
    BY <1>1, <2>1, <2>2, <2>3, <2>4, <2>5, <2>6, <2>7, <2>8, <2>9, <2>10, <2>11, <2>12, <2>13,
       <2>14, <2>15, <2>16 DEF RequestStep
<1>2. ASSUME NEW r \in Requests, NEW op \in Ops, Load(r, op) PROVE IInv'
  BY <1>2, LoadIInv
<1>3. CASE UNCHANGED vars
  BY <1>3 DEF vars, IInv, HistoryInv, RequestsInv
<1> QED BY <1>1, <1>2, <1>3 DEF Next

(***************************************************************************)
(* What is known of the row, of the copies that requests have read of it,  *)
(* and of the history holds in every reachable state.                      *)
(***************************************************************************)
THEOREM Invariance == Spec => []IInv
<1>1. RepositoryInit => IInv
  BY InitIInv
<1>2. IInv /\ [Next]_vars => IInv'
  BY StepIInv
<1> QED BY <1>1, <1>2, PTL DEF Spec

(***************************************************************************)
(* Type correctness, for any number of requests and commits.               *)
(***************************************************************************)
THEOREM TypeCorrect == Spec => []TypeOK
<1>1. IInv => TypeOK
  BY DEF IInv, TypeOK, HistoryInv, RowOK, JobOK, VersionsOK, RequestsInv
<1> QED BY <1>1, Invariance, PTL

(***************************************************************************)
(* No row, session, build or version ever refers to a commit that is not   *)
(* there, although rows are overwritten by older copies of themselves.     *)
(***************************************************************************)
THEOREM ReferencesExist == Spec => []CommitsExist
<1>1. IInv => CommitsExist
  BY DEF IInv, CommitsExist, Exists, RowOK, JobOK, VersionsOK
<1> QED BY <1>1, Invariance, PTL

(***************************************************************************)
(* A template keeps its one commit, whatever requests name it, until a     *)
(* creation of an ordinary project names it.                               *)
(***************************************************************************)
THEOREM TemplatesKept == Spec => []TemplateImmutable
<1>1. IInv => TemplateImmutable
  BY DEF IInv, HistoryInv, TemplateImmutable
<1> QED BY <1>1, Invariance, PTL

(***************************************************************************)
(* No commit is lost or built on another head than its client had read.    *)
(***************************************************************************)
THEOREM NoCommitLost == Spec => BuiltOnRead
<1> DEFINE Built == history' # history =>
       \E r \in Requests :
         /\ \E t \in Trees : history' = Append(history, t)
         /\ request[r].pc = "initialize" => history = << >>
         /\ request[r].pc = "push" => request[r].expected = Len(history)
         /\ request[r].pc \in {"initialize", "push"} /\ request'[r].pc # request[r].pc
<1>1. IInv /\ [Next]_vars => Built
  <2> SUFFICES ASSUME IInv, [Next]_vars, history' # history PROVE Built
    OBVIOUS
  <2>0. history' # history
    OBVIOUS
  <2>1. PICK r \in Requests : PushInitial(r) \/ PushCommit(r)
    BY DEF Next, RequestStep, vars, Load, InsertProject, RefuseProject, EnsureRepository,
       CompareRepository, BindProject, FailProject, FetchHead, SaveProject, SaveVersion, CreateBuildJob, SaveBuildJob, SaveSession, ArchiveRepository, DeleteProject
  <2>2. CASE PushInitial(r)
    <3>1. history = << >> /\ history' = <<request[r].tree>> /\ request[r].pc = "initialize"
      BY <2>2, <2>0 DEF PushInitial
    <3>2. \E t \in Trees : history' = Append(history, t)
      BY <3>1, Acting DEF RequestOK
    <3>3. request'[r].pc \in {"bind", "fail"}
      <4>1. CASE request' = [request EXCEPT ![r] = [request[r] EXCEPT !.commit = 1, !.pc = "bind"]]
        BY <4>1, Acting DEF Request
      <4>2. CASE Goto(r, "fail")
        BY <4>2, Acting DEF Goto, Request
      <4> QED BY <2>2, <2>0, <4>1, <4>2 DEF PushInitial
    <3> QED BY <3>1, <3>2, <3>3
  <2>3. CASE PushCommit(r)
    <3>1. \E t \in Trees : history' = Append(history, t)
      BY <2>3, <2>0, Acting DEF PushCommit, RequestOK
    <3>2. request'[r].pc # "push"
      <4>1. CASE request' = [request EXCEPT ![r] = [@ EXCEPT !.commit = Len(history'), !.pc = "save"]]
        BY <4>1, Acting DEF Request
      <4>2. CASE Goto(r, "error")
        BY <4>2, Acting DEF Goto, NoRequest
      <4> QED BY <2>3, <4>1, <4>2 DEF PushCommit
    <3>3. request[r].pc = "push"
      BY <2>3 DEF PushCommit
    <3>4. request[r].expected = Len(history)
      BY <2>3, <2>0 DEF PushCommit
    <3> QED BY <3>1, <3>2, <3>3, <3>4
  <2> QED BY <2>1, <2>2, <2>3
<1> QED BY <1>1, Invariance, PTL DEF Spec, BuiltOnRead

=============================================================================
