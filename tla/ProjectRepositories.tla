-------------------------- MODULE ProjectRepositories --------------------------
(***************************************************************************)
(* One project of the project server: its row in PostgreSQL, its private   *)
(* repository in Forgejo, and the requests that work on both               *)
(* (project-service.js, forgejo- and git-project-repository-store.js).  A  *)
(* request reads the whole row once and writes the whole row back; the     *)
(* repository is guarded by the head the client has read.  Commits are     *)
(* numbered along the branch, its head is the length of the history.  A    *)
(* request that never goes on is one whose server died.                    *)
(***************************************************************************)
EXTENDS Naturals, Sequences

CONSTANTS
  Requests,    \* requests the project server ever gets
  Trees,       \* contents of a commit
  NoTree,      \* of a request that brings no content
  MaxCommits   \* bound: length of the history

ASSUME RepositoryAssumption == NoTree \notin Trees /\ MaxCommits \in Nat

VARIABLES
  row,         \* row of project_projects
  repository,  \* state of the repository in Forgejo
  history,     \* trees of the commits on its branch
  job,         \* row of project_build_jobs
  versions,    \* rows of project_versions
  request,     \* request[r]: where the request is, and what it has read
  asked        \* history variable: what creations have asked it to be

vars == <<row, repository, history, job, versions, request, asked>>

Row == [status : {"none", "active", "template", "plan_locked"},
        binding : {"none", "active", "failed", "archived"},
        head : Nat,        \* head_sha, 0 is none
        debug : Nat]       \* commit_sha of the debug session, 0 is none

NoRow == [status |-> "none", binding |-> "none", head |-> 0, debug |-> 0]

Job == [status : {"none", "created", "submitted", "succeeded", "failed"}, commit : Nat]

NoJob == [status |-> "none", commit |-> 0]

Version == [commit : Nat, binary : BOOLEAN]

PlanOps == {"lock", "unlock"}
CommitOps == {"commit", "restore"}
SaveOps == {"devices", "start_debug", "touch_debug", "end_debug"} \cup PlanOps
JobOps == {"submit", "result"}
Ops == {"create", "delete", "version", "build"} \cup CommitOps \cup SaveOps \cup JobOps

Request == [op : Ops \cup {"none"}, expected : Nat, tree : Trees \cup {NoTree}, row : Row,
            job : Job, commit : Nat,
            pc : {"idle", "insert", "ensure", "compare", "initialize", "fetch", "push", "bind",
                  "fail", "save", "archive", "remove", "savejob", "session", "done", "error"}]

NoRequest == [op |-> "none", expected |-> 0, tree |-> NoTree, row |-> NoRow, job |-> NoJob,
              commit |-> 0, pc |-> "idle"]

RepositoryInit ==
  /\ row = NoRow
  /\ repository = "none"
  /\ history = << >>
  /\ job = NoJob
  /\ versions = {}
  /\ asked = {}
  /\ request = [r \in Requests |-> NoRequest]

\* A handler that has ended remembers nothing.
Goto(r, pc) ==
  request' = [request EXCEPT ![r] =
    IF pc \in {"done", "error"} THEN [NoRequest EXCEPT !.pc = pc] ELSE [@ EXCEPT !.pc = pc]]

----------------------------------------------------------------------------
(***************************************************************************)
(* Reading the row, and the checks on it.                                  *)
(***************************************************************************)

Bound(w) == w.binding = "active"
Unlocked(w) == w.status # "plan_locked"

\* Mutant: templates are writable.
WritableAlways(w) == w.status # "plan_locked"

\* assertProjectWritable
Writable(w) == w.status # "template" /\ Unlocked(w)

\* What op goes on with, after requireProject and its own conditions; e is the head (0: none)
\* its client has read.  A creation may name a project there is: nobody looks.
Continues(op, e) ==
  CASE op = "create" -> TRUE
    [] op \in CommitOps -> row.status # "none" /\ Writable(row) /\ Bound(row) /\ e = row.head
    [] op = "devices" -> row.status # "none" /\ Writable(row)
    [] op = "start_debug" -> row.status # "none" /\ Unlocked(row) /\ Bound(row)
    [] op \in {"touch_debug", "end_debug"} -> row.debug # 0
    [] op \in PlanOps \cup {"delete"} -> row.status \in {"active", "plan_locked"}
    [] op \in {"version", "build"} -> row.status # "none" /\ Unlocked(row) /\ Bound(row)
    [] op = "submit" -> job.status # "none" /\ row.status # "none" /\ Unlocked(row)
    [] op = "result" -> job.status # "none" /\ row.status # "none"

FirstStep(op) ==
  CASE op = "create" -> "insert"
    [] op \in CommitOps -> "fetch"
    [] op = "delete" -> "archive"
    [] op \in SaveOps \cup {"version", "build"} -> "save"
    [] op \in JobOps -> "savejob"

\* A client asks for op, and the handler reads the row; a debug session there is may be past
\* its time.
Load(r, op) ==
  /\ request[r].pc = "idle"
  /\ \E e \in 0..Len(history), t \in Trees \cup {NoTree} :
       /\ op \notin CommitOps \cup {"version", "build"} => e = 0
       /\ t \in Trees <=> op \in {"create", "commit"}
       /\ \/ /\ Continues(op, e)
             /\ request' = [request EXCEPT ![r] =
                  [op |-> op, expected |-> e, tree |-> t, row |-> row, job |-> job,
                   commit |-> 0, pc |-> FirstStep(op)]]
          \/ ~Continues(op, e) /\ Goto(r, "error")
  /\ UNCHANGED <<row, repository, history, job, versions, asked>>

----------------------------------------------------------------------------
(***************************************************************************)
(* createProject: the row, the repository, and its first commit.           *)
(***************************************************************************)

Created(s) == [status |-> s, binding |-> "none", head |-> 0, debug |-> 0]

\* The row comes first, whatever row there is by now; each request says itself what it wants.
InsertProject(r) ==
  /\ request[r].pc = "insert"
  /\ \/ \E s \in {"active", "template"} :
          /\ row' = Created(s) /\ asked' = asked \cup {s}
          /\ request' = [request EXCEPT ![r] = [@ EXCEPT !.row = Created(s), !.pc = "ensure"]]
     \/ UNCHANGED <<row, asked>> /\ Goto(r, "error")
  /\ UNCHANGED <<repository, history, job, versions>>

\* Mutant: the refused project is only marked as gone.
RefuseProjectHalf(r) ==
  /\ request[r].pc = "ensure"
  /\ row' = [row EXCEPT !.status = "none"]
  /\ Goto(r, "error")
  /\ UNCHANGED <<repository, history, job, versions, asked>>

\* The row goes, and by ON DELETE CASCADE what refers to it.
DeleteRow ==
  /\ row' = NoRow /\ job' = NoJob /\ versions' = {}

\* The storage quota of the account refuses the initial files.
RefuseProject(r) ==
  /\ request[r].pc = "ensure"
  /\ DeleteRow \/ UNCHANGED <<row, job, versions>>
  /\ Goto(r, "error")
  /\ UNCHANGED <<repository, history, asked>>

\* ensureOrganizationRepository: what "empty" said then decides what comes next.  Whatever
\* fails on the way, also once the repository is there, leads to the failed binding.
EnsureRepository(r) ==
  LET ensured == IF repository = "none" THEN "open" ELSE repository IN
  /\ request[r].pc = "ensure"
  /\ \/ repository' = ensured /\ Goto(r, IF history # << >> THEN "compare" ELSE "initialize")
     \/ repository' \in {repository, ensured} /\ Goto(r, "fail")
  /\ UNCHANGED <<row, history, job, versions, asked>>

\* sameInitialTree
CompareRepository(r) ==
  /\ request[r].pc = "compare"
  /\ \/ /\ history[Len(history)] = request[r].tree
        /\ request' = [request EXCEPT ![r] = [@ EXCEPT !.commit = Len(history), !.pc = "bind"]]
     \/ Goto(r, "fail")
  /\ UNCHANGED <<row, repository, history, job, versions, asked>>

\* initialize: a push that does not force, and whose answer may get lost
PushInitial(r) ==
  /\ request[r].pc = "initialize"
  /\ \/ /\ history = << >> /\ repository = "open" /\ Len(history) < MaxCommits
        /\ history' = <<request[r].tree>>
        /\ \/ request' = [request EXCEPT ![r] = [@ EXCEPT !.commit = 1, !.pc = "bind"]]
           \/ Goto(r, "fail")
     \/ Goto(r, "fail") /\ UNCHANGED history
  /\ UNCHANGED <<row, repository, job, versions, asked>>

Binding(r) == [request[r].row EXCEPT !.binding = "active", !.head = request[r].commit]

BindProject(r) ==
  /\ request[r].pc = "bind"
  /\ \/ row' = Binding(r) /\ Goto(r, "done")
     \/ row' \in {row, Binding(r)} /\ Goto(r, "fail")
  /\ UNCHANGED <<repository, history, job, versions, asked>>

\* The catch of createProject saves a failed binding, or fails itself.
FailProject(r) ==
  /\ request[r].pc = "fail"
  /\ row' \in {row, [request[r].row EXCEPT !.binding = "failed"]}
  /\ Goto(r, "error")
  /\ UNCHANGED <<repository, history, job, versions, asked>>

----------------------------------------------------------------------------
(***************************************************************************)
(* upsertSource, commitRepositoryChanges, renameSource, deleteSource,      *)
(* updateProject and restoreRepository: one commit, then the row.          *)
(***************************************************************************)

\* GitProjectRepositoryStore: fetch, compare, and build the commit
FetchHead(r) ==
  LET q == request[r] IN
  /\ q.pc = "fetch"
  /\ \/ /\ q.expected # Len(history) \/ repository # "open"
        /\ Goto(r, "error")
     \/ /\ q.expected = Len(history) /\ repository = "open"
        /\ \E t \in (IF q.op = "restore" THEN {history[i] : i \in 1..q.expected} ELSE {q.tree}) :
             request' = [request EXCEPT ![r] =
               [@ EXCEPT !.tree = t, !.commit = q.expected,
                         !.pc = IF t = history[q.expected] THEN "save" ELSE "push"]]
  /\ UNCHANGED <<row, repository, history, job, versions, asked>>

\* Mutant: --force without a lease.
PushForced(r) ==
  LET q == request[r] IN
  /\ q.pc = "push" /\ Len(history) < MaxCommits
  /\ history' = Append(SubSeq(history, 1, q.expected), q.tree)
  /\ request' = [request EXCEPT ![r] = [@ EXCEPT !.commit = q.expected + 1, !.pc = "save"]]
  /\ UNCHANGED <<row, repository, job, versions, asked>>

\* Mutant: nobody looks whether the push was refused.
PushIgnored(r) ==
  LET q == request[r] IN
  /\ q.pc = "push" /\ Len(history) < MaxCommits
  /\ history' = IF q.expected = Len(history) /\ repository = "open"
                THEN Append(history, q.tree) ELSE history
  /\ request' = [request EXCEPT ![r] = [@ EXCEPT !.commit = q.expected + 1, !.pc = "save"]]
  /\ UNCHANGED <<row, repository, job, versions, asked>>

\* git push --force-with-lease
PushCommit(r) ==
  LET q == request[r] IN
  /\ q.pc = "push"
  /\ \/ /\ q.expected = Len(history) /\ repository = "open" /\ Len(history) < MaxCommits
        /\ history' = Append(history, q.tree)
        /\ \/ request' = [request EXCEPT ![r] = [@ EXCEPT !.commit = Len(history'), !.pc = "save"]]
           \/ Goto(r, "error")               \* the answer may get lost
     \/ /\ q.expected # Len(history) \/ repository # "open"
        /\ Goto(r, "error") /\ UNCHANGED history
  /\ UNCHANGED <<row, repository, job, versions, asked>>

----------------------------------------------------------------------------
(***************************************************************************)
(* Requests that write the row, or refer to a commit.                      *)
(***************************************************************************)

\* The row a request writes back.
Saved(r) ==
  LET q == request[r] IN
  CASE q.op \in CommitOps -> [q.row EXCEPT !.head = q.commit]
    [] q.op = "start_debug" -> [q.row EXCEPT !.debug = q.row.head]
    [] q.op = "end_debug" -> [q.row EXCEPT !.debug = 0]
    [] q.op = "lock" -> [q.row EXCEPT !.status = "plan_locked"]
    [] q.op = "unlock" -> [q.row EXCEPT !.status = "active"]
    [] OTHER -> q.row

\* saveProject is an upsert; the statement may fail after the commit is in the repository.
SaveProject(r) ==
  /\ request[r].pc = "save" /\ request[r].op \in CommitOps \cup SaveOps
  /\ \/ row' = Saved(r) /\ Goto(r, "done")
     \/ UNCHANGED row /\ Goto(r, "error")
  /\ UNCHANGED <<repository, history, job, versions, asked>>

\* createVersionRecord: the confirmed head, or nothing
SaveVersion(r) ==
  LET q == request[r] IN
  /\ q.pc = "save" /\ q.op = "version"
  /\ \/ /\ q.expected \in {0, q.row.head} /\ row.status # "none"
        /\ \E binary \in {FALSE, job.status = "succeeded" /\ job.commit = q.row.head} :
             versions' = versions \cup {[commit |-> q.row.head, binary |-> binary]}
        /\ Goto(r, "done")
     \/ /\ q.expected \notin {0, q.row.head} \/ row.status = "none"
        /\ Goto(r, "error") /\ UNCHANGED versions
  /\ UNCHANGED <<row, repository, history, job, asked>>

\* createBuildJob: the commit asked for, or the confirmed head; a debug build needs a session
\* of that head.
CreateBuildJob(r) ==
  LET q == request[r]
      commit == IF q.expected = 0 THEN q.row.head ELSE q.expected
  IN
  /\ q.pc = "save" /\ q.op = "build"
  /\ \/ /\ job.status = "none" /\ row.status # "none"
        /\ job' = [status |-> "created", commit |-> commit]
        /\ \E debug \in {FALSE, q.row.debug = q.row.head} :
             Goto(r, IF debug THEN "session" ELSE "done")
     \/ UNCHANGED job /\ Goto(r, "error")
  /\ UNCHANGED <<row, repository, history, versions, asked>>

\* markBuildSubmitted, recordBuildResult with updateDebugSessionForBuild
SaveBuildJob(r) ==
  LET q == request[r] IN
  /\ q.pc = "savejob"
  /\ \/ /\ row.status = "none"
        /\ Goto(r, "error") /\ UNCHANGED <<row, job>>
     \/ /\ row.status # "none" /\ q.op = "submit"
        /\ job' = [q.job EXCEPT !.status = "submitted"]
        /\ Goto(r, "done") /\ UNCHANGED row
     \/ /\ row.status # "none" /\ q.op = "result"
        /\ \E s \in {"succeeded", "failed"} : job' = [q.job EXCEPT !.status = s]
        /\ Goto(r, "session") /\ UNCHANGED row
  /\ UNCHANGED <<repository, history, versions, asked>>

\* The debug session of a build (createBuildJob, updateDebugSessionForBuild): the row as it
\* was when the request came in, or no change
SaveSession(r) ==
  /\ request[r].pc = "session"
  /\ row' \in {row, request[r].row}
  /\ Goto(r, "done")
  /\ UNCHANGED <<repository, history, job, versions, asked>>

\* deleteProject: archive, then delete the row and what hangs on it; if that fails the row
\* is saved with an archived binding.
ArchiveRepository(r) ==
  /\ request[r].pc = "archive"
  /\ \/ /\ repository' = IF Bound(request[r].row) THEN "archived" ELSE repository
        /\ Goto(r, "remove")
     \/ /\ Bound(request[r].row) /\ repository' \in {repository, "archived"}
        /\ Goto(r, "error")
  /\ UNCHANGED <<row, history, job, versions, asked>>

DeleteProject(r) ==
  /\ request[r].pc = "remove"
  /\ \/ row.status # "none" /\ DeleteRow /\ Goto(r, "done")
     \/ /\ \/ UNCHANGED row
           \/ Bound(request[r].row) /\ row' = [request[r].row EXCEPT !.binding = "archived"]
        /\ Goto(r, "error") /\ UNCHANGED <<versions, job>>
  /\ UNCHANGED <<repository, history, asked>>

----------------------------------------------------------------------------

RequestStep(r) ==
  \/ InsertProject(r)
  \/ RefuseProject(r)
  \/ EnsureRepository(r)
  \/ CompareRepository(r)
  \/ PushInitial(r)
  \/ BindProject(r)
  \/ FailProject(r)
  \/ FetchHead(r)
  \/ PushCommit(r)
  \/ SaveProject(r)
  \/ SaveVersion(r)
  \/ CreateBuildJob(r)
  \/ SaveBuildJob(r)
  \/ SaveSession(r)
  \/ ArchiveRepository(r)
  \/ DeleteProject(r)

Next == \E r \in Requests : RequestStep(r) \/ \E op \in Ops : Load(r, op)

Spec == RepositoryInit /\ [][Next]_vars

----------------------------------------------------------------------------

(***************************************************************************)
(* Every variable has its type, and a row that is not there is empty.      *)
(***************************************************************************)
TypeOK ==
  /\ row \in Row
  /\ row.status = "none" => row = NoRow
  /\ repository \in {"none", "open", "archived"}
  /\ history \in Seq(Trees)
  /\ job \in Job
  /\ versions \subseteq Version
  /\ request \in [Requests -> Request]
  /\ asked \subseteq {"active", "template"}

(***************************************************************************)
(* Nothing that was committed is lost, whatever overlaps: a commit lands   *)
(* on the head that its client had read, and only there ("Push mit         *)
(* erwartetem Head-SHA").                                                  *)
(***************************************************************************)
BuiltOnRead ==
  [][history' # history =>
       \E r \in Requests :
         /\ \E t \in Trees : history' = Append(history, t)
         /\ request[r].pc = "initialize" => history = << >>
         /\ request[r].pc = "push" => request[r].expected = Len(history)
         /\ request[r].pc \in {"initialize", "push"} /\ request'[r].pc # request[r].pc]_vars

(***************************************************************************)
(* Every commit a row, a debug session, a version or a build refers to is  *)
(* in the history, although rows are overwritten by older copies.          *)
(***************************************************************************)
Exists(c) == c <= Len(history)

CommitsExist ==
  /\ Exists(row.head) /\ Exists(row.debug) /\ Exists(job.commit)
  /\ Bound(row) => row.head > 0
  /\ \A v \in versions : v.commit > 0 /\ Exists(v.commit)

(***************************************************************************)
(* A template keeps its one commit, whatever requests overlap on it        *)
(* ("unveraenderliches Template") and also when it is created again, as    *)
(* long as no creation asks for an ordinary project under its id: that one *)
(* replaces the row, and its commits are let through.                      *)
(***************************************************************************)
TemplateImmutable == asked \subseteq {"template"} => Len(history) <= 1

(***************************************************************************)
(* "PostgreSQL fuehrt dann Bindung und bestaetigten Head": when all        *)
(* requests have been answered, the head of the row is the head of the     *)
(* repository.                                                             *)
(***************************************************************************)
ConfirmedHead ==
  (\A r \in Requests : request[r].pc \in {"idle", "done"}) =>
    (Bound(row) => row.head = Len(history))

=============================================================================
