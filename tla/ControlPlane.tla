---------------------------- MODULE ControlPlane ----------------------------
(***************************************************************************)
(* The factory's control plane: the tasks table, the pg-boss queues and    *)
(* the HTTP handlers of apps/forge-site that read and write them           *)
(* (lib/control-plane/{tasks,actions,jobs,intake}.ts and the routes under  *)
(* app/api/v1).                                                            *)
(*                                                                         *)
(* A handler is not a transaction: it awaits one query after another and   *)
(* other requests run in between. req[c] is the request client c has in    *)
(* flight and how far its handler has come. Each action below is one query *)
(* (or one transaction) with the code up to the next await. Clients issue  *)
(* any request at any time; module Factory gives the programs of the real  *)
(* ones.                                                                   *)
(***************************************************************************)
EXTENDS Naturals, Sequences

CONSTANTS
  Tasks,          \* task ids
  BirthStatuses,  \* the statuses callers create tasks in
  Clients,        \* processes that call the API, one request at a time each
  Agents,         \* values of assignee_agent
  None,           \* assignee_agent IS NULL
  Keep,           \* a patch without assignee_agent
  NoTask,         \* no task
  ArtifactKinds,  \* kinds of artifact (pr, log, note)
  MaxAttempt,     \* bound on the watch attempt a job carries
  MaxQueue        \* bound on the length of each queue

ASSUME ControlPlaneAssumption ==
  /\ "planning" \in BirthStatuses
  /\ BirthStatuses \subseteq {"planning", "proposed"}
  /\ None \notin Agents /\ Keep \notin Agents /\ None # Keep
  /\ NoTask \notin Tasks
  /\ MaxAttempt \in Nat /\ MaxQueue \in Nat

VARIABLES
  status,     \* tasks.status, Absent where there is no row
  assignee,   \* tasks.assignee_agent
  artifacts,  \* tasks.artifacts, as the set of kinds in the list
  queue,      \* pg-boss, a FIFO per kind
  req,        \* the request each client has in flight
  proposed,   \* history: tasks that have been proposed at some time
  winners     \* history: clients told they claimed t since it was last proposed

vars == <<status, assignee, artifacts, queue, req, proposed, winners>>

Lifecycle == INSTANCE TaskLifecycle

Statuses      == Lifecycle!Statuses
Absent        == Lifecycle!Absent
CanTransition(from, to) == Lifecycle!CanTransition(from, to)

\* Statuses a task only has once a worker took it.
WorkerStatuses == {"claimed", "in_progress", "review", "done"}

\* The kinds a worker claims, in the order it asks for them.
Kinds == {"plan", "implement", "watch-checks"}
DaemonKinds == <<"plan", "implement", "watch-checks">>
CliKinds == <<"implement">>

Jobs  == [kind : Kinds, task : Tasks, attempt : 0 .. MaxAttempt]
NoJob == [kind |-> "none", task |-> NoTask, attempt |-> 0]
Job(k, t, n) == [kind |-> k, task |-> t, attempt |-> n]

\* A patch that leaves status alone.
Same == "same"

(***************************************************************************)
(* Where a handler stands.                                                 *)
(*   check      the action's own guard passed; updateTask reads the row    *)
(*   write      the transition was found legal from the status the check   *)
(*              saw; the UPDATE is next                                    *)
(*   attach     the artifact list was read; its UPDATE is next             *)
(*   enqueue    the row is written; the job is still to be sent            *)
(*   fetch      the queues of the kinds in left are still to be looked at  *)
(*   complete   a job was fetched and is to be marked completed            *)
(*   dispatch   the job is completed; its task is to be read               *)
(*   claim      an implement job of a proposed task; claimTask is next     *)
(*   next       no job; claimNextProposed is next                          *)
(*   ok, empty, error   the response                                       *)
(***************************************************************************)
Answers == {"ok", "empty", "error"}
Stages  == {"idle", "check", "write", "attach", "enqueue", "fetch",
            "complete", "dispatch", "claim", "next"} \cup Answers

Requests ==
  [stage : Stages,
   task  : Tasks \cup {NoTask},
   to    : Statuses \cup {Same},
   who   : Agents \cup {None, Keep},
   saw   : Statuses \cup {Absent},
   arts  : SUBSET ArtifactKinds,
   job   : Jobs \cup {NoJob},
   left  : Seq(Kinds)]

Idle == [stage |-> "idle", task |-> NoTask, to |-> Same, who |-> Keep,
         saw |-> Absent, arts |-> {}, job |-> NoJob, left |-> <<>>]

TypeOK ==
  /\ status    \in [Tasks -> Statuses \cup {Absent}]
  /\ assignee  \in [Tasks -> Agents \cup {None}]
  /\ artifacts \in [Tasks -> SUBSET ArtifactKinds]
  /\ queue     \in [Kinds -> Seq(Jobs)]
  /\ req       \in [Clients -> Requests]
  /\ proposed  \in SUBSET Tasks
  /\ winners   \in [Tasks -> SUBSET Clients]

Init ==
  /\ status    = [t \in Tasks |-> Absent]
  /\ assignee  = [t \in Tasks |-> None]
  /\ artifacts = [t \in Tasks |-> {}]
  /\ queue     = [k \in Kinds |-> <<>>]
  /\ req       = [c \in Clients |-> Idle]
  /\ proposed  = {}
  /\ winners   = [t \in Tasks |-> {}]

-----------------------------------------------------------------------------
(* Helpers *)

\* c sends a request, which its handler has taken as far as r.
Submit(c, r) ==
  /\ req[c] = Idle
  /\ req' = [req EXCEPT ![c] = r]

\* c's handler reaches the given stage.
Reach(c, stage) == req' = [req EXCEPT ![c].stage = stage]

\* c's handler responds. Only the response to a claim, which Reach gives,
\* says more than how the request ended.
Reply(answer) == [Idle EXCEPT !.stage = answer]
Respond(c, answer) == req' = [req EXCEPT ![c] = Reply(answer)]

\* A handler that only has a job left to send.
ToSend(j) == [Idle EXCEPT !.stage = "enqueue", !.job = j]

\* Mutant of Checked: the transition is not checked.
CheckedExistence(r) ==
  IF \/ status[r.task] = Absent
     \/ r.to \in {"proposed", "planning"} /\ r.who # Keep
  THEN Reply("error") ELSE [r EXCEPT !.stage = "write", !.saw = status[r.task]]

\* updateTask from its getTask to its UPDATE: the row must exist, a requested
\* status must be reachable from the one just read, and a patch that goes back
\* to the backlog while naming an assignee sets that column twice, which
\* Postgres rejects.
Checked(r) ==
  IF \/ status[r.task] = Absent
     \/ r.to # Same /\ ~CanTransition(status[r.task], r.to)
     \/ r.to \in {"proposed", "planning"} /\ r.who # Keep
  THEN Reply("error") ELSE [r EXCEPT !.stage = "write", !.saw = status[r.task]]

\* The history of a row whose status becomes s.
NoteStatus(t, s) ==
  /\ proposed' = IF s = "proposed" THEN proposed \cup {t} ELSE proposed
  /\ winners'  = IF s = "proposed" THEN [winners EXCEPT ![t] = {}] ELSE winners

-----------------------------------------------------------------------------
(* PATCH /tasks/:id and the actions that go through updateTask *)

\* PATCH with a status and, perhaps, an assignee.
Patch(c, t, to, who) ==
  /\ Submit(c, Checked([Idle EXCEPT !.task = t, !.to = to, !.who = who]))
  /\ UNCHANGED <<status, assignee, artifacts, queue, proposed, winners>>

\* Action "approve": guarded by its own read of the task.
Approve(c, t) ==
  /\ Submit(c, IF status[t] = "planning"
               THEN [Idle EXCEPT !.stage = "check", !.task = t, !.to = "proposed",
                                 !.job = Job("implement", t, 0)]
               ELSE Reply("error"))
  /\ UNCHANGED <<status, assignee, artifacts, queue, proposed, winners>>

\* Action "cancel": a patch to failed whatever the status just read.
Cancel(c, t) == Patch(c, t, "failed", Keep)

\* Action "retry": guarded by its own read; its patch names the assignee.
Retry(c, t) ==
  /\ Submit(c, IF status[t] = "failed"
               THEN [Idle EXCEPT !.stage = "check", !.task = t, !.to = "proposed",
                                 !.who = None, !.job = Job("implement", t, 0)]
               ELSE Reply("error"))
  /\ UNCHANGED <<status, assignee, artifacts, queue, proposed, winners>>

\* updateTask's own read and check, for the actions.
Check(c) ==
  /\ req[c].stage = "check"
  /\ req' = [req EXCEPT ![c] = Checked(@)]
  /\ UNCHANGED <<status, assignee, artifacts, queue, proposed, winners>>

\* Mutant of Write: assignee_agent is set whether or not the patch names one.
WriteEveryColumn(c) ==
  LET t  == req[c].task
      to == req[c].to
  IN
  /\ req[c].stage = "write"
  /\ status' = IF to = Same THEN status ELSE [status EXCEPT ![t] = to]
  /\ assignee' = [assignee EXCEPT ![t] = req[c].who]
  /\ NoteStatus(t, to)
  /\ IF req[c].job = NoJob
     THEN Respond(c, "ok")
     ELSE req' = [req EXCEPT ![c] = ToSend(@.job)]
  /\ UNCHANGED <<artifacts, queue>>

\* updateTask's UPDATE: unconditional, whatever the status is by now.
Write(c) ==
  LET t  == req[c].task
      to == req[c].to
  IN
  /\ req[c].stage = "write"
  /\ status' = IF to = Same THEN status ELSE [status EXCEPT ![t] = to]
  /\ assignee' =
       CASE to \in {"proposed", "planning"} -> [assignee EXCEPT ![t] = None]
         [] to \notin {"proposed", "planning"} /\ req[c].who # Keep ->
              [assignee EXCEPT ![t] = req[c].who]
         [] OTHER -> assignee
  /\ NoteStatus(t, to)
  /\ IF req[c].job = NoJob
     THEN Respond(c, "ok")
     ELSE req' = [req EXCEPT ![c] = ToSend(@.job)]
  /\ UNCHANGED <<artifacts, queue>>

-----------------------------------------------------------------------------
(* PATCH /tasks/:id with an artifact: read the list, write it back longer *)

\* addArtifact up to its getTask.
AddArtifact(c, t, a) ==
  /\ Submit(c, IF status[t] = Absent THEN Reply("error")
               ELSE [Idle EXCEPT !.stage = "attach", !.task = t,
                                 !.arts = artifacts[t] \cup {a}])
  /\ UNCHANGED <<status, assignee, artifacts, queue, proposed, winners>>

Attach(c) ==
  /\ req[c].stage = "attach"
  /\ artifacts' = [artifacts EXCEPT ![req[c].task] = req[c].arts]
  /\ Respond(c, "ok")
  /\ UNCHANGED <<status, assignee, queue, proposed, winners>>

-----------------------------------------------------------------------------
(* Creation, Slack intake and the queue's producers *)

\* POST /tasks: INSERT, refused where the id is taken, then the plan job if the
\* body asks for one.
Create(c, t, s, plan) ==
  /\ IF status[t] = Absent
     THEN /\ Submit(c, IF plan THEN ToSend(Job("plan", t, 0)) ELSE Reply("ok"))
          /\ status' = [status EXCEPT ![t] = s]
          /\ NoteStatus(t, s)
     ELSE /\ Submit(c, Reply("error"))
          /\ UNCHANGED <<status, proposed, winners>>
  /\ UNCHANGED <<assignee, artifacts, queue>>

\* POST /slack/intake {kind: plan}: a planning row and its plan job.
Intake(c, t) == Create(c, t, "planning", TRUE)

\* POST /slack/intake {kind: thread_reply} with feedback: only a task read as
\* planning gets another plan job; later replies are stored.
ThreadReply(c, t) ==
  /\ Submit(c, CASE status[t] = Absent -> Reply("error")
                 [] status[t] = "planning" ->
                      ToSend(Job("plan", t, 0))
                 [] OTHER -> Reply("ok"))
  /\ UNCHANGED <<status, assignee, artifacts, queue, proposed, winners>>

\* POST /tasks/:id/jobs.
EnqueueJob(c, k, t, n) ==
  /\ Submit(c, IF status[t] = Absent THEN Reply("error")
               ELSE ToSend(Job(k, t, n)))
  /\ UNCHANGED <<status, assignee, artifacts, queue, proposed, winners>>

\* boss.send.
Enqueue(c) ==
  LET j == req[c].job
  IN
  /\ req[c].stage = "enqueue"
  /\ Len(queue[j.kind]) < MaxQueue
  /\ queue' = [queue EXCEPT ![j.kind] = Append(@, j)]
  /\ Respond(c, "ok")
  /\ UNCHANGED <<status, assignee, artifacts, proposed, winners>>

-----------------------------------------------------------------------------
(* POST /jobs/claim *)

\* A worker asks for a job of one of these kinds, in this order, or else for a
\* task: t, or any. (Every caller asks for implement jobs, so none takes the
\* route's early return.)
FetchJob(c, w, kinds, t) ==
  /\ Submit(c, [Idle EXCEPT !.stage = "fetch", !.who = w, !.left = kinds, !.task = t])
  /\ UNCHANGED <<status, assignee, artifacts, queue, proposed, winners>>

\* Mutant of Fetch: no job, no claim.
FetchQueuesOnly(c) ==
  LET k == Head(req[c].left)
  IN
  /\ req[c].stage = "fetch"
  /\ \/ /\ req[c].left = <<>>
        /\ Respond(c, "empty")
        /\ UNCHANGED queue
     \/ /\ req[c].left # <<>> /\ queue[k] = <<>>
        /\ req' = [req EXCEPT ![c].left = Tail(@)]
        /\ UNCHANGED queue
     \/ /\ req[c].left # <<>> /\ queue[k] # <<>>
        /\ req' = [req EXCEPT ![c] = [@ EXCEPT !.stage = "complete", !.left = <<>>,
                                               !.task = Head(queue[k]).task,
                                               !.job  = Head(queue[k])]]
        /\ queue' = [queue EXCEPT ![k] = Tail(@)]
  /\ UNCHANGED <<status, assignee, artifacts, proposed, winners>>

\* claimJob looks into the next kind's queue. When it has looked into all, the
\* caller falls through to claimWork.
Fetch(c) ==
  LET k == Head(req[c].left)
  IN
  /\ req[c].stage = "fetch"
  /\ \/ /\ req[c].left = <<>>
        /\ Reach(c, IF req[c].task = NoTask THEN "next" ELSE "claim")
        /\ UNCHANGED queue
     \/ /\ req[c].left # <<>> /\ queue[k] = <<>>
        /\ req' = [req EXCEPT ![c].left = Tail(@)]
        /\ UNCHANGED queue
     \/ /\ req[c].left # <<>> /\ queue[k] # <<>>
        /\ req' = [req EXCEPT ![c] = [@ EXCEPT !.stage = "complete", !.left = <<>>,
                                               !.task = Head(queue[k]).task,
                                               !.job  = Head(queue[k])]]
        /\ queue' = [queue EXCEPT ![k] = Tail(@)]
  /\ UNCHANGED <<status, assignee, artifacts, proposed, winners>>

\* The job is completed before anyone has worked on it.
Complete(c) ==
  /\ req[c].stage = "complete"
  /\ Reach(c, "dispatch")
  /\ UNCHANGED <<status, assignee, artifacts, queue, proposed, winners>>

\* POST /jobs/claim without the queue, for one task or for any.
ClaimDirect(c, w, t) ==
  /\ Submit(c, [Idle EXCEPT !.stage = IF t = NoTask THEN "next" ELSE "claim",
                            !.who = w, !.task = t])
  /\ UNCHANGED <<status, assignee, artifacts, queue, proposed, winners>>

\* The route reads the job's task: only an implement job of a proposed task is
\* claimed, every other job is handed over with the task as it is.
Dispatch(c) ==
  LET t == req[c].task
  IN
  /\ req[c].stage = "dispatch"
  /\ CASE status[t] = Absent -> Respond(c, "empty")
       [] status[t] = "proposed" /\ req[c].job.kind = "implement" -> Reach(c, "claim")
       [] OTHER -> Reach(c, "ok")
  /\ UNCHANGED <<status, assignee, artifacts, queue, proposed, winners>>

\* c is told that it has t.
Win(c, t) ==
  /\ status'   = [status   EXCEPT ![t] = "claimed"]
  /\ assignee' = [assignee EXCEPT ![t] = req[c].who]
  /\ winners'  = [winners  EXCEPT ![t] = @ \cup {c}]
  /\ UNCHANGED <<artifacts, queue, proposed>>

\* Mutant of ClaimTask: the status is not looked at again under the lock.
ClaimTaskUnchecked(c) ==
  /\ req[c].stage = "claim"
  /\ Win(c, req[c].task) /\ Reach(c, "ok")

\* Mutant of ClaimTask: a claimed task may be claimed again.
ClaimTaskAgain(c) ==
  LET t == req[c].task
  IN
  /\ req[c].stage = "claim"
  /\ \/ status[t] \in {"proposed", "claimed"} /\ Win(c, t) /\ Reach(c, "ok")
     \/ /\ status[t] \notin {"proposed", "claimed"} /\ Respond(c, "error")
        /\ UNCHANGED <<status, assignee, artifacts, queue, proposed, winners>>

\* claimTask: SELECT ... FOR UPDATE and UPDATE in one transaction; refused,
\* with the job already gone, when the task is no longer proposed.
ClaimTask(c) ==
  LET t == req[c].task
  IN
  /\ req[c].stage = "claim"
  /\ \/ status[t] = "proposed" /\ Win(c, t) /\ Reach(c, "ok")
     \/ /\ status[t] # "proposed" /\ Respond(c, "error")
        /\ UNCHANGED <<status, assignee, artifacts, queue, proposed, winners>>

\* claimNextProposed: some proposed row that no other transaction has locked.
ClaimNextProposed(c) ==
  /\ req[c].stage = "next"
  /\ \/ \E t \in Tasks :
          /\ status[t] = "proposed"
          /\ Win(c, t)
          /\ req' = [req EXCEPT ![c].stage = "ok", ![c].task = t]
     \/ /\ \A t \in Tasks : status[t] # "proposed"
        /\ Respond(c, "empty")
        /\ UNCHANGED <<status, assignee, artifacts, queue, proposed, winners>>

-----------------------------------------------------------------------------

\* The process dies, a query fails or the response is lost: what was written
\* stays, the rest is never done, and the client sees an error. pg-boss gives a
\* job that was fetched and not completed to the next who asks.
Abort(c) ==
  LET j == req[c].job
  IN
  /\ req[c].stage \notin {"idle", "error"}
  /\ Respond(c, "error")
  /\ queue' = IF req[c].stage = "complete"
              THEN [queue EXCEPT ![j.kind] = <<j>> \o @] ELSE queue
  /\ UNCHANGED <<status, assignee, artifacts, proposed, winners>>

\* The client takes the response.
Return(c) ==
  /\ req[c].stage \in Answers
  /\ req' = [req EXCEPT ![c] = Idle]
  /\ UNCHANGED <<status, assignee, artifacts, queue, proposed, winners>>

\* One step of the handler that serves c.
Handle(c) ==
  \/ Check(c) \/ Write(c) \/ Attach(c) \/ Enqueue(c)
  \/ Fetch(c) \/ Complete(c) \/ Dispatch(c) \/ ClaimTask(c) \/ ClaimNextProposed(c)

\* A request about task t.
Request(c, t) ==
  \/ \E s \in Statuses \cup {Same}, w \in Agents \cup {None, Keep} : Patch(c, t, s, w)
  \/ \E a \in ArtifactKinds : AddArtifact(c, t, a)
  \/ \E s \in BirthStatuses, plan \in BOOLEAN : Create(c, t, s, plan)
  \/ \E k \in Kinds, n \in 0 .. MaxAttempt : EnqueueJob(c, k, t, n)
  \/ Approve(c, t) \/ Cancel(c, t) \/ Retry(c, t)
  \/ Intake(c, t) \/ ThreadReply(c, t)

Claim(c) ==
  \E w \in Agents :
    \/ FetchJob(c, w, DaemonKinds, NoTask)
    \/ \E t \in Tasks \cup {NoTask} : FetchJob(c, w, CliKinds, t) \/ ClaimDirect(c, w, t)

Next ==
  \E c \in Clients :
    \/ \E t \in Tasks : Request(c, t)
    \/ Claim(c) \/ Handle(c) \/ Abort(c) \/ Return(c)

Spec == Init /\ [][Next]_vars

-----------------------------------------------------------------------------
(* Properties *)

\* The plan gate: whatever requests overlap, a task is claimed, worked on,
\* reviewed or done only if it was proposed, i.e. approved or authored as
\* claimable. About claimTask, claimNextProposed, the transition check of
\* updateTask and the dispatch of jobs.
PlanGate == \A t \in Tasks : status[t] \in WorkerStatuses => t \in proposed

\* Each time a task is proposed, at most one client is told that it claimed
\* it, through a job, directly or as the next proposed task (the row lock of
\* claimTask and claimNextProposed).
OneWinner == \A t \in Tasks : \A c, d \in winners[t] : c = d

\* A retry of a failed task gets past updateTask's check.
RetryReopens ==
  [][\A c \in Clients :
       Check(c) /\ req[c].who = None /\ status[req[c].task] = "failed"
       => req'[c].stage = "write"]_vars

\* Tasks are created and moved only as the state machine allows (module TaskLifecycle).
LifecycleSpec == Lifecycle!Spec

\* What the code keeps of LifecycleSpec: every step that changes a status is one of the
\* state machine, whatever requests overlap, fail or are repeated, but for an UPDATE of
\* updateTask that was overtaken: another request wrote the row's status between its
\* check (tasks.ts 93-98) and this UPDATE, which is unconditional (134-137).
LawfulUnlessOvertaken ==
  [][status' # status =>
       \/ Lifecycle!Next
       \/ \E c \in Clients : Write(c) /\ status[req[c].task] # req[c].saw]_vars

(***************************************************************************)
(* What makes PlanGate and OneWinner inductive.                            *)
(***************************************************************************)

\* A request has the task, job and worker that its next query needs.
WellFormed(r) ==
  /\ r.stage \in {"check", "write", "attach", "complete", "dispatch", "claim"}
       => r.task \in Tasks
  /\ r.stage \in {"enqueue", "complete", "dispatch"} => r.job \in Jobs
  /\ r.stage \in {"fetch", "complete", "dispatch", "claim", "next"}
       => r.who \in Agents

RequestsWellFormed == \A c \in Clients : WellFormed(req[c])

\* Only a task that was proposed is proposed, claimed or further, or about to
\* be set so by an UPDATE that passed its check.
Gated ==
  /\ \A t \in Tasks : status[t] \in WorkerStatuses \cup {"proposed"} => t \in proposed
  /\ \A c \in Clients :
       req[c].stage = "write" /\ req[c].to \in WorkerStatuses => req[c].task \in proposed

\* Nobody has claimed a task that is proposed.
Unclaimed == \A t \in Tasks : status[t] = "proposed" => winners[t] = {}

IInv == TypeOK /\ RequestsWellFormed /\ Gated /\ Unclaimed /\ OneWinner

\* An UPDATE that is due was found legal for the status its check saw.
ChecksHeld ==
  \A c \in Clients :
    req[c].stage = "write"
      => /\ req[c].saw # Absent
         /\ req[c].to # Same => CanTransition(req[c].saw, req[c].to)

\* The row still has that status: true as long as one request at a time is served.
ReadsAreFresh ==
  \A c \in Clients : req[c].stage = "write" => status[req[c].task] = req[c].saw
=============================================================================
