------------------------------ MODULE Factory ------------------------------
(***************************************************************************)
(* The factory at work: the control plane, the worker daemon of one host   *)
(* with its concurrency slots (factory/worker/daemon.sh), the programs the *)
(* slots run (run-task.sh, watch_checks.py, orchestrator/run_plan_job.py)  *)
(* and the people who ask for plans and approve, cancel or retry tasks.    *)
(*                                                                         *)
(* Slots and Operators are the clients of ControlPlane. A slot calls the   *)
(* API, waits for the response and goes on from there: pc[s] is where its  *)
(* program is, held[s] the job it runs. Jobs of one task take turns on the *)
(* task's lock file. Git, GitHub and the agents are choices: work succeeds *)
(* or fails, checks are green or red, and any of them may hang.            *)
(***************************************************************************)
EXTENDS ControlPlane, FiniteSets

CONSTANTS
  Slots,      \* concurrency slots of the worker daemon
  Operators,  \* Slack users, the dashboard and the CLI
  Worker,     \* the daemon's FORGE_WORKER_ID
  MaxFixes,   \* FORGE_CI_FIX_ATTEMPTS
  MaxAsks,    \* bound on the requests of operators
  MaxOutages, \* bound on the calls that fail
  MaxCrashes, \* bound on the processes that die
  MaxHangs    \* bound on the slots whose programs hang at a time

ASSUME FactoryAssumption ==
  /\ Clients = Slots \cup Operators
  /\ Slots \cap Operators = {}
  /\ Worker \in Agents /\ "pr" \in ArtifactKinds
  /\ MaxFixes \in Nat /\ MaxFixes <= MaxAttempt
  /\ MaxAsks \in Nat /\ MaxOutages \in Nat /\ MaxCrashes \in Nat /\ MaxHangs \in Nat

VARIABLES
  pc,      \* where each slot's program is
  held,    \* the job each slot has claimed
  pinned,  \* did the snapshot a slot's program read have a pr artifact
  asks,    \* requests the operators have made
  outages, \* calls that have failed
  crashes  \* processes that have died

workVars == <<pc, held, pinned, asks, outages, crashes>>

fvars == <<vars, workVars>>

(***************************************************************************)
(* pc[s]:                                                                  *)
(*   free, claiming, queued   the daemon: a slot to use, waiting for the   *)
(*                            claim's response, waiting for the task lock  *)
(*   begin, reserve, start, work, pin, announce, finish, fail              *)
(*                            run-task.sh                                  *)
(*   plan, draft, planpin, planwatch          run_plan_job.py              *)
(*   watch, fix                               watch_checks.py              *)
(*   hung     waiting for a hook, an agent or a tool that never ends       *)
(***************************************************************************)
Programs == {"begin", "reserve", "start", "work", "pin", "announce", "finish",
             "fail", "plan", "draft", "planpin", "planwatch", "watch", "fix", "hung"}

Places == {"free", "claiming", "queued"} \cup Programs

FactoryTypeOK ==
  /\ TypeOK
  /\ pc     \in [Slots -> Places]
  /\ held   \in [Slots -> Jobs \cup {NoJob}]
  /\ pinned \in [Slots -> BOOLEAN]
  /\ asks   \in 0 .. MaxAsks
  /\ outages \in 0 .. MaxOutages
  /\ crashes \in 0 .. MaxCrashes

FactoryInit ==
  /\ Init
  /\ pc     = [s \in Slots |-> "free"]
  /\ held   = [s \in Slots |-> NoJob]
  /\ pinned = [s \in Slots |-> FALSE]
  /\ asks   = 0
  /\ outages = 0
  /\ crashes = 0

-----------------------------------------------------------------------------
(* Helpers *)

Running(s) == pc[s] \in Programs

\* The task whose job slot s has, waiting or running.
TaskOf(s) == held[s].task

\* s's program goes on at the given place.
Goto(s, place) ==
  /\ pc' = [pc EXCEPT ![s] = place]
  /\ UNCHANGED <<held, pinned, asks, outages, crashes>>

\* s's program is over: the lock and the slot are free again.
Release(s) ==
  /\ pc' = [pc EXCEPT ![s] = "free"]
  /\ held' = [held EXCEPT ![s] = NoJob]
  /\ pinned' = [pinned EXCEPT ![s] = FALSE]
  /\ UNCHANGED <<asks, outages, crashes>>

\* s waits for a response and has it.
Answered(s) == req[s].stage \in Answers
Succeeded(s) == req[s].stage = "ok"

\* The task has a pull request the programs would reuse.
HasPr(t) == "pr" \in artifacts[t]

\* s takes the response to its call and goes on at one place after success and
\* at another after an error.
Proceed(s, success, error) ==
  /\ Return(s)
  /\ Goto(s, IF Succeeded(s) THEN success ELSE error)

-----------------------------------------------------------------------------
(* daemon.sh *)

\* The loop claims for one slot at a time.
Poll(s) ==
  /\ pc[s] = "free"
  /\ \A r \in Slots : pc[r] # "claiming"
  /\ FetchJob(s, Worker, DaemonKinds, NoTask)
  /\ Goto(s, "claiming")

\* claim_job: a task claimed without a job runs as an implement job.
Claimed(s) ==
  LET j == req[s].job
  IN
  /\ pc[s] = "claiming" /\ Answered(s)
  /\ Return(s)
  /\ pc' = [pc EXCEPT ![s] = IF Succeeded(s) THEN "queued" ELSE "free"]
  /\ held' = [held EXCEPT ![s] =
                CASE ~Succeeded(s)           -> NoJob
                  [] Succeeded(s) /\ j = NoJob -> Job("implement", req[s].task, 0)
                  [] OTHER                   -> j]
  /\ UNCHANGED <<pinned, asks, outages, crashes>>

\* The program for the kind of the job.
RunProgram(s) ==
  /\ pc[s] = "queued"
  /\ Goto(s, CASE held[s].kind = "plan"         -> "plan"
               [] held[s].kind = "watch-checks" -> "watch"
               [] OTHER                         -> "begin")
  /\ UNCHANGED vars

\* Mutant of Acquire: the jobs of a task do not take turns.
AcquireUnlocked(s) == RunProgram(s)

\* run_job: the task's lock, then the program.
Acquire(s) ==
  /\ \A r \in Slots \ {s} : Running(r) => TaskOf(r) # TaskOf(s)
  /\ RunProgram(s)

-----------------------------------------------------------------------------
(* run-task.sh *)

\* The snapshot of the task, and what to do for the status it shows.
Begin(s) ==
  LET t == TaskOf(s)
  IN
  /\ pc[s] = "begin"
  /\ pc' = [pc EXCEPT ![s] =
              CASE status[t] = "proposed" -> "reserve"
                [] status[t] \in {"claimed", "in_progress", "review"} -> "start"
                [] OTHER -> "fail"]
  /\ pinned' = [pinned EXCEPT ![s] = HasPr(t)]
  /\ UNCHANGED <<held, asks, outages, crashes>> /\ UNCHANGED vars

\* get-env fails before the traps are set: the program ends, the task stays.
BeginUnread(s) ==
  /\ pc[s] = "begin" /\ outages < MaxOutages
  /\ outages' = outages + 1
  /\ pc' = [pc EXCEPT ![s] = "free"]
  /\ held' = [held EXCEPT ![s] = NoJob]
  /\ UNCHANGED <<pinned, asks, crashes>> /\ UNCHANGED vars

\* A program sets its task's status and stays where it is until the response.
SetStatus(s, place, to) ==
  /\ pc[s] = place
  /\ Patch(s, TaskOf(s), to, Worker)
  /\ UNCHANGED workVars

Reserve(s) ==
  \/ SetStatus(s, "reserve", "claimed")
  \/ pc[s] = "reserve" /\ Answered(s) /\ Proceed(s, "start", "fail")

Start(s) ==
  \/ SetStatus(s, "start", "in_progress")
  \/ pc[s] = "start" /\ Answered(s) /\ Proceed(s, "work", "fail")

\* Mutant of Work: a failing step ends the program without fail_task.
WorkTrapless(s) ==
  /\ pc[s] = "work"
  /\ \/ Release(s)
     \/ \E next \in {"finish", IF pinned[s] THEN "announce" ELSE "pin"} : Goto(s, next)
  /\ UNCHANGED vars

\* The hook or the agent, the lint gate, the push and the pull request: failed
\* or out of budget; done without one (no commits, or left for an agent to be
\* attached); done with the one pinned in the snapshot; done with another that
\* is yet to be pinned.
Work(s) ==
  /\ pc[s] = "work"
  /\ \E next \in {"fail", "finish", IF pinned[s] THEN "announce" ELSE "pin"} : Goto(s, next)
  /\ UNCHANGED vars

Pin(s) ==
  \/ /\ pc[s] = "pin"
     /\ AddArtifact(s, TaskOf(s), "pr")
     /\ UNCHANGED workVars
  \/ pc[s] = "pin" /\ Answered(s) /\ Proceed(s, "announce", "fail")

\* The watch job for the push; an error is logged.
SendWatch(s, attempt) ==
  \/ /\ pc[s] = "announce"
     /\ EnqueueJob(s, "watch-checks", TaskOf(s), attempt)
     /\ UNCHANGED workVars
  \/ pc[s] = "announce" /\ Answered(s) /\ Proceed(s, "finish", "finish")

\* Mutant of Announce: the watch starts to count from the beginning.
AnnounceAfresh(s) == SendWatch(s, 0)

\* It carries this run's attempt.
Announce(s) == SendWatch(s, held[s].attempt)

Finish(s) ==
  \/ SetStatus(s, "finish", "review")
  \/ /\ pc[s] = "finish" /\ Answered(s)
     /\ Return(s)
     /\ IF Succeeded(s) THEN Release(s) ELSE Goto(s, "fail")

\* Mutant of Fail: the failure is logged and the task left as it is.
FailQuietly(s) == pc[s] = "fail" /\ Release(s) /\ UNCHANGED vars

\* fail_task, called or reached by the EXIT trap; its own errors are ignored.
Fail(s) ==
  \/ SetStatus(s, "fail", "failed")
  \/ pc[s] = "fail" /\ Answered(s) /\ Return(s) /\ Release(s)

-----------------------------------------------------------------------------
(* run_plan_job.py *)

\* Only a task that is still planning is planned.
Plan(s) ==
  /\ pc[s] = "plan"
  /\ IF status[TaskOf(s)] = "planning"
     THEN /\ pc' = [pc EXCEPT ![s] = "draft"]
          /\ pinned' = [pinned EXCEPT ![s] = HasPr(TaskOf(s))]
          /\ UNCHANGED <<held, asks, outages, crashes>>
     ELSE Release(s)
  /\ UNCHANGED vars

\* The planner, the push and the pull request. A failure is reported and leaves
\* the task as it is.
Draft(s) ==
  /\ pc[s] = "draft"
  /\ Release(s) \/ Goto(s, IF pinned[s] THEN "planwatch" ELSE "planpin")
  /\ UNCHANGED vars

PlanPin(s) ==
  \/ /\ pc[s] = "planpin"
     /\ AddArtifact(s, TaskOf(s), "pr")
     /\ UNCHANGED workVars
  \/ pc[s] = "planpin" /\ Answered(s) /\ Proceed(s, "planwatch", "planwatch")

\* The first watch of the plan's pull request.
PlanWatch(s) ==
  \/ /\ pc[s] = "planwatch"
     /\ EnqueueJob(s, "watch-checks", TaskOf(s), 0)
     /\ UNCHANGED workVars
  \/ pc[s] = "planwatch" /\ Answered(s) /\ Return(s) /\ Release(s)

-----------------------------------------------------------------------------
(* watch_checks.py *)

\* Mutant of Watch: red checks are always worth another fix run.
WatchOn(s) ==
  /\ pc[s] = "watch"
  /\ Release(s) \/ Goto(s, "fix")
  /\ UNCHANGED vars

\* Green, out of time, red with fixes left or red without: only the third has
\* anything more to do.
Watch(s) ==
  /\ pc[s] = "watch"
  /\ Release(s) \/ (held[s].attempt < MaxFixes /\ Goto(s, "fix"))
  /\ UNCHANGED vars

\* A fix run, one attempt further.
Fix(s) ==
  \/ /\ pc[s] = "fix"
     /\ EnqueueJob(s, "implement", TaskOf(s), held[s].attempt + 1)
     /\ UNCHANGED workVars
  \/ pc[s] = "fix" /\ Answered(s) /\ Return(s) /\ Release(s)

-----------------------------------------------------------------------------
(* Operators, failures *)

\* An operator asks for a plan, answers in a thread, approves, cancels or
\* retries a task, or sets it done after the merge.
Ask(o) ==
  /\ asks < MaxAsks
  /\ asks' = asks + 1
  /\ \E t \in Tasks :
       \/ status[t] = Absent /\ Intake(o, t)
       \/ ThreadReply(o, t) \/ Approve(o, t) \/ Cancel(o, t) \/ Retry(o, t)
       \/ Patch(o, t, "done", Keep)
  /\ UNCHANGED <<pc, held, pinned, outages, crashes>>

Told(o) == Return(o) /\ UNCHANGED workVars

\* The control plane goes on with c's request.
Serve(c) == Handle(c) /\ UNCHANGED workVars

\* A request fails.
Outage(c) ==
  /\ outages < MaxOutages
  /\ Abort(c)
  /\ outages' = outages + 1
  /\ UNCHANGED <<pc, held, pinned, asks, crashes>>

\* What a program waits for never ends. Nothing does: bash puts off the trap that the
\* watchdog's TERM is for until the child in the foreground is over, run_plan_job.py has
\* no deadline, and watch_checks.py looks at its own only between two calls of gh. The
\* program keeps its slot and the task's lock until somebody kills it.
Hang(s) ==
  /\ pc[s] \in {"work", "draft", "watch"}
  /\ Cardinality({r \in Slots : pc[r] = "hung"}) < MaxHangs
  /\ Goto(s, "hung") /\ UNCHANGED vars

\* A slot's process is killed, or the daemon's while it claims: no trap runs.
\* The request in flight is served all the same.
Crash(s) ==
  /\ crashes < MaxCrashes /\ pc[s] # "free"
  /\ crashes' = crashes + 1
  /\ pc' = [pc EXCEPT ![s] = "free"]
  /\ held' = [held EXCEPT ![s] = NoJob]
  /\ pinned' = [pinned EXCEPT ![s] = FALSE]
  /\ UNCHANGED <<asks, outages>> /\ UNCHANGED vars

\* The response to a process that is gone.
Unheard(s) == pc[s] = "free" /\ Return(s) /\ UNCHANGED workVars

-----------------------------------------------------------------------------

Daemon == \E s \in Slots : Poll(s) \/ Claimed(s) \/ Unheard(s)

RunJob(s) ==
  \/ Acquire(s)
  \/ Begin(s) \/ Reserve(s) \/ Start(s) \/ Work(s) \/ Pin(s) \/ Announce(s)
  \/ Finish(s) \/ Fail(s)
  \/ Plan(s) \/ Draft(s) \/ PlanPin(s) \/ PlanWatch(s)
  \/ Watch(s) \/ Fix(s)

FactoryNext ==
  \/ Daemon
  \/ \E s \in Slots : RunJob(s) \/ BeginUnread(s) \/ Hang(s) \/ Crash(s)
  \/ \E o \in Operators : Ask(o) \/ Told(o)
  \/ \E c \in Clients : Serve(c) \/ Outage(c)

FactorySpec == FactoryInit /\ [][FactoryNext]_fvars

(***************************************************************************)
(* The daemon polls for ever, the server serves each request (the clients  *)
(* give one up after 120 s: Outage), and a job program that does not hang  *)
(* goes on. Nothing ends one that hangs, and operators owe nothing.        *)
(***************************************************************************)
FactoryFairness ==
  /\ WF_fvars(Daemon)
  /\ \A s \in Slots : WF_fvars(RunJob(s))
  /\ \A c \in Clients : WF_fvars(Serve(c))

FairFactorySpec == FactorySpec /\ FactoryFairness

-----------------------------------------------------------------------------
(* Properties *)

\* A task is in progress only while a slot has a job for it: every other way
\* out of run-task.sh moves the task on (its traps and fail_task).
NotStranded ==
  \A t \in Tasks : status[t] = "in_progress" => \E s \in Slots : TaskOf(s) = t

\* The pull request is pinned once: a program about to add the pr artifact does
\* so because there is none, however long ago it read the task (the lock of
\* run_job, the snapshots of run-task.sh and run_plan_job.py).
PinsOnce ==
  \A s \in Slots :
    pc[s] \in {"pin", "planpin"} /\ req[s] = Idle => ~HasPr(TaskOf(s))

\* A slot is out of use: its program hangs, or its job waits for the lock of one.
Stuck(s) ==
  \/ pc[s] = "hung"
  \/ pc[s] = "queued" /\ \E r \in Slots : pc[r] = "hung" /\ TaskOf(r) = TaskOf(s)

AllStuck == \A s \in Slots : Stuck(s)

\* A proposed task does not stay proposed as long as one slot is in use: its implement
\* job, or the fallback of jobs/claim, gets it claimed even if the job is lost on the way.
ProposedIsClaimed ==
  \A t \in Tasks : status[t] = "proposed" ~> status[t] # "proposed" \/ AllStuck

\* Work started on a task comes to an end, whatever operators and other jobs of
\* the task do meanwhile, unless a process is killed, a call fails, or what the
\* task's own program waits for hangs: that is the one thing its budget does not end,
\* although PLAYBOOK.md:98 has it "auto `failed` + cleanup" (see Hang).
RunEnds ==
  \A t \in Tasks :
    status[t] = "in_progress" ~>
      \/ status[t] # "in_progress" \/ crashes + outages > 0
      \/ \E s \in Slots : pc[s] = "hung" /\ TaskOf(s) = t

\* Left alone by the operators the factory comes to rest: watch jobs and fix
\* runs do not beget each other for ever. Nothing runs but what hangs, and no job
\* is left in a queue unless every slot is stuck.
Quiesces ==
  <>[](/\ \A s \in Slots : pc[s] \in {"free", "claiming"} \/ Stuck(s)
       /\ AllStuck \/ \A k \in Kinds : queue[k] = <<>>)
=============================================================================
