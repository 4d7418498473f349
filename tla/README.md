# TLA+ verification of homelab-forge

homelab-forge is a one-person software factory (a control plane on Postgres
and pg-boss, worker hosts, agents that open pull requests) together with a few
applications it runs, of which `family-agile-sync` (chores and allowances kept
in Notion and Habitica) has the most logic. This directory holds TLA+ models
of the parts whose correctness depends on the order of steps of several actors,
TLC configurations that check them on small instances, and TLAPS proofs.

## 1. Inventory

| Component | State | Operations | Hard behaviours |
| --- | --- | --- | --- |
| Task state machine (`control-plane/types.ts`, `factory/scripts/task_lib.py`) | status of a task | transitions | none alone |
| Control plane (`control-plane/{tasks,actions,jobs,intake}.ts`, routes under `api/v1`) | tasks table, pg-boss queues | create, patch, add artifact, approve, cancel, retry, enqueue, claim (job, task, next), Slack intake | handlers interleave at every await; lost responses; jobs completed before they are worked on |
| Worker daemon (`factory/worker/daemon.sh`) | slots, task locks | poll, dispatch | overlapping jobs of one task; killed processes |
| Task runner (`factory/worker/run-task.sh`) | task snapshot, attempt | reserve, start, work, pin the pull request, announce it, finish, fail | stale snapshot; every step may fail, the failure report too, or never end |
| Plan job (`factory/orchestrator/run_plan_job.py`) | task snapshot | draft, pin, watch | stale jobs; failure leaves the task alone |
| CI watch (`factory/worker/watch_checks.py`) | attempt | poll, fix run | feeds the queue it is fed from |
| Agent session (`factory/scripts/sdk_session.py`, `worker/cursor_implement.py`, `orchestrator/cursor_plan.py`, `control-plane/runs.ts`) | buffered events, the `agent_runs` record | open a record, append events, judge replies, lint rounds, close the record | closed from four places; batches, calls and the process may be lost |
| Messages, Slack, dashboard | records for people | append | none that another component depends on |
| `family-agile-sync` rules (`rules.py`, `repo.to_events`) | none | points, settlement, closing, deposits, calendar | rounding, boundaries, months; rows valued at two moments by two catalogues |
| Payday (`jobs/close_cycle.py`) | Cortes, movements and sobres in Notion | load, write a Corte, deposit, mark it Pagado | several writes without a transaction; the job dies between two and is run again; people edit what it has loaded |
| Completions (`jobs/pull_completions.py`, `jobs/reconcile.py`) | Agenda and tareas in Notion, mirrors in Habitica | credit personal, pool and one-off work; fail what was missed | the same; two members race for a pool routine; parents record results by hand; payday closes a day that is not over |
| Occurrences (`jobs/generate_occurrences.py`) | Agenda rows | create rows for the coming days | creation without a transaction; nights without a run; edits in between |
| Mirrors (`jobs/push_definitions.py`, `habitica.py`) | ids of mirrors in Notion, tasks in Habitica | create, update, recreate, delete and prune mirrors | two services and no transaction; repeated requests; children at work meanwhile |
| Host watch (`security/host-watch`) | `state.json`, `state.tmp` | scan, save, announce | alerts repeated or lost across crashes, failed calls and overlapping scans |
| Sandbox cells, cluster manifests, CI workflows, Nix, scripts, docs | configuration | | |

How they interact: operators (Slack, dashboard, CLI) and worker processes call
the control plane over HTTP. It writes Postgres rows and sends jobs; the daemon
claims a job, or failing that a proposed task, and starts a program for it in a
free slot; programs call the control plane again to move the task on, add
artifacts and send further jobs (a watch job after a push, a fix run after red
checks). Jobs of one task take turns on a lock file of the worker host.

The jobs of `family-agile-sync` are CronJobs (concurrencyPolicy Forbid,
restartPolicy OnFailure, backoffLimit 2) that share nothing but Notion and
Habitica: rows are generated at 03:30, yesterday is reconciled at 04:45,
completions are pulled every hour from 6 to 22, the cycle is closed at 18:00 on
a payday, definitions are pushed on Sunday at 23:00. Parents and children change
the same databases at any time. Each job loads what it decides by and then makes
one call after the other.

What makes the factory correct:

- nothing is worked on that was not approved (plan gate);
- a proposed task goes to one claimer;
- the status moves along the state machine only, but for an overtaken UPDATE;
- a started run that does not hang ends, and no run leaves its task in progress
  with nobody at work;
- a task has one pull request, pinned once;
- an approved task is taken up as long as one slot is in use, whatever is lost
  on the way;
- fix runs are bounded, so the queues come to rest.

What makes an agent's record useful: it is closed when the session is over, it
shows a failure as one, and it holds the conversation up to its last words.

What makes the host watch useful: a finding is announced once while it lasts,
none is forgotten, and load is a finding only when it lasts.

What makes the allowances correct:

- a member gets one Corte and one payout per cycle, of which all reaches the
  sobres, however often the job dies and is run again;
- every payday that starts ends with everybody paid;
- work that was ticked is credited, once, to who ticked it, and nothing else is
  but a tick that Habitica kept from the day before;
- missed mandatory work is failed, once, by the night's reconcile;
- every occurrence has one row, and the mirror's date is a day that has one;
- after a push every routine has its mirrors, the pages know them, and no mirror
  is left over;
- a Corte is the sum of the points the Agenda shows when it is worked out, and
  work never lowers it.

## 2. Modules

| Module | Models | Used by |
| --- | --- | --- |
| `TaskLifecycle` | the status graph as an abstract state machine | refined by `ControlPlane` |
| `ControlPlane` | tasks table, queues and HTTP handlers, one action per query | `Factory`, `MCControlPlane` |
| `Factory` | control plane + daemon + programs + operators + failures | `MCFactory`, `FactoryProofs` |
| `FactoryProofs` | theorems about `ControlPlane` and, on those, about `Factory` | |
| `Payout` | what a payday promises a member: one payout that never changes | refined by `CycleClose` |
| `CycleClose` | close-cycle, call by call, with failures, reruns and people | `MCCycleClose`, `CycleCloseProofs` |
| `CycleCloseProofs` | theorems about `CycleClose` | |
| `Completions` | days of pull-completions, reconcile, Habitica and the family | `MCCompletions`, `CompletionsProofs` |
| `CompletionsProofs` | theorems about `Completions` | |
| `Calendar` | the date arithmetic of `rules.py`: cycles and recurrences | `Occurrences`, `Ledger` |
| `Occurrences` | nights of generate-occurrences, page by page | `MCOccurrences`, `OccurrencesProofs` |
| `OccurrencesProofs` | theorems about `Occurrences` | |
| `Mirrors` | push-definitions, call by call, with Notion, Habitica and the family | `MCMirrors`, `MirrorsProofs` |
| `MirrorsProofs` | theorems about `Mirrors` | |
| `Ledger` | what rows are worth when they are decided and when they are settled | `MCLedger`, `LedgerProofs` |
| `LedgerProofs` | theorems about `Ledger` | |
| `HostWatch` | scans of the host watch and their state file | `MCHostWatch`, `HostWatchProofs` |
| `HostWatchProofs` | theorems about `HostWatch` | |
| `AgentRun` | a session of an agent and its record | run `agent`, `AgentRunProofs` |
| `AgentRunProofs` | theorems about `AgentRun` | |
| `MCControlPlane`, `MCFactory` | symmetry for TLC | runs |
| `MCCycleClose`, `MCCompletions`, `MCMirrors` | small families and catalogues for TLC | runs |
| `MCOccurrences`, `MCLedger` | days, schedules and definitions for TLC | runs |
| `MCHostWatch` | a small host for TLC | run `watch` |

### ControlPlane

`status`, `assignee` and `artifacts` are the columns of the tasks table that
something depends on (`artifacts` as the set of kinds in the list), `queue` is
pg-boss with one FIFO per kind. `req[c]` is the request that client `c` has in
flight, with the local variables of its handler (`saw` is the status that the
last check of `updateTask` found): a handler is not a
transaction, so each action is one query, or one transaction, with the code up
to the next await, and requests of different clients interleave between them.
`proposed` and `winners` are history variables: which tasks were ever proposed,
and which clients were told they claimed a task since.

- `Patch`, `Approve`, `Cancel`, `Retry` go up to the read of `updateTask`
  (`Check` for the actions, which read the row themselves first); `Write` is
  its UPDATE, unconditional as in the code. `Checked` also knows that a patch
  back to the backlog that names an assignee is rejected by Postgres.
- `AddArtifact` and `Attach` are the read and the write of the artifact list.
- `Create`, `Intake`, `ThreadReply`, `EnqueueJob` and `Enqueue` are creation
  and the producers of jobs.
- `FetchJob`, `Fetch`, `Complete`, `Dispatch`, `ClaimTask`, `ClaimDirect`,
  `ClaimNextProposed` are `POST /jobs/claim`, await by await. The two claiming
  transactions are atomic (`FOR UPDATE`); `SKIP LOCKED` therefore never finds a
  row locked, and an answer "empty" because of a lock held elsewhere is not
  modelled.
- `Abort` is a handler that fails or a response that is lost at any stage;
  what was written stays. pg-boss (`^10.1.6`) gives a fetched job that was not
  completed to the next worker; its retry limit is not modelled.

### Factory

`pc[s]`, `held[s]` and `pinned[s]` are the program counter of slot `s`, its job
and what its snapshot of the task said about the pull request. A program calls
the control plane by the actions of `ControlPlane`, with the slot as client,
waits for the response and goes on. Git, GitHub, the agent, the hook and the
checks are choices (`Work`, `Draft`, `Watch`). `Outage` is a call that fails,
`Crash` a killed process (its request in flight is served all the same, and
`Unheard` drops the response), `BeginUnread` the one call of `run-task.sh` that
comes before its traps. `asks`, `outages` and `crashes` count what operators and
faults do.

`Hang` is a hook, an agent, a planner or a `gh` that never ends. Nothing ends it:
the watchdog of `run-task.sh` sends TERM to the shell (117-123), and bash puts off
its trap (113) until the child in the foreground is over; `run_plan_job.py` has no
deadline, and `watch_checks.py` looks at its own only between two calls of `gh`.
The slot (`hung`) and the task's lock are lost until somebody kills the program
(`Crash`). `Stuck` is a slot that hangs or waits for the lock of one that does.

### CycleClose

`agenda` is what each member's Agenda rows settle to (how they do is a choice
out of `Nets`), `cortes` and `movs` are the pages of the Corte and Movimientos
databases by page id, `saldo` the Saldo of each sobre. `pc` and `job` are the
place and the local variables of the one run at work. `Start` is the CronJob on
a payday (the guard that the day is one is assumed), `Restart` the kubelet's new
attempt after a failure.

- `LoadAgenda`, `LoadCortes`, `LoadSobres` are the snapshots the run decides by.
  Members, routines and tareas are part of the first.
- `Reuse` and `CreateCorte` are the two sides of the look for an earlier Corte;
  members are taken in any order.
- `CheckDeposit`, `RecordIncome`, `SetSaldo`, `RecordTransfer`, `SetPagado` are
  the calls of `_deposit` in order. `Share` is `split_by_weights`: floors, and
  the remainder to the sobre with the largest weight.
- `Crash` is a call that fails for good (`NotionClient._request` retries the
  others) or a killed process, before or after any write.
- `EditAgenda` and `Spend` are people (or another job) changing what was loaded.

### Completions

`agenda` has for each row (routine, day, member, or nobody for a pool routine)
its Estado, whether a parent recorded it and who is credited; `estado` and
`credits` are the Estado of a tarea and the Agenda rows created for it; `mirror`
and `done` are the tasks in Habitica. A day goes from `dawn` (the hours of
reconcile) to `day` (those of the pulls). `job` holds what the running job has
loaded. `did` (ticks of this day), `left` (ticks that were there at midnight),
`reconciled` (days whose reconcile has finished), `torn` (pulls that died between
a tarea's row and its Estado) and `job.seen` are history variables.

- `Pull` loads; `ListTasks` is the one call to Habitica per member with the
  selection of what to credit; `CreditPersonal`, `ClaimPool`, `DeleteLoser` (its
  failure is only logged), `CreditTarea` and `MarkTarea` are the writes;
  `PullDone` ends the run.
- `Reconcile`, `Fail`, `ReconcileDone` are `reconcile.run`.
- `Tick`, `Complete`, `RecordByHand` are the family, `HabiticaCron`, `Midnight`,
  `Morning` the clock.

No job waits for another to have succeeded. `Morning` comes when reconcile has
ended, well or not: it starts at 04:45, and startingDeadlineSeconds and
activeDeadlineSeconds end it before the pull of 06:00. `HabiticaCron` resets a
member at any hour, or never: nothing in the repository runs it.

What is assumed: every routine is due every day and its rows exist in the
morning; Habitica's task list has completed to-dos as well; no job is at work at
midnight, and the CronJobs forbid overlap of their own runs; a night with a push
makes all missing mirrors anew (how it does is `Mirrors`).

### Calendar and Occurrences

A date in `Calendar` is its proleptic Gregorian ordinal, as in Python; the
operators carry the names of `rules.py`. Months, years and weekdays are modelled
from what `datetime` and `calendar` do.

`Occurrences` has a catalogue (`routine`, all of one schedule at a time) and
`rows`, how many rows each slot (routine, day, member or nobody) has. `Load` is
the read of catalogue and horizon with the choice of what to create, `CreateRow`
one `create_page`, which ends the run when it fails and may have been served,
`Finish` the end, `Die` a killed pod, `NewDay` midnight, at any point of a run.
`EditRoutine` and `EditRow` are parents and, for a pool row, pull-completions.
`Wanted` is the nested loop of `run`, `Taken` its two sets of what exists.

### Mirrors

`routine` and `tarea` are what push-definitions reads of the Notion pages, with
the map of mirror ids, `tasks` the mirrors that exist in Habitica. `pc` and `job`
are the run and its locals (the catalogue it read, the listings it cached, the
ids `kept`). `NextItem` is the loop over the catalogue; `DropRetiredMirror`,
`ListTasks`, `MirrorTarget`, `DropStaleMirror`, `WriteMap`, `PushTarea`,
`WriteTareaId`, `PruneOrphanMirrors` the calls. `CreateTask`, `DeleteTask` and
`UpdatePage` have every outcome a call may have: `HabiticaClient._request`
repeats a POST after a 5xx or a timeout, so one call may leave two tasks, or one
task and an error. A payload is a bit, `text`. `clean` and `turned` are history
variables: nothing disturbed the push since it loaded; the routine became a
recreated to-do. (A routine that stops being one is left out.)

### Ledger

`rows` is the Agenda (Estado, Puntos aplicados, Ajustado, Origen of each, by item,
day and a number), `hecha` the tareas whose own Estado is Hecha, `defs` the
catalogue, `cortes` what close-cycle wrote, next to what the Agenda showed then.
`CreditRoutine` and `Fail` write points by the catalogue the job loaded.
`CreditTarea` and `MarkTarea` are the two writes of a tarea; the next pull goes by
`hecha`, so a run that ends between them leaves a tarea that is paid again (up to
`MaxRows` rows). `LoadToClose` and `StartClose` begin close-cycle, which reuses a
Corte that is there; `Settle` is `close_cycle` over `to_events`, by the catalogue
that was loaded. `settle_day` is run on the events of each day, with the cap at
half the face value of the mandatory ones. `EditItem`, `RecordByHand` and `Appeal`
are the parents. The calls and their failures are in `Completions` and
`CycleClose`; here a job writes row by row and may end after any.

### HostWatch

`host` is what there is to find, `disk` and `tmp` are `state.json` and
`state.tmp`, `pc` and `job` the runners (the timer's unit and shells) in
`run_scan`. `LoadState`, `CheckProcesses`, `CheckListeners`, `CheckPeers`,
`WriteTmp`, `Replace`, `Notify` are its steps; `ss`, a lookup and a push may
fail. `Die` is a killed scan, `PowerCut` loses the unsynced file, `HostChanges`
the host, `Reinstall` the removal of the state directory. `Bump` is `bump_cpu`,
`clear_cpu` and `prune_cpu` over the processes of a scan, an allow-listed one that
shares the identity (comm, executable, command line) of an unlisted one included.
`told`, `hushed`, `streak` and `overlap` are history variables: findings the phone
has, findings whose one announcement was lost, scans in a row that saw a load, and
whether scans have been at work at once. Scans go on after that; the first that
starts alone again counts the history anew from `state.json` (`Recount`).

### AgentRun

`record` is the `agent_runs` row, `s` the fields of `SdkSession`, events are
numbers. `CreateRun`, `StartAgent`, `RecordPrompt`, `Send`, `Message`,
`EndStream`, `Wait`, `Judge`, `Lint`, `Exit` are the session in the hands of the
implementer or the planner; `Flush` and `Report` are the two halves of `finish`,
which returns to where it was called from (`s.then`). A call is answered, fails,
or is served and not heard; `Kill` ends the process. `ExitCode` is what the caller
makes of the outcome.

## 3. Runs

| Run | Instance | Question | Result |
| --- | --- | --- | --- |
| `overlap` | 2 clients, 1 task, 1 worker id, 1 artifact kind | do overlapping requests break the plan gate or the single winner, or move a status outside the state machine but by an overtaken UPDATE? | no |
| `factory` | 2 slots, 2 operators, 3 operator requests, 1 program that hangs, no faults | is a task ever in progress with nobody at work, a pull request pinned twice, a fix run beyond the attempt bound? | no |
| `faults` | 1 slot, 1 operator, 3 requests, 1 failed call, 1 killed process, 1 program that hangs | is a proposed task taken up while the slot is in use, does a run that meets no failure and does not hang end, do the queues come to rest? | yes |
| `close` | 2 members, 3 sobres, 2 runs, 2 crashes, 1 edit, 1 withdrawal | one Corte and one payout per member, everybody paid in the end, never more transferred than paid, and less only by a crash? | yes |
| `chores` | 2 members, a personal and a pool routine, a tarea, 2 days, 1 crash or 1 result by hand | is ticked work credited, once and nothing else, missed work failed, and a tarea paid twice only by a death between its two writes? | yes |
| `calendar` | 2 routines (personal, pool), 2 members, 9 schedules, 3 starts, 5 days, horizon 3, 60 days ahead, 1 edit, 1 failure | one row per slot, none missing, mirrors of schedules in force dated on a day with a row? | yes |
| `mirrors` | a weekly routine of 2 members, a monthly one, a tarea, 3 events of which 1 failure | does an undisturbed push set everything right, are orphans only of failures, does pruning spare what lives? | yes |
| `ledger` | 2 routines and a tarea of up to 2 rows, 2 paydays in two years, 1 act of a parent | is a Corte what the Agenda shows, has a payday one, does work never cost? | yes |
| `watch` | an unlisted process and an allowed one of its identity, 1 listener, 1 peer, threshold 3, 2 changes, 1 failure, 1 scan by hand | is a finding told once, told in the end, and load only after its scans? | yes |
| `agent` | batches of 3, transcript of 4, 2 lint rounds, 7 messages, 2 failures | does a closed record hold the conversation and show a failure? | yes |
| `retry` | 1 client, 1 task | does retry work? | no: finding |
| `tarea_twice` | 2 members, 1 tarea, 1 crash | does a tarea pay once? | no: finding |

Bounds. Two clients are enough for every overlap of a read in one handler with
a write in another; two clients and one task already give about 5 000 000 states.
One task is enough for the factory because nothing relates two tasks but the
order of the queue and the slots. The safety properties do not depend on it, and are
proved for any number of both; the liveness properties are checked for one slot
only, so that the jobs of one task go on while a program of another hangs in a
slot of its own is not checked. `MaxAttempt` bounds the
attempt a job carries and `MaxFixes` is 1 instead of 2, so that a chain reaches
its end; `MaxQueue` is 4 in the factory runs, one more than the jobs three
operator requests and their watches put in one queue. `MaxAsks`, `MaxOutages`,
`MaxCrashes` and `MaxHangs` (programs that hang at a time) bound the environment:
with `MaxHangs` of 1 `factory` has a slot that hangs next to one that does not,
and `faults` one slot that hangs, is killed and goes on. Both stop once every slot
is stuck, so they do not look for deadlocks. In `close` the nets are 0, with
nothing to move, and 5, which the weights 2 and 1 do not divide; the second
member's only sobre takes no share, so a deposit of income alone happens; two
crashes are the backoffLimit, a second started run meets what the first left
behind. In `chores` (5 200 000 states) two days are the fewest on which yesterday
is reconciled, a tick is left over and a deleted mirror is pushed again, two
members the fewest that race; `MaxEvents` allows one crash or one result by hand,
of the personal routine (`ByHand`): the crash that tears a tarea and the record
that a pull overwrites each need no second event. Clients, slots and operators are
interchangeable, and the safety runs use that symmetry; the liveness runs do
not.

`calendar` (390 000 states) starts at the turn of a year, the end of a leap
February and the end of July 2026, with the days and the Vigente desde of its
schedules where months differ: day 30 and 31, a fifth weekday, a start late in
its month. The horizon of 3 days out of 5 makes runs overlap in what they
create, and a missed night show; 60 days ahead are two months of mirrors.
`mirrors` (3 000 000 states): a lost id, an edit, and a child's act in one story
are three events; two members are the fewest of which one fails, and ids are
never reused. `ledger` (520 000 states) puts two routines on the day before a
payday, so that what reconcile failed is in the Corte, with the day after it and a
second payday in the next year; two rows of the tarea are one
more than it should have; one act of a parent keeps a row and its exception apart.
`watch` (1 040 000 states): threshold 3 is reached in three scans, and one scan
less shows; two changes take the load away and bring it back; one failure and one
scan by hand are enough for every pair of steps. `agent` (150 000 states): seven
messages fill two batches of three and overflow a transcript of four in every
one of three replies; two failures lose two batches, or a batch and the report.

Fairness (`FactoryFairness`). The daemon's loop never stops (`daemon.sh`
111-143 under systemd); the server serves the requests it accepted, and a client
gives one up after 120 s; a program that does not hang goes on. All three are weak
fairness: of the daemon, of each client's handler and of each slot's program.
Nothing is assumed to end a program that hangs (`Hang` may come before any step of
`Work`, `Draft` or `Watch`, and from `hung` only a kill leads away), and operators
and faults are under no fairness. So `ProposedIsClaimed` excepts that all slots are
stuck, `RunEnds` that the task's own program hangs, and `Quiesces` says that
nothing runs but what hangs and that the queues are empty unless all slots are
stuck. `CycleClose` assumes that a run goes on (`WF` of
`Step`) and that one that failed is restarted (`WF` of `Restart`), which is what
restartPolicy OnFailure does up to backoffLimit times; no more crashes than that
are in the model.

`HostWatch` assumes that a scan that runs goes on (`ss` ends, the requests of
`notify.py` have timeouts) and that the timer starts one again (`host-watch.timer`,
OnUnitActiveSec). The other modules state safety only.

Findings. `retry` sets `assignee_agent` twice in one UPDATE and is always rejected.
`tarea_twice`: pull-completions creates a tarea's Agenda row before it sets the
tarea's Estado (`pull_completions.py` 235, 239) and goes by the Estado (137); dying
in between, it credits the tarea again, although
`apps/family-agile-sync/README.md` 108 says that a tarea only pays once and 73-74
that a crash cannot double-credit.

Other divergences met while modelling. The models have these behaviours; the
properties state what holds in spite of them.

- `forge factory claim --task ID` gets the first implement job of the queue, of
  whatever task (`claim/route.ts` 40-61).
- Red checks on a plan's pull request hand out an implement job for a planning
  task (`run_plan_job.py` 292, `watch_checks.py` 159-168); `run-task.sh` then
  fails the task.
- The watch of the plan and that of each implementation count their fix runs
  apart on the same pull request, so it can get more than
  `FORGE_CI_FIX_ATTEMPTS`.
- A hook, an agent or a planner that hangs is not ended by the budget, although
  `factory/worker/PLAYBOOK.md` 98 says "auto `failed` + cleanup": the task stays in
  progress, and its slot and lock are lost (`Hang`).
- `fail_task` ignores a failure of its own `set-status` (`run-task.sh` 102): the
  task stays in progress. `NotStranded` is therefore checked without outages,
  and `RunEnds` excepts them.
- `updateTask` checks the transition on one read and updates unconditionally
  (`tasks.ts` 93-98, 134-137): a cancel in between is overwritten and the task
  goes from failed to in_progress, though `factory/schema/README.md` 26 says that
  illegal skips are rejected. `LawfulUnlessOvertaken` excepts that UPDATE.
  `addArtifact` loses one of two overlapping calls.
- A run of close-cycle that dies between the income movement and the last
  transfer is not completed by the next, which takes the one linked movement for
  all (`close_cycle.py` 164-168): the Corte is Pagado, part of the net is in no
  sobre. `ShortByCrash` counts such members.
- The Saldo that close-cycle writes is the loaded one plus the share: a
  withdrawal in between is undone. `SaldoExplained` leaves out such sobres.
- A Corte left by a run that died is reused as it is, while the deposit is of
  the net the rerun computes.
- The pull credits today's row for any task whose completed flag is set
  (`pull_completions.py` 119-123), although the module is to "record what actually
  happened" (1). The flag of yesterday's tick is set until Habitica's cron has run
  for the member, which nothing here runs or waits for
  (`apps/family-agile-sync/README.md` 154): the 06:00 pull may credit today's
  routine before the child did it. `OnlyWorkIsCredited` allows just that (`left`).
- A result a parent records while a job is at work is overwritten, Origen and
  all (`pull_completions.py` 217, `reconcile.py`), although the same README says
  at 61 that manual rows always win. `DecidedOnce` leaves rows of parents out.
- A reconcile that dies to its backoffLimit leaves yesterday's rows undecided for
  good. `MissesFail` is about days whose reconcile has finished.
- A claimed pool routine leaves the other members without a mirror until
  Sunday's push.
- The payday is settled at 18:00, but pulls go on until 22:00 and reconcile fails
  its missed work the next morning: both change rows of a closed cycle, which
  no later one loads, although `rules.py` 325-326 counts the payday to the cycle
  it closes, and `pull_completions.py` 131 has "Agenda matches the Corte".
  `AgendaMatchesCorte` is about the moment a Corte is worked out. A tarea that got
  two rows is counted twice, in the Agenda and in the Corte.
- `rules.py` 432-433 says a period never starts before Vigente desde. The date of
  a weekly mirror pushed before Vigente desde may be earlier, and that of a monthly
  or quarterly one in its first period, if the day lies before Vigente desde in
  that month: in force since July 29 for the first of the month, it is due on July
  1 (456). `MirrorFallsOnARow` is for schedules that are in force (`InForce`).
- The prune pass deletes the mirrors that a live routine's page still names when
  the push passed over the routine (no targets, no date), although
  `push_definitions.py` 404 speaks of mirrors "no live routine or tarea
  references". A weekly routine that becomes a recreated to-do leaves its daily
  behind (`NoOrphanWithoutFault`), or loses it while a page that could not be
  written still names it. `PruneSparesTheLive` leaves out both kinds (`Mirrored`,
  `turned`). A repeated POST leaves a second mirror that
  only a prune pass removes.
- The daily cap never bites by the table of points alone, only by an appeal
  (`AgendaMatchesCorte`); a negative appeal on a day without mandatory work is
  capped to nothing. An edit of the catalogue revalues rows of past days at the
  payday. An appeal on a row that is still Pendiente is overwritten when the row
  is credited, one on a row that does not pay is shown and not settled, and
  reconcile leaves Origen as it was.
- A scan with `--dry-run` or `--no-notify` saves its state: what it found first
  is never pushed. Two unlisted processes of one identity bump its hits twice in a
  scan (`scanner.py` 206) and reach the threshold in half the scans, although
  `security/host-watch/README.md` 17 and `config/config.example.toml` 20 say
  consecutive scans; `LoadTakesScans` leaves such identities out. A failed `ss`
  makes known findings new again, and so does a lookup that fails in one scan and
  succeeds in another, as a peer's key holds its organisation (417): it is pushed
  twice though it never left (README 21-22, "the **first** time"). A second scan at the
  same time may announce twice, or die at its rename with its findings untold.
  `save` does not sync.
- A session that ends with lint findings left has the exit code 3 (planner) or 4
  (implementer) and a record that says finished; one whose lint fix failed or was
  cancelled, with clean lint, has exit code 0 and a record that says error; so
  has a planner that fell back to its stub. A failed `finish_run`, an unheard
  `create_run` or a kill leaves a record running for ever. Only the first reply is
  looked at for `FORGE_BLOCKED`. A batch whose append failed is not sent again.

## 4. Proofs

Every invariant and every action property that a run checks is proved, and so are
both refinements; what is left to TLC is at the end of this section.

`FactoryProofs` is about two modules. Its first part, which cites nothing of
`Factory`, proves of `ControlPlane`, for any tasks, clients, agents, artifact kinds
and bounds that satisfy `ControlPlaneAssumption`:

- `TypeCorrectness`, `PlanGateHolds`, `OneWinnerHolds`: `Spec => []TypeOK`,
  `[]PlanGate`, `[]OneWinner`. The inductive invariant is `IInv`: requests carry
  the task, job and worker their next query needs (`RequestsWellFormed`); an
  UPDATE to a worker status that is due is of a task that was proposed, because
  the check that let it pass saw it proposed or further (`Gated`); a proposed
  task has no winner yet (`Unclaimed`), because what makes it proposed empties
  the set and what fills it takes the task out of `proposed` in one
  transaction. `PlanGate` is not inductive alone: an UPDATE that was checked
  long ago may be the next step.
- `LawfulHolds`: `Spec => LawfulUnlessOvertaken`, for any number of overlapping
  requests. What a checked request is about to write is a transition the state
  machine has from the status the check saw (`ChecksHeld`), so an UPDATE that finds
  that status still there is one of its steps; all other changes of a status are
  made by transactions that look at the row they change.
- `SerialRefinement`: with one client `Spec => LifecycleSpec`. It rests on
  `ReadsAreFresh` (the status a check saw is still what the row says), which one
  request at a time preserves and two do not.

Its second part proves of `Factory`, for any slots, operators, tasks and bounds
that satisfy `FactoryAssumption`:

- `FactoryImplements`: `FactorySpec => Spec /\ []PlanGate /\ []OneWinner`. The
  daemon, the programs and the operators are clients of the control plane: a step
  of the factory is a step of `ControlPlane`, with the slot or the operator as the
  client, or leaves it alone. So what holds of all clients holds of them, whatever
  fails. `ProgramSteps` brings the programs to two shapes, a call and a move
  between two places; `HandleSteps` says what the server may do to a row.
- `FactoryTypes`: `[]FactoryTypeOK`.
- `PinsOnceHolds`: `[](crashes = 0 => PinsOnce)`. The snapshot of a program that
  read a task without a pull request stays true until it pins its own
  (`SnapshotsHold`), because the programs of a task take turns (`Locked`) and a
  request in flight is the one its program waits for (`CallsMatch`). A killed
  program leaves a request behind that nobody waits for and frees the lock: that
  is why crashes are excepted, as they are from the run `factory`.
- `NotStrandedHolds`: `[](crashes = 0 /\ outages = 0 => NotStranded)`, by
  `Attended`: a task in progress is one of a program that has yet to report how it
  ended, or hangs. Operators may end a task meanwhile, but never put one in progress or
  attach anything (`OperatorsOnlyAsk`). With a failed call it is false: `fail_task`
  ignores the failure of its own report (see the divergences above).

The inductive invariant is `FactoryInv`: `Sound`, which holds whatever fails
(types, `IInv` of the control plane, the job that a slot has at each place,
`Locked`, claims under way), and the three parts above under their hypotheses.
`FactoryAssumption` says in addition that `pr` is one of the artifact kinds,
which is the one the programs pin and look for (`run-task.sh` 48,
`run_plan_job.py` 70).

`CompletionsProofs` proves, for any family, catalogue, assignment, number of days
and bounds that satisfy `CompletionsAssumption`:

- `WorkIsCreditedHolds`, `MissesFailHolds`, `PaysOnceUnlessTornHolds` and
  `TypeCorrectness`: `Spec => []WorkIsCredited`, `[]MissesFail`,
  `[]PaysOnceUnlessTorn`, `[]TypeOK`;
- `OnlyWorkIsCreditedHolds`, `DecidedOnceHolds`: the action properties.

The argument is that what a job loaded may be used until it writes. Jobs run one
at a time, and only they and a parent's hand write rows, so every row a pull
loaded as open and has not come to is undecided or was a parent's since
(`PullLoaded`), and each hit of a member is a row of the day whose mirror that
member ticked today or that showed at midnight (`PullCredits`, `TicksAreKnown`).
`MissesDecided` says of a day that was reconciled that none of its mandatory rows is
open, and of one whose reconcile is at work that what is open is what it has yet to
fail; a night whose reconcile died promises nothing. `TareasPaid` counts the credits
of a tarea against the pulls that died between its row and its Estado: before a pull
comes to it they are at most as many as those deaths, and a marked tarea has one
more at most. The assumption that tareas are no mirrors of routines only keeps two
kinds of pages apart.

`MirrorsProofs` proves, for any family, catalogue of routines and tareas and any
number of faults, edits and acts of children that satisfy `MirrorsAssumption` and
`AtFirstAssumption` (no page names a mirror before the first push: the property
`Habitica Task ID` is written by nobody but the job):

- `CleanPushConvergesHolds`, `NoOrphanWithoutFaultHolds`, `TypeCorrectness`:
  `Spec => []CleanPushConverges`, `[]NoOrphanWithoutFault`, `[]TypeOK`;
- `PruneSparesTheLiveHolds`: `Spec => PruneSparesTheLive`.

All rest on one invariant. An id, wherever it is kept, is of the mirror it was
given to, gone or not (`IdsName`), as Habitica gives no id twice; nobody but the
push writes ids, so those it read are still on the pages it has not come to
(`SnapshotHolds`); a mirror that a listing does not have is gone for good
(`ListingsHold`). While a push is undisturbed its listings are exact for what it
still has to look at, and what it has looked at is as the page wants it
(`CleanSoFar`): that is all of convergence, so nothing about the state before the
push is needed but `IdsName`. For the prune pass, `MapCarries` says that a mirror
the page names has its place in the map to be written, or is done, or is of a
member who is no target, and `LiveIsKept` that it is among the kept ones once the
routine is past, be its page written or not. For orphans, `NoneLost` says while
nothing failed that an open mirror is known to its page, or is in the hands of
the push, or waits for the prune pass (`ToPrune`); the last needs that nothing
kept is of an item still to come (`KeptIsPast`).

`CycleCloseProofs` proves, for any family, nets, weights and bounds that satisfy
`CycleCloseAssumption`:

- `OneCorteHolds`: `Spec => []OneCorte`, and `PaysOnceHolds`: `Spec => PaysOnce`,
  the refinement of `Payout`: a step is the payment of a member who has had none,
  or leaves all payments as they are. The inductive invariant is `InductiveInv`:
  the Cortes a run loaded are still there and belong to whom they did
  (`KnownIsTrue`); those it did not load belong to members it is done with or to
  the one it is at (`UnknownIsOwn`), so `CreateCorte` never meets one; a deposit
  is into the Corte of its member (`OwnPage`); nothing is linked to a Corte whose
  income is about to be written (`NothingPaidYet`), because only the run itself
  writes movements. The last two fail with two runs at once, which is why the
  theorem, like the code, needs the CronJob's Forbid.
- `TypeCorrectness`: `Spec => []TypeOK`, by `Shape` (pages and local variables) and
  `Numbers` (amounts and counters). It needs that no share is negative:
  `SharesSplitNet` says that the shares of `split_by_weights` are naturals whose sum is
  the net, or all zero where there is no net or no weight.
- `ShortByCrashHolds` and `SaldoExplainedHolds`: `Spec => []ShortByCrash`,
  `[]SaldoExplained`, by `MoneyInvariance`. `PagadoIsTrue` says that what the run
  loaded of Pagado still holds of the members before it; `Balanced`, that what a
  Corte's sobres got and what they have still to get is its income; `OwedByCrash`,
  that there are no more Cortes short of money and not about to be paid in full than
  there were failures; `SaldosAreTrue`, that the Saldos loaded of the sobres to come
  are the real ones, and that without failures a Saldo is what it opened with and
  what was transferred, but for the share between its two writes, unless somebody drew.

The last two are about sums over sets of movements and sobres. The fold of the
community modules is a function that `CHOOSE` picks by its recursive equation, so
what it computes is proved here in two steps: there is such a function, and only
one, by well-founded induction over the subsets of a finite set
(`WellFoundedInduction`); then a sum takes its terms one at a time, and lemmas on
equal, smaller and split sums follow. The proof met an error of the model: two
guards of a `CASE` in `Share` overlapped, where `CHOOSE` may pick either; it is an
`IF` now, as in the code. `HeaviestIsThere` shows without induction that the choice
of the next sobre is well defined: a minimal dominating set of sobres has one
element.

`LedgerProofs` proves, for any catalogue, occurrences, anchor and bounds that satisfy
`LedgerAssumption` (the anchor is a Friday; the occurrences are finitely many; a
difficulty is one of the table's or unset; no points are no number):

- `AgendaMatchesCorteHolds`, `Spec => []AgendaMatchesCorte`, however many rows a tarea
  got. What a Corte adds up by the catalogue is what its rows show, because a row that
  was neither recorded by hand nor appealed shows what its decision paid (`RowsTell`),
  and what was not edited still pays that (`Unedited`). It says that the daily cap never bites without an appeal, for
  any number of rows a day: no table credit subtracts more than half the face value of
  its work, so their sum does not exceed the cap (`CreditIsFair`, `DayAddsUp`), and the
  cycle is the sum of its days (`SumByDay`, `CycleAddsUp`).
- `WorkNeverCostsHolds`, `Spec => []WorkNeverCosts`: an event that pays more leaves no
  day lower, since the cap depends on what was due and not on what was done
  (`DayIsMonotone`, `NetIsMonotone`).
- `TypeCorrectness`, `Spec => []TypeOK`. That a label names one Corte is arithmetic:
  the paydays of one year are 14 days apart and get different numbers
  (`LabelNamesOne`), and what `YearOf` chooses exists (`YearIsInt`).

The invariant, `IInv`, says in addition what the rows and their keys are
(`IsAgenda`), what the job at work may hold (`Job`; `MarksATarea` is the second write of
a tarea, which touches no row), that a Corte carries the name of its payday and a
payday has one (`Titled`), and that close-cycle is at work on a payday without one
(`OnPayday`). The lemmas on sums are those of `CycleCloseProofs`, repeated because they
belong to no component.

`HostWatchProofs` proves `AlertedOnceHolds`, `LoadTakesScansHolds` and
`TypeCorrectness`, `Spec => []AlertedOnce`, `[]LoadTakesScans` and `[]TypeOK`, for any
host, any runners and bounds with finitely many processes, each flagged with known kinds
of findings (`HostWatchAssumption`). `AlertedOnce` speaks of what is about to be pushed
and of times between scans; what carries it through a scan is `Inv`: a scan that
is alone holds, from its load until it saves, exactly what `state.json` knows
(`Saving`), what was told is known, and what is known was told, hushed, or is in
the hands of the scan that is about to push (`Accounted`). It is stated under
`~overlap`: with a second scan next to it the first loses its grip on both files,
and only the shape of the records is left (`Shapes`), until a scan starts alone and
`Recount` makes the history true again. No check of a scan touches the findings it
loaded, so one step of the proof serves all three; another serves all the ways in
which a scan stops. `TypeCorrectness` needs that hits stay within the threshold
(`OfType`, `BumpInRange`). `LoadTakesScans` is carried by `LoadInv`: the hits of an
identity are no more than the scans in a row that saw it busy, each counted once for
each of its unlisted processes (`Earned`), in `state.json` and, one scan further, in
the hands of the scan at work (`StreakThen`, `Counted`, `OneScan`); an identity that no
unlisted process has is never counted (`OnlyUnknown`, `OnlyBusy`). `LoadInv` holds of
identities of several processes as well; the promised number of scans follows for one.

`OccurrencesProofs` proves `TypeCorrectness` and `OneRowPerSlotHolds`,
`Spec => []TypeOK`, `[]OneRowPerSlot`, for any catalogue, schedules, family and
horizon and any number of days, edits and faults. The run `calendar` has one edit; the theorem covers the sequences of
them. `TodoIsFree` makes it inductive: what a run has still to create has no
row, unless a parent made one since the run loaded, and the run creates one row
of each occurrence, because a pool's only target is nobody. That a run takes
some first day of what is left needs that the days are naturals
(`NatLessThanWellFounded`); that a pool row may change hands without leaving its
occurrence is why `SameOccurrence`, and not the slot, is what is counted. No ordinal is
0, so that a `filled` of 0 is no horizon (`OccurrencesAssumption`). Further:

- `HorizonIsFilledHolds`, `Spec => []HorizonIsFilled`. `Filling` says that a run which
  no edit disturbed has created, or has still to create, each occurrence of its horizon
  that is not past, and that no run that completed looked further than one of today
  would: that is what makes a night without a run, or one that dies, harmless. It holds
  for any recurrences: what the calendar says of a day is the same whenever it is asked.
- `MirrorFallsOnARowHolds`, `Spec => []MirrorFallsOnARow`, is `MirrorIsDue` in every
  state, and that is a theorem of the calendar alone, for every schedule and every day on
  which it is in force (`InForce`).
  It rests on the Gregorian arithmetic, proved here of the operators of `Calendar`:
  years follow one another (`YearLength`, `YearOrder`) and a date is in one of them only
  (`YearIs`, `OneYear`), the months fill the year (`Months`, `MonthOrder`), and a date is
  its year, month and day and no other (`DateIs`, `DateParts`). So a step of n months
  lands n months on (`AddMonthsIs`), a clamped day and an n-th weekday stay in their
  month (`ClampedIs`, `NthIsInMonth`), a fortnight keeps the weekday
  (`FortnightlyIsDue`), a date before Vigente desde is of its month (`LaterMonth`), and
  all of a first period has one date (`FirstPeriod`). `SchedulesAssumption` is used
  here only: Vigente desde of a fortnightly routine is on one of its weekdays, which `rules.py` 511 says and nothing enforces;
  without it such a routine has mirrors and no rows.

`AgentRunProofs` proves `FailureShowsHolds`, `TranscriptIsWholeHolds` and
`TypeCorrectness`, `Spec => []FailureShows`, `[]TranscriptIsWhole` and `[]TypeOK`, for any
sizes of batch and transcript and any bounds. `finish` may be called twice, once
where the failure is met and once by `__exit__`, so `Inv` says what each call may
find: until one has reported the record is open, and afterwards it shows the
verdict of the outcome (`OpenUntilReported`); a session that reaches `__exit__`
has reported exactly if it was refused by the SDK or blocked (`AtFinish`); an
agent's last reply is an error only after a lint round or where the session gives
up (`AtPlaces`). That last part also needs that no reply was taken before the
first prompt. For the transcript, `Whole` says of the record and the buffer together
that they hold the conversation without the lost batches: in order, none twice, and
the events that are missing are the oldest, missing only where the record is full. The
buffer is empty from the report on, so nothing is appended to a closed record.

Each invariant was checked by TLC before it was proved. Not proved, and only
model-checked, is what the provers cannot reach: `ENABLED`, and the liveness
properties `ProposedIsClaimed`, `RunEnds`, `Quiesces`, `EverybodyIsPaid` and
`ListenerIsTold`. The violations of `RetryReopens` and `TareaPaysOnce` are counterexamples, and
need no proof. `LifecycleSpec` (requests one at a time) is proved and no run of its
own: `LawfulUnlessOvertaken` says more and is checked. The runs remain what shows that the assumptions can be met and that what the
properties presuppose does happen.

## 5. Not modelled

Titles, goals, notes and other fields no step depends on; artifacts of the
factory other than the pull request (a failing upload is part of `Work`
failing); messages, notifications and the `notify` and `sync-projects` queues;
redaction; the choice of task ids (`nextTaskId`); creation in a status other
than planning or proposed (only the one-off YAML migration does it, and
`BirthStatuses` states the assumption); the mode without a control plane;
Slack, the dashboard, the sandbox, manifests, CI and Nix files. Of
`family-agile-sync`: dry runs, colones of a row, `CYCLE_FORCE_CLOSE`, the
parsing of pages, titles and hours of rows, two runs of one job at once (nothing
but the CronJob's Forbid prevents them). Of the host watch: how an executable, a
command line, a listener or an address is recognised and allow-listed, which are
constants, and the age of a cached lookup, which may be over at any scan. Of the
agents: prompts, the stub plan's text, the branch field the planner restores.

## 6. Plan

1. Control plane and factory: modelled, checked, every safety property proved, and that
   the factory implements the control plane.
2. `CycleClose`, `Completions`: the same, with the refinement of `Payout`.
3. `Calendar`, `Occurrences`, `Mirrors`, `Ledger`, `HostWatch`, `AgentRun`: modelled,
   checked and every safety property proved.
4. Next: compositions, of `Completions` over the rows of `Occurrences` and the mirrors of
   `Mirrors`, and of `AgentRun` inside the `Work` of `Factory`.
