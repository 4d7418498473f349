---------------------------- MODULE Completions ----------------------------
(***************************************************************************)
(* A few days of chores: children tick their mirrors in Habitica, the      *)
(* pull-completions job of family-agile-sync credits the Agenda in Notion  *)
(* hour by hour (jobs/pull_completions.py), reconcile marks yesterday's    *)
(* unfinished mandatory work as failed (jobs/reconcile.py), and parents    *)
(* record results by hand.  What the rows are worth is in Ledger, and how  *)
(* a payday pays them out in CycleClose.                                   *)
(*                                                                         *)
(* Each job loads what it decides by once and then makes one call after    *)
(* the other. It may die between any two calls; the next run begins anew.  *)
(* Every routine is due every day, and its rows exist since the morning    *)
(* (generate-occurrences).                                                 *)
(*                                                                         *)
(* The schedules keep reconcile and the pulls apart, and the pulls from    *)
(* midnight; no job waits for another to have succeeded, nor for Habitica, *)
(* whose cron the repository never runs.                                   *)
(***************************************************************************)
EXTENDS Naturals, FiniteSets

CONSTANTS
  Members,    \* with Habitica credentials
  Personal,   \* routines with a row, and a mirror, per member
  Pool,       \* routines with one row that whoever is first claims
  Assigned,   \* the members of a personal routine, the eligible ones of a pool routine
  Mandatory,  \* routines that are failed when they are not done
  Tareas,     \* one-off to-dos that pay
  DoerOf,     \* the member of a tarea
  Nobody,     \* an empty Miembro
  MaxDay,     \* bound: the last day
  PushDays,   \* days whose night has a push-definitions run
  MaxCrashes, \* bound on the jobs that die, at most the Job's backoffLimit
  MaxEdits,   \* bound on the results recorded by hand
  MaxEvents,  \* bound on both together
  ByHand      \* bound: the routines whose results are recorded by hand

Routines == Personal \cup Pool

ASSUME CompletionsAssumption ==
  /\ Personal \cap Pool = {} /\ Assigned \in [Routines -> SUBSET Members]
  /\ Mandatory \subseteq Routines
  /\ DoerOf \in [Tareas -> Members]
  /\ Nobody \notin Members /\ Tareas \cap (Routines \X Members) = {}
  /\ MaxDay \in Nat \ {0} /\ PushDays \subseteq Nat
  /\ MaxCrashes \in Nat /\ MaxEdits \in Nat /\ MaxEvents \in Nat

Days == 1 .. MaxDay

\* Agenda rows: routine, day, and the member it was generated for.
PersonalRows == {r \in Personal \X Days \X Members : r[3] \in Assigned[r[1]]}
PoolRows == Pool \X Days \X {Nobody}
Rows == PersonalRows \cup PoolRows

\* A mirror belongs to a routine and one of its members.
Mirrors == {x \in Routines \X Members : x[2] \in Assigned[x[1]]}

VARIABLES
  agenda,  \* Estado, Origen = Manual, and Marcado por of each row
  estado,  \* Estado of each tarea
  credits, \* the Agenda rows a tarea has been given
  mirror,  \* Habitica: the mirrors of routines
  done,    \* Habitica: the tareas whose mirror is completed
  cronned, \* Habitica: the members whose cron has run today
  day, phase, \* "dawn" (the night's jobs) or "day"
  pc, job, \* the job at work and its local variables
  reconciled, \* the days a reconcile has finished with
  did,     \* history: the mirrors that were ticked today
  left,    \* history: those that still showed a tick of before at midnight
  torn,    \* history: the deaths between a tarea's row and its Estado
  crashes, edits

notion  == <<agenda, estado, credits>>
habitica == <<mirror, done, cronned>>
clock   == <<day, phase, reconciled>>
history == <<did, left, torn>>
vars == <<notion, habitica, clock, pc, job, history, crashes, edits>>

Estados == {"Pendiente", "Hecha", "Fallada"}

NoLocals == [open |-> {}, unpaid |-> {}, todo |-> {}, member |-> Nobody,
             hits |-> {}, dues |-> {}, marking |-> {}, claimed |-> {},
             losers |-> {}, seen |-> {}]

TypeOK ==
  /\ agenda \in [Rows -> [estado: Estados, manual: BOOLEAN, by: Members \cup {Nobody}]]
  /\ estado \in [Tareas -> {"Pendiente", "Hecha"}]
  /\ credits \in [Tareas -> Nat]
  /\ mirror \in [Mirrors -> {"none", "open", "ticked"}]
  /\ done \subseteq Tareas /\ cronned \subseteq Members
  /\ day \in Days /\ phase \in {"dawn", "day"}
  /\ pc \in {"idle", "pull", "reconcile"}
  /\ job \in [open: SUBSET Rows, unpaid: SUBSET Tareas, todo: SUBSET Members,
              member: Members \cup {Nobody}, hits: SUBSET Routines,
              dues: SUBSET Tareas, marking: SUBSET Tareas, claimed: SUBSET Pool,
              losers: SUBSET (Pool \X Members), seen: SUBSET (Mirrors \cup Tareas)]
  /\ reconciled \subseteq 0 .. MaxDay
  /\ did \subseteq Mirrors /\ left \subseteq Mirrors /\ torn \in [Tareas -> Nat]
  /\ crashes \in 0 .. MaxCrashes /\ edits \in 0 .. MaxEdits

Init ==
  /\ agenda = [r \in Rows |-> [estado |-> "Pendiente", manual |-> FALSE, by |-> Nobody]]
  /\ estado = [t \in Tareas |-> "Pendiente"] /\ credits = [t \in Tareas |-> 0]
  /\ mirror = [x \in Mirrors |-> "open"]
  /\ done = {} /\ cronned = Members
  /\ day = 1 /\ phase = "day" /\ reconciled = {}
  /\ pc = "idle" /\ job = NoLocals
  /\ did = {} /\ left = {} /\ torn = [t \in Tareas |-> 0] /\ crashes = 0 /\ edits = 0

-----------------------------------------------------------------------------
(* Helpers *)

RowsOf(d) == {r \in Rows : r[2] = d}

\* Rows a job may still change: undecided, and not a parent's.
IsOpen(r) == agenda[r].estado = "Pendiente" /\ ~agenda[r].manual

Ticked(m) == {r \in Routines : m \in Assigned[r] /\ mirror[<<r, m>>] = "ticked"}

Credit(r, m) ==
  agenda' = [agenda EXCEPT ![r] = [estado |-> "Hecha", manual |-> FALSE, by |-> m]]

\* The row of a routine today for a member.
RowOf(r, m) == IF r \in Pool THEN <<r, day, Nobody>> ELSE <<r, day, m>>

\* A pull between two credits, and between two members.
Crediting == pc = "pull" /\ job.losers = {} /\ job.marking = {}
Listing == Crediting /\ job.hits = {} /\ job.dues = {}

OthersMirrors(r, m) ==
  {<<r, n>> : n \in {n \in Assigned[r] \ {m} : mirror[<<r, n>>] # "none"}}

\* What Habitica shows a member has ticked, for the history.
CompletedBy(m) ==
  {x \in Mirrors : x[2] = m /\ mirror[x] = "ticked"} \cup {t \in done : DoerOf[t] = m}

-----------------------------------------------------------------------------
(* pull_completions.run *)

\* A pull with these rows and tareas to credit, of these members.
StartPull(open, unpaid, todo) ==
  /\ pc = "idle" /\ phase # "dawn"
  /\ pc' = "pull"
  /\ job' = [NoLocals EXCEPT !.open = open, !.unpaid = unpaid, !.todo = todo]
  /\ UNCHANGED <<notion, habitica, clock, history, crashes, edits>>

OpenRows == {r \in RowsOf(day) : IsOpen(r)}
UnpaidTareas == {t \in Tareas : estado[t] # "Hecha"}

\* Mutant of Pull: only rows that have a member are loaded.
PullMembersRows == StartPull({r \in OpenRows : r[3] # Nobody}, UnpaidTareas, Members)

\* Mutant of Pull: whatever the Estado of a tarea.
PullAllTareas == StartPull(OpenRows, Tareas, Members)

\* Mutant of Pull: a member without credentials is not skipped.
PullEverybody == StartPull(OpenRows, UnpaidTareas, Members \cup {Nobody})

\* Members, routines, tareas and today's rows are loaded.
Pull == StartPull(OpenRows, UnpaidTareas, Members)

\* The tareas a member has completed that were not credited when the pull began.
DuesOf(m) == {t \in job.unpaid \cap done : DoerOf[t] = m}

\* The pull goes on to a member, to credit these routines and tareas.
StartMember(m, hits, dues) ==
  /\ Listing /\ m \in job.todo
  /\ job' = [job EXCEPT !.member = m, !.todo = @ \ {m}, !.hits = hits, !.dues = dues,
                        !.seen = CompletedBy(m)]
  /\ UNCHANGED <<notion, habitica, clock, pc, history, crashes, edits>>

\* Mutant of ListTasks: open tasks count as completed.
ListAllTasks(m) ==
  StartMember(m, {r \in Routines : /\ <<r, m>> \in Mirrors
                                /\ RowOf(r, m) \in job.open /\ r \notin job.claimed},
              DuesOf(m))

\* Mutant of ListTasks: what this run claimed is not remembered.
ListClaimedTasks(m) ==
  StartMember(m, {r \in Ticked(m) : RowOf(r, m) \in job.open}, DuesOf(m))

\* list_tasks for a member: the routines the member has ticked that have a row
\* to credit (undecided, not a parent's, of a pool not claimed in this run), and
\* the tareas.
ListTasks(m) ==
  StartMember(m, {r \in Ticked(m) : RowOf(r, m) \in job.open /\ r \notin job.claimed},
              DuesOf(m))

CreditPersonal(r) ==
  /\ Crediting /\ r \in job.hits \cap Personal
  /\ Credit(RowOf(r, job.member), job.member)
  /\ job' = [job EXCEPT !.hits = @ \ {r}]
  /\ UNCHANGED <<estado, credits, habitica, clock, pc, history, crashes, edits>>

\* The other mirrors of a claimed routine are to go.
Claimed(r) ==
  /\ Crediting /\ r \in job.hits \cap Pool
  /\ job' = [job EXCEPT !.hits = @ \ {r}, !.claimed = @ \cup {r},
                        !.losers = OthersMirrors(r, job.member)]

\* The first member claims the row; then the other mirrors go.
ClaimPool(r) ==
  /\ Claimed(r)
  /\ Credit(RowOf(r, job.member), job.member)
  /\ UNCHANGED <<estado, credits, habitica, clock, pc, history, crashes, edits>>

\* delete_task of a losing mirror; its failure is only logged.
DeleteLoser(x) ==
  /\ pc = "pull" /\ x \in job.losers
  /\ \/ mirror' = [mirror EXCEPT ![x] = "none"]
     \/ mirror' = mirror
  /\ job' = [job EXCEPT !.losers = @ \ {x}]
  /\ UNCHANGED <<notion, done, cronned, clock, pc, history, crashes, edits>>

\* A tarea has no row until it is done: create_page.
CreditTarea(t) ==
  /\ Crediting /\ job.hits = {} /\ t \in job.dues
  /\ credits' = [credits EXCEPT ![t] = @ + 1]
  /\ job' = [job EXCEPT !.dues = @ \ {t}, !.marking = {t}]
  /\ UNCHANGED <<agenda, estado, habitica, clock, pc, history, crashes, edits>>

\* Then its own Estado.
MarkTarea(t) ==
  /\ pc = "pull" /\ t \in job.marking
  /\ estado' = [estado EXCEPT ![t] = "Hecha"]
  /\ job' = [job EXCEPT !.marking = {}]
  /\ UNCHANGED <<agenda, credits, habitica, clock, pc, history, crashes, edits>>

PullDone ==
  /\ Listing /\ job.todo = {}
  /\ pc' = "idle" /\ job' = NoLocals
  /\ UNCHANGED <<notion, habitica, clock, history, crashes, edits>>

-----------------------------------------------------------------------------
(* reconcile.run *)

\* A reconcile of a day: undecided mandatory work of a known member is loaded.
StartReconcile(d) ==
  /\ pc = "idle" /\ phase = "dawn" /\ day - 1 \notin reconciled
  /\ pc' = "reconcile"
  /\ job' = [NoLocals EXCEPT
       !.open = {r \in RowsOf(d) : IsOpen(r) /\ r[1] \in Mandatory /\ r[3] # Nobody}]
  /\ UNCHANGED <<notion, habitica, clock, history, crashes, edits>>

\* Mutant of Reconcile: the day before yesterday.
ReconcileLate == StartReconcile(day - 2)

\* Yesterday.
Reconcile == StartReconcile(day - 1)

Fail(r) ==
  /\ pc = "reconcile" /\ r \in job.open
  /\ agenda' = [agenda EXCEPT ![r].estado = "Fallada"]
  /\ job' = [job EXCEPT !.open = @ \ {r}]
  /\ UNCHANGED <<estado, credits, habitica, clock, pc, history, crashes, edits>>

ReconcileDone ==
  /\ pc = "reconcile" /\ job.open = {}
  /\ pc' = "idle" /\ job' = NoLocals /\ reconciled' = reconciled \cup {day - 1}
  /\ UNCHANGED <<notion, habitica, day, phase, history, crashes, edits>>

\* A call fails for good, or the process is killed.
Crash ==
  /\ pc # "idle" /\ crashes < MaxCrashes /\ crashes + edits < MaxEvents
  /\ pc' = "idle" /\ job' = NoLocals /\ crashes' = crashes + 1
  /\ torn' = [t \in Tareas |-> IF t \in job.marking THEN torn[t] + 1 ELSE torn[t]]
  /\ UNCHANGED <<notion, habitica, clock, did, left, edits>>

-----------------------------------------------------------------------------
(* Habitica, the family and the clock *)

\* A child ticks a daily.
Tick(r, m) ==
  /\ phase # "dawn" /\ mirror[<<r, m>>] = "open"
  /\ mirror' = [mirror EXCEPT ![<<r, m>>] = "ticked"]
  /\ did' = did \cup {<<r, m>>}
  /\ UNCHANGED <<notion, done, cronned, clock, pc, job, left, torn, crashes, edits>>

\* A child completes the mirror of a tarea.
Complete(t) ==
  /\ phase # "dawn" /\ t \notin done
  /\ done' = done \cup {t}
  /\ UNCHANGED <<notion, mirror, cronned, clock, pc, job, history, crashes, edits>>

\* Habitica resets a member's dailies once a day, at any hour, or not at all.
HabiticaCron(m) ==
  /\ m \notin cronned
  /\ cronned' = cronned \cup {m}
  /\ mirror' = [x \in Mirrors |->
                  IF x[2] = m /\ mirror[x] = "ticked" THEN "open" ELSE mirror[x]]
  /\ UNCHANGED <<notion, done, clock, pc, job, history, crashes, edits>>

\* A parent records the result of a row.
RecordByHand(r, e) ==
  /\ edits < MaxEdits /\ crashes + edits < MaxEvents /\ edits' = edits + 1
  /\ r[1] \in ByHand /\ r[2] <= day /\ e # "Pendiente" /\ ~agenda[r].manual
  /\ agenda' = [agenda EXCEPT ![r].estado = e, ![r].manual = TRUE]
  /\ UNCHANGED <<estado, credits, habitica, clock, pc, job, history, crashes>>

\* The night: on some, push-definitions makes the mirrors that are gone anew.
Midnight ==
  /\ pc = "idle" /\ day < MaxDay
  /\ phase = "day"
  /\ day' = day + 1 /\ phase' = "dawn"
  /\ did' = {} /\ left' = {x \in Mirrors : mirror[x] = "ticked"} /\ cronned' = {}
  /\ mirror' = [x \in Mirrors |->
                  IF day \in PushDays /\ mirror[x] = "none" THEN "open" ELSE mirror[x]]
  /\ UNCHANGED <<notion, done, reconciled, pc, job, torn, crashes, edits>>

\* The hour of the first pull. Reconcile has ended, well or not, by its deadline
\* (startingDeadlineSeconds and activeDeadlineSeconds after 04:45).
Morning ==
  /\ phase = "dawn" /\ pc = "idle"
  /\ phase' = "day"
  /\ UNCHANGED <<notion, habitica, day, reconciled, pc, job, history, crashes, edits>>

-----------------------------------------------------------------------------

PullStep ==
  \/ Pull \/ PullDone
  \/ \E m \in Members : ListTasks(m)
  \/ \E r \in Routines : CreditPersonal(r) \/ ClaimPool(r)
  \/ \E x \in Mirrors : DeleteLoser(x)
  \/ \E t \in Tareas : CreditTarea(t) \/ MarkTarea(t)

ReconcileStep == Reconcile \/ ReconcileDone \/ \E r \in Rows : Fail(r)

Jobs == PullStep \/ ReconcileStep \/ Crash

Family ==
  \/ \E x \in Mirrors : Tick(x[1], x[2])
  \/ \E t \in Tareas : Complete(t)
  \/ \E r \in Rows, e \in Estados : RecordByHand(r, e)

Clock == Midnight \/ Morning \/ \E m \in Members : HabiticaCron(m)

Next == Jobs \/ Family \/ Clock

Spec == Init /\ [][Next]_vars

-----------------------------------------------------------------------------
(* Properties *)

\* Work that is ticked is credited: what Habitica showed ticked when a pull
\* looked is in the Agenda when the pull goes on to the next member or ends,
\* whatever died before or raced it, unless a parent decided the row
\* (pull_completions.py 1-6: run hourly, or work completed "would vanish").
WorkIsCredited ==
  Listing =>
    /\ \A t \in Tareas \cap job.seen : credits[t] >= 1
    /\ \A x \in Mirrors \cap job.seen :
         LET row == agenda[RowOf(x[1], x[2])] IN row.estado = "Hecha" \/ row.manual

\* A job has made the row Hecha.
JobCredits(r) == agenda'[r] # agenda[r] /\ agenda'[r].estado = "Hecha" /\ ~agenda'[r].manual

\* Nothing else is credited: a row becomes Hecha on its own day, for a member who
\* ticked its routine that day, or whose tick of an earlier day was there at midnight
\* and still there when the pull looked. In that second case the code credits today's
\* row for yesterday's work, as Habitica has not reset the member and the pull takes
\* any completed flag (pull_completions.py 119-123): nothing here prevents it.
OnlyWorkIsCredited ==
  [][\A r \in Rows : JobCredits(r) =>
       r[2] = day /\ <<r[1], agenda'[r].by>> \in did \cup (left \cap job.seen)]_vars

\* A row a job decided is not decided again by a job: no second winner of a pool row,
\* no failure of work that was credited (TASK-009: "transitions out of Pendiente
\* only, so re-runs cannot double-credit").
DecidedOnce ==
  [][\A r \in Rows :
       agenda[r].estado # "Pendiente" /\ ~agenda[r].manual /\ agenda'[r] # agenda[r]
         => edits' # edits]_vars

\* A tarea is credited once (README of family-agile-sync: "A Tarea only pays once",
\* "Re-running after a crash cannot double-credit"). The code credits it again when
\* a pull dies between the two writes of pull_completions.py 235-241.
TareaPaysOnce == \A t \in Tareas : credits[t] <= 1

\* What the code does keep of TareaPaysOnce: only a death between a tarea's own row
\* and its own Estado pays it again, and each such death once; other deaths, other
\* members' tareas and results recorded by hand never do.
PaysOnceUnlessTorn == \A t \in Tareas : credits[t] <= 1 + torn[t]

\* Missed mandatory work is failed: when a reconcile of a day has finished, no row of
\* that day is undecided but pool rows, which are nobody's, and rows of parents; and
\* no pull, edit or later death makes one undecided again. A night whose reconcile
\* died every time leaves its rows undecided: none looks at that day again.
MissesFail ==
  \A r \in PersonalRows : r[1] \in Mandatory /\ r[2] \in reconciled => ~IsOpen(r)
=============================================================================
