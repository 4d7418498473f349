------------------------------- MODULE Ledger -------------------------------
(***************************************************************************)
(* What one member's work is worth (family-agile-sync): the points that    *)
(* pull-completions and reconcile write on Agenda rows as they decide      *)
(* them, and the Corte that close-cycle works out of the same rows two     *)
(* weeks later (rules.py, repo.to_events).                                 *)
(*                                                                         *)
(* The two are worked out apart: a row's points from the catalogue of the  *)
(* day it was decided, the Corte from the catalogue of the payday.  In     *)
(* between parents edit the catalogue, record results by hand and grant    *)
(* appeals.  A job loads the catalogue and the rows once, writes one row   *)
(* at a time, and may die after any of them; one job is at work at a time  *)
(* (of a pull that goes on beside close-cycle, the Corte has the rows      *)
(* written so far, as it has of one that died).  CYCLE_FORCE_CLOSE is off. *)
(* The calls a job makes, and those that fail, are in Completions and      *)
(* CycleClose.                                                             *)
(***************************************************************************)
EXTENDS Calendar, FiniteSets, Functions

CONSTANTS
  Routines, Tareas, \* the catalogue
  RoutineDefs,      \* what Tipo, Dificultad and Paga of a routine may be
  TareaDefs,        \* the same of a tarea, which pays if in the economy and approved
  AtFirst,          \* the catalogue in the beginning
  Anchor,           \* CYCLE_ANCHOR_FRIDAY
  Days,             \* bound: the days of the story; on the days between nothing happens
  Occurrences,      \* the rows of routines: an item, a day and a number each
  MaxRows,          \* bound on the rows of a tarea
  Appeals,          \* points a parent may set on a row
  NoPoints,         \* Puntos aplicados, unset
  MaxByParents      \* bound on what parents do

Items == Routines \cup Tareas
Definitions(i) == IF i \in Routines THEN RoutineDefs ELSE TareaDefs

Unset == "unset" \* a Tipo or a Dificultad that is missing or unknown

ASSUME LedgerAssumption ==
  /\ Routines \cap Tareas = {} /\ Anchor \in Nat /\ Weekday(Anchor) = Friday
  /\ Days \subseteq Nat /\ Days # {}
  /\ Occurrences \subseteq Routines \X Days \X {1} /\ IsFiniteSet(Occurrences)
  /\ Appeals \subseteq Int /\ NoPoints \notin Int
  /\ DOMAIN AtFirst = Items /\ \A i \in Items : AtFirst[i] \in Definitions(i)
  /\ \A d \in RoutineDefs \cup TareaDefs :
       d.difficulty \in {"Facil", "Intermedia", "Compleja", Unset} /\ d.paga \in BOOLEAN
  /\ \A d \in TareaDefs : d.kind = "To-Do"
  /\ MaxByParents \in Nat /\ MaxRows \in Nat

VARIABLES
  today,
  defs,   \* Rutinas and Tareas: the definition of each item
  rows,   \* Agenda: Estado, Puntos aplicados, Ajustado and Origen of each row
  hecha,  \* the tareas whose own Estado is Hecha
  pc, job, \* the job at work, and what it loaded
  cortes, \* Corte quincenal, and what the Agenda showed when it was written
  edited, \* history: the items that were edited
  byparents \* counter, for the bound

vars == <<today, defs, rows, hecha, pc, job, cortes, edited, byparents>>
parents == <<defs, edited, byparents>>

Pendiente == [estado |-> "Pendiente", points |-> NoPoints, adjusted |-> FALSE, manual |-> FALSE]
NoJob == [defs |-> AtFirst, open |-> {}, todos |-> {}, marking |-> {}]

Init ==
  /\ today = Earliest(Days) /\ defs = AtFirst
  /\ rows = [r \in Occurrences |-> Pendiente]
  /\ hecha = {} /\ pc = "idle" /\ job = NoJob /\ cortes = {}
  /\ edited = {} /\ byparents = 0

-----------------------------------------------------------------------------
(* The table of points *)

POINTS == [Facil |-> [value |-> 5, penalty |-> 2],
           Intermedia |-> [value |-> 10, penalty |-> 5],
           Compleja |-> [value |-> 25, penalty |-> 12]]
MANDATORY_EARNED == [Facil |-> 1, Intermedia |-> 2, Compleja |-> 3]

points_earned(difficulty) == POINTS[difficulty].value
points_done(difficulty, kind) ==
  IF kind = "Mandatory" THEN MANDATORY_EARNED[difficulty] ELSE points_earned(difficulty)
points_failed(difficulty, kind) == IF kind = "Mandatory" THEN POINTS[difficulty].penalty ELSE 0
signed_points(difficulty, kind, outcome) ==
  CASE outcome = "Hecha" -> points_done(difficulty, kind)
    [] outcome = "Fallada" -> -points_failed(difficulty, kind)
    [] OTHER -> 0

\* Whether an item's rows reach the money rules at all.
Counts(def) == def.paga /\ def.difficulty # Unset /\ def.kind # Unset
\* What a job writes on a row that it decides.
Credit(def, outcome) ==
  IF Counts(def) THEN signed_points(def.difficulty, def.kind, outcome) ELSE 0

-----------------------------------------------------------------------------
(* From Agenda rows to a Corte *)

\* The events of the rows that pay, by row.
to_events(agenda, catalogue) ==
  [r \in {x \in DOMAIN agenda : Counts(catalogue[x[1]])} |->
     [day |-> r[2], kind |-> catalogue[r[1]].kind, difficulty |-> catalogue[r[1]].difficulty,
      points |-> IF agenda[r].adjusted /\ agenda[r].points # NoPoints THEN agenda[r].points
                 ELSE Credit(catalogue[r[1]], agenda[r].estado)]]

Above(n) == IF n > 0 THEN n ELSE 0
Earned(events) == SumFunction([r \in DOMAIN events |-> Above(events[r].points)])
Penalty(events) == SumFunction([r \in DOMAIN events |-> Above(-events[r].points)])

\* Mutant of MandatoryValue: a share of what was done, not of what was due.
ValueDone(events) ==
  SumFunction([r \in DOMAIN events |-> IF events[r].kind = "Mandatory" /\ events[r].points > 0
                                       THEN points_earned(events[r].difficulty) ELSE 0])

\* Mutant of MandatoryValue: a share of what mandatory work earns, not of its face value.
ValueEarned(events) ==
  SumFunction([r \in DOMAIN events |-> IF events[r].kind = "Mandatory"
                                       THEN points_done(events[r].difficulty, "Mandatory")
                                       ELSE 0])

FaceValue(event) == IF event.kind = "Mandatory" THEN points_earned(event.difficulty) ELSE 0
MandatoryValue(events) == SumFunction([r \in DOMAIN events |-> FaceValue(events[r])])

settle_day(events) ==
  LET raw == Penalty(events)
      cap == MandatoryValue(events) \div 2
  IN [earned |-> Earned(events), applied |-> IF raw < cap THEN raw ELSE cap, capped |-> cap < raw]

\* The counts of the Corte, and its conversion to colones, are left out.
close_cycle(events, start, end) ==
  LET in_range == {r \in DOMAIN events : start <= events[r].day /\ events[r].day <= end}
      days == {events[r].day : r \in in_range}
      day_results ==
        [d \in days |-> settle_day(Restrict(events, {r \in in_range : events[r].day = d}))]
      raw_net == SumFunction([d \in days |-> day_results[d].earned])
                 - SumFunction([d \in days |-> day_results[d].applied])
  IN [net |-> IF raw_net < 0 THEN 0 ELSE raw_net,
      cap |-> \E d \in days : day_results[d].capped]

-----------------------------------------------------------------------------
(* The jobs *)

\* Rows of the day that are undecided and not a parent's.
OpenRows(day) ==
  {r \in DOMAIN rows : r[2] = day /\ rows[r].estado = "Pendiente" /\ ~rows[r].manual}

StartPull ==
  /\ pc = "idle" /\ pc' = "pull"
  /\ job' = [NoJob EXCEPT !.defs = defs, !.open = OpenRows(today),
                          !.todos = {t \in Tareas \ hecha : Counts(defs[t])}]
  /\ UNCHANGED <<today, rows, hecha, cortes, parents>>

\* A routine whose mirror was ticked.  Ajustado stays as it is.
CreditRoutine(r) ==
  /\ pc = "pull" /\ job.marking = {} /\ r \in job.open
  /\ rows' = [rows EXCEPT ![r].estado = "Hecha", ![r].manual = FALSE,
                          ![r].points = Credit(job.defs[r[1]], "Hecha")]
  /\ job' = [job EXCEPT !.open = @ \ {r}]
  /\ UNCHANGED <<today, hecha, pc, cortes, parents>>

\* A tarea that was completed gets a row: create_page.
CreditTarea(t) ==
  /\ pc = "pull" /\ job.marking = {} /\ t \in job.todos
  /\ Cardinality({r \in DOMAIN rows : r[1] = t}) < MaxRows
  /\ \E n \in 1 .. MaxRows :
       LET new == <<t, today, n>>
           row == [Pendiente EXCEPT !.estado = "Hecha",
                                    !.points = points_earned(job.defs[t].difficulty)]
       IN /\ new \notin DOMAIN rows /\ \A k \in 1 .. n - 1 : <<t, today, k>> \in DOMAIN rows
          /\ rows' = [r \in DOMAIN rows \cup {new} |-> IF r = new THEN row ELSE rows[r]]
  /\ job' = [job EXCEPT !.todos = @ \ {t}, !.marking = {t}]
  /\ UNCHANGED <<today, hecha, pc, cortes, parents>>

\* Then its own Estado is set, which is what the next pull goes by.
MarkTarea(t) ==
  /\ pc = "pull" /\ t \in job.marking
  /\ hecha' = hecha \cup {t}
  /\ job' = [job EXCEPT !.marking = {}]
  /\ UNCHANGED <<today, rows, pc, cortes, parents>>

\* reconcile looks at the day before.
StartReconcile ==
  /\ pc = "idle" /\ pc' = "reconcile"
  /\ job' = [NoJob EXCEPT !.defs = defs,
               !.open = {r \in OpenRows(today - 1) : defs[r[1]].kind = "Mandatory"}]
  /\ UNCHANGED <<today, rows, hecha, cortes, parents>>

Fail(r) ==
  /\ pc = "reconcile" /\ r \in job.open
  /\ rows' = [rows EXCEPT ![r].estado = "Fallada",
                          ![r].points = Credit(job.defs[r[1]], "Fallada")]
  /\ job' = [job EXCEPT !.open = @ \ {r}]
  /\ UNCHANGED <<today, hecha, pc, cortes, parents>>

\* The run is done, or it dies.
EndRun ==
  /\ pc # "idle" /\ pc' = "idle" /\ job' = NoJob
  /\ UNCHANGED <<today, rows, hecha, cortes, parents>>

\* close-cycle on a payday: the catalogue is loaded before the rows.
LoadToClose ==
  /\ pc = "idle" /\ today = cycle_bounds(today, Anchor)[2]
  /\ pc' = "close" /\ job' = [NoJob EXCEPT !.defs = defs]
  /\ UNCHANGED <<today, rows, hecha, cortes, parents>>

\* Mutant of StartClose: a second Corte is written beside the first.
StartCloseAgain == LoadToClose

\* A Corte that is there is reused.
StartClose == LoadToClose /\ \A c \in cortes : c.desde # cycle_bounds(today, Anchor)[1]

\* The rows whose payday it is: the first Friday of the fortnightly rhythm that is
\* not before them.
Payday(d) == Earliest({e \in d..(d + 13) : (e - Anchor) % 14 = 0})
OfPayday(d) == {r \in DOMAIN rows : Payday(r[2]) = d}

\* What the Agenda shows of these rows, and whether parents had a hand in it.
Shown(agenda) ==
  SumFunction([r \in agenda |-> IF rows[r].points = NoPoints THEN 0 ELSE rows[r].points])
ByParents(agenda) ==
  \E r \in agenda : r[1] \in edited \/ rows[r].manual \/ (rows[r].adjusted /\ ~Counts(defs[r[1]]))

Settle ==
  LET bounds == cycle_bounds(today, Anchor)
      summary == close_cycle(to_events(rows, job.defs), bounds[1], bounds[2])
      agenda == OfPayday(today)
  IN /\ pc = "close" /\ pc' = "idle" /\ job' = NoJob
     /\ cortes' = cortes \cup {[ciclo |-> cycle_label(today, Anchor), desde |-> bounds[1],
                               net |-> summary.net, cap |-> summary.cap,
                               shown |-> Shown(agenda), byparents |-> ByParents(agenda),
                               appealed |-> \E r \in agenda : rows[r].adjusted]}
     /\ UNCHANGED <<today, rows, hecha, parents>>

-----------------------------------------------------------------------------
(* Parents, and the clock *)

ByParent == byparents < MaxByParents /\ byparents' = byparents + 1
Came == {r \in DOMAIN rows : r[2] <= today} \* results are recorded once the day has come

EditItem(i) ==
  /\ ByParent
  /\ \E def \in Definitions(i) \ {defs[i]} : defs' = [defs EXCEPT ![i] = def]
  /\ edited' = edited \cup {i}
  /\ UNCHANGED <<today, rows, hecha, pc, job, cortes>>

\* A result set in Notion, Origen = Manual: no points are written.
RecordByHand(r) ==
  /\ r \in Came /\ ByParent
  /\ \E estado \in {"Hecha", "Fallada"} :
       rows' = [rows EXCEPT ![r].estado = estado, ![r].manual = TRUE]
  /\ UNCHANGED <<today, defs, hecha, pc, job, cortes, edited>>

\* Ajustado, with the points that count from then on.
Appeal(r) ==
  /\ r \in Came /\ ByParent
  /\ \E p \in Appeals : rows' = [rows EXCEPT ![r].adjusted = TRUE, ![r].points = p]
  /\ UNCHANGED <<today, defs, hecha, pc, job, cortes, edited>>

Later == {d \in Days : d > today}
NextDay ==
  /\ pc = "idle" /\ Later # {} /\ today' = Earliest(Later)
  /\ UNCHANGED <<rows, hecha, pc, job, cortes, parents>>

Next ==
  \/ StartPull \/ StartReconcile \/ StartClose \/ Settle \/ EndRun \/ NextDay
  \/ \E r \in DOMAIN rows : CreditRoutine(r) \/ Fail(r) \/ RecordByHand(r) \/ Appeal(r)
  \/ \E t \in Tareas : CreditTarea(t) \/ MarkTarea(t)
  \/ \E i \in Items : EditItem(i)

Spec == Init /\ [][Next]_vars

-----------------------------------------------------------------------------
\* Every variable holds what the code may put there, no Corte is negative, and its title
\* names one cycle.
TypeOK ==
  /\ today \in Days /\ \A i \in Items : defs[i] \in Definitions(i)
  /\ Occurrences \subseteq DOMAIN rows /\ DOMAIN rows \subseteq Items \X Days \X Nat
  /\ \A r \in DOMAIN rows : rows[r] \in
       [estado : {"Pendiente", "Hecha", "Fallada"},
        points : (-25..25) \cup Appeals \cup {NoPoints}, adjusted : BOOLEAN, manual : BOOLEAN]
  /\ hecha \subseteq Tareas
  /\ pc \in {"idle", "pull", "reconcile", "close"} /\ job.open \subseteq DOMAIN rows
  /\ \A c \in cortes : c.net \in Nat
  /\ \A c, d \in cortes : c.ciclo = d.ciclo => c = d

(***************************************************************************)
(* A Corte is the sum of the points that its fortnight's rows showed at    *)
(* the moment it was worked out, not below zero, a tarea that has two rows *)
(* twice (pull_completions.py:131 "so Agenda matches the Corte").  Unless  *)
(* the catalogue was edited, a result was recorded by hand, or an appeal   *)
(* set points on a row that does not pay.  And the daily cap bites only    *)
(* where an appeal subtracted: the table alone never reaches it.  It is    *)
(* not kept after that moment: the pulls of the payday's evening and the   *)
(* reconcile of the next morning decide rows of a cycle that is paid.      *)
(***************************************************************************)
AgendaMatchesCorte ==
  \A c \in cortes : ~c.byparents =>
    /\ c.cap => c.appealed
    /\ ~c.cap => c.net = Above(c.shown)

(***************************************************************************)
(* Work never costs: whatever else the day holds, an occurrence that is    *)
(* done leaves the fortnight's net no lower than the same occurrence       *)
(* undone or failed.  (rules.py:145: a bad day must not erase the cycle,   *)
(* so the cap must not grow with what was done.)                           *)
(***************************************************************************)
NetOf(agenda) ==
  LET bounds == cycle_bounds(today, Anchor)
  IN close_cycle(to_events(agenda, defs), bounds[1], bounds[2]).net

WorkNeverCosts ==
  \A r \in DOMAIN rows : ~rows[r].adjusted =>
    NetOf([rows EXCEPT ![r].estado = "Hecha"]) >= NetOf(rows)
=============================================================================
