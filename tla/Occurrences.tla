---------------------------- MODULE Occurrences -----------------------------
(***************************************************************************)
(* generate-occurrences (family-agile-sync): the nightly job that creates  *)
(* the Agenda rows of the days ahead from the catalogue of routines.       *)
(*                                                                         *)
(* It reads the catalogue and the rows of its horizon once and then only   *)
(* creates pages, one call at a time.  A create that fails ends the run    *)
(* and may have been served all the same (Notion's client never repeats    *)
(* one); the pod may die; one run is at work at a time (concurrencyPolicy  *)
(* Forbid).  Days pass, with or without a run, and parents edit routines   *)
(* and rows in between.                                                    *)
(***************************************************************************)
EXTENDS Calendar, FiniteSets

CONSTANTS
  Routines,  \* the catalogue
  Members,   \* who a routine may be for
  Pool,      \* the routines of modality Pool, with one unclaimed row a day
  Schedules, \* what the routines' schedule may be, all of one at a time
  Starts,    \* the days on which the story may start
  Horizon,   \* GENERATE_HORIZON_DAYS
  MaxDays,   \* bound on the days that pass
  Ahead,     \* bound on how far ahead the calendar itself is looked at
  MaxEdits,  \* bound on the edits of parents
  MaxFaults  \* bound on the calls that fail and the pods that die

ASSUME OccurrencesAssumption ==
  /\ Pool \subseteq Routines /\ Horizon \in Nat \ {0}
  /\ Starts \subseteq Nat \ {0} \* no ordinal is 0
  /\ MaxDays \in Nat /\ Ahead \in Nat /\ Horizon <= Ahead
  /\ MaxEdits \in Nat /\ MaxFaults \in Nat

(***************************************************************************)
(* What Notion lets a parent enter, and the one thing it does not enforce: *)
(* Vigente desde of a fortnightly routine falls on one of its weekdays     *)
(* ("always lands on the listed day", rules.py:511).                       *)
(***************************************************************************)
ASSUME SchedulesAssumption ==
  \A s \in Schedules :
    /\ s.dias \subseteq 0..6 /\ s.desde \in Nat /\ s.dia \in Nat
    /\ s.recurrencia = "Quincenal" /\ s.desde # None => Weekday(s.desde) \in s.dias

VARIABLES
  start, today, \* the first day, and this one
  routine, \* Rutinas: schedule, members and Vigente hasta of each
  rows,    \* Agenda: how many rows a routine, a day and a member have
  pc, job, \* the run, and its local variables
  edits, faults, \* counters, for the bounds
  filled,  \* history: the end of the horizon of the last run with no edit since it loaded
  moved    \* history: the slots to which a parent took a row by hand

vars == <<start, today, routine, rows, pc, job, edits, faults, filled, moved>>

Nobody == "nobody"
Slots == Routines \X Nat \X (Members \cup {Nobody})
RowsOf(slot) == IF slot \in DOMAIN rows THEN rows[slot] ELSE 0
Targets(r, rec) == IF r \in Pool THEN {Nobody} ELSE rec.members

\* Mutant of Changed: a slot whose last row is deleted stays listed.
ChangedToNone(slot, by) ==
  [s \in DOMAIN rows \cup {slot} |-> IF s = slot THEN RowsOf(slot) + by ELSE rows[s]]

Changed(slot, by) ==
  LET n == RowsOf(slot) + by
      others == DOMAIN rows \ {slot}
  IN [s \in others \cup (IF n > 0 THEN {slot} ELSE {}) |-> IF s = slot THEN n ELSE rows[s]]

\* The days of the story, and a schedule's occurrences among them: worked out only once.
Days == UNION {s..(s + MaxDays + Ahead) : s \in Starts}
OccurrenceDays == {<<d, s, occurs_on(d, s)>> : d \in Days, s \in Schedules}

\* Mutant of Wanted: the last day of the horizon is left out.
WantedButLast(recs, from) ==
  {s \in Routines \X (from..(from + Horizon - 2)) \X (Members \cup {Nobody}) :
     LET rec == recs[s[1]]
     IN /\ ~rec.retired /\ s[3] \in Targets(s[1], rec)
        /\ <<s[2], rec.schedule, TRUE>> \in OccurrenceDays}

\* The occurrences of the horizon, each with whoever is to have a row for it.
Wanted(recs, from) ==
  {s \in Routines \X (from..(from + Horizon - 1)) \X (Members \cup {Nobody}) :
     LET rec == recs[s[1]]
     IN /\ ~rec.retired /\ s[3] \in Targets(s[1], rec)
        /\ <<s[2], rec.schedule, TRUE>> \in OccurrenceDays}

\* A routine's day and a member stand for one row; a pool routine's day for one in all.
SameOccurrence(s, t) == s = t \/ (s[1] \in Pool /\ s[1] = t[1] /\ s[2] = t[2])

\* Mutant of Taken: a pool row that was claimed does not count.
TakenUnclaimed(slot, occupied) == slot \in occupied

\* A pool occurrence is taken by any row of its day, claimed or not.
Taken(slot, occupied) ==
  \E s \in occupied : SameOccurrence(slot, s)

NoLocals == [today |-> 0, todo |-> {}, dirty |-> FALSE]

Init ==
  /\ start \in Starts /\ today = start
  /\ \E s \in Schedules :
       routine = [r \in Routines |-> [schedule |-> s, members |-> Members, retired |-> FALSE]]
  /\ rows = <<>> /\ pc = "idle" /\ job = NoLocals
  /\ edits = 0 /\ faults = 0 /\ filled = 0 /\ moved = {}

\* run: the catalogue and the horizon's rows are read; the slots to create follow.
Load ==
  /\ pc = "idle" /\ pc' = "create"
  /\ LET inHorizon == {s \in DOMAIN rows : s[2] \in today..(today + Horizon - 1)}
     IN job' = [today |-> today,
                todo |-> {s \in Wanted(routine, today) : ~Taken(s, inHorizon)},
                dirty |-> FALSE]
  /\ UNCHANGED <<start, today, routine, rows, edits, faults, filled, moved>>

Fault == faults < MaxFaults /\ faults' = faults + 1 /\ pc' = "idle" /\ job' = NoLocals

(***************************************************************************)
(* create_page for the next slot, which is then taken: of the loops' order *)
(* only that a routine's days come one after the other matters.            *)
(***************************************************************************)
CreateRow ==
  /\ pc = "create" /\ job.todo # {}
  /\ LET slot == CHOOSE s \in job.todo : \A t \in job.todo : s[2] <= t[2]
     IN \/ /\ rows' = Changed(slot, 1) /\ UNCHANGED <<pc, faults>>
           /\ job' = [job EXCEPT !.todo = @ \ {slot}]
        \/ Fault /\ rows' \in {rows, Changed(slot, 1)}
  /\ UNCHANGED <<start, today, routine, edits, filled, moved>>

Finish ==
  /\ pc = "create" /\ job.todo = {}
  /\ pc' = "idle" /\ job' = NoLocals
  /\ filled' = IF job.dirty THEN filled ELSE job.today + Horizon - 1
  /\ UNCHANGED <<start, today, routine, rows, edits, faults, moved>>

Die == /\ pc # "idle" /\ Fault
       /\ UNCHANGED <<start, today, routine, rows, edits, filled, moved>>

\* Midnight; no job looks at the rows of past days again.
NewDay ==
  /\ today < start + MaxDays /\ today' = today + 1
  /\ rows' = [s \in {s \in DOMAIN rows : s[2] > today} |-> rows[s]]
  /\ UNCHANGED <<start, routine, pc, job, edits, faults, filled, moved>>

Edit == /\ edits < MaxEdits /\ edits' = edits + 1
        /\ filled' = 0 /\ job' = [job EXCEPT !.dirty = pc # "idle"]
        /\ UNCHANGED <<start, today, pc, faults>>

\* A parent retires a routine, takes it up again or changes whose it is.
EditRoutine(r) ==
  /\ \/ routine' = [routine EXCEPT ![r].retired = ~@]
     \/ \E S \in SUBSET Members \ {routine[r].members} :
          routine' = [routine EXCEPT ![r].members = S]
  /\ Edit /\ UNCHANGED <<rows, moved>>

\* A parent deletes a row, gives it to someone else (pull-completions does so with
\* an unclaimed pool row), or types one in.
EditRow(slot) ==
  /\ \/ RowsOf(slot) > 0 /\ rows' = Changed(slot, -1) /\ UNCHANGED moved
     \/ /\ RowsOf(slot) > 0
        /\ \E m \in Members \ {slot[3]} :
             LET to == <<slot[1], slot[2], m>> IN
             /\ rows' = [s \in (DOMAIN Changed(slot, -1)) \cup {to} |->
                           IF s = to THEN RowsOf(to) + 1 ELSE Changed(slot, -1)[s]]
             /\ moved' = moved \cup (IF slot[1] \in Pool THEN {} ELSE {to})
     \/ rows' = Changed(slot, 1) /\ moved' = moved \cup {slot}
  /\ Edit /\ UNCHANGED routine

\* The slots a parent cares about: of today and tomorrow.
Near == {s \in Routines \X {today, today + 1} \X (Members \cup {Nobody}) :
           s[1] \in Pool \/ s[3] # Nobody}

Next ==
  \/ Load \/ CreateRow \/ Finish \/ Die \/ NewDay
  \/ \E r \in Routines : EditRoutine(r)
  \/ \E slot \in Near : EditRow(slot)

Spec == Init /\ [][Next]_vars

-----------------------------------------------------------------------------
\* Every variable holds what the code may put there.
TypeOK ==
  /\ start \in Starts /\ today \in start..(start + MaxDays) /\ pc \in {"idle", "create"}
  /\ routine \in [Routines -> [schedule : Schedules, members : SUBSET Members, retired : BOOLEAN]]
  /\ DOMAIN rows \subseteq Slots /\ \A s \in DOMAIN rows : rows[s] \in Nat \ {0}
  /\ job \in [today : Nat, todo : SUBSET Slots, dirty : BOOLEAN]
  /\ edits \in 0..MaxEdits /\ faults \in 0..MaxFaults
  /\ filled \in Nat /\ moved \subseteq Slots

(***************************************************************************)
(* Runs that crash, are repeated or overlap midnight never leave two rows  *)
(* for one slot ("Idempotent by construction", generate_occurrences.py:    *)
(* 16): only where a parent put one by hand is there a second.  A pool     *)
(* occurrence has one row, whoever claimed it.                             *)
(***************************************************************************)
ByHand(s) == \E t \in moved : SameOccurrence(s, t)

OneRowPerSlot ==
  \A s \in DOMAIN rows : ~ByHand(s) =>
    rows[s] = 1 /\ \A t \in DOMAIN rows : SameOccurrence(s, t) => t = s

(***************************************************************************)
(* Once a run has completed, every occurrence of its horizon has its row   *)
(* until that horizon is over, though nights pass without a run: reconcile *)
(* can fail a mandatory day only if its row is there.                      *)
(***************************************************************************)
HorizonIsFilled ==
  filled >= today =>
    \A s \in Wanted(routine, today) : s[2] <= filled => Taken(s, DOMAIN rows)

(***************************************************************************)
(* What MirrorFallsOnARow leaves out: a weekly routine pushed before its   *)
(* Vigente desde, and a monthly or quarterly one in its first period if    *)
(* its first day of that month lies before Vigente desde.  The code does   *)
(* not keep it for these: the date then comes before Vigente desde,        *)
(* although rules.py:432-433 says "A period never starts before            *)
(* `vigente_desde` itself".                                                *)
(***************************************************************************)
InForce(s, day) ==
  CASE s.recurrencia = "Semanal" -> day >= s.desde
    [] s.recurrencia = "Quincenal" -> TRUE
    [] OTHER -> \/ current_todo_occurrence(s, s.desde) >= s.desde
                \/ MonthsBetween(s.desde, day) >= StepMonths(s.recurrencia)

(***************************************************************************)
(* The date on a recreated to-do of a routine that is in force is a day on *)
(* which the routine has a row, today and as far ahead as is looked: short *)
(* months, fifth weekdays, fortnights and quarters put it on no other day. *)
(***************************************************************************)
MirrorOnARow(s, day) == HasOccurrence(s) /\ InForce(s, day) => occurs_on(MirrorDate(s, day), s)
MirrorDays == {<<d, s, MirrorOnARow(s, d)>> : d \in Days, s \in Schedules}

MirrorFallsOnARow ==
  \A r \in Routines : (today..(today + Ahead)) \X {routine[r].schedule} \X {TRUE} \subseteq MirrorDays
=============================================================================
