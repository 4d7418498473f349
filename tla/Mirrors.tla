------------------------------ MODULE Mirrors -------------------------------
(***************************************************************************)
(* push-definitions (family-agile-sync, jobs/push_definitions.py): the     *)
(* weekly job that keeps one Habitica task, the mirror, per live routine   *)
(* and target member, and one per paying tarea.                            *)
(*                                                                         *)
(* Notion holds the definitions and the ids of the mirrors, Habitica the   *)
(* mirrors.  The job reads Notion once, then works through it call by      *)
(* call; every call may fail, with or without its effect, and the pod may  *)
(* die.  Meanwhile parents edit definitions and children their tasks.      *)
(* DRY_RUN, which writes nothing, is left out; every member is active and  *)
(* has credentials.                                                        *)
(***************************************************************************)
EXTENDS Integers, FiniteSets

CONSTANTS
  Members,   \* the children's accounts
  Routines,  \* routines of the catalogue
  Tareas,    \* one-off to-dos of the catalogue
  Assignee,  \* the Miembro of a tarea
  AtFirst,   \* the routines' records before the first push
  MaxFaults, \* bound on calls that fail and pods that die
  MaxEvents  \* bound on these and on what parents and children do

ASSUME MirrorsAssumption ==
  /\ Assignee \in [Tareas -> Members] /\ Routines \cap Tareas = {}
  /\ MaxFaults \in Nat /\ MaxEvents \in Nat

VARIABLES
  routine, \* Rutinas: what the push reads of a page, and 'Habitica Task ID'
  tarea,   \* Tareas
  tasks,   \* Habitica's tasks that are mirrors, by id
  pc, job, \* the push, and its local variables
  last,    \* the last id Habitica gave
  edits, faults, \* counters, for the bounds
  clean,   \* history: no fault and no edit since the last push loaded
  turned   \* history: routines whose recurrence changed to a recreated to-do

notion == <<routine, tarea>>
vars == <<notion, tasks, pc, job, last, edits, faults, clean, turned>>

NoId == 0
NoIds == [m \in Members |-> NoId]

Routine == [targets : SUBSET Members,
            retired : BOOLEAN,    \* Vigente hasta is set
            todo    : BOOLEAN,    \* recreated_todo: not weekly, or a weekly to-do
            dated   : BOOLEAN,    \* its current occurrence can be computed
            text    : {0, 1},     \* the rest of its payload
            ids     : [Members -> Nat]]
\* Before the first push no page names a mirror.
ASSUME AtFirstAssumption ==
  AtFirst \in [Routines -> Routine] /\ \A r \in Routines : AtFirst[r].ids = NoIds

Tarea == [pays : BOOLEAN, hecha : BOOLEAN, id : Nat]
Task == [of : Routines \cup Tareas, member : Members, todo : BOOLEAN, text : {0, 1},
         completed : BOOLEAN]

IdsOf(item) == IF item \in Routines THEN {routine[item].ids[m] : m \in Members} \ {NoId}
               ELSE {tarea[item].id} \ {NoId}
Locals == [routine |-> routine, tarea |-> tarea, todo |-> Routines \cup Tareas,
           item |-> CHOOSE r \in Routines : TRUE, left |-> {}, ids |-> NoIds,
           listed |-> [m \in Members |-> "unread"], live |-> [m \in Members |-> <<>>],
           kept |-> {}, prune |-> FALSE]
NoLocals == [todo |-> {}]

Init ==
  /\ routine = AtFirst /\ tarea = [t \in Tareas |-> [pays |-> FALSE, hecha |-> FALSE, id |-> NoId]]
  /\ tasks = <<>> /\ last = 0 /\ pc = "idle" /\ job = NoLocals
  /\ edits = 0 /\ faults = 0 /\ clean = FALSE /\ turned = {}

Without(f, id) == [i \in DOMAIN f \ {id} |-> f[i]]
TheFirst(S) == CHOOSE x \in S : TRUE \* Notion returns pages and people in one fixed order
Fine == UNCHANGED <<faults, clean>>
Fault == /\ faults < MaxFaults /\ edits + faults < MaxEvents
         /\ faults' = faults + 1 /\ clean' = FALSE

\* A live routine that the push mirrors; it passes over the others without a word to Habitica.
Mirrored(rec) == ~rec.retired /\ rec.targets # {} /\ (rec.todo => rec.dated)

-----------------------------------------------------------------------------
(* Calls, each with its fault-free outcome and its failures. *)

(***************************************************************************)
(* create_task.  _request repeats a POST whose answer was lost, so that    *)
(* one call may leave two tasks, and its last failure may leave one.       *)
(***************************************************************************)
CreateTask(task, Then(_)) ==
  \E made \in 0..2, answered \in BOOLEAN :
    /\ IF made = 1 /\ answered THEN Fine ELSE Fault /\ (made = 2) = answered
    /\ last' = last + made
    /\ tasks' = [i \in DOMAIN tasks \cup (last + 1)..(last + made) |->
                   IF i \in DOMAIN tasks THEN tasks[i] ELSE task]
    /\ Then(IF answered THEN last' ELSE NoId)

\* delete_task: deleting what is gone raises as well; every caller only logs it.
DeleteTask(id) ==
  \/ Fine /\ tasks' = Without(tasks, id)
  \/ id \in DOMAIN tasks /\ Fault /\ UNCHANGED tasks

\* Notion's update_page, idempotent: on failure it may have been served all the same.
UpdatePage(written, unwritten) ==
  \/ Fine /\ written
  \/ Fault /\ (written \/ unwritten)

-----------------------------------------------------------------------------
\* run: the three catalogues are read, nothing of Habitica's yet.
Load ==
  /\ pc = "idle" /\ pc' = "next"
  /\ \E prune \in BOOLEAN : job' = [Locals EXCEPT !.prune = prune]
  /\ clean' = TRUE
  /\ UNCHANGED <<notion, tasks, last, edits, faults, turned>>

\* The routines first, then the tareas, then the prune pass if it was asked for.
NextItem ==
  /\ pc = "next"
  /\ LET routines == job.todo \cap Routines
         item == TheFirst(IF routines # {} THEN routines ELSE job.todo)
     IN \/ /\ job.todo = {} /\ job.prune
           /\ job' = [job EXCEPT !.left = Members] /\ pc' = "prune"
        \/ /\ job.todo = {} /\ ~job.prune
           /\ job' = NoLocals /\ pc' = "idle"
        \/ /\ routines # {}
           /\ LET rec == job.routine[item]
                  mirrors == {m \in Members : rec.ids[m] # NoId}
              IN /\ job' = [job EXCEPT !.todo = @ \ {item}, !.item = item, !.ids = rec.ids,
                              !.left = IF rec.retired THEN mirrors ELSE rec.targets]
                 /\ pc' = CASE rec.retired /\ mirrors # {} -> "retire"
                            [] Mirrored(rec) -> "mirror"
                            [] OTHER -> "next"
        \/ /\ routines = {} /\ job.todo # {}
           /\ job' = [job EXCEPT !.todo = @ \ {item}, !.item = item] /\ pc' = "tarea"
  /\ UNCHANGED <<notion, tasks, last, edits, faults, clean, turned>>

\* _drop_retired_mirror: every mirror is deleted, then the page's map is cleared.
DropRetiredMirror ==
  /\ pc = "retire"
  /\ IF job.left # {}
     THEN LET m == TheFirst(job.left) IN
          /\ DeleteTask(job.ids[m]) /\ job' = [job EXCEPT !.left = @ \ {m}]
          /\ UNCHANGED <<pc, notion>>
     ELSE /\ UpdatePage(routine' = [routine EXCEPT ![job.item].ids = NoIds], UNCHANGED routine)
          /\ pc' = "next" /\ UNCHANGED <<job, tarea, tasks>>
  /\ UNCHANGED <<last, edits, turned>>

\* _member_tasks: a member's tasks are listed once; on failure the member is skipped.
ListTasks ==
  /\ pc = "mirror" /\ job.left # {}
  /\ LET m == TheFirst(job.left)
         seen == {i \in DOMAIN tasks : tasks[i].member = m}
     IN /\ job.listed[m] = "unread"
        /\ \/ Fine /\ job' = [job EXCEPT !.listed[m] = "read",
                                          !.live[m] = [i \in seen |-> tasks[i]]]
           \/ Fault /\ job' = [job EXCEPT !.listed[m] = "failed"]
  /\ UNCHANGED <<notion, tasks, pc, last, edits, turned>>

\* _create_mirror: a failure is left for the next run.
CreateMirror(m) ==
  LET rec == job.routine[job.item]
      created(id) == job' = [job EXCEPT !.left = @ \ {m},
                                        !.ids[m] = IF id = NoId THEN @ ELSE id]
  IN CreateTask([of |-> job.item, member |-> m, todo |-> rec.todo, text |-> rec.text,
                 completed |-> FALSE], created)

\* Mutant of Skips: a recreated to-do is left alone when it is done, too.
SkipsDone(rec, live, id) ==
  id \in DOMAIN live /\ (rec.todo \/ (live[id].text = rec.text /\ live[id].todo = rec.todo))

(***************************************************************************)
(* One target.  A recreated to-do is left alone while it is open, and a    *)
(* weekly mirror while it matches; a weekly mirror that is gone, in the    *)
(* listing or by the answer to the update, is created again.               *)
(***************************************************************************)
Skips(rec, live, id) ==
  id \in DOMAIN live /\ IF rec.todo THEN ~live[id].completed
                        ELSE live[id].text = rec.text /\ live[id].todo = rec.todo

MirrorTarget ==
  /\ pc = "mirror" /\ job.left # {}
  /\ LET m == TheFirst(job.left)
         rec == job.routine[job.item]
         id == job.ids[m]
         live == job.live[m]
         done == job' = [job EXCEPT !.left = @ \ {m}] /\ UNCHANGED last
         passed == job.listed[m] = "failed" \/ Skips(rec, live, id)
     IN /\ job.listed[m] # "unread"
        /\ CASE passed -> done /\ Fine /\ UNCHANGED tasks
             [] ~passed /\ ~rec.todo /\ id \in DOMAIN live ->
                  \/ /\ id \in DOMAIN tasks /\ Fine /\ done
                     /\ tasks' = [tasks EXCEPT ![id].text = rec.text, ![id].todo = FALSE]
                  \/ Fault /\ done /\ UNCHANGED tasks
                  \/ id \notin DOMAIN tasks /\ CreateMirror(m)
             [] OTHER -> CreateMirror(m)
  /\ UNCHANGED <<notion, pc, edits, turned>>

(***************************************************************************)
(* The rest of a routine: a member that is no target any more loses the    *)
(* mirror, deleted or not; what stays is kept from the prune pass; the map *)
(* goes to the page if it changed.                                         *)
(***************************************************************************)
Stale == {m \in Members : job.ids[m] # NoId} \ job.routine[job.item].targets

\* Mutant of Kept: a member without a mirror is not left out.
KeptNoId(ids, targets) == {ids[m] : m \in targets}

\* Mutant of Kept: only what was seen on the account is kept.
KeptSeen(ids, targets) == {ids[m] : m \in {x \in targets : job.listed[x] = "read"}} \ {NoId}

Kept(ids, targets) == {ids[m] : m \in targets} \ {NoId}

DropStaleMirror ==
  /\ pc = "mirror" /\ job.left = {} /\ Stale # {}
  /\ LET m == TheFirst(Stale)
     IN DeleteTask(job.ids[m]) /\ job' = [job EXCEPT !.ids[m] = NoId]
  /\ UNCHANGED <<notion, pc, last, edits, turned>>

\* Mutant of WriteMap: the map is compared by the members it has, not by the ids.
WriteMapMembers ==
  /\ pc = "mirror" /\ job.left = {} /\ Stale = {}
  /\ LET rec == job.routine[job.item]
         members(ids) == {m \in Members : ids[m] # NoId}
     IN /\ job' = [job EXCEPT !.kept = @ \cup Kept(job.ids, rec.targets)]
        /\ IF members(job.ids) = members(rec.ids) THEN Fine /\ UNCHANGED routine
           ELSE UpdatePage(routine' = [routine EXCEPT ![job.item].ids = job.ids],
                           UNCHANGED routine)
  /\ pc' = "next"
  /\ UNCHANGED <<tarea, tasks, last, edits, turned>>

WriteMap ==
  /\ pc = "mirror" /\ job.left = {} /\ Stale = {}
  /\ LET rec == job.routine[job.item]
     IN /\ job' = [job EXCEPT !.kept = @ \cup Kept(job.ids, rec.targets)]
        /\ IF job.ids = rec.ids THEN Fine /\ UNCHANGED routine
           ELSE UpdatePage(routine' = [routine EXCEPT ![job.item].ids = job.ids],
                           UNCHANGED routine)
  /\ pc' = "next"
  /\ UNCHANGED <<tarea, tasks, last, edits, turned>>

(***************************************************************************)
(* _push_tareas: a paying tarea gets one mirror and keeps it; the id of    *)
(* one that neither pays nor is Hecha is forgotten before a prune pass.    *)
(***************************************************************************)
PushTarea ==
  /\ pc = "tarea"
  /\ LET t == job.item
         rec == job.tarea[t]
         created(id) == /\ job' = [job EXCEPT !.ids[Assignee[t]] = id]
                        /\ pc' = IF id = NoId THEN "next" ELSE "written"
     IN CASE rec.pays /\ rec.id = NoId ->
               /\ CreateTask([of |-> t, member |-> Assignee[t], todo |-> TRUE, text |-> 0,
                              completed |-> FALSE], created)
               /\ UNCHANGED tarea
          [] rec.pays /\ rec.id # NoId ->
               /\ job' = [job EXCEPT !.kept = @ \cup {rec.id}] /\ pc' = "next"
               /\ Fine /\ UNCHANGED <<tarea, tasks, last>>
          [] OTHER ->
               /\ IF job.prune /\ rec.id # NoId /\ ~rec.hecha
                  THEN UpdatePage(tarea' = [tarea EXCEPT ![t].id = NoId], UNCHANGED tarea)
                  ELSE Fine /\ UNCHANGED tarea
               /\ pc' = "next" /\ UNCHANGED <<job, tasks, last>>
  /\ UNCHANGED <<routine, edits, turned>>

\* The id of a tarea's new mirror goes to its page; on failure the mirror is still kept.
WriteTareaId ==
  /\ pc = "written" /\ pc' = "next"
  /\ LET id == job.ids[Assignee[job.item]]
     IN /\ UpdatePage(tarea' = [tarea EXCEPT ![job.item].id = id], UNCHANGED tarea)
        /\ job' = [job EXCEPT !.kept = @ \cup {id}]
  /\ UNCHANGED <<routine, tasks, last, edits, turned>>

(***************************************************************************)
(* _prune_orphan_mirrors: member by member, the tasks are listed afresh    *)
(* and every mirror that no routine and no tarea of this run kept is       *)
(* deleted.  One whose deletion fails is left.                             *)
(***************************************************************************)
Orphans(m) == {i \in DOMAIN tasks : tasks[i].member = m /\ i \notin job.kept}

PruneOrphanMirrors ==
  /\ pc = "prune"
  /\ IF job.left = {} THEN job' = NoLocals /\ pc' = "idle" /\ Fine /\ UNCHANGED tasks
     ELSE LET m == TheFirst(job.left) IN
          /\ job' = [job EXCEPT !.left = @ \ {m}] /\ UNCHANGED pc
          /\ \E failed \in {{}} \cup {{i} : i \in Orphans(m)} \cup {Orphans(m)} :
               /\ IF failed = {} THEN Fine ELSE Fault
               /\ tasks' = [i \in (DOMAIN tasks \ Orphans(m)) \cup failed |-> tasks[i]]
  /\ UNCHANGED <<notion, last, edits, turned>>

\* The pod dies: the ids it has not written are lost.
Die ==
  /\ pc # "idle" /\ Fault
  /\ pc' = "idle" /\ job' = NoLocals
  /\ UNCHANGED <<notion, tasks, last, edits, turned>>

-----------------------------------------------------------------------------
Edit == edits + faults < MaxEvents /\ edits' = edits + 1 /\ clean' = FALSE
        /\ UNCHANGED <<pc, job, last, faults>>

\* A parent edits a routine's page.
EditRoutine(r) ==
  /\ \/ routine' = [routine EXCEPT ![r].retired = ~@] /\ UNCHANGED turned
     \/ routine' = [routine EXCEPT ![r].dated = ~@] /\ UNCHANGED turned
     \/ routine' = [routine EXCEPT ![r].text = 1 - @] /\ UNCHANGED turned
     \/ \E S \in SUBSET Members \ {routine[r].targets} :
          routine' = [routine EXCEPT ![r].targets = S] /\ UNCHANGED turned
     \/ ~routine[r].todo /\ routine' = [routine EXCEPT ![r].todo = TRUE]
          /\ turned' = turned \cup {r}
  /\ Edit /\ UNCHANGED <<tarea, tasks>>

\* A parent takes a tarea into the economy or out of it, or it is done.
EditTarea(t) ==
  /\ \/ tarea' = [tarea EXCEPT ![t].pays = ~@]
     \/ ~tarea[t].hecha /\ tarea' = [tarea EXCEPT ![t].hecha = TRUE]
  /\ Edit /\ UNCHANGED <<routine, tasks, turned>>

\* A child completes a mirror or deletes it; a daily comes back the next day.
ChildActs(id) ==
  /\ \/ tasks' = [tasks EXCEPT ![id].completed = IF tasks[id].todo THEN TRUE ELSE ~@]
     \/ tasks' = Without(tasks, id)
  /\ Edit /\ UNCHANGED <<notion, turned>>

Push ==
  \/ NextItem \/ DropRetiredMirror \/ ListTasks \/ MirrorTarget \/ DropStaleMirror
  \/ WriteMap \/ PushTarea \/ WriteTareaId \/ PruneOrphanMirrors

Next ==
  \/ Load \/ Push \/ Die
  \/ \E r \in Routines : EditRoutine(r)
  \/ \E t \in Tareas : EditTarea(t)
  \/ \E id \in DOMAIN tasks : ChildActs(id)

Spec == Init /\ [][Next]_vars

-----------------------------------------------------------------------------
\* Every variable holds what the code may put there.
TypeOK ==
  /\ routine \in [Routines -> Routine] /\ tarea \in [Tareas -> Tarea]
  /\ last \in Nat /\ DOMAIN tasks \subseteq 1..last /\ \A i \in DOMAIN tasks : tasks[i] \in Task
  /\ pc \in {"idle", "next", "retire", "mirror", "tarea", "written", "prune"}
  /\ pc # "idle" => /\ job.ids \in [Members -> 0..last] /\ job.kept \subseteq 1..last
                    /\ job.left \subseteq Members /\ job.todo \subseteq Routines \cup Tareas
  /\ clean \in BOOLEAN /\ turned \subseteq Routines

\* A push that nothing disturbed has just ended.
Settled == pc = "idle" /\ clean

(***************************************************************************)
(* After a push that nothing disturbed, every live routine it can date has *)
(* a mirror on the account of every target, up to date or, if it is        *)
(* recreated, open, and the page knows it - whatever failed in the pushes  *)
(* before (lost ids, half-made mirrors, deleted tasks).                    *)
(***************************************************************************)
CleanPushConverges ==
  Settled => \A r \in Routines : Mirrored(routine[r]) =>
    \A m \in routine[r].targets :
      LET id == routine[r].ids[m] IN
      /\ id \in DOMAIN tasks /\ tasks[id].of = r /\ tasks[id].member = m
      /\ IF routine[r].todo THEN ~tasks[id].completed ELSE tasks[id].text = routine[r].text

(***************************************************************************)
(* As long as no call failed and no pod died, every open mirror is known   *)
(* to its page between pushes, whatever parents and children do in the     *)
(* middle of a push.  The exception is a routine that became a recreated   *)
(* to-do: its old daily is dropped from the map once a child completed it, *)
(* is never deleted, and is open again the next day.                       *)
(***************************************************************************)
NoOrphanWithoutFault ==
  pc = "idle" /\ faults = 0 =>
    \A i \in DOMAIN tasks :
      ~tasks[i].completed /\ tasks[i].of \notin turned => i \in IdsOf(tasks[i].of)

(***************************************************************************)
(* The prune pass never deletes an open mirror that the page of a routine  *)
(* names which was live when the push read it, not even of a member whose  *)
(* tasks could not be listed or of a page that could not be written        *)
(* (push_definitions.py:400).  Two kinds of live routines are left out,    *)
(* whose mirrors the pass does delete, although it is to delete what "no   *)
(* live routine or tarea references" (push_definitions.py:404-405): by     *)
(* Mirrored one without targets or without a date, which the push passes   *)
(* over, and by `turned` one that became a recreated to-do, whose old      *)
(* daily is replaced while the page that could not be written names it.    *)
(***************************************************************************)
PruneSparesTheLive ==
  [][PruneOrphanMirrors => \A i \in DOMAIN tasks \ DOMAIN tasks' :
       ~tasks[i].completed => \A r \in Routines \ turned : Mirrored(job.routine[r]) =>
         \A m \in job.routine[r].targets : routine[r].ids[m] # i]_vars
=============================================================================
