---------------------------- MODULE MirrorsProofs ----------------------------
(***************************************************************************)
(* Theorems about Mirrors for every family, every catalogue and every      *)
(* bound on failures, edits and what children do, checked by TLAPS.        *)
(***************************************************************************)
EXTENDS Mirrors, TLAPS

(***************************************************************************)
(* The inductive invariant.                                                *)
(***************************************************************************)

Items == Routines \cup Tareas
Lists == UNION {[S -> Task] : S \in SUBSET Nat}

LocalsType ==
  [routine : [Routines -> Routine], tarea : [Tareas -> Tarea], todo : SUBSET Items,
   item : Items \cup {CHOOSE r \in Routines : TRUE}, left : SUBSET Members,
   ids : [Members -> Nat], listed : [Members -> {"unread", "read", "failed"}],
   live : [Members -> Lists], kept : SUBSET Nat, prune : BOOLEAN]

AtRoutine == pc \in {"retire", "mirror"}
AtTarea == pc \in {"tarea", "written"}

\* The variables and the locals of a push, and what the places of the push say of them.
Types ==
  /\ TypeOK /\ edits \in Nat /\ faults \in Nat
  /\ pc = "idle" => job.todo = {}
  /\ pc # "idle" =>
       /\ job \in LocalsType
       /\ AtRoutine => job.item \in Routines \ job.todo
       /\ AtTarea => job.item \in Tareas \ job.todo
       /\ AtTarea \/ pc = "prune" => job.todo \cap Routines = {}
       /\ pc = "prune" => job.prune /\ job.todo = {}
       /\ pc = "retire" => job.routine[job.item].retired
       /\ pc = "mirror" => /\ Mirrored(job.routine[job.item])
                           /\ job.left \subseteq job.routine[job.item].targets
       /\ pc = "written" => job.ids[Assignee[job.item]] # NoId

\* The id is none, or of this mirror, gone or not.
Names(id, item, m) ==
  id <= last /\ (id \in DOMAIN tasks => tasks[id].of = item /\ tasks[id].member = m)

\* No two pages, and no two members of a page, have an id in common, whatever was
\* lost or repeated: an id names the mirror it was given to.
IdsName ==
  /\ \A r \in Routines, m \in Members : Names(routine[r].ids[m], r, m)
  /\ \A t \in Tareas : Names(tarea[t].id, t, Assignee[t])
  /\ pc # "idle" =>
       /\ \A r \in Routines, m \in Members : Names(job.routine[r].ids[m], r, m)
       /\ \A t \in Tareas : Names(job.tarea[t].id, t, Assignee[t])
       /\ AtRoutine => \A m \in Members : Names(job.ids[m], job.item, m)
       /\ pc = "written" => Names(job.ids[Assignee[job.item]], job.item, Assignee[job.item])

\* The mirrors of a routine that did not turn are of its kind.
KindsMatch ==
  \A i \in DOMAIN tasks :
    tasks[i].of \in Routines \ turned => tasks[i].todo = routine[tasks[i].of].todo

\* The push has not written the page of this routine yet.
Untouched(r) == r \in job.todo \/ (AtRoutine /\ r = job.item)

\* What a push has read is still so until it writes: nobody else edits the ids.
SnapshotHolds ==
  pc # "idle" =>
    /\ \A r \in Routines : Untouched(r) => routine[r].ids = job.routine[r].ids
    /\ \A t \in Tareas : t \in job.todo \/ (AtTarea /\ t = job.item) =>
         tarea[t].id = job.tarea[t].id
    /\ \A r \in Routines \ turned : job.routine[r].todo = routine[r].todo
    /\ pc = "retire" => job.ids = job.routine[job.item].ids
    /\ pc = "mirror" => \A m \in job.left : job.ids[m] = job.routine[job.item].ids[m]
    /\ pc = "written" => job.tarea[job.item].id = NoId

\* What a listing says of a mirror: one it does not have is gone, and a recreated
\* to-do that was done when it was listed is done.
ListingsHold ==
  pc # "idle" => \A m \in Members : job.listed[m] = "read" =>
    /\ \A i \in DOMAIN job.live[m] : i <= last
    /\ \A i \in DOMAIN job.live[m] \cap DOMAIN tasks :
         job.live[m][i].completed /\ tasks[i].of \notin turned /\ tasks[i].todo
           => tasks[i].completed
    /\ \A r \in Routines :
         job.routine[r].ids[m] \in DOMAIN tasks => job.routine[r].ids[m] \in DOMAIN job.live[m]

\* A recreated to-do that was done: the next one takes its place on the page.
Done(i) == tasks[i].todo /\ tasks[i].completed

\* A mirror that the page names has its place in the map that will be written, or is done, or
\* is of a member who is no target and could not be deleted.
MapCarries ==
  pc = "mirror" /\ job.item \notin turned =>
    \A m \in Members :
      LET i == routine[job.item].ids[m] IN
      i \in DOMAIN tasks =>
        i = job.ids[m] \/ Done(i) \/ (m \notin job.routine[job.item].targets /\ faults > 0)

\* And once the push is done with the routine, the prune pass will keep it.
LiveIsKept ==
  pc # "idle" =>
    \A r \in Routines \ turned : ~Untouched(r) /\ Mirrored(job.routine[r]) =>
      \A m \in job.routine[r].targets :
        LET i == routine[r].ids[m] IN i \in DOMAIN tasks => i \in job.kept \/ Done(i)

\* What is kept is of items the push is done with.
KeptIsPast ==
  pc # "idle" =>
    \A i \in job.kept \cap DOMAIN tasks :
      tasks[i].of \notin job.todo /\ (AtRoutine \/ AtTarea => tasks[i].of # job.item)

\* The mirror's page names it, or the push is about to write it there.
Known(i) ==
  LET t == tasks[i] IN
  \/ t.of \in Routines /\ routine[t.of].ids[t.member] = i
  \/ t.of \in Tareas /\ tarea[t.of].id = i
  \/ pc = "mirror" /\ t.of = job.item /\ job.ids[t.member] = i
  \/ pc = "written" /\ t.of = job.item /\ job.ids[Assignee[t.of]] = i

\* The mirror of a tarea that was forgotten, before the prune pass has come to it.
ToPrune(i) ==
  LET t == tasks[i] IN
  /\ pc # "idle" /\ job.prune /\ i \notin job.kept
  /\ t.of \in Tareas \ job.todo /\ (AtTarea => t.of # job.item)
  /\ pc = "prune" => t.member \in job.left

NoneLost ==
  faults = 0 =>
    /\ \A i \in DOMAIN tasks : tasks[i].of \notin turned => Known(i) \/ Done(i) \/ ToPrune(i)
    /\ pc = "retire" => \A m \in Members \ job.left : job.ids[m] \notin DOMAIN tasks

\* The mirror is as the page wants it.
Good(rec, r, m, id) ==
  /\ id \in DOMAIN tasks /\ tasks[id].of = r /\ tasks[id].member = m
  /\ IF rec.todo THEN ~tasks[id].completed ELSE tasks[id].text = rec.text

\* The page says what the push has read, but for the ids.
SamePage(r) ==
  /\ routine[r].targets = job.routine[r].targets /\ routine[r].retired = job.routine[r].retired
  /\ routine[r].todo = job.routine[r].todo /\ routine[r].dated = job.routine[r].dated
  /\ routine[r].text = job.routine[r].text

\* The push has still to look at this mirror.
Pending(r, m) == r \in job.todo \/ (AtRoutine /\ r = job.item /\ m \in job.left)

\* An undisturbed push: the listings are exact for what is still to be looked at, and what
\* was looked at is good.
CleanSoFar ==
  clean /\ pc # "idle" =>
    /\ \A r \in Routines : SamePage(r)
    /\ \A m \in Members : job.listed[m] # "failed"
    /\ \A r \in Routines, m \in Members : Pending(r, m) /\ job.listed[m] = "read" =>
         LET id == job.routine[r].ids[m] IN
         id \in DOMAIN job.live[m] => id \in DOMAIN tasks /\ tasks[id] = job.live[m][id]
    /\ pc = "mirror" =>
         \A m \in job.routine[job.item].targets \ job.left :
           Good(job.routine[job.item], job.item, m, job.ids[m])
    /\ \A r \in Routines : ~Untouched(r) /\ Mirrored(routine[r]) =>
         \A m \in routine[r].targets :
           Good(routine[r], r, m, routine[r].ids[m]) /\ routine[r].ids[m] \in job.kept

IInv ==
  /\ Types /\ IdsName /\ KindsMatch /\ SnapshotHolds /\ ListingsHold
  /\ MapCarries /\ LiveIsKept /\ KeptIsPast /\ NoneLost
  /\ CleanSoFar /\ CleanPushConverges

(***************************************************************************)
(* What the calls do.                                                      *)
(***************************************************************************)

\* create_task: so many tasks more, of which the last may be known.
Made(task, made, id) ==
  /\ made \in 0..2 /\ last' = last + made
  /\ id = NoId \/ (made >= 1 /\ id = last + made)
  /\ IF made = 1 /\ id # NoId THEN Fine ELSE Fault
  /\ tasks' = [i \in DOMAIN tasks \cup (last + 1)..(last + made) |->
                 IF i \in DOMAIN tasks THEN tasks[i] ELSE task]

TaskOf(x, m, todo, text) ==
  [of |-> x, member |-> m, todo |-> todo, text |-> text, completed |-> FALSE]

\* A target is done with, or its mirror is brought up to date, or it gets a new one.
Passes(m) ==
  /\ job' = [job EXCEPT !.left = @ \ {m}] /\ UNCHANGED <<last, tasks>>
  /\ \/ Fine /\ (job.listed[m] = "failed"
                   \/ Skips(job.routine[job.item], job.live[m], job.ids[m]))
     \/ Fault

Updates(m) ==
  LET rec == job.routine[job.item]
      id == job.ids[m]
  IN /\ ~rec.todo /\ id \in DOMAIN job.live[m] \cap DOMAIN tasks /\ Fine /\ UNCHANGED last
     /\ job' = [job EXCEPT !.left = @ \ {m}]
     /\ tasks' = [tasks EXCEPT ![id].text = rec.text, ![id].todo = FALSE]

Renews(m, made, id) ==
  LET rec == job.routine[job.item]
      old == job.ids[m]
  IN /\ job.listed[m] = "read"
     /\ ~Skips(rec, job.live[m], old)
     /\ rec.todo \/ old \notin DOMAIN job.live[m] \cap DOMAIN tasks
     /\ Made(TaskOf(job.item, m, rec.todo, rec.text), made, id)
     /\ job' = [job EXCEPT !.left = @ \ {m}, !.ids[m] = IF id = NoId THEN @ ELSE id]

LEMMA TargetSteps ==
  ASSUME Types, MirrorTarget
  PROVE  /\ pc = "mirror" /\ UNCHANGED <<notion, pc, edits, turned>>
         /\ \E m \in job.left : /\ job.listed[m] # "unread"
                                /\ \/ Passes(m) \/ Updates(m)
                                   \/ \E made \in 0..2, id \in Nat : Renews(m, made, id)
<1>0. job \in LocalsType /\ last \in Nat
  BY DEF Types, TypeOK, MirrorTarget
<1>1. PICK m \in job.left : m = TheFirst(job.left)
  BY DEF MirrorTarget, TheFirst
<1>2. /\ pc = "mirror" /\ UNCHANGED <<notion, pc, edits, turned>> /\ m \in Members
      /\ job.listed[m] \in {"read", "failed"}
  BY <1>0, <1>1 DEF MirrorTarget, LocalsType
<1>c. ASSUME CreateMirror(m), job.listed[m] # "failed",
             ~Skips(job.routine[job.item], job.live[m], job.ids[m]),
             job.routine[job.item].todo \/ job.ids[m] \notin DOMAIN job.live[m] \cap DOMAIN tasks
      PROVE  \E made \in 0..2, id \in Nat : Renews(m, made, id)
  <2> DEFINE rec == job.routine[job.item]
             task == TaskOf(job.item, m, rec.todo, rec.text)
  <2>1. PICK made \in 0..2, answered \in BOOLEAN :
          /\ IF made = 1 /\ answered THEN Fine ELSE Fault /\ (made = 2) = answered
          /\ last' = last + made
          /\ tasks' = [i \in DOMAIN tasks \cup (last + 1)..(last + made) |->
                         IF i \in DOMAIN tasks THEN tasks[i] ELSE task]
          /\ LET id == IF answered THEN last' ELSE NoId
             IN job' = [job EXCEPT !.left = @ \ {m}, !.ids[m] = IF id = NoId THEN @ ELSE id]
    BY <1>c DEF CreateMirror, CreateTask, TaskOf
  <2>2. PICK id \in Nat : id = IF answered THEN last' ELSE NoId
    BY <1>0, <2>1 DEF NoId
  <2>3. Made(task, made, id)
    BY <1>0, <2>1, <2>2 DEF Made, NoId
  <2>4. job' = [job EXCEPT !.left = @ \ {m}, !.ids[m] = IF id = NoId THEN @ ELSE id]
    BY <2>1, <2>2
  <2>5. Renews(m, made, id)
    BY <1>2, <1>c, <2>3, <2>4 DEF Renews
  <2> QED BY <2>5
<1> DEFINE passed == \/ job.listed[m] = "failed"
                     \/ Skips(job.routine[job.item], job.live[m], job.ids[m])
<1>3. CASE passed
  BY <1>1, <1>2, <1>3 DEF MirrorTarget, Passes
<1>4. CASE ~passed /\ ~job.routine[job.item].todo /\ job.ids[m] \in DOMAIN job.live[m]
  <2>1. \/ Updates(m) \/ Passes(m)
        \/ job.ids[m] \notin DOMAIN tasks /\ CreateMirror(m)
    BY <1>1, <1>4 DEF MirrorTarget, Updates, Passes
  <2> QED BY <1>1, <1>2, <1>4, <1>c, <2>1
<1>5. CASE ~passed /\ ~(~job.routine[job.item].todo /\ job.ids[m] \in DOMAIN job.live[m])
  <2>1. CreateMirror(m)
    BY <1>1, <1>5 DEF MirrorTarget
  <2> QED BY <1>1, <1>2, <1>5, <1>c, <2>1
<1> QED BY <1>3, <1>4, <1>5

LEMMA TheFirstIn ==
  ASSUME NEW S, S # {}
  PROVE  TheFirst(S) \in S
BY DEF TheFirst

THEOREM Invariance == Spec => []IInv
<1>1. Init => IInv
  <2> SUFFICES ASSUME Init
               PROVE  IInv
    OBVIOUS
  <2>1. /\ routine \in [Routines -> Routine]
        /\ \A r \in Routines, m \in Members : routine[r].ids[m] = 0
        /\ tarea \in [Tareas -> Tarea] /\ \A t \in Tareas : tarea[t].id = 0
    BY AtFirstAssumption DEF Init, NoIds, NoId, Tarea
  <2>2. /\ DOMAIN tasks = {} /\ last = 0 /\ edits = 0 /\ faults = 0 /\ pc = "idle"
        /\ clean = FALSE /\ turned = {} /\ job.todo = {}
    BY DEF Init, NoLocals
  <2>3. Types
    BY <2>1, <2>2 DEF Types, TypeOK, AtRoutine, AtTarea
  <2>4. IdsName
    BY <2>1, <2>2 DEF IdsName, Names
  <2> QED
    BY <2>1, <2>2, <2>3, <2>4
    DEF IInv, KindsMatch, SnapshotHolds, ListingsHold, MapCarries, LiveIsKept, KeptIsPast,
        NoneLost, CleanSoFar, CleanPushConverges, Settled
<1>Load. ASSUME IInv, Load
         PROVE  IInv'
  <2> USE <1>Load
  <2>1. PICK prune \in BOOLEAN : job' = [Locals EXCEPT !.prune = prune]
    BY DEF Load
  <2>2. /\ pc = "idle" /\ pc' = "next"
        /\ UNCHANGED <<routine, tarea, tasks, last, edits, faults, turned>>
        /\ routine \in [Routines -> Routine] /\ tarea \in [Tareas -> Tarea] /\ last \in Nat
    BY DEF Load, notion, IInv, Types, TypeOK
  <2>3. /\ job'.routine = routine /\ job'.tarea = tarea /\ job'.todo = Items
        /\ job'.item = (CHOOSE r \in Routines : TRUE) /\ job'.left = {} /\ job'.ids = NoIds
        /\ job'.listed = [m \in Members |-> "unread"] /\ job'.live = [m \in Members |-> <<>>]
        /\ job'.kept = {} /\ job'.prune = prune
    BY <2>1 DEF Locals, Items
  <2>4. job' \in LocalsType
    <3>1. <<>> \in Lists
      <4>1. <<>> = [x \in {} |-> CHOOSE k \in Task : TRUE]
        OBVIOUS
      <4> QED BY <4>1 DEF Lists
    <3> QED BY <2>1, <2>2, <3>1 DEF Locals, LocalsType, Items, NoIds, NoId
  <2>5. Types'
    BY <2>2, <2>3, <2>4 DEF IInv, Types, TypeOK, Load, AtRoutine, AtTarea, Items, NoIds, NoId
  <2>6. IdsName'
    BY <2>2, <2>3 DEF IInv, IdsName, Names, AtRoutine
  <2>7. KindsMatch' /\ SnapshotHolds'
    BY <2>2, <2>3 DEF IInv, KindsMatch, SnapshotHolds, AtTarea, AtRoutine
  <2>8. ListingsHold' /\ MapCarries' /\ LiveIsKept' /\ KeptIsPast'
    BY <2>2, <2>3 DEF IInv, ListingsHold, MapCarries, LiveIsKept, KeptIsPast, Untouched, Items
  <2>9. NoneLost'
    BY <2>2, <2>3 DEF IInv, NoneLost, Known, Done, ToPrune
  <2>10. CleanSoFar' /\ CleanPushConverges'
    BY <2>2, <2>3
    DEF CleanSoFar, CleanPushConverges, Settled, SamePage, Untouched, Pending, Items
  <2> QED BY <2>5, <2>6, <2>7, <2>8, <2>9, <2>10 DEF IInv
\* A push that ends or dies leaves no locals behind.
<1>Ends. ASSUME IInv, pc' = "idle", job' = NoLocals,
                UNCHANGED <<notion, tasks, last, edits, turned>>,
                \/ Fine /\ pc \in {"next", "prune"} /\ job.todo = {}
                   /\ (pc = "next" => ~job.prune) /\ (pc = "prune" => job.left = {})
                \/ Fault
         PROVE  IInv'
  <2> USE <1>Ends
  <2>0. Fine => /\ pc \in {"next", "prune"} /\ job.todo = {}
                /\ (pc = "next" => ~job.prune) /\ (pc = "prune" => job.left = {})
    BY DEF Fine, Fault, IInv, Types
  <2>1. /\ job'.todo = {} /\ UNCHANGED <<routine, tarea>>
        /\ faults \in Nat /\ faults' \in Nat
    BY DEF NoLocals, notion, Fine, Fault, IInv, Types
  <2>2. Types'
    BY <2>1 DEF IInv, Types, TypeOK, AtRoutine, AtTarea, Fine, Fault
  <2>3. IdsName' /\ KindsMatch'
    BY <2>1 DEF IInv, IdsName, Names, KindsMatch
  <2>4. NoneLost'
    <3>1. CASE Fine
      <4>1. ASSUME NEW i \in DOMAIN tasks
            PROVE  ~ToPrune(i) /\ (Known(i) => Known(i)') /\ (Done(i) => Done(i)')
        BY <2>0, <2>1, <3>1, <4>1 DEF Known, Done, ToPrune
      <4> QED BY <2>1, <3>1, <4>1 DEF IInv, NoneLost, Fine
    <3>2. CASE Fault
      BY <2>1, <3>2 DEF NoneLost, Fault
    <3> QED BY <3>1, <3>2
  <2>5. CleanPushConverges'
    <3>1. CASE Fine
      <4>1. ASSUME clean', NEW r \in Routines, Mirrored(routine[r])
            PROVE  \A m \in routine[r].targets : Good(routine[r], r, m, routine[r].ids[m])
        BY <2>0, <2>1, <3>1, <4>1 DEF IInv, CleanSoFar, Fine, Untouched, AtRoutine
      <4> QED
        BY <2>1, <4>1 DEF CleanPushConverges, Settled, Mirrored, Good
    <3>2. CASE Fault
      BY <2>1, <3>2 DEF CleanPushConverges, Settled, Fault
    <3> QED BY <3>1, <3>2
  <2> QED
    BY <2>2, <2>3, <2>4, <2>5
    DEF IInv, SnapshotHolds, ListingsHold, MapCarries, LiveIsKept, KeptIsPast, CleanSoFar
\* Parents leave the ids alone, and children finish or delete their tasks.
<1>People. ASSUME IInv, UNCHANGED <<pc, job, last, faults>>, clean' = FALSE, edits' \in Nat,
                  routine' \in [Routines -> Routine], tarea' \in [Tareas -> Tarea],
                  turned \subseteq turned', turned' \subseteq Routines,
                  \A r \in Routines : /\ routine'[r].ids = routine[r].ids
                                      /\ r \notin turned' => routine'[r].todo = routine[r].todo,
                  \A t \in Tareas : tarea'[t].id = tarea[t].id,
                  DOMAIN tasks' \subseteq DOMAIN tasks,
                  \A i \in DOMAIN tasks' :
                    /\ tasks'[i] \in Task /\ tasks'[i].of = tasks[i].of
                    /\ tasks'[i].member = tasks[i].member /\ tasks'[i].todo = tasks[i].todo
                    /\ tasks[i].todo /\ tasks[i].completed => tasks'[i].completed
           PROVE  IInv'
  <2> USE <1>People
  <2>1. Types'
    BY DEF IInv, Types, TypeOK, AtRoutine, AtTarea
  <2>2. IdsName'
    BY DEF IInv, IdsName, Names, AtRoutine
  <2>3. KindsMatch' /\ SnapshotHolds'
    BY DEF IInv, KindsMatch, SnapshotHolds, Untouched, AtRoutine, AtTarea
  <2>4. ListingsHold'
    BY DEF IInv, ListingsHold
  <2>5. MapCarries'
    BY DEF IInv, Types, IdsName, Names, AtRoutine, MapCarries, Done
  <2>6. LiveIsKept'
    BY DEF IInv, LiveIsKept, Untouched, AtRoutine, Done
  <2>7. KeptIsPast'
    BY DEF IInv, KeptIsPast, AtRoutine, AtTarea
  <2>8. NoneLost'
    <3>1. ASSUME NEW i \in DOMAIN tasks'
          PROVE  /\ Known(i) => Known(i)'
                 /\ Done(i) => Done(i)'
                 /\ ToPrune(i) => ToPrune(i)'
      BY <3>1 DEF Known, Done, ToPrune, AtTarea
    <3> QED BY <3>1 DEF IInv, NoneLost
  <2> QED
    BY <2>1, <2>2, <2>3, <2>4, <2>5, <2>6, <2>7, <2>8
    DEF IInv, CleanSoFar, CleanPushConverges, Settled
<1>EditRoutine. ASSUME IInv, NEW r \in Routines, EditRoutine(r)
                PROVE  IInv'
  <2> USE <1>EditRoutine
  <2>1. /\ routine \in [Routines -> Routine] /\ tarea \in [Tareas -> Tarea] /\ edits \in Nat
        /\ turned \subseteq Routines /\ \A i \in DOMAIN tasks : tasks[i] \in Task
    BY DEF IInv, Types, TypeOK
  <2>2. /\ UNCHANGED <<pc, job, last, faults, tarea, tasks>> /\ clean' = FALSE /\ edits' \in Nat
    BY <2>1 DEF EditRoutine, Edit
  <2>3. /\ routine' \in [Routines -> Routine] /\ turned \subseteq turned' /\ turned' \subseteq Routines
        /\ \A q \in Routines : /\ routine'[q].ids = routine[q].ids
                               /\ q \notin turned' => routine'[q].todo = routine[q].todo
    <3>1. PICK rec \in Routine :
            /\ routine' = [routine EXCEPT ![r] = rec] /\ rec.ids = routine[r].ids
            /\ \/ rec.todo = routine[r].todo /\ turned' = turned
               \/ turned' = turned \cup {r}
      <4> DEFINE old == routine[r]
      <4>0. old \in Routine
        BY <2>1
      <4> HIDE DEF old
      <4>1. CASE routine' = [routine EXCEPT ![r].retired = ~@] /\ UNCHANGED turned
        <5>1. routine' = [routine EXCEPT ![r] = [old EXCEPT !.retired = ~@]]
          BY <4>1 DEF old
        <5>2. [old EXCEPT !.retired = ~@] \in Routine
          BY <4>0 DEF Routine
        <5> QED BY <4>0, <4>1, <5>1, <5>2 DEF old, Routine
      <4>2. CASE routine' = [routine EXCEPT ![r].dated = ~@] /\ UNCHANGED turned
        <5>1. routine' = [routine EXCEPT ![r] = [old EXCEPT !.dated = ~@]]
          BY <4>2 DEF old
        <5>2. [old EXCEPT !.dated = ~@] \in Routine
          BY <4>0 DEF Routine
        <5> QED BY <4>0, <4>2, <5>1, <5>2 DEF old, Routine
      <4>3. CASE routine' = [routine EXCEPT ![r].text = 1 - @] /\ UNCHANGED turned
        <5>1. routine' = [routine EXCEPT ![r] = [old EXCEPT !.text = 1 - @]]
          BY <4>3 DEF old
        <5>2. [old EXCEPT !.text = 1 - @] \in Routine
          BY <4>0 DEF Routine
        <5> QED BY <4>0, <4>3, <5>1, <5>2 DEF old, Routine
      <4>4. ASSUME NEW S \in SUBSET Members, routine' = [routine EXCEPT ![r].targets = S],
                   UNCHANGED turned
            PROVE  \E rec \in Routine :
                     /\ routine' = [routine EXCEPT ![r] = rec] /\ rec.ids = routine[r].ids
                     /\ rec.todo = routine[r].todo /\ turned' = turned
        <5>1. routine' = [routine EXCEPT ![r] = [old EXCEPT !.targets = S]]
          BY <4>4 DEF old
        <5>2. [old EXCEPT !.targets = S] \in Routine
          BY <4>0 DEF Routine
        <5> QED BY <4>0, <4>4, <5>1, <5>2 DEF old, Routine
      <4>5. CASE routine' = [routine EXCEPT ![r].todo = TRUE] /\ turned' = turned \cup {r}
        <5>1. routine' = [routine EXCEPT ![r] = [old EXCEPT !.todo = TRUE]]
          BY <4>5 DEF old
        <5>2. [old EXCEPT !.todo = TRUE] \in Routine
          BY <4>0 DEF Routine
        <5> QED BY <4>0, <4>5, <5>1, <5>2 DEF old, Routine
      <4> QED BY <4>1, <4>2, <4>3, <4>4, <4>5 DEF EditRoutine
    <3> QED BY <2>1, <3>1
  <2> QED BY <2>1, <2>2, <2>3, <1>People
<1>EditTarea. ASSUME IInv, NEW t \in Tareas, EditTarea(t)
              PROVE  IInv'
  <2> USE <1>EditTarea
  <2>1. /\ routine \in [Routines -> Routine] /\ tarea \in [Tareas -> Tarea] /\ edits \in Nat
        /\ turned \subseteq Routines /\ \A i \in DOMAIN tasks : tasks[i] \in Task
    BY DEF IInv, Types, TypeOK
  <2>2. /\ UNCHANGED <<pc, job, last, faults, routine, tasks, turned>>
        /\ clean' = FALSE /\ edits' \in Nat
    BY <2>1 DEF EditTarea, Edit
  <2>3. tarea' \in [Tareas -> Tarea] /\ \A u \in Tareas : tarea'[u].id = tarea[u].id
    <3>1. CASE tarea' = [tarea EXCEPT ![t].pays = ~@]
      BY <2>1, <3>1 DEF Tarea
    <3>2. CASE tarea' = [tarea EXCEPT ![t].hecha = TRUE]
      BY <2>1, <3>2 DEF Tarea
    <3> QED BY <3>1, <3>2 DEF EditTarea
  <2> QED BY <2>1, <2>2, <2>3, <1>People
<1>ChildActs. ASSUME IInv, NEW id \in DOMAIN tasks, ChildActs(id)
              PROVE  IInv'
  <2> USE <1>ChildActs
  <2>1. /\ routine \in [Routines -> Routine] /\ tarea \in [Tareas -> Tarea] /\ edits \in Nat
        /\ turned \subseteq Routines /\ \A i \in DOMAIN tasks : tasks[i] \in Task
    BY DEF IInv, Types, TypeOK
  <2>2. /\ UNCHANGED <<pc, job, last, faults, routine, tarea, turned>>
        /\ clean' = FALSE /\ edits' \in Nat
    BY <2>1 DEF ChildActs, Edit, notion
  <2>3. /\ DOMAIN tasks' \subseteq DOMAIN tasks
        /\ \A i \in DOMAIN tasks' :
             /\ tasks'[i] \in Task /\ tasks'[i].of = tasks[i].of
             /\ tasks'[i].member = tasks[i].member /\ tasks'[i].todo = tasks[i].todo
             /\ tasks[i].todo /\ tasks[i].completed => tasks'[i].completed
    <3>1. CASE tasks' = Without(tasks, id)
      BY <2>1, <3>1 DEF Without
    <3>2. CASE tasks' = [tasks EXCEPT ![id].completed =
                           IF tasks[id].todo THEN TRUE ELSE ~tasks[id].completed]
      BY <2>1, <3>2 DEF Task
    <3> QED BY <3>1, <3>2 DEF ChildActs
  <2> QED BY <2>1, <2>2, <2>3, <1>People
<1>Stutter. ASSUME IInv, UNCHANGED vars
            PROVE  IInv'
  <2> USE <1>Stutter
  <2>1. UNCHANGED <<routine, tarea, tasks, pc, job, last, edits, faults, clean, turned>>
    BY DEF vars, notion
  <2>2. Types' /\ IdsName' /\ KindsMatch' /\ SnapshotHolds' /\ ListingsHold'
    BY <2>1
    DEF IInv, Types, TypeOK, IdsName, Names, KindsMatch, SnapshotHolds, ListingsHold, Untouched,
        AtRoutine, AtTarea
  <2>3. MapCarries' /\ LiveIsKept' /\ KeptIsPast'
    BY <2>1
    DEF IInv, MapCarries, LiveIsKept, KeptIsPast, Untouched, AtRoutine, AtTarea, Done
  <2>4. NoneLost'
    BY <2>1 DEF IInv, NoneLost, Known, Done, ToPrune, AtTarea
  <2>5. CleanSoFar' /\ CleanPushConverges'
    BY <2>1
    DEF IInv, CleanSoFar, CleanPushConverges, Settled, SamePage, Pending, Untouched, AtRoutine,
        Good
  <2> QED BY <2>2, <2>3, <2>4, <2>5 DEF IInv
\* The next item is taken off the list; the listings and what was kept stay.
<1>Takes. ASSUME IInv, pc = "next", job' \in LocalsType,
                 UNCHANGED <<routine, tarea, tasks, last, edits, faults, clean, turned>>,
                 UNCHANGED <<job.routine, job.tarea, job.listed, job.live, job.kept, job.prune>>
          PROVE  /\ KindsMatch' /\ ListingsHold'
                 /\ \A i \in DOMAIN tasks : (Known(i) => Known(i)') /\ (Done(i) => Done(i)')
  <2> USE <1>Takes
  <2>1. KindsMatch' /\ ListingsHold'
    BY DEF IInv, KindsMatch, ListingsHold
  <2>2. \A i \in DOMAIN tasks : (Known(i) => Known(i)') /\ (Done(i) => Done(i)')
    BY DEF Known, Done
  <2> QED BY <2>1, <2>2
<1>NextItem. ASSUME IInv, NextItem
             PROVE  IInv'
  <2> USE <1>NextItem
  <2> DEFINE item == TheFirst(IF job.todo \cap Routines # {} THEN job.todo \cap Routines
                              ELSE job.todo)
  <2>1. /\ pc = "next" /\ job \in LocalsType /\ job.todo \subseteq Items
        /\ UNCHANGED <<notion, tasks, last, edits, faults, clean, turned>>
        /\ UNCHANGED <<routine, tarea, tasks, last, edits, faults, clean, turned>>
        /\ \A i \in DOMAIN tasks : tasks[i] \in Task
        /\ job.routine \in [Routines -> Routine] /\ 0 \notin DOMAIN tasks
        /\ last \in Nat
    BY DEF NextItem, notion, IInv, Types, TypeOK, LocalsType
  <2>2. ASSUME job.todo = {}, job.prune, job' = [job EXCEPT !.left = Members], pc' = "prune"
        PROVE  IInv'
    <3>1. /\ job' \in LocalsType /\ job'.left = Members
          /\ UNCHANGED <<job.todo, job.item, job.ids>>
          /\ UNCHANGED <<job.routine, job.tarea, job.listed, job.live, job.kept, job.prune>>
      BY <2>1, <2>2 DEF LocalsType
    <3>2. /\ KindsMatch' /\ ListingsHold'
          /\ \A i \in DOMAIN tasks : (Known(i) => Known(i)') /\ (Done(i) => Done(i)')
      BY <2>1, <3>1, <1>Takes
    <3>3. Types'
      BY <2>1, <2>2, <3>1 DEF IInv, Types, TypeOK, AtRoutine, AtTarea
    <3>4. IdsName' /\ SnapshotHolds' /\ MapCarries'
      BY <2>1, <2>2, <3>1
      DEF IInv, IdsName, Names, SnapshotHolds, MapCarries, Untouched, AtRoutine, AtTarea
    <3>5. LiveIsKept'
      BY <2>1, <2>2, <3>1, <3>2 DEF IInv, LiveIsKept, Untouched, AtRoutine, Done
    <3>6. KeptIsPast'
      BY <2>1, <2>2, <3>1 DEF IInv, KeptIsPast, AtRoutine, AtTarea
    <3>7. NoneLost'
      <4>1. \A i \in DOMAIN tasks : ToPrune(i) => ToPrune(i)'
        BY <2>1, <2>2, <3>1 DEF ToPrune, AtTarea, Task
      <4> QED BY <2>1, <2>2, <3>2, <4>1 DEF IInv, NoneLost
    <3>8. CleanSoFar' /\ CleanPushConverges'
      BY <2>1, <2>2, <3>1
      DEF IInv, CleanSoFar, CleanPushConverges, Settled, SamePage, Pending, Untouched, AtRoutine,
          Good
    <3> QED BY <3>2, <3>3, <3>4, <3>5, <3>6, <3>7, <3>8 DEF IInv
  <2>3. ASSUME job.todo = {}, ~job.prune, job' = NoLocals, pc' = "idle"
        PROVE  IInv'
    BY <2>1, <2>3, <1>Ends DEF Fine
  <2>4. ASSUME job.todo \cap Routines # {}
        PROVE  IInv'
    <3> DEFINE rec == job.routine[item]
               mirrors == {m \in Members : rec.ids[m] # NoId}
    <3>1. PICK r \in job.todo \cap Routines : r = item
      BY <2>4, TheFirstIn
    <3>2. /\ job' = [job EXCEPT !.todo = @ \ {r}, !.item = r, !.ids = rec.ids,
                            !.left = IF rec.retired THEN mirrors ELSE rec.targets]
          /\ pc' = CASE rec.retired /\ mirrors # {} -> "retire"
                     [] Mirrored(rec) -> "mirror"
                     [] OTHER -> "next"
      BY <2>4, <3>1 DEF NextItem
    <3>3. /\ rec \in Routine /\ rec = job.routine[r] /\ r \in Routines /\ r \in job.todo
          /\ rec.targets \subseteq Members
      BY <2>1, <3>1 DEF Routine
    <3>4. /\ job'.todo = job.todo \ {r} /\ job'.item = r /\ job'.ids = rec.ids
          /\ rec.retired => job'.left = mirrors
          /\ ~rec.retired => job'.left = rec.targets
          /\ job' \in LocalsType
          /\ UNCHANGED <<job.routine, job.tarea, job.listed, job.live, job.kept, job.prune>>
      BY <2>1, <3>2, <3>3 DEF LocalsType, Items, Routine
    <3>5. /\ pc' \in {"retire", "mirror", "next"}
          /\ pc' = "retire" => rec.retired
          /\ pc' = "mirror" => Mirrored(rec) /\ ~rec.retired
          /\ pc' = "next" => ~Mirrored(rec)
      BY <3>2, Zenon DEF Mirrored
    <3>6. /\ KindsMatch' /\ ListingsHold'
          /\ \A i \in DOMAIN tasks : (Known(i) => Known(i)') /\ (Done(i) => Done(i)')
      BY <2>1, <3>4, <1>Takes
    <3> HIDE DEF item
    <3>7. Types'
      BY <2>1, <3>3, <3>4, <3>5
      DEF IInv, Types, TypeOK, IdsName, Names, AtRoutine, AtTarea, Routine, Items, Mirrored
    <3>8. IdsName' /\ SnapshotHolds'
      BY <2>1, <3>3, <3>4, <3>5
      DEF IInv, IdsName, Names, SnapshotHolds, Untouched, AtRoutine, AtTarea
    <3>9. MapCarries'
      BY <2>1, <3>3, <3>4, <3>5 DEF IInv, SnapshotHolds, MapCarries, Untouched
    <3>10. LiveIsKept'
      <4>1. ASSUME NEW q \in Routines, ~Untouched(q)', Mirrored(job.routine[q])
            PROVE  ~Untouched(q)
        BY <2>1, <3>3, <3>4, <3>5, <4>1 DEF Untouched, AtRoutine
      <4> QED BY <2>1, <3>4, <3>6, <4>1 DEF IInv, LiveIsKept, Mirrored, Done
    <3>11. KeptIsPast'
      BY <2>1, <3>3, <3>4, <3>5 DEF IInv, KeptIsPast, AtRoutine, AtTarea
    <3>12. NoneLost'
      <4>1. \A i \in DOMAIN tasks : ToPrune(i) => ToPrune(i)'
        BY <2>1, <3>3, <3>4, <3>5 DEF ToPrune, AtTarea
      <4>2. pc' = "retire" => \A m \in Members \ job'.left : job'.ids[m] \notin DOMAIN tasks
        BY <2>1, <3>4, <3>5 DEF NoId
      <4> QED BY <2>1, <3>6, <4>1, <4>2 DEF IInv, NoneLost
    <3>13. CleanSoFar' /\ CleanPushConverges'
      <4>1. \A q \in Routines : ~Untouched(q)' /\ Mirrored(job.routine[q]) => ~Untouched(q)
        BY <2>1, <3>3, <3>4, <3>5 DEF Untouched, AtRoutine
      <4>2. \A q \in Routines, m \in Members : Pending(q, m)' => Pending(q, m)
        BY <2>1, <3>3, <3>4, <3>5 DEF Pending, AtRoutine
      <4>3. \A q \in Routines : SamePage(q) => (Mirrored(routine[q]) <=> Mirrored(job.routine[q]))
        BY DEF SamePage, Mirrored
      <4>4. pc' = "mirror" => job'.routine[job'.item].targets \ job'.left = {}
        BY <3>3, <3>4, <3>5
      <4>5. CleanSoFar'
        <5>1. ASSUME clean
              PROVE  /\ \A q \in Routines : SamePage(q)'
                     /\ \A m \in Members : job'.listed[m] # "failed"
                     /\ \A q \in Routines, m \in Members :
                          Pending(q, m)' /\ job'.listed[m] = "read" =>
                            LET id == job'.routine[q].ids[m] IN
                            id \in DOMAIN job'.live[m] =>
                              id \in DOMAIN tasks /\ tasks[id] = job'.live[m][id]
          BY <2>1, <3>4, <4>2, <5>1 DEF IInv, CleanSoFar, SamePage
        <5>2. ASSUME clean, NEW q \in Routines, ~Untouched(q)', Mirrored(routine[q]),
                     NEW m \in routine[q].targets
              PROVE  Good(routine[q], q, m, routine[q].ids[m]) /\ routine[q].ids[m] \in job.kept
          <6>1. SamePage(q) /\ ~Untouched(q)
            BY <2>1, <4>1, <4>3, <5>2 DEF IInv, CleanSoFar
          <6> QED BY <2>1, <5>2, <6>1 DEF IInv, CleanSoFar
        <5> QED BY <2>1, <3>4, <4>4, <5>1, <5>2 DEF CleanSoFar, Good, Mirrored
      <4> QED BY <3>5, <4>5 DEF CleanPushConverges, Settled
    <3> QED BY <3>6, <3>7, <3>8, <3>9, <3>10, <3>11, <3>12, <3>13 DEF IInv
  <2>5. ASSUME job.todo \cap Routines = {}, job.todo # {}
        PROVE  IInv'
    <3>1. PICK t \in job.todo : t = item
      BY <2>5, TheFirstIn
    <3>2. /\ job' = [job EXCEPT !.todo = @ \ {t}, !.item = t] /\ pc' = "tarea"
          /\ t \in Tareas
      BY <2>1, <2>5, <3>1 DEF NextItem, Items
    <3> HIDE DEF item
    <3>3. /\ job'.todo = job.todo \ {t} /\ job'.item = t /\ job' \in LocalsType
          /\ UNCHANGED <<job.ids, job.left>>
          /\ UNCHANGED <<job.routine, job.tarea, job.listed, job.live, job.kept, job.prune>>
      BY <2>1, <3>2 DEF LocalsType, Items
    <3>4. /\ KindsMatch' /\ ListingsHold'
          /\ \A i \in DOMAIN tasks : (Known(i) => Known(i)') /\ (Done(i) => Done(i)')
      BY <2>1, <3>3, <1>Takes
    <3>5. Types'
      BY <2>1, <2>5, <3>1, <3>2, <3>3 DEF IInv, Types, TypeOK, AtRoutine, AtTarea, Items
    <3>6. IdsName' /\ SnapshotHolds' /\ MapCarries'
      BY <2>1, <3>1, <3>2, <3>3
      DEF IInv, IdsName, Names, SnapshotHolds, MapCarries, Untouched, AtRoutine, AtTarea
    <3>7. \A q \in Routines : Untouched(q)' <=> Untouched(q)
      BY <2>1, <2>5, <3>2, <3>3 DEF Untouched, AtRoutine
    <3>8. LiveIsKept'
      BY <2>1, <3>2, <3>3, <3>4, <3>7 DEF IInv, LiveIsKept, Mirrored, Done
    <3>9. KeptIsPast'
      BY <2>1, <3>1, <3>2, <3>3 DEF IInv, KeptIsPast, AtRoutine, AtTarea
    <3>10. NoneLost'
      <4>1. \A i \in DOMAIN tasks : ToPrune(i) => ToPrune(i)'
        BY <2>1, <3>1, <3>2, <3>3 DEF ToPrune, AtTarea
      <4> QED BY <2>1, <3>2, <3>4, <4>1 DEF IInv, NoneLost
    <3>11. CleanSoFar' /\ CleanPushConverges'
      <4>1. \A q \in Routines, m \in Members : Pending(q, m)' => Pending(q, m)
        BY <2>1, <3>2, <3>3 DEF Pending, AtRoutine
      <4> QED
        BY <2>1, <3>2, <3>3, <3>7, <4>1
        DEF IInv, CleanSoFar, CleanPushConverges, Settled, SamePage, Good, Mirrored
    <3> QED BY <3>4, <3>5, <3>6, <3>8, <3>9, <3>10, <3>11 DEF IInv
  <2> QED BY <2>1, <2>2, <2>3, <2>4, <2>5 DEF NextItem
\* A call deletes tasks or fails; the pages stay.
<1>Deletes. ASSUME IInv, job' \in LocalsType, pc # "idle", Fine \/ Fault,
                   UNCHANGED <<routine, tarea, last, edits, turned, pc>>,
                   UNCHANGED <<job.routine, job.tarea, job.todo, job.item, job.listed, job.live,
                               job.kept, job.prune>>,
                   job'.left \subseteq job.left,
                   \A m \in Members : job'.ids[m] = job.ids[m] 
                                         \/ (pc # "written" /\ job'.ids[m] = NoId),
                   pc # "mirror" => job'.ids = job.ids,
                   \A m \in job.left : job'.ids[m] = job.ids[m],
                   DOMAIN tasks' \subseteq DOMAIN tasks,
                   \A i \in DOMAIN tasks' : tasks'[i] = tasks[i]
            PROVE  /\ Types' /\ IdsName' /\ KindsMatch' /\ SnapshotHolds' /\ ListingsHold'
                   /\ LiveIsKept' /\ KeptIsPast'
                   /\ \A r \in Routines : Untouched(r)' <=> Untouched(r)
                   /\ pc' # "idle"
  <2> USE <1>Deletes
  <2>0. /\ last \in Nat /\ faults \in Nat /\ faults' \in Nat /\ job \in LocalsType
        /\ clean' \in BOOLEAN /\ job.ids \in [Members -> 0..last]
        /\ 0 \notin DOMAIN tasks /\ 0 <= last
    <3>1. /\ last \in Nat /\ faults \in Nat /\ job \in LocalsType /\ clean \in BOOLEAN
          /\ job.ids \in [Members -> 0..last] /\ DOMAIN tasks \subseteq 1..last
      BY DEF IInv, Types, TypeOK
    <3>2. faults' \in Nat
      BY <3>1 DEF Fine, Fault
    <3>3. clean' \in BOOLEAN
      BY <3>1, Zenon DEF Fine, Fault
    <3> QED BY <3>1, <3>2, <3>3
  <2>1. \A r \in Routines : Untouched(r)' <=> Untouched(r)
    BY DEF Untouched, AtRoutine
  <2>2. Types'
    <3>1. job'.ids \in [Members -> 0..last]
      BY <2>0 DEF LocalsType, NoId
    <3> QED BY <2>0, <3>1 DEF IInv, Types, TypeOK, AtRoutine, AtTarea, Mirrored, NoId
  <2>3. IdsName'
    BY <2>0 DEF IInv, IdsName, Names, AtRoutine, NoId
  <2>4. KindsMatch' /\ KeptIsPast'
    BY DEF IInv, KindsMatch, KeptIsPast, AtRoutine, AtTarea
  <2>5. SnapshotHolds'
    BY <2>1 DEF IInv, SnapshotHolds, AtTarea
  <2>6. ListingsHold'
    BY DEF IInv, ListingsHold
  <2>7. LiveIsKept'
    BY <2>1 DEF IInv, LiveIsKept, Mirrored, Done
  <2> QED BY <2>1, <2>2, <2>3, <2>4, <2>5, <2>6, <2>7
<1>DropRetired. ASSUME IInv, DropRetiredMirror, job.left # {}
                PROVE  IInv'
  <2> USE <1>DropRetired
  <2>1. PICK m \in job.left : m = TheFirst(job.left)
    BY TheFirstIn
  <2>2. /\ pc = "retire" /\ job \in LocalsType /\ job' = [job EXCEPT !.left = @ \ {m}]
        /\ UNCHANGED <<routine, tarea, last, edits, turned, pc>>
        /\ DeleteTask(job.ids[m])
        /\ job.item \in Routines \ job.todo /\ m \in Members /\ faults \in Nat
    BY <2>1 DEF DropRetiredMirror, notion, IInv, Types, TypeOK, LocalsType, AtRoutine
  <2>3. /\ job' \in LocalsType /\ job'.left = job.left \ {m}
        /\ UNCHANGED <<job.routine, job.tarea, job.todo, job.item, job.listed, job.live,
                       job.kept, job.prune, job.ids>>
    BY <2>2 DEF LocalsType
  <2>4. PICK id : id = job.ids[m]
    OBVIOUS
  <2>5. \/ /\ Fine /\ DOMAIN tasks' = DOMAIN tasks \ {id}
           /\ \A i \in DOMAIN tasks' : tasks'[i] = tasks[i]
        \/ Fault /\ tasks' = tasks
    BY <2>2, <2>4 DEF DeleteTask, Without
  <2>6. /\ Types' /\ IdsName' /\ KindsMatch' /\ SnapshotHolds' /\ ListingsHold'
        /\ LiveIsKept' /\ KeptIsPast'
        /\ \A r \in Routines : Untouched(r)' <=> Untouched(r)
    BY <1>Deletes, <2>2, <2>3, <2>5
  <2>7. MapCarries'
    BY <2>2 DEF MapCarries
  <2>8. NoneLost'
    <3>1. CASE Fine
      <4>1. \A i \in DOMAIN tasks' : /\ Known(i) => Known(i)'
                                     /\ Done(i) => Done(i)'
                                     /\ ToPrune(i) => ToPrune(i)'
        BY <2>2, <2>3, <2>5, <3>1 DEF Known, Done, ToPrune, AtTarea, Fine, Fault
      <4>2. \A n \in Members \ job'.left : faults = 0 => job'.ids[n] \notin DOMAIN tasks'
        BY <2>2, <2>3, <2>4, <2>5, <3>1 DEF IInv, NoneLost, Fine, Fault
      <4> QED BY <2>2, <2>5, <3>1, <4>1, <4>2 DEF IInv, NoneLost, Fine, Fault
    <3>2. CASE Fault
      BY <2>2, <3>2 DEF NoneLost, Fault
    <3> QED BY <2>5, <3>1, <3>2
  <2>9. CleanSoFar'
    <3> SUFFICES ASSUME clean'
                 PROVE  CleanSoFar'
      BY DEF CleanSoFar
    <3>1. /\ clean /\ DOMAIN tasks' = DOMAIN tasks \ {id}
          /\ \A i \in DOMAIN tasks' : tasks'[i] = tasks[i]
      BY <2>5 DEF Fine, Fault
    <3>2. Names(id, job.item, m)
      BY <2>2, <2>4 DEF IInv, IdsName, AtRoutine
    <3>3. \A q \in Routines, n \in Members :
            Pending(q, n)' => Pending(q, n) /\ ~(q = job.item /\ n = m)
      BY <2>2, <2>3 DEF Pending, AtRoutine
    <3>4. \A q \in Routines, n \in Members :
            /\ Pending(q, n)' /\ job.routine[q].ids[n] \in DOMAIN tasks => job.routine[q].ids[n] # id
            /\ q # job.item /\ routine[q].ids[n] \in DOMAIN tasks => routine[q].ids[n] # id
      BY <2>2, <3>2, <3>3 DEF IInv, IdsName, Names
    <3>5. \A q \in Routines : ~Untouched(q) => q # job.item
      BY <2>2 DEF Untouched, AtRoutine
    <3>6. \A q \in Routines, n \in Members : Pending(q, n)' /\ job'.listed[n] = "read" =>
            LET x == job'.routine[q].ids[n] IN
            x \in DOMAIN job'.live[n] => x \in DOMAIN tasks' /\ tasks'[x] = job'.live[n][x]
      BY <2>2, <2>3, <3>1, <3>3, <3>4 DEF IInv, CleanSoFar
    <3>7. ASSUME NEW q \in Routines, ~Untouched(q), Mirrored(routine[q]),
                 NEW n \in routine[q].targets
          PROVE  Good(routine[q], q, n, routine[q].ids[n])' /\ routine[q].ids[n] \in job.kept
      <4>1. Good(routine[q], q, n, routine[q].ids[n]) /\ routine[q].ids[n] \in job.kept
        BY <2>2, <3>1, <3>7 DEF IInv, CleanSoFar
      <4>2. n \in Members
        BY <3>7 DEF IInv, Types, TypeOK, Routine
      <4> QED BY <2>2, <3>1, <3>4, <3>5, <3>7, <4>1, <4>2 DEF Good
    <3> QED
      BY <2>2, <2>3, <2>6, <3>1, <3>6, <3>7 DEF IInv, CleanSoFar, SamePage, Mirrored, Good
  <2> QED BY <2>2, <2>6, <2>7, <2>8, <2>9 DEF IInv, CleanPushConverges, Settled
<1>DropStale. ASSUME IInv, DropStaleMirror
              PROVE  IInv'
  <2> USE <1>DropStale
  <2>0. /\ pc = "mirror" /\ job.left = {} /\ Stale # {}
        /\ UNCHANGED <<notion, pc, last, edits, turned>>
    BY DEF DropStaleMirror
  <2>1. PICK m \in Stale : m = TheFirst(Stale)
    BY <2>0, TheFirstIn
  <2>2. /\ job \in LocalsType /\ job' = [job EXCEPT !.ids[m] = NoId]
        /\ UNCHANGED <<routine, tarea, last, edits, turned, pc>>
        /\ DeleteTask(job.ids[m])
        /\ job.item \in Routines \ job.todo /\ faults \in Nat
        /\ m \in Members \ job.routine[job.item].targets
        /\ job.routine[job.item].targets \subseteq Members
    BY <2>0, <2>1
    DEF Stale, DropStaleMirror, notion, IInv, Types, TypeOK, LocalsType, Routine, AtRoutine
  <2>3. /\ job' \in LocalsType /\ job'.ids = [job.ids EXCEPT ![m] = NoId]
        /\ UNCHANGED <<job.routine, job.tarea, job.todo, job.item, job.listed, job.live,
                       job.kept, job.prune, job.left>>
    BY <2>2 DEF LocalsType, NoId
  <2>4. PICK id : id = job.ids[m]
    OBVIOUS
  <2>5. \/ /\ Fine /\ DOMAIN tasks' = DOMAIN tasks \ {id}
           /\ \A i \in DOMAIN tasks' : tasks'[i] = tasks[i]
        \/ Fault /\ tasks' = tasks
    BY <2>2, <2>4 DEF DeleteTask, Without
  <2>6. job'.ids[m] = NoId /\ \A n \in Members \ {m} : job'.ids[n] = job.ids[n]
    BY <2>2, <2>3 DEF LocalsType
  <2>7. /\ Types' /\ IdsName' /\ KindsMatch' /\ SnapshotHolds' /\ ListingsHold'
        /\ LiveIsKept' /\ KeptIsPast'
        /\ \A r \in Routines : Untouched(r)' <=> Untouched(r)
    BY <1>Deletes, <2>0, <2>2, <2>3, <2>5, <2>6
  <2>8. MapCarries'
    <3> SUFFICES ASSUME job.item \notin turned, NEW n \in Members,
                        NEW i, i = routine[job.item].ids[n], i \in DOMAIN tasks'
                 PROVE  i = job'.ids[n] \/ Done(i)'
                          \/ (n \notin job.routine[job.item].targets /\ faults' > 0)
      BY <2>2, <2>3 DEF MapCarries
    <3>1. /\ i \in DOMAIN tasks /\ tasks'[i] = tasks[i]
          /\ i = job.ids[n] \/ Done(i) \/ (n \notin job.routine[job.item].targets /\ faults > 0)
      BY <2>0, <2>5 DEF IInv, MapCarries
    <3>2. i = job.ids[n] => n # m \/ Fault
      BY <2>4, <2>5, <3>1
    <3>3. i = job.ids[n] =>
            i = job'.ids[n] \/ (n \notin job.routine[job.item].targets /\ faults' > 0)
      BY <2>2, <2>6, <3>2 DEF Fault
    <3>4. faults > 0 => faults' > 0
      BY <2>2, <2>5 DEF Fine, Fault
    <3>5. Done(i) => Done(i)'
      BY <3>1 DEF Done
    <3> QED BY <3>1, <3>3, <3>4, <3>5
  <2>9. NoneLost'
    <3>1. CASE /\ Fine /\ DOMAIN tasks' = DOMAIN tasks \ {id}
               /\ \A i \in DOMAIN tasks' : tasks'[i] = tasks[i]
      <4>1. \A i \in DOMAIN tasks' : /\ Known(i) => Known(i)'
                                     /\ Done(i) => Done(i)'
                                     /\ ToPrune(i) => ToPrune(i)'
        <5> SUFFICES ASSUME NEW i \in DOMAIN tasks'
                     PROVE  /\ Known(i) => Known(i)'
                            /\ Done(i) => Done(i)'
                            /\ ToPrune(i) => ToPrune(i)'
          OBVIOUS
        <5>1. i # id /\ i \in DOMAIN tasks /\ tasks'[i] = tasks[i] /\ tasks[i].member \in Members
          BY <3>1 DEF IInv, Types, TypeOK, Task
        <5>2. job.ids[tasks[i].member] = i => job'.ids[tasks[i].member] = i
          BY <2>4, <2>6, <5>1
        <5> QED BY <2>0, <2>2, <2>3, <5>1, <5>2 DEF Known, Done, ToPrune, AtTarea
      <4> QED BY <2>0, <3>1, <4>1 DEF IInv, NoneLost, Fine
    <3>2. CASE Fault
      BY <2>2, <3>2 DEF NoneLost, Fault
    <3> QED BY <2>5, <3>1, <3>2
  <2>10. CleanSoFar'
    <3> SUFFICES ASSUME clean'
                 PROVE  CleanSoFar'
      BY DEF CleanSoFar
    <3>1. /\ clean /\ DOMAIN tasks' = DOMAIN tasks \ {id}
          /\ \A i \in DOMAIN tasks' : tasks'[i] = tasks[i]
      BY <2>5 DEF Fine, Fault
    <3>2. Names(id, job.item, m)
      BY <2>0, <2>2, <2>4 DEF IInv, IdsName, AtRoutine
    <3>3. \A q \in Routines, n \in Members : Pending(q, n)' => Pending(q, n) /\ q # job.item
      BY <2>0, <2>2, <2>3 DEF Pending, AtRoutine
    <3>4. \A q \in Routines, n \in Members :
            /\ q # job.item /\ job.routine[q].ids[n] \in DOMAIN tasks => job.routine[q].ids[n] # id
            /\ q # job.item /\ routine[q].ids[n] \in DOMAIN tasks => routine[q].ids[n] # id
      BY <2>0, <2>2, <3>2 DEF IInv, IdsName, Names
    <3>5. \A q \in Routines : ~Untouched(q) => q # job.item
      BY <2>0, <2>2 DEF Untouched, AtRoutine
    <3>6. \A q \in Routines, n \in Members : Pending(q, n)' /\ job'.listed[n] = "read" =>
            LET x == job'.routine[q].ids[n] IN
            x \in DOMAIN job'.live[n] => x \in DOMAIN tasks' /\ tasks'[x] = job'.live[n][x]
      BY <2>0, <2>2, <2>3, <3>1, <3>3, <3>4 DEF IInv, CleanSoFar
    <3>7. ASSUME NEW q \in Routines, ~Untouched(q), Mirrored(routine[q]),
                 NEW n \in routine[q].targets
          PROVE  Good(routine[q], q, n, routine[q].ids[n])' /\ routine[q].ids[n] \in job.kept
      <4>1. Good(routine[q], q, n, routine[q].ids[n]) /\ routine[q].ids[n] \in job.kept
        BY <2>0, <3>1, <3>7 DEF IInv, CleanSoFar
      <4>2. n \in Members
        BY <3>7 DEF IInv, Types, TypeOK, Routine
      <4> QED BY <2>2, <3>1, <3>4, <3>5, <3>7, <4>1, <4>2 DEF Good
    <3>8. ASSUME NEW n \in job.routine[job.item].targets
          PROVE  Good(job.routine[job.item], job.item, n, job.ids[n])'
      <4>1. Good(job.routine[job.item], job.item, n, job.ids[n])
        BY <2>0, <3>1, <3>8 DEF IInv, CleanSoFar
      <4>2. n # m /\ n \in Members /\ job'.ids[n] = job.ids[n]
        BY <2>2, <2>6, <3>8
      <4>3. job.ids[n] # id
        BY <3>2, <4>1, <4>2 DEF Good, Names
      <4> QED BY <2>3, <3>1, <4>1, <4>2, <4>3 DEF Good
    <3> QED
      BY <2>0, <2>2, <2>3, <2>7, <3>1, <3>6, <3>7, <3>8
      DEF IInv, CleanSoFar, SamePage, Mirrored, Good
  <2> QED BY <2>0, <2>2, <2>7, <2>8, <2>9, <2>10 DEF IInv, CleanPushConverges, Settled
<1>Prune. ASSUME IInv, PruneOrphanMirrors
          PROVE  IInv'
  <2> USE <1>Prune
  <2>0. pc = "prune" /\ UNCHANGED <<routine, tarea, last, edits, turned>>
    BY DEF PruneOrphanMirrors, notion
  <2>1. CASE job.left = {}
    BY <2>0, <2>1, <1>Ends DEF PruneOrphanMirrors, IInv, Types, notion
  <2>2. CASE job.left # {}
    <3>1. PICK m \in job.left : m = TheFirst(job.left)
      BY <2>2, TheFirstIn
    <3>2. PICK failed \in {{}} \cup {{i} : i \in Orphans(m)} \cup {Orphans(m)} :
            /\ IF failed = {} THEN Fine ELSE Fault
            /\ tasks' = [i \in (DOMAIN tasks \ Orphans(m)) \cup failed |-> tasks[i]]
            /\ job' = [job EXCEPT !.left = @ \ {m}] /\ UNCHANGED pc
      BY <2>2, <3>1 DEF PruneOrphanMirrors
    <3>3. /\ DOMAIN tasks' = (DOMAIN tasks \ Orphans(m)) \cup failed
          /\ DOMAIN tasks' \subseteq DOMAIN tasks /\ \A i \in DOMAIN tasks' : tasks'[i] = tasks[i]
      <4>1. failed \subseteq DOMAIN tasks
        BY DEF Orphans
      <4> QED BY <3>2, <4>1
    <3>4. job \in LocalsType /\ m \in Members /\ faults \in Nat
      BY <2>0, <3>1 DEF IInv, Types, TypeOK, LocalsType
    <3>5. /\ job' \in LocalsType /\ job'.left = job.left \ {m}
          /\ UNCHANGED <<job.routine, job.tarea, job.todo, job.item, job.listed, job.live,
                         job.kept, job.prune, job.ids>>
      BY <3>2, <3>4 DEF LocalsType
    <3>6. /\ Types' /\ IdsName' /\ KindsMatch' /\ SnapshotHolds' /\ ListingsHold'
          /\ LiveIsKept' /\ KeptIsPast'
          /\ \A r \in Routines : Untouched(r)' <=> Untouched(r)
      BY <1>Deletes, <2>0, <3>2, <3>3, <3>5
    <3>7. NoneLost'
      <4>1. CASE failed = {}
        <5>1. \A i \in DOMAIN tasks' : /\ Known(i) => Known(i)'
                                       /\ Done(i) => Done(i)'
                                       /\ ToPrune(i) => ToPrune(i)'
          BY <2>0, <3>2, <3>3, <3>5, <4>1 DEF Known, Done, ToPrune, AtTarea, Orphans
        <5> QED BY <2>0, <3>2, <3>3, <4>1, <5>1 DEF IInv, NoneLost, Fine
      <4>2. CASE failed # {}
        BY <3>2, <3>4, <4>2 DEF NoneLost, Fault
      <4> QED BY <4>1, <4>2
    <3>8. CleanSoFar'
      <4> SUFFICES ASSUME clean'
                   PROVE  CleanSoFar'
        BY DEF CleanSoFar
      <4>1. clean /\ failed = {}
        BY <3>2 DEF Fine, Fault
      <4>2. \A q \in Routines, n \in Members : ~Pending(q, n)'
        BY <2>0, <3>2, <3>5 DEF IInv, Types, Pending, AtRoutine
      <4>3. ASSUME NEW q \in Routines, ~Untouched(q), Mirrored(routine[q]),
                   NEW n \in routine[q].targets
            PROVE  Good(routine[q], q, n, routine[q].ids[n])' /\ routine[q].ids[n] \in job.kept
        <5>1. Good(routine[q], q, n, routine[q].ids[n]) /\ routine[q].ids[n] \in job.kept
          BY <2>0, <4>1, <4>3 DEF IInv, CleanSoFar
        <5> QED BY <2>0, <3>3, <4>1, <5>1 DEF Good, Orphans
      <4>4. /\ \A q \in Routines : SamePage(q)'
            /\ \A n \in Members : job'.listed[n] # "failed"
        BY <2>0, <3>5, <4>1 DEF IInv, CleanSoFar, SamePage
      <4>5. pc' = "prune" /\ \A q \in Routines : Untouched(q)' <=> Untouched(q)
        BY <2>0, <3>2, <3>6
      <4> QED BY <2>0, <3>5, <4>2, <4>3, <4>4, <4>5 DEF CleanSoFar, Mirrored, Good
    <3> QED BY <2>0, <3>2, <3>6, <3>7, <3>8 DEF IInv, MapCarries, CleanPushConverges, Settled
  <2> QED BY <2>1, <2>2
\* The page of the routine the push is at is written, or not; the push goes on.
<1>Writes. ASSUME IInv, AtRoutine, pc' = "next", job' \in LocalsType, Fine \/ Fault,
                  UNCHANGED <<tarea, tasks, last, edits, turned>>,
                  UNCHANGED <<job.routine, job.tarea, job.todo, job.item, job.listed, job.live,
                              job.prune, job.ids, job.left>>,
                  NEW new \in [Members -> Nat],
                  \A m \in Members : Names(new[m], job.item, m),
                  routine' = routine \/ routine' = [routine EXCEPT ![job.item].ids = new],
                  NEW more \in SUBSET Members,
                  job'.kept = job.kept \cup ({job.ids[m] : m \in more} \ {NoId})
           PROVE  /\ Types' /\ IdsName' /\ KindsMatch' /\ SnapshotHolds' /\ ListingsHold'
                  /\ KeptIsPast'
                  /\ \A q \in Routines : ~Untouched(q)' <=> ~Untouched(q) \/ q = job.item
                  /\ \A q \in Routines \ {job.item} : routine'[q] = routine[q]
                  /\ \A q \in Routines :
                       /\ routine'[q].targets = routine[q].targets
                       /\ routine'[q].retired = routine[q].retired
                       /\ routine'[q].todo = routine[q].todo /\ routine'[q].dated = routine[q].dated
                       /\ routine'[q].text = routine[q].text
                  /\ routine' # routine => routine'[job.item].ids = new
  <2> USE <1>Writes
  <2>0. /\ last \in Nat /\ faults \in Nat /\ clean \in BOOLEAN /\ job \in LocalsType
        /\ routine \in [Routines -> Routine] /\ job.item \in Routines \ job.todo
        /\ job.ids \in [Members -> 0..last] /\ job.kept \subseteq 1..last /\ pc # "idle"
    BY DEF IInv, Types, TypeOK, AtRoutine
  <2>1. faults' \in Nat /\ clean' \in BOOLEAN
    <3>1. faults' \in Nat
      BY <2>0 DEF Fine, Fault
    <3>2. clean' \in BOOLEAN
      BY <2>0, Zenon DEF Fine, Fault
    <3> QED BY <3>1, <3>2
  <2>2. /\ routine' \in [Routines -> Routine]
        /\ \A q \in Routines \ {job.item} : routine'[q] = routine[q]
        /\ \A q \in Routines :
             /\ routine'[q].targets = routine[q].targets
             /\ routine'[q].retired = routine[q].retired
             /\ routine'[q].todo = routine[q].todo /\ routine'[q].dated = routine[q].dated
             /\ routine'[q].text = routine[q].text
        /\ routine' # routine => routine'[job.item].ids = new
    <3>1. CASE routine' = [routine EXCEPT ![job.item].ids = new]
      <4>2. \A q \in Routines \ {job.item} : routine'[q] = routine[q]
        BY <2>0, <3>1
      <4>3. routine'[job.item] = [routine[job.item] EXCEPT !.ids = new]
        BY <2>0, <3>1
      <4>4. routine[job.item] \in Routine
        BY <2>0
      <4>5. /\ routine'[job.item].targets = routine[job.item].targets
            /\ routine'[job.item].retired = routine[job.item].retired
            /\ routine'[job.item].todo = routine[job.item].todo
            /\ routine'[job.item].dated = routine[job.item].dated
            /\ routine'[job.item].text = routine[job.item].text
            /\ routine'[job.item].ids = new
        BY <4>3, <4>4 DEF Routine
      <4>6. routine'[job.item] \in Routine
        BY <4>3, <4>4 DEF Routine
      <4>7. routine' \in [Routines -> Routine]
        <5>1. routine' = [routine EXCEPT ![job.item] = routine'[job.item]]
          BY <2>0, <3>1, <4>3
        <5> QED BY <2>0, <4>6, <5>1
      <4> QED BY <4>2, <4>5, <4>7
    <3> QED BY <2>0, <3>1
  <2>3. \A q \in Routines : ~Untouched(q)' <=> ~Untouched(q) \/ q = job.item
    BY <2>0 DEF Untouched, AtRoutine
  <2>4. job'.kept \subseteq 1..last
    BY <2>0 DEF NoId
  <2>5. Types'
    BY <2>0, <2>1, <2>2, <2>4 DEF IInv, Types, TypeOK, AtRoutine, AtTarea
  <2>6. IdsName'
    BY <2>0, <2>2 DEF IInv, IdsName, Names, AtRoutine
  <2>7. KindsMatch' /\ ListingsHold'
    BY <2>0, <2>2 DEF IInv, KindsMatch, ListingsHold
  <2>8. SnapshotHolds'
    BY <2>0, <2>2, <2>3 DEF IInv, SnapshotHolds, AtTarea, AtRoutine
  <2>9. KeptIsPast'
    BY <2>0 DEF IInv, KeptIsPast, AtRoutine, AtTarea, IdsName, Names
  <2> QED BY <2>2, <2>3, <2>5, <2>6, <2>7, <2>8, <2>9
<1>Clears. ASSUME IInv, DropRetiredMirror, job.left = {}
           PROVE  IInv'
  <2> USE <1>Clears
  <2>1. /\ pc = "retire" /\ pc' = "next" /\ UNCHANGED <<job, tarea, tasks, last, edits, turned>>
        /\ \/ Fine /\ routine' = [routine EXCEPT ![job.item].ids = NoIds]
           \/ Fault /\ (routine' = routine \/ routine' = [routine EXCEPT ![job.item].ids = NoIds])
    BY DEF DropRetiredMirror, UpdatePage
  <2>2. /\ job \in LocalsType /\ last \in Nat /\ job.item \in Routines \ job.todo
        /\ routine \in [Routines -> Routine] /\ 0 \notin DOMAIN tasks
        /\ job.routine[job.item].retired /\ faults \in Nat
        /\ \A i \in DOMAIN tasks : tasks[i].member \in Members
    BY <2>1 DEF IInv, Types, TypeOK, AtRoutine, Task
  <2>3. NoIds \in [Members -> Nat] /\ \A m \in Members : NoIds[m] = 0
    BY DEF NoIds, NoId
  <2>4. \A m \in Members : Names(NoIds[m], job.item, m)
    BY <2>2, <2>3 DEF Names
  <2>5. PICK new \in [Members -> Nat] : new = NoIds
    BY <2>3
  <2>6. /\ Types' /\ IdsName' /\ KindsMatch' /\ SnapshotHolds' /\ ListingsHold'
        /\ KeptIsPast'
        /\ \A q \in Routines : ~Untouched(q)' <=> ~Untouched(q) \/ q = job.item
        /\ \A q \in Routines \ {job.item} : routine'[q] = routine[q]
        /\ \A q \in Routines :
             /\ routine'[q].targets = routine[q].targets
             /\ routine'[q].retired = routine[q].retired
             /\ routine'[q].todo = routine[q].todo /\ routine'[q].dated = routine[q].dated
             /\ routine'[q].text = routine[q].text
        /\ routine' # routine => routine'[job.item].ids = new
    <3>1. AtRoutine /\ (Fine \/ Fault)
      BY <2>1 DEF AtRoutine
    <3>2. routine' = routine \/ routine' = [routine EXCEPT ![job.item].ids = new]
      BY <2>1, <2>5
    <3>3. job'.kept = job.kept \cup ({job.ids[m] : m \in {}} \ {NoId})
      BY <2>1
    <3>4. AtRoutine /\ \A m \in Members : Names(new[m], job.item, m)
      BY <2>1, <2>4, <2>5 DEF AtRoutine
    <3> QED BY <1>Writes, <2>1, <2>2, <3>1, <3>2, <3>3, <3>4
  <2>7. LiveIsKept'
    BY <2>1, <2>2, <2>6 DEF IInv, LiveIsKept, Mirrored, Done
  <2>8. NoneLost'
    <3>1. CASE Fine /\ routine' = [routine EXCEPT ![job.item].ids = NoIds]
      <4> SUFFICES ASSUME faults = 0
                   PROVE  NoneLost'
        BY <3>1 DEF NoneLost, Fine
      <4>1. \A m \in Members : routine[job.item].ids[m] \notin DOMAIN tasks
        BY <2>1, <2>2 DEF IInv, NoneLost, SnapshotHolds, Untouched, AtRoutine
      <4>2. \A i \in DOMAIN tasks : /\ Known(i) => Known(i)'
                                    /\ Done(i) => Done(i)'
                                    /\ ToPrune(i) => ToPrune(i)'
        BY <2>1, <2>2, <2>6, <4>1 DEF Known, Done, ToPrune, AtTarea
      <4> QED BY <2>1, <4>2 DEF IInv, NoneLost
    <3>2. CASE Fault
      BY <2>2, <3>2 DEF NoneLost, Fault
    <3> QED BY <2>1, <3>1, <3>2
  <2>9. CleanSoFar'
    <3> SUFFICES ASSUME clean'
                 PROVE  CleanSoFar'
      BY DEF CleanSoFar
    <3>1. clean
      BY <2>1 DEF Fine, Fault
    <3>2. /\ \A q \in Routines : SamePage(q) /\ SamePage(q)'
          /\ ~Mirrored(routine[job.item])
      BY <2>1, <2>2, <2>6, <3>1 DEF IInv, CleanSoFar, SamePage, Mirrored
    <3>3. \A q \in Routines, n \in Members : Pending(q, n)' => Pending(q, n)
      BY <2>1, <2>2 DEF Pending, AtRoutine
    <3>4. ASSUME NEW q \in Routines, ~Untouched(q)', Mirrored(routine[q])',
                 NEW n \in routine'[q].targets
          PROVE  Good(routine[q], q, n, routine[q].ids[n])' /\ routine'[q].ids[n] \in job.kept
      <4>1. q # job.item /\ routine'[q] = routine[q] /\ Mirrored(routine[q])
        BY <2>1, <2>6, <3>2, <3>4 DEF Mirrored
      <4>2. Good(routine[q], q, n, routine[q].ids[n]) /\ routine[q].ids[n] \in job.kept
        BY <2>1, <2>6, <3>1, <3>4, <4>1 DEF IInv, CleanSoFar
      <4> QED BY <2>1, <4>1, <4>2 DEF Good
    <3> QED BY <2>1, <3>1, <3>2, <3>3, <3>4 DEF IInv, CleanSoFar
  <2> QED BY <2>1, <2>6, <2>7, <2>8, <2>9 DEF IInv, MapCarries, CleanPushConverges, Settled
<1>WriteMap. ASSUME IInv, WriteMap
             PROVE  IInv'
  <2> USE <1>WriteMap
  <2>1. PICK r : r = job.item
    OBVIOUS
  <2>2. /\ pc = "mirror" /\ pc' = "next" /\ job.left = {}
        /\ UNCHANGED <<tarea, tasks, last, edits, turned>>
        /\ job' = [job EXCEPT !.kept = @ \cup Kept(job.ids, job.routine[r].targets)]
        /\ \/ Fine /\ routine' = routine /\ job.ids = job.routine[r].ids
           \/ Fine /\ routine' = [routine EXCEPT ![job.item].ids = job.ids]
           \/ Fault /\ (routine' = routine \/ routine' = [routine EXCEPT ![job.item].ids = job.ids])
    BY <2>1 DEF WriteMap, UpdatePage
  <2>3. /\ job \in LocalsType /\ last \in Nat /\ r \in Routines \ job.todo
        /\ routine \in [Routines -> Routine] /\ 0 \notin DOMAIN tasks
        /\ job.routine[r].targets \in SUBSET Members /\ faults \in Nat
        /\ job.ids \in [Members -> 0..last] /\ job.ids \in [Members -> Nat]
        /\ \A i \in DOMAIN tasks : tasks[i].member \in Members
        /\ \A m \in Members : Names(job.ids[m], r, m)
    BY <2>1, <2>2 DEF IInv, Types, TypeOK, AtRoutine, Task, IdsName, LocalsType, Routine
  <2> DEFINE targets == job.routine[r].targets
  <2>4. /\ job' \in LocalsType
        /\ UNCHANGED <<job.routine, job.tarea, job.todo, job.item, job.listed, job.live,
                       job.prune, job.ids, job.left>>
        /\ job'.kept = job.kept \cup ({job.ids[m] : m \in targets} \ {NoId})
    <3>1. Kept(job.ids, targets) \in SUBSET Nat
      BY <2>3 DEF Kept
    <3> QED BY <2>2, <2>3, <3>1 DEF LocalsType, Kept
  <2>5. PICK new \in [Members -> Nat] : new = job.ids
    BY <2>3
  <2>6. /\ Types' /\ IdsName' /\ KindsMatch' /\ SnapshotHolds' /\ ListingsHold'
        /\ KeptIsPast'
        /\ \A q \in Routines : ~Untouched(q)' <=> ~Untouched(q) \/ q = job.item
        /\ \A q \in Routines \ {job.item} : routine'[q] = routine[q]
        /\ \A q \in Routines :
             /\ routine'[q].targets = routine[q].targets
             /\ routine'[q].retired = routine[q].retired
             /\ routine'[q].todo = routine[q].todo /\ routine'[q].dated = routine[q].dated
             /\ routine'[q].text = routine[q].text
        /\ routine' # routine => routine'[job.item].ids = new
    <3>1. AtRoutine /\ (Fine \/ Fault)
      BY <2>2 DEF AtRoutine
    <3>2. routine' = routine \/ routine' = [routine EXCEPT ![job.item].ids = new]
      BY <2>2, <2>5
    <3>3. AtRoutine /\ \A m \in Members : Names(new[m], job.item, m)
      BY <2>1, <2>2, <2>3, <2>5 DEF AtRoutine
    <3> QED BY <1>Writes, <2>2, <2>3, <2>4, <3>1, <3>2, <3>3
  <2>7. \A m \in Members : routine'[r].ids[m] \in {routine[r].ids[m], job.ids[m]}
    BY <2>1, <2>3, <2>5, <2>6
  <2>8. Fine => routine'[r].ids = job.ids
    <3>1. routine[r].ids = job.routine[r].ids
      BY <2>1, <2>2, <2>3 DEF IInv, SnapshotHolds, Untouched, AtRoutine
    <3>2. routine' = [routine EXCEPT ![job.item].ids = job.ids] => routine'[r].ids = job.ids
      BY <2>1, <2>3 DEF Routine
    <3> QED BY <2>2, <2>3, <3>1, <3>2 DEF Fine, Fault
  <2>9. LiveIsKept'
    <3> SUFFICES ASSUME NEW q \in Routines \ turned, ~Untouched(q)', Mirrored(job.routine[q]),
                        NEW m \in job.routine[q].targets,
                        NEW i, i = routine'[q].ids[m], i \in DOMAIN tasks
                 PROVE  i \in job'.kept \/ Done(i)
      BY <2>2, <2>4 DEF LiveIsKept, Mirrored, Done
    <3>1. CASE q # r
      BY <2>1, <2>2, <2>4, <2>6, <3>1 DEF IInv, LiveIsKept
    <3>2. CASE q = r
      <4>1. m \in Members /\ (i = job.ids[m] \/ Done(i))
        BY <2>1, <2>2, <2>3, <2>7, <3>2 DEF IInv, MapCarries
      <4> QED BY <2>3, <2>4, <3>2, <4>1 DEF NoId
    <3> QED BY <3>1, <3>2
  <2>10. NoneLost'
    <3>1. CASE Fault
      BY <2>3, <3>1 DEF NoneLost, Fault
    <3>2. CASE Fine
      <4> SUFFICES ASSUME faults = 0
                   PROVE  NoneLost'
        BY <3>2 DEF NoneLost, Fine
      <4>1. ASSUME NEW i \in DOMAIN tasks, tasks[i].of \notin turned, Known(i)
            PROVE  Known(i)' \/ Done(i)
        <5>1. CASE tasks[i].of = r
          <6>1. job.ids[tasks[i].member] = i => Known(i)'
            BY <2>2, <2>3, <2>8, <3>2, <5>1 DEF Known
          <6>2. routine[r].ids[tasks[i].member] = i => job.ids[tasks[i].member] = i \/ Done(i)
            BY <2>1, <2>2, <2>3, <4>1, <5>1 DEF IInv, MapCarries
          <6>3. r \notin Tareas
            BY <2>3, MirrorsAssumption
          <6> QED BY <2>2, <4>1, <5>1, <6>1, <6>2, <6>3 DEF Known
        <5>2. CASE tasks[i].of # r
          BY <2>1, <2>2, <2>4, <2>6, <4>1, <5>2 DEF Known
        <5> QED BY <5>1, <5>2
      <4>2. ASSUME NEW i \in DOMAIN tasks, ToPrune(i)
            PROVE  ToPrune(i)'
        <5>1. i \notin job'.kept
          BY <2>3, <2>4, <4>2, MirrorsAssumption DEF ToPrune, Names
        <5> QED BY <2>2, <2>4, <4>2, <5>1 DEF ToPrune, AtTarea
      <4>3. \A i \in DOMAIN tasks : Done(i) => Done(i)'
        BY <2>2 DEF Done
      <4> QED BY <2>2, <4>1, <4>2, <4>3 DEF IInv, NoneLost
    <3> QED BY <2>2, <3>1, <3>2
  <2>11. CleanSoFar'
    <3> SUFFICES ASSUME clean'
                 PROVE  CleanSoFar'
      BY DEF CleanSoFar
    <3>1. clean /\ Fine
      BY <2>2 DEF Fine, Fault
    <3>2. \A q \in Routines : SamePage(q) /\ SamePage(q)'
      BY <2>2, <2>4, <2>6, <3>1 DEF IInv, CleanSoFar, SamePage
    <3>3. \A q \in Routines, n \in Members : Pending(q, n)' => Pending(q, n)
      BY <2>2, <2>4 DEF Pending, AtRoutine
    <3>4. ASSUME NEW q \in Routines, ~Untouched(q)', Mirrored(routine[q])',
                 NEW n \in routine'[q].targets
          PROVE  Good(routine[q], q, n, routine[q].ids[n])' /\ routine'[q].ids[n] \in job'.kept
      <4>1. CASE q # r
        <5>1. routine'[q] = routine[q] /\ Mirrored(routine[q])
          BY <2>1, <2>6, <3>4, <4>1 DEF Mirrored
        <5>2. Good(routine[q], q, n, routine[q].ids[n]) /\ routine[q].ids[n] \in job.kept
          BY <2>1, <2>2, <2>6, <3>1, <3>4, <4>1, <5>1 DEF IInv, CleanSoFar
        <5> QED BY <2>2, <2>4, <5>1, <5>2 DEF Good
      <4>2. CASE q = r
        <5>1. n \in targets /\ n \in Members
          BY <2>1, <2>3, <2>6, <3>2, <3>4, <4>2 DEF SamePage
        <5>2. Good(job.routine[r], r, n, job.ids[n])
          BY <2>1, <2>2, <3>1, <5>1 DEF IInv, CleanSoFar
        <5>3. job.ids[n] \in DOMAIN tasks /\ job.ids[n] \in job'.kept
          BY <2>3, <2>4, <5>1, <5>2 DEF Good, NoId
        <5>4. routine'[r].todo = job.routine[r].todo /\ routine'[r].text = job.routine[r].text
          BY <2>1, <2>3, <2>6, <3>2 DEF SamePage
        <5> QED BY <2>2, <2>8, <3>1, <4>2, <5>2, <5>3, <5>4 DEF Good
      <4> QED BY <4>1, <4>2
    <3>5. \A n \in Members : job'.listed[n] # "failed"
      BY <2>2, <2>4, <3>1 DEF IInv, CleanSoFar
    <3>6. \A q \in Routines, n \in Members : Pending(q, n)' /\ job'.listed[n] = "read" =>
            LET x == job'.routine[q].ids[n] IN
            x \in DOMAIN job'.live[n] => x \in DOMAIN tasks' /\ tasks'[x] = job'.live[n][x]
      BY <2>2, <2>4, <3>1, <3>3 DEF IInv, CleanSoFar
    <3> QED BY <2>2, <3>2, <3>4, <3>5, <3>6 DEF CleanSoFar
  <2> QED BY <2>2, <2>6, <2>9, <2>10, <2>11 DEF IInv, MapCarries, CleanPushConverges, Settled
<1>ListTasks. ASSUME IInv, ListTasks
              PROVE  IInv'
  <2> USE <1>ListTasks
  <2>0. /\ pc = "mirror" /\ job.left # {}
        /\ UNCHANGED <<routine, tarea, tasks, pc, last, edits, turned>>
    BY DEF ListTasks, notion
  <2>1. PICK m \in job.left : m = TheFirst(job.left)
    BY <2>0, TheFirstIn
  <2>2. PICK seen : seen = {i \in DOMAIN tasks : tasks[i].member = m}
    OBVIOUS
  <2>3. PICK list : list = [i \in seen |-> tasks[i]]
    OBVIOUS
  <2>4. /\ job.listed[m] = "unread"
        /\ \/ Fine /\ job' = [job EXCEPT !.listed[m] = "read", !.live[m] = list]
           \/ Fault /\ job' = [job EXCEPT !.listed[m] = "failed"]
    BY <2>1, <2>2, <2>3 DEF ListTasks
  <2>5. /\ job \in LocalsType /\ last \in Nat /\ m \in Members /\ faults \in Nat
        /\ clean \in BOOLEAN /\ DOMAIN tasks \subseteq 1..last
        /\ \A i \in DOMAIN tasks : tasks[i] \in Task
    BY <2>0, <2>1 DEF IInv, Types, TypeOK
  <2>6. list \in Lists
    <3>1. seen \in SUBSET Nat /\ list \in [seen -> Task]
      BY <2>2, <2>3, <2>5
    <3> QED BY <3>1 DEF Lists
  <2>7. /\ job' \in LocalsType
        /\ UNCHANGED <<job.routine, job.tarea, job.todo, job.item, job.kept, job.prune, job.ids,
                       job.left>>
        /\ \A n \in Members \ {m} : job'.listed[n] = job.listed[n] /\ job'.live[n] = job.live[n]
        /\ Fine => job'.listed[m] = "read" /\ job'.live[m] = list
        /\ ~Fine => job'.listed[m] = "failed"
    <3>1. Fine => ~Fault
      BY <2>5 DEF Fine, Fault
    <3>2. CASE Fine /\ job' = [job EXCEPT !.listed[m] = "read", !.live[m] = list]
      BY <2>5, <2>6, <3>1, <3>2 DEF LocalsType
    <3>3. CASE Fault /\ job' = [job EXCEPT !.listed[m] = "failed"]
      BY <2>5, <3>1, <3>3 DEF LocalsType
    <3> QED BY <2>4, <3>2, <3>3
  <2>8. faults' \in Nat /\ clean' \in BOOLEAN /\ (~Fine => faults' > 0 /\ ~clean')
    <3>1. CASE Fine
      BY <2>5, <3>1 DEF Fine
    <3>2. CASE Fault
      <4>1. faults' \in Nat /\ faults' > 0
        BY <2>5, <3>2 DEF Fault
      <4>2. clean' \in BOOLEAN /\ ~clean'
        BY <3>2, Zenon DEF Fault
      <4> QED BY <4>1, <4>2
    <3> QED BY <2>4, <3>1, <3>2
  <2>9. Types' /\ IdsName' /\ KindsMatch'
    BY <2>0, <2>5, <2>7, <2>8
    DEF IInv, Types, TypeOK, IdsName, Names, KindsMatch, AtRoutine, AtTarea, Mirrored
  <2>10. \A q \in Routines : Untouched(q)' <=> Untouched(q)
    BY <2>0, <2>7 DEF Untouched, AtRoutine
  <2>11. SnapshotHolds' /\ LiveIsKept' /\ KeptIsPast'
    BY <2>0, <2>7, <2>10
    DEF IInv, SnapshotHolds, LiveIsKept, KeptIsPast, Mirrored, Done, AtTarea, AtRoutine
  <2>12. ListingsHold'
    <3> SUFFICES ASSUME NEW n \in Members, job'.listed[n] = "read"
                 PROVE  /\ \A i \in DOMAIN job'.live[n] : i <= last
                        /\ \A i \in DOMAIN job'.live[n] \cap DOMAIN tasks :
                             job'.live[n][i].completed /\ tasks[i].of \notin turned /\ tasks[i].todo
                               => tasks[i].completed
                        /\ \A q \in Routines :
                             job.routine[q].ids[n] \in DOMAIN tasks =>
                               job.routine[q].ids[n] \in DOMAIN job'.live[n]
      BY <2>0, <2>7 DEF ListingsHold
    <3>1. CASE n # m
      BY <2>0, <2>7, <3>1 DEF IInv, ListingsHold
    <3>2. CASE n = m
      <4>1. job'.live[n] = list /\ DOMAIN list = seen /\ \A i \in seen : list[i] = tasks[i]
        BY <2>3, <2>7, <3>2
      <4>2. \A q \in Routines : Names(job.routine[q].ids[m], q, m)
        BY <2>0, <2>5 DEF IInv, IdsName
      <4> QED BY <2>2, <2>5, <3>2, <4>1, <4>2 DEF Names
    <3> QED BY <3>1, <3>2
  <2>13. MapCarries' /\ NoneLost'
    <3>1. faults' = 0 => faults = 0
      BY <2>8 DEF Fine
    <3>2. faults > 0 => faults' > 0
      BY <2>5, <2>8 DEF Fine
    <3>3. MapCarries'
      BY <2>0, <2>7, <3>2 DEF IInv, MapCarries, Done
    <3>4. \A i \in DOMAIN tasks : /\ Known(i) => Known(i)'
                                  /\ Done(i) => Done(i)'
                                  /\ ToPrune(i) => ToPrune(i)'
      BY <2>0, <2>7 DEF Known, Done, ToPrune, AtTarea
    <3> QED BY <2>0, <3>1, <3>3, <3>4 DEF IInv, NoneLost
  <2>14. CleanSoFar'
    <3> SUFFICES ASSUME clean'
                 PROVE  CleanSoFar'
      BY DEF CleanSoFar
    <3>1. clean /\ Fine
      BY <2>8 DEF Fine
    <3>2. \A q \in Routines, n \in Members : Pending(q, n)' => Pending(q, n)
      BY <2>0, <2>7 DEF Pending, AtRoutine
    <3>3. ASSUME NEW q \in Routines, NEW n \in Members, Pending(q, n)', job'.listed[n] = "read",
                 NEW x, x = job.routine[q].ids[n], x \in DOMAIN job'.live[n]
          PROVE  x \in DOMAIN tasks /\ tasks[x] = job'.live[n][x]
      <4>1. CASE n = m
        BY <2>2, <2>3, <2>7, <3>1, <3>3, <4>1
      <4>2. CASE n # m
        BY <2>0, <2>7, <3>1, <3>2, <3>3, <4>2 DEF IInv, CleanSoFar
      <4> QED BY <4>1, <4>2
    <3>4. /\ \A q \in Routines : SamePage(q)'
          /\ \A n \in Members : job'.listed[n] # "failed"
      BY <2>0, <2>7, <3>1 DEF IInv, CleanSoFar, SamePage
    <3> QED
      BY <2>0, <2>7, <2>10, <3>1, <3>3, <3>4 DEF IInv, CleanSoFar, Mirrored, Good
  <2> QED
    BY <2>0, <2>9, <2>11, <2>12, <2>13, <2>14 DEF IInv, CleanPushConverges, Settled
\* A target of the routine is done with: what changes but the task of this target.
<1>Passes. ASSUME IInv, pc = "mirror", NEW m \in job.left, job.listed[m] # "unread", Passes(m),
                  UNCHANGED <<notion, pc, edits, turned>>
           PROVE  IInv'
  <2> USE <1>Passes
  <2>1. /\ job \in LocalsType /\ last \in Nat /\ m \in Members /\ faults \in Nat
        /\ job.listed[m] \in {"read", "failed"} /\ job.item \in Routines
        /\ UNCHANGED <<routine, tarea, last, edits, turned, pc, tasks>>
        /\ job' = [job EXCEPT !.left = @ \ {m}]
        /\ Fine \/ Fault
    BY DEF IInv, Types, TypeOK, AtRoutine, LocalsType, Passes, notion
  <2>2. /\ job' \in LocalsType /\ job'.left = job.left \ {m}
        /\ UNCHANGED <<job.routine, job.tarea, job.todo, job.item, job.listed, job.live,
                       job.kept, job.prune, job.ids>>
    BY <2>1 DEF LocalsType
  <2>3. /\ Types' /\ IdsName' /\ KindsMatch' /\ SnapshotHolds' /\ ListingsHold'
        /\ LiveIsKept' /\ KeptIsPast'
        /\ \A r \in Routines : Untouched(r)' <=> Untouched(r)
    BY <1>Deletes, <2>1, <2>2
  <2>4. MapCarries' /\ NoneLost'
    <3>1. (faults' = 0 => faults = 0) /\ (faults > 0 => faults' > 0)
      BY <2>1 DEF Fine, Fault
    <3>2. MapCarries'
      BY <2>1, <2>2, <3>1 DEF IInv, MapCarries, Done
    <3>3. \A i \in DOMAIN tasks : /\ Known(i) => Known(i)'
                                  /\ Done(i) => Done(i)'
                                  /\ ToPrune(i) => ToPrune(i)'
      BY <2>1, <2>2 DEF Known, Done, ToPrune, AtTarea
    <3> QED BY <2>1, <3>1, <3>2, <3>3 DEF IInv, NoneLost
  <2>5. CleanSoFar'
    <3> SUFFICES ASSUME clean'
                 PROVE  CleanSoFar'
      BY DEF CleanSoFar
    <3> DEFINE rec == job.routine[job.item]
               id == job.ids[m]
    <3>1. clean /\ job.listed[m] = "read" /\ Skips(rec, job.live[m], id)
      BY <2>1 DEF Passes, Fine, Fault, IInv, CleanSoFar
    <3>2. \A q \in Routines, n \in Members : Pending(q, n)' => Pending(q, n)
      BY <2>1, <2>2 DEF Pending, AtRoutine
    <3>3. Good(rec, job.item, m, id)
      <4>1. /\ id = rec.ids[m] /\ Pending(job.item, m) /\ Names(id, job.item, m)
        BY <2>1 DEF IInv, SnapshotHolds, Pending, AtRoutine, IdsName
      <4>2. id \in DOMAIN tasks /\ tasks[id] = job.live[m][id]
        BY <2>1, <3>1, <4>1 DEF IInv, CleanSoFar, Skips
      <4> QED BY <3>1, <4>1, <4>2 DEF Good, Names, Skips
    <3>4. \A n \in rec.targets \ job'.left : Good(rec, job.item, n, job.ids[n])
      BY <2>1, <2>2, <3>1, <3>3 DEF IInv, CleanSoFar
    <3>5. /\ \A q \in Routines : SamePage(q)'
          /\ \A n \in Members : job'.listed[n] # "failed"
          /\ \A q \in Routines, n \in Members : Pending(q, n)' /\ job'.listed[n] = "read" =>
               LET x == job'.routine[q].ids[n] IN
               x \in DOMAIN job'.live[n] => x \in DOMAIN tasks' /\ tasks'[x] = job'.live[n][x]
      BY <2>1, <2>2, <3>1, <3>2 DEF IInv, CleanSoFar, SamePage
    <3> QED
      BY <2>1, <2>2, <2>3, <3>1, <3>4, <3>5 DEF IInv, CleanSoFar, Mirrored, Good
  <2> QED BY <2>1, <2>3, <2>4, <2>5 DEF IInv, CleanPushConverges, Settled
<1>Updates. ASSUME IInv, pc = "mirror", NEW m \in job.left, job.listed[m] # "unread", Updates(m),
                   UNCHANGED <<notion, pc, edits, turned>>
            PROVE  IInv'
  <2> USE <1>Updates
  <2> DEFINE rec == job.routine[job.item]
  <2>1. PICK id : id = job.ids[m]
    OBVIOUS
  <2>2. /\ job \in LocalsType /\ last \in Nat /\ m \in Members /\ faults \in Nat
        /\ job.listed[m] \in {"read", "failed"} /\ job.item \in Routines \ job.todo
        /\ UNCHANGED <<routine, tarea, last, edits, turned, pc, faults, clean>>
        /\ job' = [job EXCEPT !.left = @ \ {m}]
        /\ ~rec.todo /\ id \in DOMAIN job.live[m] \cap DOMAIN tasks
        /\ tasks' = [tasks EXCEPT ![id].text = rec.text, ![id].todo = FALSE]
        /\ \A i \in DOMAIN tasks : tasks[i] \in Task
        /\ rec.text \in {0, 1} /\ rec.targets \subseteq Members /\ m \in rec.targets
    BY <2>1 DEF IInv, Types, TypeOK, AtRoutine, LocalsType, Updates, notion, Fine, Routine
  <2> HIDE DEF rec
  <2>3. /\ job' \in LocalsType /\ job'.left = job.left \ {m}
        /\ UNCHANGED <<job.routine, job.tarea, job.todo, job.item, job.listed, job.live,
                       job.kept, job.prune, job.ids>>
    BY <2>2 DEF LocalsType
  <2>4. /\ DOMAIN tasks' = DOMAIN tasks
        /\ \A i \in DOMAIN tasks \ {id} : tasks'[i] = tasks[i]
        /\ tasks'[id].of = tasks[id].of /\ tasks'[id].member = tasks[id].member
        /\ tasks'[id].completed = tasks[id].completed
        /\ tasks'[id].text = rec.text /\ tasks'[id].todo = FALSE
        /\ tasks'[id] \in Task
    <3>1. /\ DOMAIN tasks' = DOMAIN tasks
          /\ \A i \in DOMAIN tasks \ {id} : tasks'[i] = tasks[i]
          /\ tasks'[id] = [tasks[id] EXCEPT !.text = rec.text, !.todo = FALSE]
      BY <2>2
    <3>2. tasks[id] \in Task
      BY <2>2
    <3> QED BY <2>2, <3>1, <3>2 DEF Task
  <2>5. tasks[id].of = job.item /\ tasks[id].member = m
    BY <2>1, <2>2 DEF IInv, IdsName, Names, AtRoutine
  <2>6. job.item \notin turned => ~tasks[id].todo /\ ~routine[job.item].todo
    BY <2>2, <2>5 DEF IInv, KindsMatch, SnapshotHolds, rec
  <2>7. \A i \in DOMAIN tasks : tasks'[i] \in Task /\ tasks'[i].of = tasks[i].of
                                /\ tasks'[i].member = tasks[i].member
                                /\ tasks'[i].completed = tasks[i].completed
                                /\ (tasks[i].of \notin turned => tasks'[i].todo = tasks[i].todo)
                                /\ (tasks'[i].todo => tasks[i].todo)
    <3>1. tasks[id].todo \in BOOLEAN
      BY <2>2 DEF Task
    <3>2. tasks[id].of \notin turned => tasks[id].todo = FALSE
      BY <2>5, <2>6, <3>1
    <3> QED BY <2>2, <2>4, <3>2
  <2>8. \A q \in Routines : Untouched(q)' <=> Untouched(q)
    BY <2>2, <2>3 DEF Untouched, AtRoutine
  <2>9. Types' /\ IdsName' /\ KindsMatch' /\ KeptIsPast'
    <3>1. Types'
      BY <2>2, <2>3, <2>4, <2>7 DEF IInv, Types, TypeOK, AtRoutine, AtTarea, Mirrored
    <3>2. IdsName'
      BY <2>2, <2>3, <2>4, <2>7 DEF IInv, IdsName, Names, AtRoutine
    <3>3. KindsMatch'
      <4> SUFFICES ASSUME NEW i \in DOMAIN tasks, tasks[i].of \in Routines \ turned
                   PROVE  tasks'[i].todo = routine[tasks[i].of].todo
        <5>1. DOMAIN tasks' = DOMAIN tasks /\ routine' = routine /\ turned' = turned
          BY <2>2, <2>4
        <5>2. \A i \in DOMAIN tasks : tasks'[i].of = tasks[i].of
          BY <2>7
        <5> QED BY <5>1, <5>2 DEF KindsMatch
      <4>1. tasks'[i].todo = tasks[i].todo
        BY <2>7
      <4> QED BY <4>1 DEF IInv, KindsMatch
    <3>4. KeptIsPast'
      BY <2>2, <2>3, <2>4, <2>7 DEF IInv, KeptIsPast, AtRoutine, AtTarea
    <3> QED BY <3>1, <3>2, <3>3, <3>4
  <2>10. SnapshotHolds'
    BY <2>2, <2>3, <2>8 DEF IInv, SnapshotHolds, AtTarea
  <2>11. ListingsHold'
    BY <2>2, <2>3, <2>4, <2>7 DEF IInv, ListingsHold
  <2>12. \A i \in DOMAIN tasks : tasks[i].of \notin turned /\ Done(i) => Done(i)'
    BY <2>7 DEF Done
  <2>13. MapCarries'
    <3> SUFFICES ASSUME job.item \notin turned, NEW n \in Members,
                        NEW i, i = routine[job.item].ids[n], i \in DOMAIN tasks
                 PROVE  i = job.ids[n] \/ Done(i)' \/ (n \notin rec.targets /\ faults > 0)
      BY <2>2, <2>3, <2>4 DEF MapCarries, rec
    <3>1. i = job.ids[n] \/ Done(i) \/ (n \notin rec.targets /\ faults > 0)
      BY DEF IInv, MapCarries, rec
    <3>2. tasks[i].of = job.item
      BY <2>2 DEF IInv, IdsName, Names
    <3> QED BY <2>12, <3>1, <3>2
  <2>14. LiveIsKept'
    <3> SUFFICES ASSUME NEW q \in Routines \ turned, ~Untouched(q), Mirrored(job.routine[q]),
                        NEW n \in job.routine[q].targets,
                        NEW i, i = routine[q].ids[n], i \in DOMAIN tasks
                 PROVE  i \in job.kept \/ Done(i)'
      BY <2>2, <2>3, <2>4, <2>8 DEF LiveIsKept, Mirrored
    <3>1. i \in job.kept \/ Done(i)
      BY DEF IInv, LiveIsKept
    <3>2. n \in Members
      BY <2>2 DEF LocalsType, Routine
    <3>3. tasks[i].of = q
      BY <3>2 DEF IInv, IdsName, Names
    <3> QED BY <2>12, <3>1, <3>3
  <2>15. NoneLost'
    <3>1. \A i \in DOMAIN tasks : /\ Known(i) => Known(i)'
                                  /\ ToPrune(i) => ToPrune(i)'
      BY <2>2, <2>3, <2>7 DEF Known, ToPrune, AtTarea
    <3> QED BY <2>2, <2>4, <2>7, <2>12, <3>1 DEF IInv, NoneLost
  <2>16. CleanSoFar'
    <3> SUFFICES ASSUME clean
                 PROVE  CleanSoFar'
      BY <2>2 DEF CleanSoFar
    <3>1. \A q \in Routines, n \in Members :
            Pending(q, n)' => Pending(q, n) /\ ~(q = job.item /\ n = m)
      BY <2>2, <2>3 DEF Pending, AtRoutine
    <3>2. ASSUME NEW q \in Routines, NEW n \in Members, Pending(q, n)', job.listed[n] = "read",
                 NEW x, x = job.routine[q].ids[n], x \in DOMAIN job.live[n]
          PROVE  x \in DOMAIN tasks' /\ tasks'[x] = job.live[n][x]
      <4>1. x \in DOMAIN tasks /\ tasks[x] = job.live[n][x]
        BY <3>1, <3>2 DEF IInv, CleanSoFar
      <4>2. tasks[x].of = q /\ tasks[x].member = n
        BY <3>2, <4>1 DEF IInv, IdsName, Names
      <4>3. x # id
        BY <2>5, <3>1, <3>2, <4>2
      <4> QED BY <2>4, <4>1, <4>3
    <3>3. ASSUME NEW n \in rec.targets \ job'.left
          PROVE  Good(rec, job.item, n, job.ids[n])'
      <4>0. rec' = rec /\ n \in Members
        BY <2>2, <2>3 DEF rec
      <4>1. CASE n = m
        BY <2>1, <2>2, <2>3, <2>4, <2>5, <4>0, <4>1 DEF Good
      <4>2. CASE n # m
        <5>1. Good(rec, job.item, n, job.ids[n])
          BY <2>2, <2>3, <3>3, <4>2 DEF IInv, CleanSoFar, rec
        <5>2. job.ids[n] # id
          BY <2>5, <4>2, <5>1 DEF Good
        <5> QED BY <2>3, <2>4, <4>0, <5>1, <5>2 DEF Good
      <4> QED BY <4>1, <4>2
    <3>4. ASSUME NEW q \in Routines, ~Untouched(q), Mirrored(routine[q]),
                 NEW n \in routine[q].targets
          PROVE  Good(routine[q], q, n, routine[q].ids[n])' /\ routine[q].ids[n] \in job.kept
      <4>1. Good(routine[q], q, n, routine[q].ids[n]) /\ routine[q].ids[n] \in job.kept
        BY <3>4 DEF IInv, CleanSoFar
      <4>2. q # job.item
        BY <3>4 DEF Untouched, AtRoutine
      <4>3. routine[q].ids[n] # id
        BY <2>5, <4>1, <4>2 DEF Good
      <4> QED BY <2>2, <2>4, <4>1, <4>3 DEF Good
    <3>5. /\ \A q \in Routines : SamePage(q)'
          /\ \A n \in Members : job'.listed[n] # "failed"
      BY <2>2, <2>3 DEF IInv, CleanSoFar, SamePage
    <3>6. \A n \in job'.routine[job'.item].targets \ job'.left :
            Good(job.routine[job.item], job.item, n, job.ids[n])'
      BY <2>2, <2>3, <3>3 DEF rec
    <3>7. \A q \in Routines : ~Untouched(q)' /\ Mirrored(routine[q])' =>
            \A n \in routine'[q].targets :
              Good(routine[q], q, n, routine[q].ids[n])' /\ routine'[q].ids[n] \in job'.kept
      BY <2>2, <2>3, <2>8, <3>4 DEF Mirrored
    <3> QED BY <2>2, <2>3, <3>2, <3>5, <3>6, <3>7 DEF CleanSoFar
  <2> QED
    BY <2>2, <2>9, <2>10, <2>11, <2>13, <2>14, <2>15, <2>16
    DEF IInv, CleanPushConverges, Settled
\* create_task adds mirrors with ids that nothing names yet.
<1>Adds. ASSUME IInv, pc # "idle", NEW task \in Task, NEW made \in 0..2, NEW id \in Nat,
                Made(task, made, id), job' \in LocalsType,
                UNCHANGED <<routine, tarea, edits, turned>>,
                UNCHANGED <<job.routine, job.tarea, job.todo, job.item, job.listed, job.live,
                            job.kept, job.prune>>,
                task.of \in Routines \ turned => task.todo = routine[task.of].todo
         PROVE  /\ last' \in Nat /\ last <= last' /\ faults' \in Nat /\ clean' \in BOOLEAN
                /\ DOMAIN tasks' = DOMAIN tasks \cup (last + 1)..last'
                /\ DOMAIN tasks' \subseteq 1..last'
                /\ \A i \in DOMAIN tasks : tasks'[i] = tasks[i]
                /\ \A i \in DOMAIN tasks' : i <= last => i \in DOMAIN tasks
                /\ \A i \in DOMAIN tasks' \ DOMAIN tasks : tasks'[i] = task /\ i > last
                /\ id # NoId => id \in DOMAIN tasks' /\ tasks'[id] = task /\ id > last
                /\ id = NoId \/ id = last'
                /\ faults' = 0 => /\ faults = 0 /\ id # NoId
                                  /\ \A i \in DOMAIN tasks' \ DOMAIN tasks : i = id
                /\ faults > 0 => faults' > 0
                /\ clean' => clean /\ id # NoId
                /\ KindsMatch' /\ ListingsHold'
  <2> USE <1>Adds
  <2>0. /\ last \in Nat /\ faults \in Nat /\ clean \in BOOLEAN /\ DOMAIN tasks \subseteq 1..last
    BY DEF IInv, Types, TypeOK
  <2>1. /\ last' = last + made /\ (id = NoId \/ (made >= 1 /\ id = last + made))
        /\ tasks' = [i \in DOMAIN tasks \cup (last + 1)..(last + made) |->
                       IF i \in DOMAIN tasks THEN tasks[i] ELSE task]
        /\ \/ Fine /\ made = 1 /\ id # NoId
           \/ Fault
    BY DEF Made
  <2>2. /\ last' \in Nat /\ last <= last'
        /\ DOMAIN tasks' = DOMAIN tasks \cup (last + 1)..last'
        /\ \A i \in (last + 1)..last' : i \in Nat /\ i > last /\ i <= last'
    BY <2>0, <2>1
  <2>3. /\ DOMAIN tasks' \subseteq 1..last'
        /\ \A i \in (last + 1)..last' : i \notin DOMAIN tasks
    BY <2>0, <2>2
  <2>4. /\ \A i \in DOMAIN tasks : tasks'[i] = tasks[i]
        /\ \A i \in DOMAIN tasks' \ DOMAIN tasks : tasks'[i] = task
    BY <2>1, <2>2, <2>3
  <2>5. /\ \A i \in DOMAIN tasks' : i <= last => i \in DOMAIN tasks
        /\ \A i \in DOMAIN tasks' \ DOMAIN tasks : i > last
    BY <2>0, <2>2
  <2>6. id # NoId => id \in (last + 1)..last' /\ id = last'
    BY <2>0, <2>1
  <2>7. id # NoId => id \in DOMAIN tasks' /\ tasks'[id] = task /\ id > last
    BY <2>2, <2>3, <2>4, <2>6
  <2>8. faults' \in Nat /\ (faults' = 0 => faults = 0 /\ id # NoId /\ made = 1)
        /\ (faults > 0 => faults' > 0)
    BY <2>0, <2>1 DEF Fine, Fault
  <2>9. clean' \in BOOLEAN /\ (clean' => clean /\ id # NoId)
    <3>1. (Fine /\ id # NoId) \/ Fault
      BY <2>1
    <3>2. CASE Fine /\ id # NoId
      BY <2>0, <3>2, Zenon DEF Fine
    <3>3. CASE Fault
      BY <3>3, Zenon DEF Fault
    <3> QED BY <3>1, <3>2, <3>3
  <2>10. made = 1 => (last + 1)..last' = {last + 1} /\ last' = last + 1
    BY <2>0, <2>1
  <2>11. faults' = 0 => \A i \in DOMAIN tasks' \ DOMAIN tasks : i = id
    BY <2>2, <2>6, <2>8, <2>10
  <2>12. KindsMatch'
    BY <2>4 DEF IInv, KindsMatch
  <2>13. ListingsHold'
    <3> SUFFICES ASSUME NEW n \in Members, job.listed[n] = "read"
                 PROVE  /\ \A i \in DOMAIN job.live[n] : i <= last'
                        /\ \A i \in DOMAIN job.live[n] \cap DOMAIN tasks' :
                             job.live[n][i].completed /\ tasks'[i].of \notin turned /\ tasks'[i].todo
                               => tasks'[i].completed
                        /\ \A q \in Routines :
                             job.routine[q].ids[n] \in DOMAIN tasks' =>
                               job.routine[q].ids[n] \in DOMAIN job.live[n]
      BY DEF ListingsHold
    <3>1. \A i \in DOMAIN job.live[n] : i <= last /\ i \in Nat
      <4>1. job.live[n] \in Lists
        BY DEF IInv, Types, LocalsType
      <4>2. \A i \in DOMAIN job.live[n] : i \in Nat
        BY <4>1 DEF Lists
      <4> QED BY <4>2 DEF IInv, ListingsHold
    <3>2. \A q \in Routines : Names(job.routine[q].ids[n], q, n)
      BY DEF IInv, IdsName
    <3> QED BY <2>0, <2>2, <2>4, <2>5, <3>1, <3>2 DEF IInv, ListingsHold, Names
  <2> QED BY <2>2, <2>3, <2>4, <2>5, <2>6, <2>7, <2>8, <2>9, <2>11, <2>12, <2>13
<1>Renews. ASSUME IInv, pc = "mirror", NEW m \in job.left, NEW made \in 0..2, NEW id \in Nat,
                  Renews(m, made, id), UNCHANGED <<notion, pc, edits, turned>>
           PROVE  IInv'
  <2> USE <1>Renews
  <2> DEFINE rec == job.routine[job.item]
             task == TaskOf(job.item, m, rec.todo, rec.text)
  <2>1. PICK old : old = job.ids[m]
    OBVIOUS
  <2>2. /\ job \in LocalsType /\ last \in Nat /\ m \in Members
        /\ job.listed[m] = "read" /\ job.item \in Routines \ job.todo
        /\ UNCHANGED <<routine, tarea, edits, turned, pc>>
        /\ job' = [job EXCEPT !.left = @ \ {m}, !.ids[m] = IF id = NoId THEN @ ELSE id]
        /\ rec \in Routine /\ m \in rec.targets /\ rec.targets \subseteq Members
        /\ Made(task, made, id)
    BY DEF IInv, Types, TypeOK, AtRoutine, LocalsType, Renews, notion, Routine
  <2>3. /\ task \in Task /\ task.of = job.item /\ task.member = m /\ task.todo = rec.todo
        /\ task.text = rec.text /\ ~task.completed
        /\ task.of \in Routines \ turned => task.todo = routine[task.of].todo
    BY <2>2 DEF TaskOf, Task, Routine, IInv, SnapshotHolds
  <2>4. /\ job' \in LocalsType /\ job'.left = job.left \ {m}
        /\ UNCHANGED <<job.routine, job.tarea, job.todo, job.item, job.listed, job.live,
                       job.kept, job.prune>>
        /\ \A n \in Members \ {m} : job'.ids[n] = job.ids[n]
        /\ id = NoId => job'.ids[m] = old
        /\ id # NoId => job'.ids[m] = id
    <3>1. CASE id = NoId
      BY <2>1, <2>2, <3>1 DEF LocalsType
    <3>2. CASE id # NoId
      BY <2>1, <2>2, <3>2 DEF LocalsType
    <3> QED BY <3>1, <3>2
  <2> HIDE DEF task
  <2>5. /\ last' \in Nat /\ last <= last' /\ faults' \in Nat /\ clean' \in BOOLEAN
        /\ DOMAIN tasks' = DOMAIN tasks \cup (last + 1)..last'
        /\ DOMAIN tasks' \subseteq 1..last'
        /\ \A i \in DOMAIN tasks : tasks'[i] = tasks[i]
        /\ \A i \in DOMAIN tasks' : i <= last => i \in DOMAIN tasks
        /\ \A i \in DOMAIN tasks' \ DOMAIN tasks : tasks'[i] = task /\ i > last
        /\ id # NoId => id \in DOMAIN tasks' /\ tasks'[id] = task /\ id > last
        /\ id = NoId \/ id = last'
        /\ faults' = 0 => /\ faults = 0 /\ id # NoId
                          /\ \A i \in DOMAIN tasks' \ DOMAIN tasks : i = id
        /\ faults > 0 => faults' > 0
        /\ clean' => clean /\ id # NoId
        /\ KindsMatch' /\ ListingsHold'
    BY <1>Adds, <2>2, <2>3, <2>4
  <2> HIDE DEF rec
  <2>6. \A q \in Routines : Untouched(q)' <=> Untouched(q)
    BY <2>2, <2>4 DEF Untouched, AtRoutine
  <2>7. /\ \A q \in Routines, n \in Members : /\ Names(routine[q].ids[n], q, n)
                                              /\ Names(job.routine[q].ids[n], q, n)
        /\ \A n \in Members : Names(job.ids[n], job.item, n)
        /\ \A q \in Routines, n \in Members : routine[q].ids[n] \in Nat
        /\ job.ids \in [Members -> 0..last]
    BY <2>2 DEF IInv, IdsName, Types, TypeOK, Routine, AtRoutine
  <2>8. /\ routine \in [Routines -> Routine] /\ tarea \in [Tareas -> Tarea]
        /\ job.routine \in [Routines -> Routine] /\ job.tarea \in [Tareas -> Tarea]
    BY <2>2 DEF IInv, Types, TypeOK, LocalsType
  <2>9. Types'
    <3>1. job'.ids \in [Members -> 0..last']
      <4>1. \A n \in Members : job'.ids[n] \in 0..last'
        BY <2>1, <2>2, <2>4, <2>5, <2>7
      <4> QED BY <2>4, <4>1 DEF LocalsType
    <3>2. job'.kept \subseteq 1..last'
      BY <2>2, <2>4, <2>5 DEF IInv, Types, TypeOK
    <3>3. \A i \in DOMAIN tasks' : tasks'[i] \in Task
      BY <2>3, <2>5 DEF IInv, Types, TypeOK
    <3>4. TypeOK'
      BY <2>2, <2>4, <2>5, <3>1, <3>2, <3>3 DEF IInv, Types, TypeOK
    <3> QED
      BY <2>2, <2>4, <2>5, <3>4 DEF IInv, Types, AtRoutine, AtTarea, Mirrored
  <2>10. IdsName'
    <3>1. ASSUME NEW x \in Nat, NEW item, NEW n, Names(x, item, n)
          PROVE  Names(x, item, n)'
      BY <2>2, <2>5, <3>1 DEF Names
    <3>2. \A n \in Members : Names(job.ids[n], job.item, n)'
      <4> SUFFICES ASSUME NEW n \in Members, NEW x, x = job'.ids[n]
                   PROVE  x <= last' /\ (x \in DOMAIN tasks' => tasks'[x].of = job.item
                                                                /\ tasks'[x].member = n)
        BY <2>4 DEF Names
      <4>1. CASE n = m /\ id # NoId
        BY <2>3, <2>4, <2>5, <4>1
      <4>2. CASE ~(n = m /\ id # NoId)
        <5>1. x = job.ids[n]
          BY <2>1, <2>4, <4>2
        <5> QED BY <2>2, <2>5, <2>7, <5>1 DEF Names
      <4> QED BY <4>1, <4>2
    <3>3. \A q \in Routines, n \in Members : Names(routine[q].ids[n], q, n)'
      <4> SUFFICES ASSUME NEW q \in Routines, NEW n \in Members, NEW x \in Nat,
                          x = routine[q].ids[n]
                   PROVE  Names(x, q, n)'
        BY <2>2, <2>7 DEF Names
      <4> QED BY <2>7, <3>1
    <3>4. \A q \in Routines, n \in Members : Names(job.routine[q].ids[n], q, n)'
      <4> SUFFICES ASSUME NEW q \in Routines, NEW n \in Members, NEW x \in Nat,
                          x = job.routine[q].ids[n]
                   PROVE  Names(x, q, n)'
        BY <2>4, <2>8 DEF Names, Routine
      <4> QED BY <2>7, <3>1
    <3>5. \A t \in Tareas : Names(tarea[t].id, t, Assignee[t])'
      <4> SUFFICES ASSUME NEW t \in Tareas, NEW x \in Nat, x = tarea[t].id
                   PROVE  Names(x, t, Assignee[t])'
        BY <2>2, <2>8 DEF Names, Tarea
      <4> QED BY <3>1 DEF IInv, IdsName
    <3>6. \A t \in Tareas : Names(job.tarea[t].id, t, Assignee[t])'
      <4> SUFFICES ASSUME NEW t \in Tareas, NEW x \in Nat, x = job.tarea[t].id
                   PROVE  Names(x, t, Assignee[t])'
        BY <2>4, <2>8 DEF Names, Tarea
      <4> QED BY <3>1 DEF IInv, IdsName
    <3> QED BY <2>2, <2>4, <3>2, <3>3, <3>4, <3>5, <3>6 DEF IdsName
  <2>11. SnapshotHolds' /\ KeptIsPast'
    <3>1. SnapshotHolds'
      BY <2>2, <2>4, <2>6 DEF IInv, SnapshotHolds, AtTarea
    <3>2. job.kept \subseteq 1..last
      BY <2>2 DEF IInv, Types, TypeOK
    <3>3. KeptIsPast'
      BY <2>2, <2>4, <2>5, <3>2 DEF IInv, KeptIsPast, AtRoutine, AtTarea
    <3> QED BY <3>1, <3>3
  <2>12. MapCarries'
    <3> SUFFICES ASSUME job.item \notin turned, NEW n \in Members,
                        NEW i, i = routine[job.item].ids[n], i \in DOMAIN tasks'
                 PROVE  i = job'.ids[n] \/ Done(i)' \/ (n \notin rec.targets /\ faults' > 0)
      BY <2>2, <2>4 DEF MapCarries, rec
    <3>1. i \in DOMAIN tasks /\ tasks'[i] = tasks[i] /\ tasks[i].of = job.item
      BY <2>2, <2>5, <2>7 DEF Names
    <3>2. i = job.ids[n] \/ Done(i) \/ (n \notin rec.targets /\ faults > 0)
      BY <3>1 DEF IInv, MapCarries, rec
    <3>3. CASE n = m /\ i = old /\ id # NoId
      <4>1. i = job.routine[job.item].ids[m] /\ i \in DOMAIN job.live[m]
        BY <2>1, <2>2, <3>1, <3>3 DEF IInv, SnapshotHolds, ListingsHold
      <4>2. rec.todo /\ job.live[m][i].completed
        BY <2>1, <3>1, <3>3, <4>1 DEF Renews, Skips, rec
      <4>3. tasks[i].todo
        BY <2>2, <3>1, <4>2 DEF IInv, KindsMatch, SnapshotHolds, rec
      <4>4. tasks[i].completed
        BY <2>2, <3>1, <4>1, <4>2, <4>3 DEF IInv, ListingsHold
      <4> QED BY <3>1, <4>3, <4>4 DEF Done
    <3>4. CASE ~(n = m /\ i = old /\ id # NoId)
      BY <2>1, <2>4, <2>5, <3>1, <3>2, <3>4 DEF Done
    <3> QED BY <3>3, <3>4
  <2>13. LiveIsKept'
    <3> SUFFICES ASSUME NEW q \in Routines \ turned, ~Untouched(q), Mirrored(job.routine[q]),
                        NEW n \in job.routine[q].targets,
                        NEW i, i = routine[q].ids[n], i \in DOMAIN tasks'
                 PROVE  i \in job.kept \/ Done(i)'
      BY <2>2, <2>4, <2>6 DEF LiveIsKept, Mirrored
    <3>1. n \in Members
      BY <2>8 DEF Routine
    <3>2. i \in DOMAIN tasks /\ tasks'[i] = tasks[i]
      BY <2>2, <2>5, <2>7, <3>1 DEF Names
    <3> QED BY <3>2 DEF IInv, LiveIsKept, Done
  <2>14. NoneLost'
    <3> SUFFICES ASSUME faults' = 0, NEW i \in DOMAIN tasks', tasks'[i].of \notin turned
                 PROVE  Known(i)' \/ Done(i)' \/ ToPrune(i)'
      BY <2>2 DEF NoneLost
    <3>1. CASE i \in DOMAIN tasks
      <4>1. tasks'[i] = tasks[i] /\ tasks[i].member \in Members
        BY <2>5, <3>1 DEF IInv, Types, TypeOK, Task
      <4>2. Known(i) \/ Done(i) \/ ToPrune(i)
        BY <2>5, <3>1, <4>1 DEF IInv, NoneLost
      <4>3. Known(i) => Known(i)'
        <5>1. job.ids[m] = routine[job.item].ids[m]
          BY <2>2 DEF IInv, SnapshotHolds, Untouched, AtRoutine
        <5>2. job.ids[tasks[i].member] = i => job'.ids[tasks[i].member] = i \/ tasks[i].member = m
          BY <2>4, <4>1
        <5> QED BY <2>2, <2>4, <4>1, <5>1, <5>2 DEF Known
      <4>4. (Done(i) => Done(i)') /\ (ToPrune(i) => ToPrune(i)')
        BY <2>2, <2>4, <4>1 DEF Done, ToPrune, AtTarea
      <4> QED BY <4>2, <4>3, <4>4
    <3>2. CASE i \notin DOMAIN tasks
      BY <2>2, <2>3, <2>4, <2>5, <3>2 DEF Known
    <3> QED BY <3>1, <3>2
  <2>15. CleanSoFar'
    <3> SUFFICES ASSUME clean'
                 PROVE  CleanSoFar'
      BY DEF CleanSoFar
    <3>1. clean /\ id # NoId
      BY <2>5
    <3>2. \A q \in Routines, n \in Members : Pending(q, n)' => Pending(q, n)
      BY <2>2, <2>4 DEF Pending, AtRoutine
    <3>3. \A q \in Routines, n \in Members : Pending(q, n)' /\ job'.listed[n] = "read" =>
            LET x == job'.routine[q].ids[n] IN
            x \in DOMAIN job'.live[n] => x \in DOMAIN tasks' /\ tasks'[x] = job'.live[n][x]
      BY <2>2, <2>4, <2>5, <3>1, <3>2 DEF IInv, CleanSoFar
    <3>4. ASSUME NEW n \in rec.targets \ job'.left
          PROVE  Good(job.routine[job.item], job.item, n, job.ids[n])'
      <4>1. CASE n = m
        BY <2>2, <2>3, <2>4, <2>5, <3>1, <4>1 DEF Good, rec
      <4>2. CASE n # m
        <5>1. Good(rec, job.item, n, job.ids[n])
          BY <2>2, <2>4, <3>1, <3>4, <4>2 DEF IInv, CleanSoFar, rec
        <5>2. n \in Members
          BY <2>2 DEF rec
        <5> QED BY <2>2, <2>4, <2>5, <4>2, <5>1, <5>2 DEF Good, rec
      <4> QED BY <4>1, <4>2
    <3>5. ASSUME NEW q \in Routines, ~Untouched(q), Mirrored(routine[q]),
                 NEW n \in routine[q].targets
          PROVE  Good(routine[q], q, n, routine[q].ids[n])' /\ routine[q].ids[n] \in job.kept
      <4>1. Good(routine[q], q, n, routine[q].ids[n]) /\ routine[q].ids[n] \in job.kept
        BY <3>1, <3>5 DEF IInv, CleanSoFar
      <4> QED BY <2>2, <2>5, <4>1 DEF Good
    <3>6. /\ \A q \in Routines : SamePage(q)'
          /\ \A n \in Members : job'.listed[n] # "failed"
      BY <2>2, <2>4, <3>1 DEF IInv, CleanSoFar, SamePage
    <3>7. \A n \in job'.routine[job'.item].targets \ job'.left :
            Good(job.routine[job.item], job.item, n, job.ids[n])'
      BY <2>2, <2>4, <3>4 DEF rec
    <3>8. \A q \in Routines : ~Untouched(q)' /\ Mirrored(routine[q])' =>
            \A n \in routine'[q].targets :
              Good(routine[q], q, n, routine[q].ids[n])' /\ routine'[q].ids[n] \in job'.kept
      BY <2>2, <2>4, <2>6, <3>5 DEF Mirrored
    <3> QED BY <2>2, <2>4, <3>3, <3>6, <3>7, <3>8 DEF CleanSoFar
  <2> QED
    BY <2>2, <2>5, <2>9, <2>10, <2>11, <2>12, <2>13, <2>14, <2>15
    DEF IInv, CleanPushConverges, Settled
\* What the steps of a tarea have in common: the routines are done with.
<1>Tarea. ASSUME IInv, AtTarea, pc' \in {"next", "written"}, job' \in LocalsType, Fine \/ Fault,
                 UNCHANGED <<routine, tasks, last, edits, turned>>,
                 UNCHANGED <<job.routine, job.tarea, job.todo, job.item, job.listed, job.live,
                             job.prune, job.ids>>,
                 job.kept \subseteq job'.kept
          PROVE  /\ KindsMatch' /\ ListingsHold' /\ MapCarries' /\ LiveIsKept'
                 /\ CleanSoFar' /\ CleanPushConverges'
  <2> USE <1>Tarea
  <2>1. /\ \A q \in Routines : ~Untouched(q) /\ ~Untouched(q)'
        /\ \A q \in Routines, n \in Members : ~Pending(q, n)'
        /\ pc \in {"tarea", "written"} /\ pc # "idle"
    BY DEF IInv, Types, AtTarea, AtRoutine, Untouched, Pending
  <2>2. clean' => clean
    BY DEF Fine, Fault
  <2>3. KindsMatch' /\ ListingsHold' /\ MapCarries'
    BY <2>1 DEF IInv, KindsMatch, ListingsHold, MapCarries
  <2>4. LiveIsKept'
    BY <2>1 DEF IInv, LiveIsKept, Mirrored, Done
  <2>5. CleanSoFar'
    <3> SUFFICES ASSUME clean'
                 PROVE  CleanSoFar'
      BY DEF CleanSoFar
    <3>1. clean
      BY <2>2
    <3>2. /\ \A q \in Routines : SamePage(q)'
          /\ \A n \in Members : job'.listed[n] # "failed"
      BY <2>1, <3>1 DEF IInv, CleanSoFar, SamePage
    <3>3. ASSUME NEW q \in Routines, Mirrored(routine[q]), NEW n \in routine[q].targets
          PROVE  Good(routine[q], q, n, routine[q].ids[n])' /\ routine[q].ids[n] \in job'.kept
      BY <2>1, <3>1, <3>3 DEF IInv, CleanSoFar, Good
    <3>4. \A q \in Routines : ~Untouched(q)' /\ Mirrored(routine[q])' =>
            \A n \in routine'[q].targets :
              Good(routine[q], q, n, routine[q].ids[n])' /\ routine'[q].ids[n] \in job'.kept
      BY <3>3 DEF Mirrored
    <3> QED BY <2>1, <3>2, <3>4 DEF CleanSoFar
  <2> QED BY <2>3, <2>4, <2>5 DEF CleanPushConverges, Settled
<1>Creates. ASSUME IInv, pc = "tarea", NEW made \in 0..2, NEW id \in Nat,
                   job.tarea[job.item].id = NoId,
                   Made(TaskOf(job.item, Assignee[job.item], TRUE, 0), made, id),
                   job' = [job EXCEPT !.ids[Assignee[job.item]] = id],
                   pc' = IF id = NoId THEN "next" ELSE "written",
                   UNCHANGED <<routine, tarea, edits, turned>>
            PROVE  IInv'
  <2> USE <1>Creates
  <2> DEFINE t == job.item
             a == Assignee[job.item]
             task == TaskOf(t, a, TRUE, 0)
  <2>1. /\ job \in LocalsType /\ last \in Nat /\ t \in Tareas \ job.todo /\ a \in Members
        /\ job.todo \cap Routines = {} /\ t \notin Routines /\ pc' \in {"next", "written"}
        /\ Made(task, made, id)
    BY MirrorsAssumption DEF IInv, Types, TypeOK, AtTarea
  <2>2. /\ task \in Task /\ task.of = t /\ task.member = a
        /\ task.of \in Routines \ turned => task.todo = routine[task.of].todo
    BY <2>1 DEF TaskOf, Task
  <2>3. /\ job' \in LocalsType
        /\ UNCHANGED <<job.routine, job.tarea, job.todo, job.item, job.listed, job.live,
                       job.kept, job.prune, job.left>>
        /\ \A n \in Members \ {a} : job'.ids[n] = job.ids[n]
        /\ job'.ids[a] = id
    BY <2>1 DEF LocalsType
  <2> HIDE DEF task
  <2>4. /\ last' \in Nat /\ last <= last' /\ faults' \in Nat /\ clean' \in BOOLEAN
        /\ DOMAIN tasks' = DOMAIN tasks \cup (last + 1)..last'
        /\ DOMAIN tasks' \subseteq 1..last'
        /\ \A i \in DOMAIN tasks : tasks'[i] = tasks[i]
        /\ \A i \in DOMAIN tasks' : i <= last => i \in DOMAIN tasks
        /\ \A i \in DOMAIN tasks' \ DOMAIN tasks : tasks'[i] = task /\ i > last
        /\ id # NoId => id \in DOMAIN tasks' /\ tasks'[id] = task /\ id > last
        /\ id = NoId \/ id = last'
        /\ faults' = 0 => /\ faults = 0 /\ id # NoId
                          /\ \A i \in DOMAIN tasks' \ DOMAIN tasks : i = id
        /\ faults > 0 => faults' > 0
        /\ clean' => clean /\ id # NoId
        /\ KindsMatch' /\ ListingsHold'
    BY <1>Adds, <2>1, <2>2, <2>3
  <2>5. /\ \A q \in Routines : ~Untouched(q) /\ ~Untouched(q)'
        /\ \A q \in Routines, n \in Members : ~Pending(q, n)'
    BY <2>1, <2>3 DEF Untouched, Pending, AtRoutine
  <2>6. /\ routine \in [Routines -> Routine] /\ tarea \in [Tareas -> Tarea]
        /\ job.routine \in [Routines -> Routine] /\ job.tarea \in [Tareas -> Tarea]
        /\ job.kept \subseteq 1..last /\ job.ids \in [Members -> 0..last]
    BY <2>1 DEF IInv, Types, TypeOK, LocalsType
  <2> HIDE DEF t, a
  <2>7. Types'
    <3>1. job'.ids \in [Members -> 0..last']
      <4>1. \A n \in Members : job.ids[n] \in 0..last' /\ id \in 0..last'
        BY <2>1, <2>4, <2>6 DEF NoId
      <4>2. \A n \in Members : job'.ids[n] \in 0..last'
        BY <2>3, <4>1
      <4> QED BY <2>3, <4>2 DEF LocalsType
    <3>2. job'.kept \subseteq 1..last'
      BY <2>1, <2>3, <2>4, <2>6
    <3>3. \A i \in DOMAIN tasks' : tasks'[i] \in Task
      BY <2>2, <2>4 DEF IInv, Types, TypeOK
    <3>4. TypeOK'
      BY <2>1, <2>3, <2>4, <3>1, <3>2, <3>3 DEF IInv, Types, TypeOK
    <3> QED
      BY <2>1, <2>3, <2>4, <3>4 DEF IInv, Types, AtRoutine, AtTarea, t, a
  <2>8. IdsName'
    <3>1. ASSUME NEW x \in Nat, NEW item, NEW n, Names(x, item, n)
          PROVE  Names(x, item, n)'
      BY <2>1, <2>4, <3>1 DEF Names
    <3>2. pc' = "written" => Names(job.ids[Assignee[job.item]], job.item, Assignee[job.item])'
      BY <2>2, <2>3, <2>4 DEF Names, t, a
    <3>3. \A q \in Routines, n \in Members : Names(routine[q].ids[n], q, n)'
      <4> SUFFICES ASSUME NEW q \in Routines, NEW n \in Members, NEW x \in Nat,
                          x = routine[q].ids[n]
                   PROVE  Names(x, q, n)'
        BY <2>6 DEF Names, Routine
      <4> QED BY <3>1 DEF IInv, IdsName
    <3>4. \A q \in Routines, n \in Members : Names(job.routine[q].ids[n], q, n)'
      <4> SUFFICES ASSUME NEW q \in Routines, NEW n \in Members, NEW x \in Nat,
                          x = job.routine[q].ids[n]
                   PROVE  Names(x, q, n)'
        BY <2>3, <2>6 DEF Names, Routine
      <4> QED BY <3>1 DEF IInv, IdsName
    <3>5. \A x \in Tareas : Names(tarea[x].id, x, Assignee[x])'
      <4> SUFFICES ASSUME NEW y \in Tareas, NEW x \in Nat, x = tarea[y].id
                   PROVE  Names(x, y, Assignee[y])'
        BY <2>6 DEF Names, Tarea
      <4> QED BY <3>1 DEF IInv, IdsName
    <3>6. \A x \in Tareas : Names(job.tarea[x].id, x, Assignee[x])'
      <4> SUFFICES ASSUME NEW y \in Tareas, NEW x \in Nat, x = job.tarea[y].id
                   PROVE  Names(x, y, Assignee[y])'
        BY <2>3, <2>6 DEF Names, Tarea
      <4> QED BY <3>1 DEF IInv, IdsName
    <3> QED BY <2>1, <3>2, <3>3, <3>4, <3>5, <3>6 DEF IdsName, AtRoutine
  <2>9. SnapshotHolds'
    BY <2>1, <2>3, <2>5 DEF IInv, SnapshotHolds, AtTarea
  <2>10. KeptIsPast'
    BY <2>1, <2>3, <2>4, <2>6 DEF IInv, KeptIsPast, AtRoutine, AtTarea
  <2>11. MapCarries' /\ CleanPushConverges'
    BY <2>1 DEF MapCarries, CleanPushConverges, Settled
  <2>12. LiveIsKept'
    <3> SUFFICES ASSUME NEW q \in Routines \ turned, Mirrored(job.routine[q]),
                        NEW n \in job.routine[q].targets,
                        NEW i, i = routine[q].ids[n], i \in DOMAIN tasks'
                 PROVE  i \in job.kept \/ Done(i)'
      BY <2>1, <2>3 DEF LiveIsKept, Mirrored
    <3>1. n \in Members
      BY <2>6 DEF Routine
    <3>2. i \in DOMAIN tasks /\ tasks'[i] = tasks[i]
      BY <2>4, <3>1 DEF IInv, IdsName, Names
    <3> QED BY <2>5, <3>2 DEF IInv, LiveIsKept, Done
  <2>13. NoneLost'
    <3> SUFFICES ASSUME faults' = 0, NEW i \in DOMAIN tasks', tasks'[i].of \notin turned
                 PROVE  Known(i)' \/ Done(i)' \/ ToPrune(i)'
      BY <2>1 DEF NoneLost
    <3>1. CASE i \in DOMAIN tasks
      <4>1. tasks'[i] = tasks[i]
        BY <2>4, <3>1
      <4>2. Known(i) \/ Done(i) \/ ToPrune(i)
        BY <2>4, <3>1, <4>1 DEF IInv, NoneLost
      <4>3. /\ Known(i) => Known(i)'
            /\ Done(i) => Done(i)'
            /\ ToPrune(i) => ToPrune(i)'
        BY <2>1, <2>3, <4>1 DEF Known, Done, ToPrune, AtTarea
      <4> QED BY <4>2, <4>3
    <3>2. CASE i \notin DOMAIN tasks
      <4>1. i = id /\ tasks'[i] = task /\ pc' = "written"
        BY <2>4, <3>2
      <4>2. tasks'[i].of = job'.item /\ job'.ids[Assignee[tasks'[i].of]] = i
        BY <2>2, <2>3, <4>1 DEF t, a
      <4> QED BY <4>1, <4>2 DEF Known
    <3> QED BY <3>1, <3>2
  <2>14. CleanSoFar'
    <3> SUFFICES ASSUME clean'
                 PROVE  CleanSoFar'
      BY DEF CleanSoFar
    <3>1. /\ \A q \in Routines : SamePage(q)'
          /\ \A n \in Members : job'.listed[n] # "failed"
      BY <2>1, <2>3, <2>4 DEF IInv, CleanSoFar, SamePage
    <3>2. ASSUME NEW q \in Routines, Mirrored(routine[q]), NEW n \in routine[q].targets
          PROVE  Good(routine[q], q, n, routine[q].ids[n])' /\ routine[q].ids[n] \in job.kept
      <4>1. Good(routine[q], q, n, routine[q].ids[n]) /\ routine[q].ids[n] \in job.kept
        BY <2>4, <2>5, <3>2 DEF IInv, CleanSoFar
      <4> QED BY <2>4, <4>1 DEF Good
    <3>3. \A q \in Routines : ~Untouched(q)' /\ Mirrored(routine[q])' =>
            \A n \in routine'[q].targets :
              Good(routine[q], q, n, routine[q].ids[n])' /\ routine'[q].ids[n] \in job'.kept
      BY <2>3, <3>2 DEF Mirrored
    <3> QED BY <2>1, <2>5, <3>1, <3>3 DEF CleanSoFar
  <2> QED
    BY <2>4, <2>7, <2>8, <2>9, <2>10, <2>11, <2>12, <2>13, <2>14 DEF IInv
<1>Keeps. ASSUME IInv, AtTarea, pc' = "next", NEW id \in Nat, id # NoId,
                 Names(id, job.item, Assignee[job.item]),
                 job' = [job EXCEPT !.kept = @ \cup {id}],
                 UNCHANGED <<routine, tasks, last, edits, turned>>,
                 \/ Fine
                    /\ tarea' = [tarea EXCEPT ![job.item].id = id]
                 \/ Fault /\ tarea' \in {tarea, [tarea EXCEPT ![job.item].id = id]},
                 pc = "tarea" => tarea[job.item].id = id,
                 pc = "written" => id = job.ids[Assignee[job.item]]
          PROVE  IInv'
  <2> USE <1>Keeps
  <2> DEFINE t == job.item
  <2>1. /\ job \in LocalsType /\ last \in Nat /\ t \in Tareas \ job.todo
        /\ job.todo \cap Routines = {} /\ t \notin Routines /\ faults \in Nat
        /\ tarea \in [Tareas -> Tarea] /\ id \in 1..last
        /\ pc \in {"tarea", "written"} /\ (Fine \/ Fault)
    BY MirrorsAssumption DEF IInv, Types, TypeOK, AtTarea, Names, NoId
  <2>2. /\ job' \in LocalsType /\ job'.kept = job.kept \cup {id}
        /\ UNCHANGED <<job.routine, job.tarea, job.todo, job.item, job.listed, job.live,
                       job.prune, job.left, job.ids>>
    BY <2>1 DEF LocalsType
  <2>3. /\ KindsMatch' /\ ListingsHold' /\ MapCarries' /\ LiveIsKept'
        /\ CleanSoFar' /\ CleanPushConverges'
    BY <1>Tarea, <2>1, <2>2
  <2>4. /\ tarea' \in [Tareas -> Tarea]
        /\ \A x \in Tareas \ {t} : tarea'[x] = tarea[x]
        /\ tarea'[t].id \in {tarea[t].id, id}
        /\ Fine => tarea'[t].id = id
    BY <2>1 DEF Tarea, Fine, Fault
  <2>5. tarea[t].id = job.tarea[t].id
    <3>1. SnapshotHolds /\ pc # "idle" /\ t \in Tareas /\ t = job.item
      BY <2>1 DEF IInv
    <3> QED BY <3>1, Zenon DEF SnapshotHolds
  <2>11. clean' \in BOOLEAN /\ faults' \in Nat
    <3>1. CASE Fine
      BY <2>1, <3>1, Zenon DEF Fine, IInv, Types, TypeOK
    <3>2. CASE Fault
      <4>1. clean' \in BOOLEAN
        BY <3>2, Zenon DEF Fault
      <4>2. faults' \in Nat
        BY <2>1, <3>2 DEF Fault
      <4> QED BY <4>1, <4>2
    <3> QED BY <2>1, <3>1, <3>2
  <2> HIDE DEF t
  <2>6. Types'
    <3>1. TypeOK'
      <4>1. job'.kept \subseteq 1..last
        BY <2>1, <2>2 DEF IInv, Types, TypeOK
      <4>2. UNCHANGED <<last, tasks, routine, turned>> /\ pc' = "next"
        OBVIOUS
      <4> QED BY <2>1, <2>2, <2>4, <2>11, <4>1, <4>2 DEF IInv, Types, TypeOK
    <3> QED BY <2>1, <2>2, <2>11, <3>1 DEF IInv, Types, AtRoutine, AtTarea
  <2>7. IdsName'
    <3>1. \A x \in Tareas : Names(tarea[x].id, x, Assignee[x])'
      <4> SUFFICES ASSUME NEW x \in Tareas, NEW y, y = tarea'[x].id
                   PROVE  /\ y <= last
                          /\ y \in DOMAIN tasks => tasks[y].of = x /\ tasks[y].member = Assignee[x]
        BY DEF Names
      <4>1. CASE y = tarea[x].id
        BY <4>1 DEF IInv, IdsName, Names
      <4>2. CASE y # tarea[x].id
        BY <2>4, <4>2 DEF Names, t
      <4> QED BY <4>1, <4>2
    <3>2. pc # "idle" /\ pc' = "next"
      BY <2>1
    <3> QED BY <2>2, <3>1, <3>2 DEF IInv, IdsName, Names, AtRoutine
  <2>8. SnapshotHolds'
    BY <2>1, <2>2, <2>4 DEF IInv, SnapshotHolds, AtTarea, AtRoutine, Untouched, t
  <2>9. KeptIsPast'
    <3> SUFFICES ASSUME NEW i \in job'.kept \cap DOMAIN tasks
                 PROVE  tasks[i].of \notin job.todo
      BY <2>2 DEF KeptIsPast, AtRoutine, AtTarea
    <3>1. CASE i = id
      BY <2>1, <3>1 DEF Names, t
    <3>2. CASE i \in job.kept
      <4>1. KeptIsPast /\ pc # "idle" /\ i \in job.kept \cap DOMAIN tasks
        BY <2>1, <3>2 DEF IInv
      <4> QED BY <4>1, Zenon DEF KeptIsPast
    <3> QED BY <2>2, <3>1, <3>2
  <2>10. NoneLost'
    <3> SUFFICES ASSUME faults' = 0, NEW i \in DOMAIN tasks, tasks[i].of \notin turned
                 PROVE  Known(i)' \/ Done(i)' \/ ToPrune(i)'
      BY DEF NoneLost
    <3>1. faults = 0 /\ tarea'[t].id = id
      BY <2>1, <2>4 DEF Fine, Fault
    <3>2. Known(i) \/ Done(i) \/ ToPrune(i)
      BY <3>1 DEF IInv, NoneLost
    <3>3. CASE tasks[i].of = t
      <4>1. ~ToPrune(i)
        BY <3>3 DEF ToPrune, t
      <4>2. Done(i) => Done(i)'
        BY DEF Done
      <4>3. Known(i) => i = id
        <5>1. pc = "tarea" => tarea[t].id = id
          BY DEF t
        <5>2. pc = "written" => tarea[t].id = NoId /\ id = job.ids[Assignee[t]]
          BY <2>5 DEF IInv, SnapshotHolds, t
        <5>3. i # NoId
          BY DEF IInv, Types, TypeOK, NoId
        <5>4. t \notin Routines /\ pc # "mirror" /\ t = job.item
          BY <2>1 DEF t
        <5>5. Known(i) => tarea[t].id = i \/ (pc = "written" /\ job.ids[Assignee[t]] = i)
          BY <3>3, <5>4 DEF Known
        <5> QED BY <2>1, <5>1, <5>2, <5>3, <5>5
      <4>4. i = id => Known(i)'
        BY <2>1, <3>1, <3>3 DEF Known
      <4> QED BY <3>2, <4>1, <4>2, <4>3, <4>4
    <3>4. CASE tasks[i].of # t
      <4>1. Known(i) => Known(i)'
        BY <2>1, <2>4, <3>4 DEF Known, t
      <4>2. (Done(i) => Done(i)') /\ i # id
        BY <3>4 DEF Done, Names, t
      <4>3. ToPrune(i) => ToPrune(i)'
        BY <2>1, <2>2, <4>2 DEF ToPrune, AtTarea
      <4> QED BY <3>2, <4>1, <4>2, <4>3
    <3> QED BY <3>3, <3>4
  <2> QED BY <2>3, <2>6, <2>7, <2>8, <2>9, <2>10 DEF IInv
<1>Forgets. ASSUME IInv, pc = "tarea", pc' = "next", UNCHANGED job,
                   UNCHANGED <<routine, tasks, last, edits, turned>>,
                   \/ Fine /\ UNCHANGED tarea
                   \/ job.prune /\ (Fine \/ Fault)
                      /\ tarea' = [tarea EXCEPT ![job.item].id = NoId]
                   \/ Fault /\ UNCHANGED tarea
            PROVE  IInv'
  <2> USE <1>Forgets
  <2> DEFINE t == job.item
  <2>1. /\ job \in LocalsType /\ last \in Nat /\ t \in Tareas \ job.todo
        /\ job.todo \cap Routines = {} /\ faults \in Nat
        /\ tarea \in [Tareas -> Tarea] /\ (Fine \/ Fault)
    BY DEF IInv, Types, TypeOK, AtTarea
  <2>2. /\ KindsMatch' /\ ListingsHold' /\ MapCarries' /\ LiveIsKept'
        /\ CleanSoFar' /\ CleanPushConverges'
    BY <1>Tarea, <2>1 DEF AtTarea
  <2>3. /\ tarea' \in [Tareas -> Tarea]
        /\ \A x \in Tareas \ {t} : tarea'[x] = tarea[x]
        /\ tarea'[t].id = tarea[t].id \/ (job.prune /\ tarea'[t].id = NoId)
    <3>1. tarea' = tarea \/ (job.prune /\ tarea' = [tarea EXCEPT ![t].id = NoId])
      OBVIOUS
    <3>2. tarea[t] \in Tarea /\ NoId \in Nat
      BY <2>1 DEF NoId
    <3> HIDE DEF t
    <3> QED BY <2>1, <3>1, <3>2 DEF Tarea
  <2> HIDE DEF t
  <2>4. Types'
    <3>1. TypeOK'
      BY <2>1, <2>3 DEF IInv, Types, TypeOK, Fine, Fault
    <3> QED BY <2>1, <3>1 DEF IInv, Types, AtRoutine, AtTarea, Fine, Fault
  <2>5. IdsName'
    <3>1. NoId <= last /\ NoId \notin DOMAIN tasks
      BY <2>1 DEF IInv, Types, TypeOK, NoId
    <3> QED BY <2>1, <2>3, <3>1 DEF IInv, IdsName, Names, AtRoutine
  <2>6. SnapshotHolds' /\ KeptIsPast'
    BY <2>1, <2>3 DEF IInv, SnapshotHolds, KeptIsPast, AtTarea, AtRoutine, Untouched, t
  <2>7. NoneLost'
    <3> SUFFICES ASSUME faults' = 0, NEW i \in DOMAIN tasks, tasks[i].of \notin turned
                 PROVE  Known(i)' \/ Done(i)' \/ ToPrune(i)'
      BY DEF NoneLost
    <3>1. faults = 0
      BY <2>1 DEF Fine, Fault
    <3>2. Known(i) \/ Done(i) \/ ToPrune(i)
      BY <3>1 DEF IInv, NoneLost
    <3>3. Known(i) /\ tarea'[t].id # tarea[t].id /\ tasks[i].of = t => ToPrune(i)'
      BY <2>1, <2>3 DEF IInv, KeptIsPast, ToPrune, AtTarea, t
    <3>4. Known(i) /\ ~(tarea'[t].id # tarea[t].id /\ tasks[i].of = t) => Known(i)'
      BY <2>1, <2>3 DEF Known
    <3>5. (Done(i) => Done(i)') /\ (ToPrune(i) => ToPrune(i)')
      BY DEF Done, ToPrune, AtTarea
    <3> QED BY <3>2, <3>3, <3>4, <3>5
  <2> QED BY <2>2, <2>4, <2>5, <2>6, <2>7 DEF IInv
<1>PushTarea. ASSUME IInv, PushTarea
              PROVE  IInv'
  <2> USE <1>PushTarea
  <2> DEFINE t == job.item
             a == Assignee[t]
             rec == job.tarea[t]
  <2>1. /\ job \in LocalsType /\ last \in Nat /\ t \in Tareas \ job.todo /\ a \in Members
        /\ pc = "tarea" /\ rec \in Tarea /\ UNCHANGED <<routine, edits, turned>>
        /\ rec.id = tarea[t].id /\ Names(rec.id, t, a)
    <3>1. /\ job \in LocalsType /\ last \in Nat /\ t \in Tareas \ job.todo /\ pc = "tarea"
      BY DEF IInv, Types, TypeOK, AtTarea, PushTarea
    <3> QED
      BY <3>1, MirrorsAssumption
      DEF PushTarea, LocalsType, IInv, SnapshotHolds, IdsName, AtTarea
  <2>2. CASE rec.pays /\ rec.id = NoId
    <3> DEFINE task == TaskOf(t, a, TRUE, 0)
    <3>1. PICK made \in 0..2, answered \in BOOLEAN :
            /\ IF made = 1 /\ answered THEN Fine ELSE Fault /\ (made = 2) = answered
            /\ last' = last + made
            /\ tasks' = [i \in DOMAIN tasks \cup (last + 1)..(last + made) |->
                           IF i \in DOMAIN tasks THEN tasks[i] ELSE task]
            /\ LET id == IF answered THEN last' ELSE NoId
               IN /\ job' = [job EXCEPT !.ids[a] = id]
                  /\ pc' = IF id = NoId THEN "next" ELSE "written"
      BY <2>2 DEF PushTarea, CreateTask, TaskOf
    <3>2. PICK id \in Nat : id = IF answered THEN last' ELSE NoId
      BY <2>1, <3>1 DEF NoId
    <3>3. Made(task, made, id)
      BY <2>1, <3>1, <3>2 DEF Made, NoId
    <3>4. /\ job' = [job EXCEPT !.ids[a] = id] /\ pc' = IF id = NoId THEN "next" ELSE "written"
          /\ UNCHANGED tarea
      BY <2>2, <3>1, <3>2 DEF PushTarea
    <3> QED BY <1>Creates, <2>1, <2>2, <3>3, <3>4
  <2>3. CASE rec.pays /\ rec.id # NoId
    <3>1. /\ job' = [job EXCEPT !.kept = @ \cup {rec.id}] /\ pc' = "next"
          /\ Fine /\ UNCHANGED <<tarea, tasks, last>>
      BY <2>3 DEF PushTarea
    <3>2. tarea' = [tarea EXCEPT ![t].id = rec.id] /\ rec.id \in Nat
      BY <2>1, <3>1 DEF IInv, Types, TypeOK, Tarea
    <3> HIDE DEF rec
    <3>3. PICK id \in Nat : id = rec.id
      BY <3>2
    <3> QED BY <1>Keeps, <2>1, <2>3, <3>1, <3>2, <3>3 DEF AtTarea
  <2>4. CASE ~rec.pays
    BY <1>Forgets, <2>1, <2>4 DEF PushTarea, UpdatePage
  <2> QED BY <2>2, <2>3, <2>4
<1>WriteTareaId. ASSUME IInv, WriteTareaId
                 PROVE  IInv'
  <2> USE <1>WriteTareaId
  <2>1. /\ job \in LocalsType /\ job.item \in Tareas /\ pc = "written" /\ pc' = "next"
        /\ Assignee[job.item] \in Members
        /\ UNCHANGED <<routine, tasks, last, edits, turned>>
    BY MirrorsAssumption DEF IInv, Types, AtTarea, WriteTareaId
  <2>2. PICK id \in Nat : id = job.ids[Assignee[job.item]]
    BY <2>1 DEF LocalsType
  <2>3. id # NoId /\ Names(id, job.item, Assignee[job.item])
    BY <2>1, <2>2 DEF IInv, Types, IdsName
  <2>4. /\ job' = [job EXCEPT !.kept = @ \cup {id}]
        /\ \/ Fine /\ tarea' = [tarea EXCEPT ![job.item].id = id]
           \/ Fault /\ tarea' \in {tarea, [tarea EXCEPT ![job.item].id = id]}
    BY <2>2 DEF WriteTareaId, UpdatePage
  <2> QED BY <1>Keeps, <2>1, <2>2, <2>3, <2>4 DEF AtTarea
<1>MirrorTarget. ASSUME IInv, MirrorTarget
                 PROVE  IInv'
  <2>1. Types
    BY <1>MirrorTarget DEF IInv
  <2>2. /\ pc = "mirror" /\ UNCHANGED <<notion, pc, edits, turned>>
        /\ \E m \in job.left : /\ job.listed[m] # "unread"
                               /\ \/ Passes(m) \/ Updates(m)
                                  \/ \E made \in 0..2, id \in Nat : Renews(m, made, id)
    BY <1>MirrorTarget, <2>1, TargetSteps
  <2> QED BY <1>MirrorTarget, <1>Passes, <1>Updates, <1>Renews, <2>2
<1>Die. ASSUME IInv, Die
        PROVE  IInv'
  BY <1>Die, <1>Ends DEF Die
<1>Step. ASSUME IInv, [Next]_vars
         PROVE  IInv'
  <2>1. ASSUME Push
        PROVE  IInv'
    <3>1. CASE DropRetiredMirror
      BY <1>Step, <1>DropRetired, <1>Clears, <3>1
    <3>2. CASE NextItem \/ MirrorTarget \/ ListTasks \/ DropStaleMirror \/ WriteMap
      BY <1>Step, <1>NextItem, <1>MirrorTarget, <1>ListTasks, <1>DropStale, <1>WriteMap, <3>2
    <3>3. CASE PushTarea \/ WriteTareaId \/ PruneOrphanMirrors
      BY <1>Step, <1>PushTarea, <1>WriteTareaId, <1>Prune, <3>3
    <3> QED BY <2>1, <3>1, <3>2, <3>3 DEF Push
  <2>2. ASSUME NEW r \in Routines, EditRoutine(r)
        PROVE  IInv'
    BY <1>Step, <1>EditRoutine, <2>2
  <2>3. ASSUME NEW t \in Tareas, EditTarea(t)
        PROVE  IInv'
    BY <1>Step, <1>EditTarea, <2>3
  <2>4. ASSUME NEW id \in DOMAIN tasks, ChildActs(id)
        PROVE  IInv'
    BY <1>Step, <1>ChildActs, <2>4
  <2> QED
    BY <1>Step, <1>Load, <1>Die, <1>Stutter, <2>1, <2>2, <2>3, <2>4 DEF Next
<1> QED BY <1>1, <1>Step, PTL DEF Spec

\* The variables and the locals of the push hold what the code may put there.
THEOREM TypeCorrectness == Spec => []TypeOK
<1>1. IInv => TypeOK
  BY DEF IInv, Types
<1> QED BY <1>1, Invariance, PTL

(***************************************************************************)
(* After a push that nothing disturbed every live routine has, on the      *)
(* account of every target, the mirror that its page says it has: whatever *)
(* failed, was repeated or was lost in any number of pushes before.        *)
(***************************************************************************)
THEOREM CleanPushConvergesHolds == Spec => []CleanPushConverges
<1>1. IInv => CleanPushConverges
  BY DEF IInv
<1> QED BY <1>1, Invariance, PTL

(***************************************************************************)
(* Without a failed call and without a dead pod no open mirror is unknown  *)
(* to its page between two pushes.                                         *)
(***************************************************************************)
THEOREM NoOrphanWithoutFaultHolds == Spec => []NoOrphanWithoutFault
<1>1. IInv => NoOrphanWithoutFault
  <2> SUFFICES ASSUME IInv, pc = "idle", faults = 0, NEW i \in DOMAIN tasks,
                      ~tasks[i].completed, tasks[i].of \notin turned
               PROVE  i \in IdsOf(tasks[i].of)
    BY DEF NoOrphanWithoutFault
  <2>1. i # NoId /\ tasks[i].of \in Routines \cup Tareas /\ tasks[i].member \in Members
    BY DEF IInv, Types, TypeOK, Task, NoId
  <2>2. Known(i)
    BY DEF IInv, NoneLost, Done, ToPrune
  <2> QED BY <2>1, <2>2, MirrorsAssumption DEF Known, IdsOf
<1> QED BY <1>1, Invariance, PTL

(***************************************************************************)
(* The prune pass spares the open mirrors that the pages of the routines   *)
(* name which the push mirrors, those it could not list and those it could *)
(* not write down included.  Left out are live routines without targets or *)
(* without a date and those that became a recreated to-do.                 *)
(***************************************************************************)
THEOREM PruneSparesTheLiveHolds == Spec => PruneSparesTheLive
<1> DEFINE Spares ==
      PruneOrphanMirrors => \A i \in DOMAIN tasks \ DOMAIN tasks' :
        ~tasks[i].completed => \A r \in Routines \ turned : Mirrored(job.routine[r]) =>
          \A m \in job.routine[r].targets : routine[r].ids[m] # i
<1>1. ASSUME IInv, PruneOrphanMirrors
      PROVE  Spares
  <2> SUFFICES ASSUME NEW i \in DOMAIN tasks \ DOMAIN tasks', ~tasks[i].completed,
                      NEW r \in Routines \ turned, Mirrored(job.routine[r]),
                      NEW m \in job.routine[r].targets, routine[r].ids[m] = i
               PROVE  FALSE
    BY <1>1
  <2>1. pc = "prune" /\ ~Untouched(r)
    BY <1>1 DEF PruneOrphanMirrors, IInv, Types, Untouched, AtRoutine
  <2>2. i \in job.kept
    BY <1>1, <2>1 DEF IInv, LiveIsKept, Done
  <2>3. i \in DOMAIN tasks'
    <3>1. CASE job.left = {}
      BY <1>1, <3>1 DEF PruneOrphanMirrors
    <3>2. CASE job.left # {}
      <4>1. PICK S : tasks' = [x \in (DOMAIN tasks \ Orphans(TheFirst(job.left))) \cup S
                                 |-> tasks[x]]
        BY <1>1, <3>2 DEF PruneOrphanMirrors
      <4> QED BY <2>2, <4>1 DEF Orphans
    <3> QED BY <3>1, <3>2
  <2> QED BY <2>3
<1>2. IInv /\ [Next]_vars => [Spares]_vars
  BY <1>1
<1> QED BY <1>2, Invariance, PTL DEF Spec, PruneSparesTheLive
=============================================================================
