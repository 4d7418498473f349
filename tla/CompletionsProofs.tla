-------------------------- MODULE CompletionsProofs --------------------------
(***************************************************************************)
(* Theorems about Completions for every family, every number of days and   *)
(* every bound on crashes and edits, checked by TLAPS.                     *)
(***************************************************************************)
EXTENDS Completions, TLAPS

(***************************************************************************)
(* The inductive invariant.                                                *)
(***************************************************************************)

\* The row has not been decided by a job, or it is a parent's again.
Undecided(r) == agenda[r].estado = "Pendiente" \/ agenda[r].manual

\* The row says that the work was done, or what a parent says.
Settled(r) == agenda[r].estado = "Hecha" \/ agenda[r].manual

\* One job at a time, and the pulls by day.
Turns ==
  /\ pc = "idle" => job = NoLocals
  /\ pc = "pull" => phase = "day"

\* A mirror that is ticked was ticked today, or was at midnight.
TicksAreKnown == \A x \in Mirrors : mirror[x] = "ticked" => x \in did \cup left

\* Only reconcile fails a row, and no row of today.
FailedLater == \A r \in Rows : r[2] >= day /\ agenda[r].estado = "Fallada" => agenda[r].manual

\* The mandatory work of a reconciled day is decided, and what is left of yesterday's
\* is what a reconcile that runs has yet to fail.
MissesDecided ==
  \A r \in PersonalRows :
    r[1] \in Mandatory /\ IsOpen(r) =>
      /\ r[2] \notin reconciled
      /\ pc = "reconcile" /\ r[2] = day - 1 => r \in job.open

\* The rows a reconcile has loaded.
ReconcileLoaded ==
  pc = "reconcile" => \A r \in job.open : r[2] = day - 1 /\ Undecided(r)

\* The rows a pull has loaded: nobody but the pull decides them.
PullLoaded ==
  pc = "pull" =>
    /\ job.open \subseteq RowsOf(day)
    /\ \A r \in RowsOf(day) \ job.open : Settled(r)
    /\ \A r \in job.open :
         r[3] \in job.todo \/ (r[3] = Nobody /\ r[1] \notin job.claimed) => Undecided(r)

\* What a pull is to credit to its member, and what it saw the member had ticked.
PullCredits ==
  pc = "pull" =>
    /\ job.member \notin job.todo
    /\ \A r \in job.hits :
         /\ <<r, job.member>> \in (did \cup (left \cap job.seen)) \cap Mirrors
         /\ RowOf(r, job.member) \in job.open /\ Undecided(RowOf(r, job.member))
         /\ r \notin job.claimed
    /\ \A r \in job.claimed : Settled(<<r, day, Nobody>>)
    /\ \A x \in Mirrors \cap job.seen :
         x[2] = job.member /\ (x[1] \in job.hits \/ Settled(RowOf(x[1], x[2])))

\* The tareas: one that is marked was credited, one that is not was only by
\* runs that died at it.
TareasPaid ==
  /\ \A t \in Tareas :
       /\ estado[t] = "Hecha" \/ t \in job.marking => credits[t] >= 1
       /\ credits[t] <= IF estado[t] = "Hecha" \/ t \in job.marking
                        THEN 1 + torn[t] ELSE torn[t]
  /\ pc # "pull" => job.marking = {}
  /\ pc = "pull" =>
       /\ \A t \in Tareas \ job.unpaid : estado[t] = "Hecha"
       /\ \A t \in job.unpaid : DoerOf[t] \in job.todo => estado[t] # "Hecha"
       /\ \A t \in job.dues : estado[t] # "Hecha" /\ t \notin job.marking
       /\ \A t \in job.dues \cup job.marking : DoerOf[t] = job.member
       /\ \A t, u \in job.marking : t = u
       /\ \A t \in Tareas \cap job.seen : t \in job.dues \/ credits[t] >= 1

IInv ==
  /\ TypeOK /\ Turns /\ TicksAreKnown /\ FailedLater /\ MissesDecided
  /\ ReconcileLoaded /\ PullLoaded /\ PullCredits /\ TareasPaid

(***************************************************************************)
(* The types, and what several proofs below need.                          *)
(***************************************************************************)

LocalsType ==
  [open: SUBSET Rows, unpaid: SUBSET Tareas, todo: SUBSET Members,
   member: Members \cup {Nobody}, hits: SUBSET Routines,
   dues: SUBSET Tareas, marking: SUBSET Tareas, claimed: SUBSET Pool,
   losers: SUBSET (Pool \X Members), seen: SUBSET (Mirrors \cup Tareas)]

\* The row and the mirror of a member's routine.
LEMMA RowAndMirror ==
  ASSUME TypeOK, NEW r \in Routines, NEW m \in Assigned[r]
  PROVE  /\ m \in Members /\ <<r, m>> \in Mirrors
         /\ RowOf(r, m) \in Rows /\ RowOf(r, m)[1] = r /\ RowOf(r, m)[2] = day
         /\ RowOf(r, m)[3] = IF r \in Pool THEN Nobody ELSE m
<1>1. m \in Members /\ day \in Days
  BY CompletionsAssumption DEF TypeOK
<1>2. <<r, m>> \in Mirrors
  BY <1>1 DEF Mirrors
<1>3. CASE r \in Pool
  BY <1>1, <1>2, <1>3 DEF RowOf, Rows, PoolRows
<1>4. CASE r \notin Pool
  <2>1. <<r, day, m>> \in Personal \X Days \X Members
    BY <1>1, <1>4 DEF Routines
  <2> QED BY <1>1, <1>2, <1>4, <2>1 DEF RowOf, Rows, PersonalRows
<1> QED BY <1>3, <1>4

\* What a step does to the rows and the day: nothing, a credit, a failure, a
\* parent's edit, or the night.
RowsKept == UNCHANGED <<agenda, day>>
Credits(r) == CreditPersonal(r) \/ ClaimPool(r)
Edits(r) ==
  /\ \E e \in Estados : agenda' = [agenda EXCEPT ![r].estado = e, ![r].manual = TRUE]
  /\ UNCHANGED <<clock, pc, job>> /\ edits' = edits + 1

LEMMA RowSteps ==
  ASSUME [Next]_vars
  PROVE  \/ RowsKept
         \/ \E r \in Routines : Credits(r)
         \/ \E r \in Rows : Fail(r) \/ Edits(r)
         \/ Midnight
<1>1. ASSUME NEW r \in Rows, NEW e \in Estados, RecordByHand(r, e)
      PROVE  Edits(r)
  BY <1>1 DEF RecordByHand, Edits
<1> QED
  BY <1>1
  DEF Next, Jobs, PullStep, Crash, Pull, StartPull, PullDone, ListTasks, StartMember,
      DeleteLoser, CreditTarea, MarkTarea, ReconcileStep, Reconcile, StartReconcile,
      ReconcileDone, Family, Clock, Tick, Complete, Morning, HabiticaCron, vars, notion,
      clock, RowsKept, Credits

\* A credit is the last word on its row until a parent says otherwise.
LEMMA CreditStep ==
  ASSUME TypeOK, PullLoaded, PullCredits, NEW r \in Routines, CreditPersonal(r) \/ ClaimPool(r)
  PROVE  /\ PullLoaded' /\ PullCredits'
         /\ RowOf(r, job.member) \in Rows /\ Undecided(RowOf(r, job.member))
         /\ RowOf(r, job.member)[1] = r /\ RowOf(r, job.member)[2] = day
         /\ <<r, job.member>> \in did \cup (left \cap job.seen)
<1>m. PICK m : m = job.member
  OBVIOUS
<1>r. PICK row : row = RowOf(r, m)
  OBVIOUS
<1>0. /\ job \in LocalsType
      /\ agenda \in [Rows -> [estado: Estados, manual: BOOLEAN, by: Members \cup {Nobody}]]
      /\ Personal \cap Pool = {} /\ Routines = Personal \cup Pool
  BY CompletionsAssumption DEF TypeOK, LocalsType, Routines
<1>1. /\ pc = "pull" /\ pc' = pc /\ r \in job.hits /\ Credit(row, m)
      /\ UNCHANGED <<day, did, left>>
  BY <1>m, <1>r DEF CreditPersonal, ClaimPool, Claimed, Crediting, clock, history
<1>2. /\ job'.hits = job.hits \ {r}
      /\ job'.claimed = IF r \in Pool THEN job.claimed \cup {r} ELSE job.claimed
      /\ job'.member = m /\ job'.todo = job.todo /\ job'.open = job.open /\ job'.seen = job.seen
  <2>1. CASE CreditPersonal(r)
    BY <1>0, <1>m, <2>1 DEF CreditPersonal, LocalsType
  <2>2. CASE ClaimPool(r)
    BY <1>0, <1>m, <2>2 DEF ClaimPool, Claimed, LocalsType
  <2> QED BY <2>1, <2>2
<1>3. /\ <<r, m>> \in (did \cup (left \cap job.seen)) \cap Mirrors
      /\ row \in job.open /\ Undecided(row)
      /\ r \notin job.claimed /\ m \notin job.todo
  BY <1>1, <1>m, <1>r DEF PullCredits
<1>4. ASSUME NEW q \in Routines, <<q, m>> \in Mirrors
      PROVE  /\ RowOf(q, m) \in Rows /\ RowOf(q, m)[1] = q /\ RowOf(q, m)[2] = day
             /\ RowOf(q, m)[3] = (IF q \in Pool THEN Nobody ELSE m)
             /\ m \in Members /\ m # Nobody
  <2>1. m \in Assigned[q]
    BY <1>4 DEF Mirrors
  <2>2. m \in Members /\ Nobody \notin Members
    BY <2>1, CompletionsAssumption
  <2> QED BY <2>1, <2>2, RowAndMirror
<1>5. /\ row \in Rows /\ row[1] = r /\ row[2] = day /\ row[3] = (IF r \in Pool THEN Nobody ELSE m)
      /\ m \in Members /\ m # Nobody
  BY <1>3, <1>4, <1>r
<1>6. agenda' = [agenda EXCEPT ![row] = [estado |-> "Hecha", manual |-> FALSE, by |-> m]]
  BY <1>1 DEF Credit
<1>7. agenda'[row].estado = "Hecha" /\ \A q \in Rows \ {row} : agenda'[q] = agenda[q]
  BY <1>0, <1>5, <1>6
<1>8. Settled(row)'
  BY <1>7 DEF Settled
<1>9. ASSUME NEW q \in Rows, q # row
      PROVE  (Settled(q)' <=> Settled(q)) /\ (Undecided(q)' <=> Undecided(q))
  BY <1>7, <1>9 DEF Settled, Undecided
<1>10. PullLoaded'
  <2>1. job'.open \subseteq RowsOf(day)'
    BY <1>1, <1>2 DEF PullLoaded, RowsOf
  <2>2. ASSUME NEW q \in RowsOf(day)' \ job'.open
        PROVE  Settled(q)'
    <3>1. q \in Rows /\ q \in RowsOf(day) \ job.open
      BY <1>1, <1>2, <2>2 DEF RowsOf
    <3> QED BY <1>1, <1>8, <1>9, <3>1 DEF PullLoaded
  <2>3. ASSUME NEW q \in job'.open,
               q[3] \in job'.todo \/ (q[3] = Nobody /\ q[1] \notin job'.claimed)
        PROVE  Undecided(q)'
    <3>1. q \in Rows /\ Undecided(q)
      <4>1. q[3] \in job.todo \/ (q[3] = Nobody /\ q[1] \notin job.claimed)
        BY <1>2, <2>3
      <4> QED BY <1>0, <1>1, <1>2, <2>3, <4>1 DEF PullLoaded, LocalsType
    <3>2. q # row
      <4>1. CASE q[3] \in job.todo
        <5>1. q[3] # m /\ q[3] # Nobody
          BY <1>0, <1>3, <4>1, CompletionsAssumption DEF LocalsType
        <5> QED BY <1>5, <5>1
      <4>2. CASE q[3] = Nobody /\ q[1] \notin job'.claimed
        BY <1>2, <1>5, <4>2
      <4> QED BY <1>2, <2>3, <4>1, <4>2
    <3> QED BY <1>9, <3>1, <3>2
  <2> QED BY <1>1, <2>1, <2>2, <2>3 DEF PullLoaded
<1>11. ASSUME NEW q \in job'.hits
       PROVE  /\ <<q, job'.member>> \in (did' \cup (left' \cap job'.seen)) \cap Mirrors
              /\ RowOf(q, m)' \in job'.open /\ Undecided(RowOf(q, m))'
              /\ q \notin job'.claimed
  <2>1. /\ q \in job.hits /\ q # r /\ q \in Routines
        /\ <<q, m>> \in (did \cup (left \cap job.seen)) \cap Mirrors
        /\ RowOf(q, m) \in job.open
        /\ Undecided(RowOf(q, m)) /\ q \notin job.claimed
    BY <1>0, <1>1, <1>2, <1>11, <1>m DEF PullCredits, LocalsType
  <2>2. PICK old : old = RowOf(q, m)
    OBVIOUS
  <2>3. old \in Rows /\ old # row /\ Undecided(old)
    BY <1>4, <1>5, <2>1, <2>2
  <2>4. Undecided(old)' /\ RowOf(q, m)' = old
    BY <1>1, <1>9, <2>2, <2>3 DEF RowOf
  <2> QED BY <1>1, <1>2, <2>1, <2>2, <2>4 DEF Undecided
<1>12. ASSUME NEW q \in job'.claimed
       PROVE  Settled(<<q, day, Nobody>>)'
  <2>1. PICK d : d = day
    OBVIOUS
  <2>2. CASE q = r /\ r \in Pool
    <3>1. row = <<q, d, Nobody>>
      BY <1>r, <2>1, <2>2 DEF RowOf
    <3> QED BY <1>1, <1>8, <2>1, <3>1 DEF Settled
  <2>3. CASE q \in job.claimed
    <3>1. Settled(<<q, d, Nobody>>)
      BY <1>1, <2>1, <2>3 DEF PullCredits
    <3>2. <<q, d, Nobody>> \in Rows
      <4>1. q \in Pool /\ d \in Days
        BY <1>0, <2>1, <2>3 DEF LocalsType, TypeOK
      <4> QED BY <4>1 DEF Rows, PoolRows
    <3>3. Settled(<<q, d, Nobody>>)'
      BY <1>8, <1>9, <3>1, <3>2
    <3> QED BY <1>1, <2>1, <3>3 DEF Settled
  <2> QED BY <1>2, <1>12, <2>2, <2>3
<1>13. ASSUME NEW x \in Mirrors \cap job'.seen
       PROVE  x[2] = job'.member /\ (x[1] \in job'.hits \/ Settled(RowOf(x[1], x[2]))')
  <2>1. x[1] \in Routines /\ x = <<x[1], x[2]>>
    BY DEF Mirrors
  <2>2. x[2] = m /\ (x[1] \in job.hits \/ Settled(RowOf(x[1], x[2])))
    BY <1>1, <1>2, <1>13, <1>m DEF PullCredits
  <2>3. PICK old : old = RowOf(x[1], x[2])
    OBVIOUS
  <2>4. old \in Rows /\ RowOf(x[1], x[2])' = old
    BY <1>1, <1>4, <2>1, <2>2, <2>3 DEF RowOf
  <2>5. x[1] \in job'.hits \/ Settled(old)'
    <3>1. CASE x[1] = r
      BY <1>8, <1>r, <2>2, <2>3, <3>1
    <3>2. CASE x[1] # r
      BY <1>2, <1>8, <1>9, <2>2, <2>3, <2>4, <3>2
    <3> QED BY <3>1, <3>2
  <2> QED BY <1>2, <2>2, <2>4, <2>5 DEF Settled
<1>14. PullCredits'
  <2>1. job'.member \notin job'.todo
    BY <1>2, <1>3
  <2>2. \A q \in job'.hits : /\ RowOf(q, job.member)' \in job'.open
                             /\ Undecided(RowOf(q, job.member))'
    BY <1>2, <1>11 DEF RowOf, Undecided
  <2> QED BY <1>11, <1>12, <1>13, <2>1, <2>2 DEF PullCredits
<1> QED BY <1>m, <1>r, <1>3, <1>5, <1>10, <1>14

(***************************************************************************)
(* The theorems.                                                           *)
(***************************************************************************)

\* The rows, the mirrors and the jobs are as IInv says in every interleaving of
\* jobs, children, parents and crashes.
THEOREM Invariance == Spec => []IInv
\* The variables keep their types.
<1>TypeStep. ASSUME TypeOK, [Next]_vars
             PROVE  TypeOK'
  <2> USE <1>TypeStep
  <2>0. /\ job \in LocalsType /\ NoLocals \in LocalsType
        /\ agenda \in [Rows -> [estado: Estados, manual: BOOLEAN, by: Members \cup {Nobody}]]
        /\ estado \in [Tareas -> {"Pendiente", "Hecha"}] /\ credits \in [Tareas -> Nat]
        /\ mirror \in [Mirrors -> {"none", "open", "ticked"}]
        /\ day \in Days /\ MaxDay \in Nat /\ MaxCrashes \in Nat /\ MaxEdits \in Nat
        /\ crashes \in 0 .. MaxCrashes /\ edits \in 0 .. MaxEdits
        /\ torn \in [Tareas -> Nat]
    BY CompletionsAssumption DEF TypeOK, LocalsType, NoLocals
  \* Steps of the clock and the family that leave agenda and job alone.
  <2>1. ASSUME UNCHANGED <<agenda, estado, credits, pc, job>>,
               mirror' \in [Mirrors -> {"none", "open", "ticked"}],
               done' \subseteq Tareas, cronned' \subseteq Members,
               day' \in Days, phase' \in {"dawn", "day"}, reconciled' = reconciled,
               did' \subseteq Mirrors, left' \subseteq Mirrors, torn' = torn,
               crashes' = crashes, edits' = edits
        PROVE  TypeOK'
    BY <2>1 DEF TypeOK
  \* Steps of the jobs.
  <2>2. ASSUME UNCHANGED <<done, cronned, day, phase, did, left, edits>>,
               reconciled' \subseteq 0 .. MaxDay, torn' \in [Tareas -> Nat],
               agenda' \in [Rows -> [estado: Estados, manual: BOOLEAN, by: Members \cup {Nobody}]],
               estado' \in [Tareas -> {"Pendiente", "Hecha"}], credits' \in [Tareas -> Nat],
               mirror' \in [Mirrors -> {"none", "open", "ticked"}],
               pc' \in {"idle", "pull", "reconcile"}, job' \in LocalsType,
               crashes' \in 0 .. MaxCrashes
        PROVE  TypeOK'
    BY <2>2 DEF TypeOK, LocalsType
  <2>3. CASE Pull
    <3>1. OpenRows \in SUBSET Rows /\ UnpaidTareas \in SUBSET Tareas
      BY DEF OpenRows, RowsOf, UnpaidTareas
    <3>2. job' = [NoLocals EXCEPT !.open = OpenRows, !.unpaid = UnpaidTareas, !.todo = Members]
      BY <2>3 DEF Pull, StartPull
    <3>3. job' \in LocalsType
      BY <2>0, <3>1, <3>2 DEF LocalsType
    <3> QED
      BY <2>0, <2>2, <2>3, <3>3 DEF Pull, StartPull, notion, habitica, clock, history, TypeOK
  <2>4. ASSUME NEW m \in Members, ListTasks(m)
        PROVE  TypeOK'
    <3> DEFINE hits == {r \in Ticked(m) : RowOf(r, m) \in job.open /\ r \notin job.claimed}
               dues == {t \in job.unpaid \cap done : DoerOf[t] = m}
    <3>1. /\ hits \in SUBSET Routines /\ dues \in SUBSET Tareas
          /\ CompletedBy(m) \in SUBSET (Mirrors \cup Tareas)
      BY <2>0 DEF Ticked, CompletedBy, TypeOK, LocalsType
    <3>2. job' = [job EXCEPT !.member = m, !.todo = @ \ {m}, !.hits = hits, !.dues = dues,
                             !.seen = CompletedBy(m)]
      BY <2>4 DEF ListTasks, StartMember, DuesOf
    <3> HIDE DEF hits, dues
    <3>3. job' \in LocalsType
      BY <2>0, <3>1, <3>2 DEF LocalsType
    <3> QED
      BY <2>0, <2>2, <2>4, <3>3
      DEF ListTasks, StartMember, notion, habitica, clock, history, TypeOK
  <2>5. ASSUME NEW r \in Routines, CreditPersonal(r) \/ ClaimPool(r)
        PROVE  TypeOK'
    <3>1. PICK row : Credit(row, job.member)
      BY <2>5 DEF CreditPersonal, ClaimPool
    <3>2. agenda' \in [Rows -> [estado: Estados, manual: BOOLEAN, by: Members \cup {Nobody}]]
      BY <2>0, <3>1 DEF Credit, LocalsType, Estados
    <3>3. job' \in LocalsType
      <4>1. CASE CreditPersonal(r)
        BY <2>0, <4>1 DEF CreditPersonal, LocalsType
      <4>2. CASE ClaimPool(r)
        <5>1. /\ r \in Pool
              /\ job' = [job EXCEPT !.hits = @ \ {r}, !.claimed = @ \cup {r},
                                    !.losers = OthersMirrors(r, job.member)]
          BY <4>2 DEF ClaimPool, Claimed
        <5>2. OthersMirrors(r, job.member) \in SUBSET (Pool \X Members)
          <6>1. Assigned[r] \in SUBSET Members
            BY CompletionsAssumption
          <6>2. \A x \in OthersMirrors(r, job.member) : \E n \in Assigned[r] : x = <<r, n>>
            BY DEF OthersMirrors
          <6> QED BY <5>1, <6>1, <6>2
        <5> QED BY <2>0, <5>1, <5>2 DEF LocalsType
      <4> QED BY <2>5, <4>1, <4>2
    <3> QED
      BY <2>0, <2>2, <2>5, <3>2, <3>3
      DEF CreditPersonal, ClaimPool, Claimed, habitica, clock, history, TypeOK
  <2>6. ASSUME NEW x \in Mirrors, DeleteLoser(x)
        PROVE  TypeOK'
    <3>1. job' \in LocalsType /\ mirror' \in [Mirrors -> {"none", "open", "ticked"}]
      BY <2>0, <2>6 DEF DeleteLoser, LocalsType
    <3> QED BY <2>0, <2>2, <2>6, <3>1 DEF DeleteLoser, notion, clock, history, TypeOK
  <2>7. ASSUME NEW t \in Tareas, CreditTarea(t)
        PROVE  TypeOK'
    <3>1. job' \in LocalsType
      BY <2>0, <2>7 DEF CreditTarea, LocalsType
    <3>2. credits' \in [Tareas -> Nat]
      <4>1. credits' = [credits EXCEPT ![t] = credits[t] + 1] /\ credits[t] + 1 \in Nat
        BY <2>0, <2>7 DEF CreditTarea
      <4> QED BY <2>0, <4>1
    <3> QED BY <2>0, <2>2, <2>7, <3>1, <3>2 DEF CreditTarea, habitica, clock, history, TypeOK
  <2>8. ASSUME NEW t \in Tareas, MarkTarea(t)
        PROVE  TypeOK'
    <3>1. job' \in LocalsType /\ estado' \in [Tareas -> {"Pendiente", "Hecha"}]
      BY <2>0, <2>8 DEF MarkTarea, LocalsType
    <3> QED BY <2>0, <2>2, <2>8, <3>1 DEF MarkTarea, habitica, clock, history, TypeOK
  <2>9. CASE PullDone
    BY <2>0, <2>2, <2>9 DEF PullDone, notion, habitica, clock, history, TypeOK
  <2>20. CASE ReconcileDone
    <3>2. reconciled' \subseteq 0 .. MaxDay
      BY <2>0, <2>20 DEF ReconcileDone, TypeOK, Days
    <3> QED BY <2>0, <2>2, <2>20, <3>2 DEF ReconcileDone, notion, habitica, history, TypeOK
  <2>10. CASE Reconcile
    <3> DEFINE open == {r \in RowsOf(day - 1) : IsOpen(r) /\ r[1] \in Mandatory /\ r[3] # Nobody}
    <3>1. open \in SUBSET Rows
      BY DEF RowsOf
    <3>2. job' = [NoLocals EXCEPT !.open = open]
      BY <2>10 DEF Reconcile, StartReconcile
    <3> HIDE DEF open
    <3>3. job' \in LocalsType
      BY <2>0, <3>1, <3>2 DEF LocalsType
    <3> QED
      BY <2>0, <2>2, <2>10, <3>3
      DEF Reconcile, StartReconcile, notion, habitica, clock, history, TypeOK
  <2>11. ASSUME NEW r \in Rows, Fail(r)
         PROVE  TypeOK'
    <3>1. job' \in LocalsType
      BY <2>0, <2>11 DEF Fail, LocalsType
    <3>2. agenda' \in [Rows -> [estado: Estados, manual: BOOLEAN, by: Members \cup {Nobody}]]
      BY <2>0, <2>11 DEF Fail, Estados
    <3> QED BY <2>0, <2>2, <2>11, <3>1, <3>2 DEF Fail, habitica, clock, history, TypeOK
  <2>12. CASE Crash
    <3>1. torn' \in [Tareas -> Nat]
      BY <2>0, <2>12 DEF Crash
    <3> QED BY <2>0, <2>2, <2>12, <3>1 DEF Crash, notion, habitica, clock, history, TypeOK
  <2>13. ASSUME NEW x \in Mirrors, Tick(x[1], x[2])
         PROVE  TypeOK'
    <3>1. x = <<x[1], x[2]>>
      BY DEF Mirrors
    <3>2. /\ mirror' = [mirror EXCEPT ![x] = "ticked"] /\ did' = did \cup {x}
          /\ UNCHANGED <<agenda, estado, credits, done, cronned, day, phase, reconciled, pc,
                         job, left, torn, crashes, edits>>
      BY <2>13, <3>1 DEF Tick, notion, clock
    <3> QED BY <2>0, <2>1, <3>2 DEF TypeOK
  <2>14. ASSUME NEW t \in Tareas, Complete(t)
         PROVE  TypeOK'
    BY <2>0, <2>1, <2>14 DEF Complete, notion, clock, history, TypeOK
  <2>15. ASSUME NEW r \in Rows, NEW e \in Estados, RecordByHand(r, e)
         PROVE  TypeOK'
    <3>1. agenda' \in [Rows -> [estado: Estados, manual: BOOLEAN, by: Members \cup {Nobody}]]
      BY <2>0, <2>15 DEF RecordByHand
    <3>2. edits' \in 0 .. MaxEdits
      BY <2>0, <2>15 DEF RecordByHand
    <3> QED BY <2>15, <3>1, <3>2 DEF RecordByHand, habitica, clock, history, TypeOK
  <2>16. CASE Midnight
    <3>1. day' \in Days
      BY <2>0, <2>16 DEF Midnight, Days
    <3>2. mirror' \in [Mirrors -> {"none", "open", "ticked"}]
      BY <2>0, <2>16 DEF Midnight
    <3> QED BY <2>0, <2>1, <2>16, <3>1, <3>2 DEF Midnight, notion, TypeOK
  <2>17. CASE Morning
    BY <2>0, <2>1, <2>17 DEF Morning, notion, habitica, history, TypeOK
  <2>18. ASSUME NEW m \in Members, HabiticaCron(m)
         PROVE  TypeOK'
    <3>1. mirror' \in [Mirrors -> {"none", "open", "ticked"}]
      BY <2>0, <2>18 DEF HabiticaCron
    <3> QED BY <2>0, <2>1, <2>18, <3>1 DEF HabiticaCron, notion, clock, history, TypeOK
  <2>19. CASE UNCHANGED vars
    BY <2>19 DEF vars, notion, habitica, clock, history, TypeOK
  <2> QED
    BY <2>3, <2>4, <2>5, <2>6, <2>7, <2>8, <2>9, <2>10, <2>11, <2>12, <2>13, <2>14, <2>15,
       <2>16, <2>17, <2>18, <2>19, <2>20
    DEF Next, Jobs, PullStep, ReconcileStep, Family, Clock
\* Every row is a triple whose day is one of Days.
<1>RowShape. /\ \A r \in Rows : r[2] \in Days /\ r[2] \in Nat
             /\ Days \subseteq Nat \ {0}
             /\ \A r \in PersonalRows : r \in Rows /\ r[3] # Nobody
  <2>1. \A r \in PersonalRows : r[2] \in Days /\ r[3] \in Members /\ r \in Rows
    BY DEF PersonalRows, Rows
  <2>2. \A r \in PoolRows : r[2] \in Days
    BY DEF PoolRows
  <2> QED BY <2>1, <2>2, CompletionsAssumption DEF Rows, Days
\* Jobs run alone, at their time of the day.
<1>TurnsStep. ASSUME TypeOK, Turns, TicksAreKnown, [Next]_vars
              PROVE  Turns' /\ TicksAreKnown'
  <2> USE <1>TurnsStep
  <2>0. mirror \in [Mirrors -> {"none", "open", "ticked"}]
    BY DEF TypeOK
  <2>1. Turns'
    <3>1. CASE PullStep \/ ReconcileStep \/ Crash
      BY <3>1
      DEF Turns, PullStep, Crash, Pull, StartPull, PullDone, ListTasks, StartMember, Listing,
          Crediting, CreditPersonal, ClaimPool, Claimed, DeleteLoser, CreditTarea, MarkTarea,
          ReconcileStep, Reconcile, StartReconcile, ReconcileDone, Fail, clock, TypeOK
    <3>2. CASE Family \/ UNCHANGED vars \/ \E m \in Members : HabiticaCron(m)
      <4>1. UNCHANGED <<phase, pc, job>>
        BY <3>2 DEF Family, Tick, Complete, RecordByHand, HabiticaCron, clock, vars
      <4> QED BY <4>1 DEF Turns
    <3>3. CASE Midnight \/ Morning
      BY <3>3 DEF Turns, Midnight, Morning
    <3> QED BY <3>1, <3>2, <3>3 DEF Next, Jobs, Clock
  <2>2. TicksAreKnown'
    <3>1. CASE UNCHANGED <<habitica, left>> /\ did \subseteq did'
      BY <3>1 DEF TicksAreKnown, habitica
    <3>2. ASSUME NEW x \in Mirrors, DeleteLoser(x)
          PROVE  TicksAreKnown'
      BY <2>0, <3>2 DEF TicksAreKnown, DeleteLoser, history
    <3>3. ASSUME NEW x \in Mirrors, Tick(x[1], x[2])
          PROVE  TicksAreKnown'
      <4>1. x = <<x[1], x[2]>>
        BY DEF Mirrors
      <4> QED BY <2>0, <3>3, <4>1 DEF TicksAreKnown, Tick
    <3>4. ASSUME NEW t \in Tareas, Complete(t)
          PROVE  TicksAreKnown'
      BY <3>4 DEF TicksAreKnown, Complete, history
    <3>5. CASE Midnight
      BY <3>5 DEF TicksAreKnown, Midnight
    <3>6. ASSUME NEW m \in Members, HabiticaCron(m)
          PROVE  TicksAreKnown'
      BY <2>0, <3>6 DEF TicksAreKnown, HabiticaCron, history
    <3> QED
      BY <3>1, <3>2, <3>3, <3>4, <3>5, <3>6
      DEF Next, Jobs, PullStep, Crash, Pull, StartPull, PullDone, ListTasks, StartMember,
          CreditPersonal, ClaimPool, CreditTarea, MarkTarea, ReconcileStep,
          Reconcile, StartReconcile, ReconcileDone, Fail, Family, Clock, RecordByHand, Morning,
          vars, history
  <2> QED BY <2>1, <2>2
\* Rows are failed in the morning after their day, once.
<1>MissesStep. ASSUME TypeOK, TypeOK', Turns, FailedLater, MissesDecided, ReconcileLoaded,
                      [Next]_vars
               PROVE  FailedLater' /\ MissesDecided' /\ ReconcileLoaded'
  <2> USE <1>MissesStep
  <2>0. /\ agenda \in [Rows -> [estado: Estados, manual: BOOLEAN, by: Members \cup {Nobody}]]
        /\ day \in Days /\ day \in Nat \ {0} /\ day' \in Nat \ {0} /\ job \in LocalsType
        /\ \A r \in Rows : r[2] \in Nat
        /\ PersonalRows \subseteq Rows /\ \A r \in PersonalRows : r[3] # Nobody
    BY <1>RowShape DEF TypeOK, LocalsType
  <2>1. ASSUME NEW r \in Routines, Credits(r)
        PROVE  FailedLater' /\ MissesDecided' /\ ReconcileLoaded'
    <3>0. /\ pc = "pull" /\ pc' = pc /\ UNCHANGED <<day, reconciled>>
          /\ Credit(RowOf(r, job.member), job.member)
      BY <2>1 DEF Credits, CreditPersonal, ClaimPool, Claimed, Crediting, clock
    <3>1. \A q \in Rows : \/ agenda'[q] = agenda[q]
                          \/ agenda'[q].estado = "Hecha" /\ ~agenda'[q].manual
      <4> DEFINE row == RowOf(r, job.member)
      <4>1. agenda' = [agenda EXCEPT ![row] =
                         [estado |-> "Hecha", manual |-> FALSE, by |-> job.member]]
        BY <3>0 DEF Credit
      <4> HIDE DEF row
      <4> QED BY <2>0, <4>1
    <3>2. \A q \in Rows : IsOpen(q)' => IsOpen(q)
      BY <3>1 DEF IsOpen
    <3>3. FailedLater'
      BY <3>0, <3>1 DEF FailedLater
    <3>4. MissesDecided'
      BY <2>0, <3>0, <3>2 DEF MissesDecided
    <3> QED BY <3>0, <3>3, <3>4 DEF ReconcileLoaded
  <2>2. ASSUME NEW r \in Rows, Fail(r)
        PROVE  FailedLater' /\ MissesDecided' /\ ReconcileLoaded'
    <3>1. /\ pc = "reconcile" /\ r \in job.open /\ r[2] = day - 1 /\ job'.open = job.open \ {r}
          /\ UNCHANGED <<day, reconciled, pc>>
      BY <2>0, <2>2 DEF Fail, ReconcileLoaded, clock, LocalsType
    <3>2. /\ agenda'[r].estado = "Fallada"
          /\ \A q \in Rows \ {r} : agenda'[q] = agenda[q]
      BY <2>0, <2>2 DEF Fail
    <3>3. FailedLater'
      BY <2>0, <3>1, <3>2 DEF FailedLater
    <3>4. MissesDecided'
      BY <2>0, <3>1, <3>2 DEF MissesDecided, IsOpen
    <3>5. ReconcileLoaded'
      BY <2>0, <3>1, <3>2 DEF ReconcileLoaded, Undecided, LocalsType
    <3> QED BY <3>3, <3>4, <3>5
  <2>3. ASSUME NEW r \in Rows, Edits(r)
        PROVE  FailedLater' /\ MissesDecided' /\ ReconcileLoaded'
    <3>1. \A q \in Rows : agenda'[q] = agenda[q] \/ agenda'[q].manual
      BY <2>0, <2>3 DEF Edits
    <3>2. \A q \in Rows : (IsOpen(q)' => IsOpen(q)) /\ (Undecided(q) => Undecided(q)')
      BY <3>1 DEF IsOpen, Undecided
    <3>3. UNCHANGED <<day, reconciled, pc, job>>
      BY <2>3 DEF Edits, clock
    <3>4. FailedLater'
      BY <3>1, <3>3 DEF FailedLater
    <3>5. MissesDecided'
      BY <2>0, <3>2, <3>3 DEF MissesDecided
    <3>6. ReconcileLoaded'
      BY <2>0, <3>2, <3>3 DEF ReconcileLoaded, LocalsType
    <3> QED BY <3>4, <3>5, <3>6
  <2>4. CASE Midnight
    <3>1. agenda' = agenda /\ day' = day + 1 /\ pc' = "idle" /\ reconciled' = reconciled
      BY <2>4 DEF Midnight, Turns, notion
    <3>2. FailedLater'
      BY <2>0, <3>1 DEF FailedLater
    <3>3. MissesDecided'
      BY <2>0, <3>1 DEF MissesDecided, IsOpen
    <3> QED BY <3>1, <3>2, <3>3 DEF ReconcileLoaded
  <2>5. CASE RowsKept
    <3>1. /\ FailedLater'
          /\ \A q \in Rows : /\ IsOpen(q)' <=> IsOpen(q)
                             /\ Undecided(q)' <=> Undecided(q)
      BY <2>5 DEF RowsKept, FailedLater, IsOpen, Undecided
    <3>2. CASE Reconcile
      <4>1. /\ reconciled' = reconciled /\ day' = day
            /\ job'.open = {r \in RowsOf(day - 1) :
                              IsOpen(r) /\ r[1] \in Mandatory /\ r[3] # Nobody}
        BY <3>2, <2>5 DEF Reconcile, StartReconcile, NoLocals, clock, RowsKept
      <4>2. MissesDecided'
        BY <2>0, <3>1, <4>1 DEF MissesDecided, RowsOf
      <4>3. ReconcileLoaded'
        BY <2>0, <3>1, <4>1 DEF ReconcileLoaded, RowsOf, IsOpen, Undecided
      <4> QED BY <3>1, <4>2, <4>3
    <3>3. CASE ReconcileDone
      <4>1. /\ pc = "reconcile" /\ job.open = {} /\ pc' # "reconcile"
            /\ reconciled' = reconciled \cup {day - 1}
        BY <3>3 DEF ReconcileDone
      <4>2. ASSUME NEW r \in PersonalRows, r[1] \in Mandatory, IsOpen(r)'
            PROVE  r[2] \notin reconciled'
        BY <2>0, <3>1, <4>1, <4>2 DEF MissesDecided
      <4> QED BY <3>1, <4>1, <4>2 DEF MissesDecided, ReconcileLoaded
    <3>4. CASE reconciled' = reconciled /\ pc' # "reconcile"
      BY <2>0, <2>5, <3>1, <3>4 DEF MissesDecided, ReconcileLoaded, RowsKept
    <3>5. CASE UNCHANGED <<reconciled, pc, job>>
      <4>1. MissesDecided'
        BY <2>0, <2>5, <3>1, <3>5 DEF MissesDecided, RowsKept
      <4>2. ReconcileLoaded'
        BY <2>0, <2>5, <3>1, <3>5 DEF ReconcileLoaded, RowsKept, LocalsType
      <4> QED BY <3>1, <4>1, <4>2
    <3>6. CASE \E r \in Rows : Fail(r)
      BY <2>2, <3>6
    <3> QED
      BY <3>2, <3>3, <3>4, <3>5, <3>6, <2>4
      DEF Next, Jobs, PullStep, Crash, Pull, StartPull, PullDone, ListTasks, StartMember,
          Listing, Crediting, CreditPersonal, ClaimPool, Claimed, DeleteLoser, CreditTarea,
          MarkTarea, ReconcileStep, Family, Clock, Tick, Complete, RecordByHand,
          Morning, HabiticaCron, vars, notion, clock
  <2> QED BY <2>1, <2>2, <2>3, <2>4, <2>5, RowSteps
\* The other steps leave a pull what it has to do.
<1>PullsStep. ASSUME TypeOK, Turns, TicksAreKnown, FailedLater, PullLoaded, PullCredits,
                     [Next]_vars
              PROVE  PullLoaded' /\ PullCredits'
  \* Who is listed gets what the member ticked and no job or parent decided.
  <2> USE <1>PullsStep
  <2>ListStep. ASSUME TypeOK, Turns, TicksAreKnown, PullLoaded, PullCredits,
                      NEW m \in Members, ListTasks(m)
               PROVE  PullLoaded' /\ PullCredits'
    <3> USE <2>ListStep
    <3> DEFINE hits == {r \in Ticked(m) : RowOf(r, m) \in job.open /\ r \notin job.claimed}
    <3>0. job \in LocalsType /\ did \subseteq Mirrors /\ left \subseteq Mirrors
          /\ mirror \in [Mirrors -> {"none", "open", "ticked"}]
      BY DEF TypeOK, LocalsType, ListTasks, StartMember, Listing, Crediting, Turns
    <3>1. /\ pc = "pull" /\ m \in job.todo
          /\ job' = [job EXCEPT !.member = m, !.todo = @ \ {m}, !.hits = hits,
                                !.dues = {t \in job.unpaid \cap done : DoerOf[t] = m},
                                !.seen = CompletedBy(m)]
          /\ UNCHANGED <<agenda, day, did, left>>
      BY DEF ListTasks, StartMember, DuesOf, Listing, Crediting, notion, clock, history
    <3>2. /\ job'.member = m /\ job'.todo = job.todo \ {m} /\ job'.hits = hits
          /\ job'.seen = CompletedBy(m) /\ job'.open = job.open /\ job'.claimed = job.claimed
      BY <3>0, <3>1 DEF LocalsType
    <3>3. \A r \in Rows : (Settled(r)' <=> Settled(r)) /\ (Undecided(r)' <=> Undecided(r))
      BY <3>1 DEF Settled, Undecided
    <3>4. PullLoaded'
      BY <3>0, <3>1, <3>2, <3>3 DEF PullLoaded, RowsOf, Settled, Undecided
    <3>5. ASSUME NEW r \in hits
          PROVE  /\ <<r, m>> \in (did \cup (left \cap CompletedBy(m))) \cap Mirrors
                 /\ RowOf(r, m) \in job.open
                 /\ Undecided(RowOf(r, m)) /\ r \notin job.claimed
      <4>1. r \in Routines /\ m \in Assigned[r] /\ mirror[<<r, m>>] = "ticked"
            /\ RowOf(r, m) \in job.open /\ r \notin job.claimed
        BY <3>5 DEF Ticked
      <4>2. /\ <<r, m>> \in Mirrors /\ <<r, m>>[2] = m
            /\ RowOf(r, m)[1] = r /\ RowOf(r, m)[3] = IF r \in Pool THEN Nobody ELSE m
        BY <4>1, RowAndMirror
      <4>3. <<r, m>> \in did \cup (left \cap CompletedBy(m))
        BY <4>1, <4>2 DEF TicksAreKnown, CompletedBy
      <4>4. Undecided(RowOf(r, m))
        BY <3>1, <4>1, <4>2 DEF PullLoaded
      <4> QED BY <4>1, <4>2, <4>3, <4>4
    <3>6. ASSUME NEW x \in Mirrors, x \in CompletedBy(m)
          PROVE  x[2] = m /\ (x[1] \in hits \/ Settled(RowOf(x[1], x[2])))
      <4>1. x[1] \in Routines /\ x[2] \in Assigned[x[1]] /\ x = <<x[1], x[2]>>
            /\ x \in Routines \X Members
        BY DEF Mirrors
      <4>2. x[2] = m /\ mirror[x] = "ticked"
        BY <3>6, <4>1, CompletionsAssumption DEF CompletedBy, TypeOK
      <4>3. x[1] \in Ticked(m)
        BY <4>1, <4>2 DEF Ticked
      <4>4. CASE RowOf(x[1], m) \notin job.open
        <5>1. RowOf(x[1], m) \in RowsOf(day)
          BY <4>1, <4>2, RowAndMirror DEF RowsOf
        <5> QED BY <3>1, <4>2, <4>4, <5>1 DEF PullLoaded
      <4>5. CASE x[1] \in job.claimed
        <5>1. RowOf(x[1], m) = <<x[1], day, Nobody>>
          BY <3>0, <4>5 DEF RowOf, LocalsType
        <5> QED BY <3>1, <4>2, <4>5, <5>1 DEF PullCredits
      <4> QED BY <4>2, <4>3, <4>4, <4>5
    <3> HIDE DEF hits
    <3>7. ASSUME NEW r \in Routines
          PROVE  RowOf(r, m)' = RowOf(r, m)
      BY <3>1 DEF RowOf
    <3>8. \A r \in job'.hits :
            /\ <<r, job'.member>> \in (did' \cup (left' \cap job'.seen)) \cap Mirrors
            /\ RowOf(r, job.member)' \in job'.open /\ Undecided(RowOf(r, job.member))'
            /\ r \notin job'.claimed
      BY <3>1, <3>2, <3>5 DEF RowOf, Undecided
    <3>9. \A r \in job'.claimed : Settled(<<r, day, Nobody>>)'
      BY <3>1, <3>2 DEF PullCredits, Settled
    <3>10. \A x \in Mirrors \cap job'.seen :
             x[2] = job'.member /\ (x[1] \in job'.hits \/ Settled(RowOf(x[1], x[2]))')
      BY <3>1, <3>2, <3>6 DEF RowOf, Settled
    <3>11. job'.member \notin job'.todo
      BY <3>2
    <3> QED BY <3>4, <3>8, <3>9, <3>10, <3>11 DEF PullCredits
  <2>0. /\ job \in LocalsType /\ day \in Days
        /\ agenda \in [Rows -> [estado: Estados, manual: BOOLEAN, by: Members \cup {Nobody}]]
        /\ Days \subseteq Nat
    BY CompletionsAssumption DEF TypeOK, LocalsType, Days
  <2>1. CASE pc' # "pull"
    BY <2>1 DEF PullLoaded, PullCredits
  \* A step that only adds to what was ticked and decides nothing but by hand.
  <2>2. ASSUME UNCHANGED <<day, pc, left>>, did \subseteq did',
               job'.open = job.open, job'.todo = job.todo, job'.member = job.member,
               job'.hits = job.hits, job'.claimed = job.claimed, job'.seen = job.seen,
               \A r \in Rows : agenda'[r] = agenda[r] \/ agenda'[r].manual
        PROVE  PullLoaded' /\ PullCredits'
    <3>1. ASSUME NEW r \in Rows
          PROVE  (Settled(r) => Settled(r)') /\ (Undecided(r) => Undecided(r)')
      BY <2>2 DEF Settled, Undecided
    <3>2. PullLoaded'
      <4>1. \A r \in RowsOf(day)' : r \in Rows /\ r \in RowsOf(day)
        BY <2>2 DEF RowsOf
      <4> QED BY <2>0, <2>2, <3>1, <4>1 DEF PullLoaded, RowsOf, LocalsType
    <3>3. ASSUME NEW q \in Routines, NEW n
          PROVE  RowOf(q, n)' = RowOf(q, n)
      BY <2>2 DEF RowOf
    <3>4. ASSUME pc = "pull", NEW q \in job.hits
          PROVE  /\ <<q, job'.member>> \in (did' \cup (left' \cap job'.seen)) \cap Mirrors
                 /\ RowOf(q, job.member)' \in job'.open /\ Undecided(RowOf(q, job.member))'
                 /\ q \notin job'.claimed
      <4>1. PICK row : row = RowOf(q, job.member)
        OBVIOUS
      <4>2. row \in job.open /\ Undecided(row) /\ row \in Rows
        BY <2>0, <3>4, <4>1 DEF PullCredits, LocalsType
      <4>3. RowOf(q, job.member)' = row /\ Undecided(row)'
        BY <2>2, <3>1, <4>1, <4>2 DEF RowOf
      <4> QED BY <2>2, <3>4, <4>2, <4>3 DEF PullCredits, Undecided
    <3>5. ASSUME pc = "pull", NEW q \in job.claimed
          PROVE  Settled(<<q, day, Nobody>>)'
      <4>1. PICK row : row = <<q, day, Nobody>>
        OBVIOUS
      <4>2. row \in Rows /\ Settled(row)
        BY <2>0, <3>5, <4>1 DEF PullCredits, LocalsType, Rows, PoolRows
      <4> QED BY <2>2, <3>1, <4>1, <4>2 DEF Settled
    <3>6. ASSUME pc = "pull", NEW x \in Mirrors \cap job.seen
          PROVE  x[2] = job.member /\ (x[1] \in job.hits \/ Settled(RowOf(x[1], x[2]))')
      <4>1. x[1] \in Routines /\ x[2] \in Assigned[x[1]]
        BY DEF Mirrors
      <4>2. PICK row : row = RowOf(x[1], x[2])
        OBVIOUS
      <4>3. row \in Rows
        BY <4>1, <4>2, RowAndMirror
      <4>4. x[2] = job.member /\ (x[1] \in job.hits \/ Settled(row)')
        BY <3>1, <3>6, <4>2, <4>3 DEF PullCredits
      <4> QED BY <2>2, <4>2, <4>4 DEF RowOf, Settled
    <3> QED BY <2>2, <3>2, <3>4, <3>5, <3>6 DEF PullCredits
  <2>3. CASE Pull
    <3>1. /\ job'.open = OpenRows /\ job'.todo = Members /\ job'.member = Nobody
          /\ job'.hits = {} /\ job'.claimed = {} /\ job'.seen = {}
          /\ UNCHANGED <<agenda, day>>
      BY <2>3 DEF Pull, StartPull, NoLocals, notion, clock
    <3>2. ASSUME NEW r \in RowsOf(day)
          PROVE  IF r \in OpenRows THEN Undecided(r) ELSE Settled(r)
      <4>1. r \in Rows /\ r[2] = day /\ r[2] >= day
        BY <2>0 DEF RowsOf
      <4>2. agenda[r].estado \in Estados
        BY <2>0, <4>1
      <4> QED BY <4>1, <4>2 DEF FailedLater, OpenRows, IsOpen, Undecided, Settled, Estados
    <3>3. PullLoaded'
      BY <3>1, <3>2 DEF PullLoaded, OpenRows, RowsOf, IsOpen, Undecided, Settled
    <3> QED BY <3>1, <3>3, CompletionsAssumption DEF PullCredits
  <2>4. ASSUME NEW m \in Members, ListTasks(m)
        PROVE  PullLoaded' /\ PullCredits'
    BY <2>4, <2>ListStep
  <2>5. ASSUME NEW r \in Routines, CreditPersonal(r) \/ ClaimPool(r)
        PROVE  PullLoaded' /\ PullCredits'
    BY <2>5, CreditStep
  <2>6. ASSUME NEW x \in Mirrors, DeleteLoser(x)
        PROVE  PullLoaded' /\ PullCredits'
    BY <2>0, <2>2, <2>6 DEF DeleteLoser, notion, clock, LocalsType, history
  <2>7. ASSUME NEW t \in Tareas, CreditTarea(t) \/ MarkTarea(t)
        PROVE  PullLoaded' /\ PullCredits'
    BY <2>0, <2>2, <2>7 DEF CreditTarea, MarkTarea, clock, LocalsType, history
  <2>8. ASSUME NEW x \in Mirrors, Tick(x[1], x[2])
        PROVE  PullLoaded' /\ PullCredits'
    BY <2>2, <2>8 DEF Tick, notion, clock
  <2>9. ASSUME NEW t \in Tareas, Complete(t)
        PROVE  PullLoaded' /\ PullCredits'
    BY <2>2, <2>9 DEF Complete, notion, clock, history
  <2>10. ASSUME NEW r \in Rows, NEW e \in Estados, RecordByHand(r, e)
         PROVE  PullLoaded' /\ PullCredits'
    <3>1. \A q \in Rows : agenda'[q] = agenda[q] \/ agenda'[q].manual
      BY <2>0, <2>10 DEF RecordByHand
    <3> QED BY <2>2, <2>10, <3>1 DEF RecordByHand, clock, history
  <2>11. ASSUME NEW m \in Members, HabiticaCron(m)
         PROVE  PullLoaded' /\ PullCredits'
    BY <2>2, <2>11 DEF HabiticaCron, notion, clock, history
  <2>12. CASE UNCHANGED vars
    BY <2>2, <2>12 DEF vars, notion, clock, history
  <2> QED
    BY <2>1, <2>3, <2>4, <2>5, <2>6, <2>7, <2>8, <2>9, <2>10, <2>11, <2>12
    DEF Next, Jobs, PullStep, Crash, PullDone, ReconcileStep, Reconcile, StartReconcile,
        ReconcileDone, Fail, Family, Clock, Midnight, Morning
\* What a tarea has been given is one credit, and one for each death at its two writes.
<1>TareasStep. ASSUME TypeOK, Turns, PullCredits, TareasPaid, [Next]_vars
               PROVE  TareasPaid'
  <2> USE <1>TareasStep
  <2>0. /\ job \in LocalsType /\ torn \in [Tareas -> Nat]
        /\ estado \in [Tareas -> {"Pendiente", "Hecha"}] /\ credits \in [Tareas -> Nat]
        /\ did \subseteq Mirrors /\ Tareas \cap Mirrors = {}
    BY CompletionsAssumption DEF TypeOK, LocalsType, Mirrors
  <2>1. CASE UNCHANGED <<estado, credits, torn, pc, job>>
    BY <2>1 DEF TareasPaid
  <2>2. CASE /\ UNCHANGED <<estado, credits, torn>> /\ pc' = pc
             /\ job'.unpaid = job.unpaid /\ job'.todo = job.todo /\ job'.member = job.member
             /\ job'.dues = job.dues /\ job'.marking = job.marking /\ job'.seen = job.seen
    BY <2>2 DEF TareasPaid
  <2>3. CASE /\ UNCHANGED <<estado, credits, torn>> /\ job.marking = {} /\ job'.marking = {}
             /\ pc' # "pull"
    BY <2>3 DEF TareasPaid
  <2>4. CASE Pull
    <3>1. /\ job'.unpaid = UnpaidTareas /\ job'.dues = {} /\ job'.marking = {} /\ job'.seen = {}
          /\ UNCHANGED <<estado, credits, torn>> /\ job.marking = {}
      BY <2>4 DEF Pull, StartPull, NoLocals, notion, Turns, history
    <3> QED BY <3>1 DEF TareasPaid, UnpaidTareas
  <2>5. ASSUME NEW m \in Members, ListTasks(m)
        PROVE  TareasPaid'
    <3>1. /\ pc = "pull" /\ pc' = pc /\ job.marking = {} /\ job'.marking = {} /\ m \in job.todo
          /\ job'.member = m /\ job'.todo = job.todo \ {m} /\ job'.unpaid = job.unpaid
          /\ job'.dues = {t \in job.unpaid \cap done : DoerOf[t] = m}
          /\ job'.seen = CompletedBy(m)
          /\ UNCHANGED <<estado, credits, torn>>
      BY <2>0, <2>5
      DEF ListTasks, StartMember, DuesOf, Listing, Crediting, notion, LocalsType, history
    <3>2. \A t \in Tareas \cap job'.seen : t \in done /\ DoerOf[t] = m
      BY <2>0, <3>1 DEF CompletedBy
    <3>3. \A t \in Tareas \cap job'.seen : t \in job'.dues \/ credits'[t] >= 1
      BY <3>1, <3>2 DEF TareasPaid
    <3>4. \A t \in job'.dues : estado[t] # "Hecha" /\ DoerOf[t] = m
      BY <3>1 DEF TareasPaid
    <3> QED BY <3>1, <3>3, <3>4 DEF TareasPaid
  <2>6. ASSUME NEW r \in Routines, CreditPersonal(r) \/ ClaimPool(r)
        PROVE  TareasPaid'
    BY <2>0, <2>2, <2>6 DEF CreditPersonal, ClaimPool, Claimed, LocalsType, history
  <2>7. ASSUME NEW x \in Mirrors, DeleteLoser(x)
        PROVE  TareasPaid'
    BY <2>0, <2>2, <2>7 DEF DeleteLoser, notion, LocalsType, history
  <2>8. ASSUME NEW t \in Tareas, CreditTarea(t)
        PROVE  TareasPaid'
    <3>1. /\ pc = "pull" /\ pc' = pc /\ job.marking = {} /\ job'.marking = {t} /\ t \in job.dues
          /\ job'.member = job.member /\ job'.todo = job.todo /\ job'.unpaid = job.unpaid
          /\ job'.dues = job.dues \ {t} /\ job'.seen = job.seen
          /\ UNCHANGED <<estado, torn>>
      BY <2>0, <2>8 DEF CreditTarea, Crediting, LocalsType, history
    <3>2. credits'[t] = credits[t] + 1 /\ \A u \in Tareas \ {t} : credits'[u] = credits[u]
      BY <2>0, <2>8 DEF CreditTarea
    <3>3. /\ estado[t] # "Hecha" /\ DoerOf[t] = job.member
          /\ credits[t] <= torn[t] /\ credits[t] \in Nat
      BY <2>0, <3>1 DEF TareasPaid
    <3>4. credits'[t] >= 1 /\ credits'[t] <= 1 + torn[t]
      BY <2>0, <3>2, <3>3
    <3> QED BY <2>0, <3>1, <3>2, <3>3, <3>4 DEF TareasPaid, LocalsType
  <2>9. ASSUME NEW t \in Tareas, MarkTarea(t)
        PROVE  TareasPaid'
    <3>1. /\ pc = "pull" /\ pc' = pc /\ t \in job.marking /\ job'.marking = {}
          /\ job'.member = job.member /\ job'.todo = job.todo /\ job'.unpaid = job.unpaid
          /\ job'.dues = job.dues /\ job'.seen = job.seen
          /\ UNCHANGED <<credits, torn>>
      BY <2>0, <2>9 DEF MarkTarea, LocalsType, history
    <3>2. estado'[t] = "Hecha" /\ \A u \in Tareas \ {t} : estado'[u] = estado[u]
      BY <2>0, <2>9 DEF MarkTarea
    <3>3. \A u \in Tareas : u # t => u \notin job.marking
      BY <3>1 DEF TareasPaid
    <3>4. DoerOf[t] = job.member /\ t \notin job.dues /\ DoerOf[t] \notin job.todo
      BY <3>1 DEF TareasPaid, PullCredits
    <3> QED BY <2>0, <3>1, <3>2, <3>3, <3>4 DEF TareasPaid, LocalsType
  <2>10. CASE Crash
    <3>1. /\ pc' = "idle" /\ job'.marking = {} /\ UNCHANGED <<estado, credits>>
      BY <2>10 DEF Crash, NoLocals, notion
    <3>2. ASSUME NEW t \in Tareas
          PROVE  /\ estado[t] = "Hecha" => credits[t] >= 1
                 /\ credits[t] <= IF estado[t] = "Hecha" THEN 1 + torn'[t] ELSE torn'[t]
      <4>1. torn'[t] = IF t \in job.marking THEN torn[t] + 1 ELSE torn[t]
        BY <2>10 DEF Crash
      <4>2. torn[t] \in Nat /\ credits[t] \in Nat
        BY <2>0
      <4> QED BY <4>1, <4>2 DEF TareasPaid
    <3> QED BY <3>1, <3>2 DEF TareasPaid
  <2>11. CASE PullDone \/ ReconcileStep
    <3>1. CASE PullDone
      BY <2>3, <3>1 DEF PullDone, Listing, Crediting, NoLocals, notion, clock, history
    <3>2. CASE Reconcile
      BY <2>3, <3>2 DEF Reconcile, StartReconcile, NoLocals, notion, Turns, history
    <3>3. CASE ReconcileDone \/ \E r \in Rows : Fail(r)
      <4>1. /\ pc = "reconcile" /\ pc' # "pull" /\ UNCHANGED <<estado, credits, torn>>
            /\ job'.marking \in {{}, job.marking}
        BY <2>0, <3>3 DEF ReconcileDone, Fail, NoLocals, notion, LocalsType, history
      <4> QED BY <2>3, <4>1 DEF TareasPaid
    <3> QED BY <2>11, <3>1, <3>2, <3>3 DEF ReconcileStep
  <2>12. CASE Family \/ Clock \/ UNCHANGED vars
    BY <2>1, <2>12
    DEF Family, Clock, Tick, Complete, RecordByHand, Midnight, Morning, HabiticaCron, vars,
        notion, history
  <2> QED
    BY <2>4, <2>5, <2>6, <2>7, <2>8, <2>9, <2>10, <2>11, <2>12 DEF Next, Jobs, PullStep
<1>1. Init => IInv
  <2> SUFFICES ASSUME Init PROVE IInv
    OBVIOUS
  <2>1. TypeOK
    BY CompletionsAssumption DEF Init, TypeOK, NoLocals, Days, Estados
  <2>2. Turns /\ TicksAreKnown /\ FailedLater
    BY DEF Init, Turns, TicksAreKnown, FailedLater
  <2>3. MissesDecided
    BY DEF Init, MissesDecided
  <2>4. ReconcileLoaded /\ PullLoaded /\ PullCredits
    BY DEF Init, ReconcileLoaded, PullLoaded, PullCredits
  <2>5. TareasPaid
    BY DEF Init, TareasPaid, NoLocals
  <2> QED BY <2>1, <2>2, <2>3, <2>4, <2>5 DEF IInv
<1>2. IInv /\ [Next]_vars => IInv'
  BY <1>TypeStep, <1>TurnsStep, <1>MissesStep, <1>PullsStep, <1>TareasStep DEF IInv
<1> QED BY <1>1, <1>2, PTL DEF Spec

\* Rows, mirrors and the variables of the jobs keep their types.
THEOREM TypeCorrectness == Spec => []TypeOK
<1>1. IInv => TypeOK
  BY DEF IInv
<1> QED BY Invariance, <1>1, PTL

\* Work that is ticked is credited by the pull that sees it.
THEOREM WorkIsCreditedHolds == Spec => []WorkIsCredited
<1>1. IInv => WorkIsCredited
  BY DEF IInv, WorkIsCredited, Listing, Crediting, PullCredits, TareasPaid, Settled
<1> QED BY Invariance, <1>1, PTL

\* Mandatory work of a reconciled day is decided for good.
THEOREM MissesFailHolds == Spec => []MissesFail
<1>1. IInv => MissesFail
  BY DEF IInv, MissesFail, MissesDecided
<1> QED BY Invariance, <1>1, PTL

\* A tarea is paid once, and once more for each death between its two writes at most.
THEOREM PaysOnceUnlessTornHolds == Spec => []PaysOnceUnlessTorn
<1>1. IInv => PaysOnceUnlessTorn
  BY DEF IInv, PaysOnceUnlessTorn, TareasPaid, TypeOK
<1> QED BY Invariance, <1>1, PTL

\* A row becomes Hecha on its day, for a member who ticked its routine that day, or
\* before and Habitica still showed it.
THEOREM OnlyWorkIsCreditedHolds == Spec => OnlyWorkIsCredited
<1> DEFINE Earned == \A r \in Rows :
             JobCredits(r) =>
               r[2] = day /\ <<r[1], agenda'[r].by>> \in did \cup (left \cap job.seen)
<1>1. IInv /\ [Next]_vars => Earned
  <2> SUFFICES ASSUME IInv, [Next]_vars, NEW r \in Rows, agenda'[r] # agenda[r],
                      agenda'[r].estado = "Hecha", ~agenda'[r].manual
               PROVE  /\ r[2] = day
                      /\ <<r[1], agenda'[r].by>> \in did \cup (left \cap job.seen)
    BY DEF JobCredits
  <2>0. agenda \in [Rows -> [estado: Estados, manual: BOOLEAN, by: Members \cup {Nobody}]]
    BY DEF IInv, TypeOK
  <2>1. ASSUME NEW q \in Rows, Fail(q) \/ Edits(q)
        PROVE  FALSE
    <3>1. CASE Fail(q)
      BY <2>0, <3>1 DEF Fail
    <3>2. CASE Edits(q)
      BY <2>0, <3>2 DEF Edits
    <3> QED BY <2>1, <3>1, <3>2
  <2>2. PICK q \in Routines : CreditPersonal(q) \/ ClaimPool(q)
    BY <2>1, RowSteps DEF RowsKept, Midnight, notion, Credits
  <2>m. PICK m : m = job.member
    OBVIOUS
  <2>3. PICK row \in Rows :
          /\ row = RowOf(q, m)
          /\ agenda' = [agenda EXCEPT ![row] = [estado |-> "Hecha", manual |-> FALSE, by |-> m]]
    BY <2>2, <2>m, CreditStep DEF IInv, CreditPersonal, ClaimPool, Credit
  <2>4. row[1] = q /\ row[2] = day /\ <<q, m>> \in did \cup (left \cap job.seen)
    BY <2>2, <2>3, <2>m, CreditStep DEF IInv
  <2>5. r = row /\ agenda'[r].by = m
    BY <2>0, <2>3
  <2> QED BY <2>4, <2>5
<1> QED BY Invariance, <1>1, PTL DEF Spec, OnlyWorkIsCredited

\* No job decides what a job decided.
THEOREM DecidedOnceHolds == Spec => DecidedOnce
<1> DEFINE Once == \A r \in Rows :
             agenda[r].estado # "Pendiente" /\ ~agenda[r].manual /\ agenda'[r] # agenda[r]
               => edits' # edits
<1>1. IInv /\ [Next]_vars => Once
  <2> SUFFICES ASSUME IInv, [Next]_vars, NEW r \in Rows, ~Undecided(r),
                      agenda'[r] # agenda[r]
               PROVE  edits' # edits
    BY DEF Undecided
  <2>0. /\ agenda \in [Rows -> [estado: Estados, manual: BOOLEAN, by: Members \cup {Nobody}]]
        /\ edits \in Nat
    BY CompletionsAssumption DEF IInv, TypeOK
  <2>1. ASSUME NEW q \in Rows, Fail(q)
        PROVE  FALSE
    BY <2>0, <2>1 DEF IInv, Fail, ReconcileLoaded
  <2>2. ASSUME NEW q \in Rows, Edits(q)
        PROVE  edits' # edits
    BY <2>0, <2>2 DEF Edits
  <2>3. ASSUME NEW q \in Routines, CreditPersonal(q) \/ ClaimPool(q)
        PROVE  FALSE
    <3>m. PICK m : m = job.member
      OBVIOUS
    <3>1. PICK row \in Rows :
            /\ Undecided(row)
            /\ agenda' = [agenda EXCEPT ![row] = [estado |-> "Hecha", manual |-> FALSE, by |-> m]]
      BY <2>3, <3>m, CreditStep DEF IInv, CreditPersonal, ClaimPool, Credit
    <3>2. row # r
      BY <3>1
    <3> QED BY <2>0, <3>1, <3>2
  <2> QED BY <2>1, <2>2, <2>3, RowSteps DEF RowsKept, Midnight, notion, Credits
<1> QED BY Invariance, <1>1, PTL DEF Spec, DecidedOnce
=============================================================================
