------------------------- MODULE OccurrencesProofs --------------------------
(***************************************************************************)
(* A run of generate-occurrences fills the horizon and never writes a row  *)
(* twice, proved for every catalogue, family and horizon and any number of *)
(* nights, edits, crashes and lost calls.  And, from the arithmetic of the *)
(* calendar alone, a mirror is due on a day that has a row.                *)
(***************************************************************************)
EXTENDS Occurrences, WellFoundedInduction, TLAPS

(***************************************************************************)
(* Of some slots, one has the first day: create_page has a next one.       *)
(***************************************************************************)
LEMMA FirstDay ==
  ASSUME NEW todo, todo # {}, \A s \in todo : s[2] \in Nat
  PROVE  \E s \in todo : \A t \in todo : s[2] <= t[2]
<1>. DEFINE days == {s[2] : s \in todo}
            less == OpToRel(<, Nat)
<1>1. less = {d \in Nat \X Nat : d[1] < d[2]}
  BY DEF OpToRel
<1>2. days \subseteq Nat /\ days # {}
  OBVIOUS
<1>3. PICK d \in days : \A e \in days : <<e, d>> \notin less
  <2>1. IsWellFoundedOn(less, Nat)
    BY NatLessThanWellFounded
  <2>. HIDE DEF less, days
  <2> QED BY <1>2, <2>1, WFMin, Zenon
<1>4. PICK s \in todo : s[2] = d
  BY <1>3
<1>5. ASSUME NEW e \in days PROVE d <= e
  <2>1. d \in Nat /\ e \in Nat /\ <<e, d>> \notin less
    BY <1>2, <1>3
  <2>. HIDE DEF less, days
  <2> QED BY <1>1, <2>1, SMT
<1> QED BY <1>4, <1>5

Shapes ==
  /\ today \in Nat
  /\ {"today", "todo", "dirty"} \subseteq DOMAIN job
  /\ \A s \in job.todo : s[2] \in Nat

\* What a run is still to create has no row, unless a parent made one since it loaded,
\* and it creates one row of each occurrence.
TodoIsFree ==
  \A s \in job.todo :
    /\ ~ByHand(s) => \A t \in DOMAIN rows : ~SameOccurrence(s, t)
    /\ \A t \in job.todo : SameOccurrence(s, t) => t = s

Inv == Shapes /\ TodoIsFree /\ OneRowPerSlot

(***************************************************************************)
(* OneRowPerSlot of Occurrences.tla: runs that crash, are repeated or      *)
(* overlap midnight never leave two rows for one slot                      *)
(* (generate_occurrences.py, run).                                         *)
(***************************************************************************)
THEOREM OneRowPerSlotHolds == Spec => []OneRowPerSlot
<1>. USE OccurrencesAssumption
<1>1. /\ {"today", "todo", "dirty"} \subseteq DOMAIN NoLocals /\ NoLocals.todo = {}
  BY SMT DEF NoLocals
<1>2. ASSUME NEW s, NEW t, SameOccurrence(s, t) PROVE SameOccurrence(t, s)
  BY <1>2 DEF SameOccurrence
<1>3. ASSUME NEW s, NEW t, NEW u, SameOccurrence(s, t), SameOccurrence(t, u)
      PROVE  SameOccurrence(s, u)
  BY <1>3 DEF SameOccurrence
<1>4. Init => Inv
  BY <1>1, SMT DEF Init, Inv, Shapes, TodoIsFree, OneRowPerSlot
<1>5. Inv /\ [Next]_vars => Inv'
  <2>. SUFFICES ASSUME Inv, [Next]_vars PROVE Inv'
    OBVIOUS
  \* A slot that gets or loses a row leaves the rows of other slots alone.
  <2>1. ASSUME NEW x, NEW by
        PROVE  /\ \A s : s # x => (s \in DOMAIN Changed(x, by) <=> s \in DOMAIN rows)
               /\ \A s \in DOMAIN Changed(x, by) : s # x => Changed(x, by)[s] = rows[s]
               /\ x \in DOMAIN Changed(x, by) => /\ RowsOf(x) + by > 0
                                                 /\ Changed(x, by)[x] = RowsOf(x) + by
    BY SMT DEF Changed
  <2>2. CASE Load
    <3>. USE <2>2
    <3>. DEFINE inHorizon == {s \in DOMAIN rows : s[2] \in today..(today + Horizon - 1)}
    <3>1. /\ job'.todo = {s \in Wanted(routine, today) : ~Taken(s, inHorizon)}
          /\ DOMAIN job' = {"today", "todo", "dirty"}
          /\ UNCHANGED <<today, rows, moved>>
      BY SMT DEF Load
    <3>2. ASSUME NEW s \in job'.todo
          PROVE  /\ s \in Routines \X (today..(today + Horizon - 1)) \X (Members \cup {Nobody})
                 /\ s[3] \in Targets(s[1], routine[s[1]]) /\ ~Taken(s, inHorizon)
      BY <3>1, <3>2 DEF Wanted
    <3>3. ASSUME NEW s \in job'.todo
          PROVE  s[2] \in today..(today + Horizon - 1) /\ s[2] \in Nat
      <4>1. s \in Routines \X (today..(today + Horizon - 1)) \X (Members \cup {Nobody})
        BY <3>2, <3>3
      <4>2. today \in Nat
        BY DEF Inv, Shapes
      <4>. HIDE <2>2
      <4> QED BY <4>1, <4>2, SMT
    <3>4. ASSUME NEW s \in job'.todo, NEW t \in DOMAIN rows, SameOccurrence(s, t) PROVE FALSE
      <4>1. t \notin inHorizon
        BY <3>2, <3>4 DEF Taken
      <4>2. t[2] = s[2]
        BY <3>4 DEF SameOccurrence
      <4> QED BY <3>3, <4>1, <4>2
    <3>5. ASSUME NEW s \in job'.todo, NEW t \in job'.todo, SameOccurrence(s, t) PROVE t = s
      <4>1. CASE s[1] \in Pool /\ s[1] = t[1] /\ s[2] = t[2]
        <5>1. s[3] = Nobody /\ t[3] = Nobody
          BY <3>2, <4>1 DEF Targets
        <5>2. /\ s \in Routines \X (today..(today + Horizon - 1)) \X (Members \cup {Nobody})
              /\ t \in Routines \X (today..(today + Horizon - 1)) \X (Members \cup {Nobody})
          BY <3>2, <3>5
        <5> QED BY <4>1, <5>1, <5>2
      <4> QED BY <3>5, <4>1 DEF SameOccurrence
    <3>6. Shapes'
      BY <3>1, <3>3 DEF Inv, Shapes
    <3>7. TodoIsFree'
      BY <3>1, <3>4, <3>5 DEF TodoIsFree
    <3>8. OneRowPerSlot'
      BY <3>1 DEF Inv, OneRowPerSlot, ByHand
    <3> QED BY <3>6, <3>7, <3>8 DEF Inv
  <2>3. CASE CreateRow
    <3>. USE <2>3
    <3>. DEFINE x == CHOOSE s \in job.todo : \A t \in job.todo : s[2] <= t[2]
    <3>1. x \in job.todo
      <4>1. \E s \in job.todo : \A t \in job.todo : s[2] <= t[2]
        BY FirstDay DEF CreateRow, Inv, Shapes
      <4> QED BY <4>1
    <3>. HIDE DEF x
    <3>2. /\ UNCHANGED <<today, moved>> /\ rows' \in {rows, Changed(x, 1)}
          /\ \/ job' = [job EXCEPT !.todo = @ \ {x}]
             \/ rows' = rows /\ job' = NoLocals
             \/ job' = NoLocals
      BY Zenon DEF CreateRow, Fault, x
    <3>3. /\ {"today", "todo", "dirty"} \subseteq DOMAIN job'
          /\ job'.todo \subseteq job.todo \ {x}
      BY <1>1, <3>2, SMT DEF Inv, Shapes
    <3>4. \A s : ByHand(s)' <=> ByHand(s)
      BY <3>2 DEF ByHand
    <3>5. \A t \in DOMAIN rows : ByHand(x) \/ ~SameOccurrence(x, t)
      BY <3>1 DEF Inv, TodoIsFree
    <3>6. \A s \in DOMAIN rows' : s = x \/ s \in DOMAIN rows
      BY <2>1, <3>2
    <3>7. ASSUME NEW s \in DOMAIN rows', ~ByHand(s)
          PROVE  rows'[s] = 1 /\ \A t \in DOMAIN rows' : SameOccurrence(s, t) => t = s
      <4>1. CASE rows' = rows
        BY <3>7, <4>1 DEF Inv, OneRowPerSlot
      <4>2. CASE rows' = Changed(x, 1) /\ s = x
        <5>1. x \notin DOMAIN rows
          BY <3>5, <3>7, <4>2 DEF SameOccurrence
        <5>2. rows'[s] = 1
          BY <2>1, <4>2, <5>1, SMT DEF RowsOf
        <5> QED BY <3>5, <3>6, <3>7, <4>2, <5>2
      <4>3. CASE rows' = Changed(x, 1) /\ s # x
        <5>1. s \in DOMAIN rows /\ rows'[s] = rows[s]
          BY <2>1, <4>3
        <5>2. ~SameOccurrence(s, x)
          <6>. SUFFICES ASSUME SameOccurrence(s, x) PROVE FALSE
            OBVIOUS
          <6>1. SameOccurrence(x, s) /\ ~ByHand(x)
            BY <1>2, <1>3, <3>7 DEF ByHand
          <6> QED BY <3>5, <5>1, <6>1
        <5> QED BY <3>6, <3>7, <5>1, <5>2 DEF Inv, OneRowPerSlot
      <4> QED BY <3>2, <4>1, <4>2, <4>3
    <3>8. OneRowPerSlot'
      BY <3>4, <3>7 DEF OneRowPerSlot
    <3>9. ASSUME NEW s \in job'.todo, ~ByHand(s), NEW t \in DOMAIN rows', SameOccurrence(s, t)
          PROVE  FALSE
      <4>1. s \in job.todo /\ s # x
        BY <3>3
      <4>2. t = x
        BY <3>6, <3>9, <4>1 DEF Inv, TodoIsFree
      <4> QED BY <3>1, <3>9, <4>1, <4>2 DEF Inv, TodoIsFree
    <3>10. TodoIsFree'
      BY <3>3, <3>4, <3>9 DEF Inv, TodoIsFree
    <3>11. Shapes'
      BY <3>2, <3>3 DEF Inv, Shapes
    <3> QED BY <3>8, <3>10, <3>11 DEF Inv
  <2>4. CASE Finish
    <3>1. job' = NoLocals /\ UNCHANGED <<today, rows, moved>>
      BY <2>4 DEF Finish
    <3> QED BY <1>1, <3>1 DEF Inv, Shapes, TodoIsFree, OneRowPerSlot, ByHand
  <2>5. CASE Die
    <3>1. job' = NoLocals /\ UNCHANGED <<today, rows, moved>>
      BY <2>5 DEF Die, Fault
    <3> QED BY <1>1, <3>1 DEF Inv, Shapes, TodoIsFree, OneRowPerSlot, ByHand
  <2>6. CASE NewDay
    <3>1. today' = today + 1 /\ UNCHANGED <<job, moved>>
      BY <2>6 DEF NewDay
    <3>2. DOMAIN rows' \subseteq DOMAIN rows /\ \A s \in DOMAIN rows' : rows'[s] = rows[s]
      BY <2>6, SMT DEF NewDay
    <3>3. \A s : ByHand(s)' <=> ByHand(s)
      BY <3>1 DEF ByHand
    <3>4. Shapes'
      BY <3>1, SMT DEF Inv, Shapes
    <3>5. TodoIsFree' /\ OneRowPerSlot'
      BY <3>1, <3>2, <3>3 DEF Inv, TodoIsFree, OneRowPerSlot
    <3> QED BY <3>4, <3>5 DEF Inv
  <2>7. ASSUME NEW r \in Routines, EditRoutine(r) PROVE Inv'
    <3>1. today' = today /\ job'.todo = job.todo /\ DOMAIN job' = DOMAIN job
      BY <2>7, SMT DEF EditRoutine, Edit, Inv, Shapes
    <3>2. UNCHANGED <<rows, moved>>
      BY <2>7 DEF EditRoutine
    <3> QED BY <3>1, <3>2 DEF Inv, Shapes, TodoIsFree, OneRowPerSlot, ByHand
  <2>8. ASSUME NEW slot \in Near, EditRow(slot) PROVE Inv'
    <3>. USE <2>8
    <3>1. today' = today /\ job'.todo = job.todo /\ DOMAIN job' = DOMAIN job
      BY SMT DEF EditRow, Edit, Inv, Shapes
    <3>2. Shapes'
      BY <3>1 DEF Inv, Shapes
    <3>3. RowsOf(slot) > 0 => slot \in DOMAIN rows /\ RowsOf(slot) = rows[slot]
      BY SMT DEF RowsOf
    \* Where no row was made by hand, a row that goes was the only one.
    <3>4. slot \in DOMAIN rows /\ ~ByHand(slot) => slot \notin DOMAIN Changed(slot, -1)
      <4>1. slot \in DOMAIN rows /\ ~ByHand(slot) => RowsOf(slot) = 1
        BY DEF Inv, OneRowPerSlot, RowsOf, SameOccurrence
      <4> QED BY <2>1, <4>1, SMT
    <3>5. CASE RowsOf(slot) > 0 /\ rows' = Changed(slot, -1) /\ UNCHANGED moved
      <4>1. \A s : ByHand(s)' <=> ByHand(s)
        BY <3>5 DEF ByHand
      <4>2. \A s \in DOMAIN rows' : s \in DOMAIN rows /\ (~ByHand(s) => rows'[s] = rows[s])
        BY <2>1, <3>3, <3>4, <3>5
      <4>3. TodoIsFree' /\ OneRowPerSlot'
        BY <3>1, <4>1, <4>2 DEF Inv, TodoIsFree, OneRowPerSlot
      <4> QED BY <3>2, <4>3 DEF Inv
    <3>6. ASSUME NEW m \in Members \ {slot[3]}, NEW to, to = <<slot[1], slot[2], m>>,
                 RowsOf(slot) > 0,
                 rows' = [s \in (DOMAIN Changed(slot, -1)) \cup {to} |->
                            IF s = to THEN RowsOf(to) + 1 ELSE Changed(slot, -1)[s]],
                 moved' = moved \cup (IF slot[1] \in Pool THEN {} ELSE {to})
          PROVE  Inv'
      <4>1. to # slot
        BY <3>6
      <4>2. /\ \A s \in DOMAIN rows' :
                  s = to \/ (s \in DOMAIN rows /\ (s # slot => rows'[s] = rows[s]))
            /\ ~ByHand(slot) => slot \notin DOMAIN rows'
            /\ rows'[to] = RowsOf(to) + 1
        BY <2>1, <3>3, <3>4, <3>6, <4>1
      <4>3. slot[1] \in Pool => SameOccurrence(slot, to)
        BY <3>6 DEF SameOccurrence
      <4>4. /\ \A s : ByHand(s) => ByHand(s)'
            /\ slot[1] \notin Pool => to \in moved'
        BY <3>6 DEF ByHand
      <4>5. ASSUME NEW s, ~ByHand(s)', SameOccurrence(s, to)
            PROVE  slot[1] \in Pool /\ SameOccurrence(s, slot) /\ ~ByHand(slot)
        <5>1. slot[1] \in Pool
          BY <4>4, <4>5 DEF ByHand
        <5>2. SameOccurrence(s, slot)
          BY <1>2, <1>3, <4>3, <4>5, <5>1
        <5>3. ~ByHand(slot)
          BY <1>3, <4>4, <4>5, <5>2 DEF ByHand
        <5> QED BY <5>1, <5>2, <5>3
      <4>6. ASSUME NEW s \in DOMAIN rows', ~ByHand(s)'
            PROVE  rows'[s] = 1 /\ \A t \in DOMAIN rows' : SameOccurrence(s, t) => t = s
        <5>1. CASE SameOccurrence(s, to)
          <6>1. SameOccurrence(s, slot) /\ ~ByHand(slot)
            BY <4>5, <4>6, <5>1
          <6>2. \A t \in DOMAIN rows : SameOccurrence(s, t) => t = slot
            BY <1>2, <1>3, <3>3, <3>6, <6>1 DEF Inv, OneRowPerSlot
          <6>3. \A t \in DOMAIN rows' : SameOccurrence(s, t) => t = to
            BY <4>2, <6>1, <6>2
          <6>4. s = to
            BY <6>3 DEF SameOccurrence
          <6>5. RowsOf(to) = 0
            BY <4>1, <5>1, <6>2 DEF RowsOf
          <6> QED BY <4>2, <6>3, <6>4, <6>5
        <5>2. CASE ~SameOccurrence(s, to)
          <6>1. s # to /\ s \in DOMAIN rows /\ ~ByHand(s)
            BY <4>2, <4>4, <4>6, <5>2 DEF SameOccurrence
          <6>2. rows'[s] = rows[s]
            BY <4>2, <6>1
          <6> QED BY <4>2, <5>2, <6>1, <6>2 DEF Inv, OneRowPerSlot
        <5> QED BY <5>1, <5>2
      <4>7. OneRowPerSlot'
        BY <4>6 DEF OneRowPerSlot
      <4>8. ASSUME NEW s \in job.todo, ~ByHand(s)', NEW t \in DOMAIN rows', SameOccurrence(s, t)
            PROVE  FALSE
        <5>1. t # to
          BY <3>3, <3>6, <4>4, <4>5, <4>8 DEF Inv, TodoIsFree
        <5> QED BY <4>2, <4>4, <4>8, <5>1 DEF Inv, TodoIsFree
      <4>9. TodoIsFree'
        BY <3>1, <4>8 DEF Inv, TodoIsFree
      <4> QED BY <3>2, <4>7, <4>9 DEF Inv
    <3>7. CASE rows' = Changed(slot, 1) /\ moved' = moved \cup {slot}
      <4>1. \A s : ~ByHand(s)' => ~ByHand(s) /\ ~SameOccurrence(s, slot)
        BY <3>7 DEF ByHand
      <4>2. \A s \in DOMAIN rows' : s = slot \/ (s \in DOMAIN rows /\ rows'[s] = rows[s])
        BY <2>1, <3>7
      <4>3. \A s : SameOccurrence(s, s)
        BY DEF SameOccurrence
      <4>4. TodoIsFree' /\ OneRowPerSlot'
        BY <3>1, <4>1, <4>2, <4>3 DEF Inv, TodoIsFree, OneRowPerSlot
      <4> QED BY <3>2, <4>4 DEF Inv
    <3> QED BY <3>5, <3>6, <3>7 DEF EditRow
  <2>9. CASE UNCHANGED vars
    BY <2>9 DEF vars, Inv, Shapes, TodoIsFree, OneRowPerSlot, ByHand
  <2> QED BY <2>2, <2>3, <2>4, <2>5, <2>6, <2>7, <2>8, <2>9 DEF Next
<1>6. Inv => OneRowPerSlot
  BY DEF Inv
<1> QED BY <1>4, <1>5, <1>6, PTL DEF Spec

-----------------------------------------------------------------------------
(***************************************************************************)
(* TypeOK of Occurrences.tla: every variable holds what the code may put   *)
(* there, whatever parents edit and wherever a run dies                    *)
(* (generate_occurrences.py).                                              *)
(***************************************************************************)
THEOREM TypeCorrectness == Spec => []TypeOK
<1>. USE OccurrencesAssumption
<1>1. ASSUME NEW n \in Nat, NEW todo \in SUBSET Slots, NEW dirty \in BOOLEAN
      PROVE  [today |-> n, todo |-> todo, dirty |-> dirty]
               \in [today : Nat, todo : SUBSET Slots, dirty : BOOLEAN]
  BY Zenon
<1>2. NoLocals \in [today : Nat, todo : SUBSET Slots, dirty : BOOLEAN]
  <2>1. 0 \in Nat /\ {} \in SUBSET Slots /\ FALSE \in BOOLEAN
    OBVIOUS
  <2> QED BY <1>1, <2>1, Zenon DEF NoLocals
<1>3. Init => TypeOK
  <2>. SUFFICES ASSUME Init PROVE TypeOK
    OBVIOUS
  <2>1. start \in Starts /\ today \in start..(start + MaxDays) /\ pc \in {"idle", "create"}
    BY SMT DEF Init
  <2>2. routine \in [Routines -> [schedule : Schedules, members : SUBSET Members,
                                  retired : BOOLEAN]]
    <3>1. PICK sc \in Schedules :
            routine = [r \in Routines |-> [schedule |-> sc, members |-> Members,
                                           retired |-> FALSE]]
      BY DEF Init
    <3>2. [schedule |-> sc, members |-> Members, retired |-> FALSE]
             \in [schedule : Schedules, members : SUBSET Members, retired : BOOLEAN]
      BY Zenon
    <3> QED BY <3>1, <3>2, Zenon
  <2>3. DOMAIN rows = {} /\ edits = 0 /\ faults = 0 /\ filled = 0 /\ moved = {} /\ job = NoLocals
    BY SMT DEF Init
  <2> QED BY <1>2, <2>1, <2>2, <2>3 DEF TypeOK
<1>4. TypeOK /\ [Next]_vars => TypeOK'
  <2>. SUFFICES ASSUME TypeOK, [Next]_vars PROVE TypeOK'
    OBVIOUS
  <2>. DEFINE Rows(f) == DOMAIN f \subseteq Slots /\ \A s \in DOMAIN f : f[s] \in Nat \ {0}
  \* A slot gets a row more, or one less of those that it has.
  <2>1. ASSUME NEW x \in Slots, NEW by \in {1, -1} PROVE Rows(Changed(x, by))
    <3>1. RowsOf(x) + by \in Int
      BY SMT DEF TypeOK, RowsOf
    <3> QED BY <3>1, SMT DEF TypeOK, Changed
  <2>2. ASSUME NEW s \in Slots PROVE s[1] \in Routines /\ s[2] \in Nat
    BY <2>2 DEF Slots
  <2>3. CASE Load
    <3>1. /\ pc' = "create"
          /\ UNCHANGED <<start, today, routine, rows, edits, faults, filled, moved>>
      BY <2>3 DEF Load
    <3>2. today \in Nat
      BY SMT DEF TypeOK
    <3>3. Wanted(routine, today) \subseteq Slots
      <4>1. today..(today + Horizon - 1) \subseteq Nat
        BY <3>2, SMT
      <4> QED BY <4>1 DEF Wanted, Slots
    <3>4. PICK todo \in SUBSET Slots :
            job' = [today |-> today, todo |-> todo, dirty |-> FALSE]
      BY <2>3, <3>3, Zenon DEF Load
    <3>5. job' \in [today : Nat, todo : SUBSET Slots, dirty : BOOLEAN]
      BY <1>1, <3>2, <3>4, Zenon
    <3> QED BY <3>1, <3>5, SMT DEF TypeOK
  <2>4. ASSUME Fault PROVE /\ faults' \in 0..MaxFaults /\ pc' \in {"idle", "create"}
                           /\ job' \in [today : Nat, todo : SUBSET Slots, dirty : BOOLEAN]
    <3>1. faults' \in 0..MaxFaults
      BY <2>4, SMT DEF Fault, TypeOK
    <3> QED BY <1>2, <2>4, <3>1 DEF Fault
  <2>5. CASE CreateRow
    <3>1. job.todo \subseteq Slots /\ job.todo # {} /\ \A s \in job.todo : s[2] \in Nat
      BY <2>2, <2>5 DEF CreateRow, TypeOK
    <3>2. PICK x \in job.todo :
            /\ \/ /\ rows' = Changed(x, 1) /\ UNCHANGED <<pc, faults>>
                  /\ job' = [job EXCEPT !.todo = @ \ {x}]
               \/ Fault /\ rows' \in {rows, Changed(x, 1)}
            /\ UNCHANGED <<start, today, routine, edits, filled, moved>>
      BY <2>5, <3>1, FirstDay DEF CreateRow
    <3>3. Rows(rows')
      <4>1. Rows(Changed(x, 1)) /\ Rows(rows)
        BY <2>1, <3>1 DEF TypeOK
      <4> QED BY <3>2, <4>1
    <3>4. job' = [job EXCEPT !.todo = @ \ {x}] =>
            job' \in [today : Nat, todo : SUBSET Slots, dirty : BOOLEAN]
      BY Zenon DEF TypeOK
    <3> QED BY <2>4, <3>2, <3>3, <3>4 DEF TypeOK
  <2>6. CASE Finish
    <3>1. filled' \in Nat
      <4>1. job.today \in Nat /\ filled \in Nat
        BY DEF TypeOK
      <4> QED BY <2>6, <4>1, SMT DEF Finish
    <3> QED BY <1>2, <2>6, <3>1 DEF Finish, TypeOK
  <2>7. CASE Die
    BY <2>4, <2>7 DEF Die, TypeOK
  <2>8. CASE NewDay
    <3>1. today' \in start..(start + MaxDays)
      BY <2>8, SMT DEF NewDay, TypeOK
    <3>2. Rows(rows')
      BY <2>8 DEF NewDay, TypeOK
    <3> QED BY <2>8, <3>1, <3>2 DEF NewDay, TypeOK
  <2>9. ASSUME Edit PROVE /\ edits' \in 0..MaxEdits /\ filled' \in Nat
                          /\ job' \in [today : Nat, todo : SUBSET Slots, dirty : BOOLEAN]
                          /\ UNCHANGED <<start, today, pc, faults>>
    <3>1. edits' \in 0..MaxEdits
      BY <2>9, SMT DEF Edit, TypeOK
    <3>2. job' \in [today : Nat, todo : SUBSET Slots, dirty : BOOLEAN]
      BY <2>9, Zenon DEF Edit, TypeOK
    <3> QED BY <2>9, <3>1, <3>2 DEF Edit
  <2>10. ASSUME NEW r \in Routines, EditRoutine(r) PROVE TypeOK'
    <3>. DEFINE Entry == [schedule : Schedules, members : SUBSET Members, retired : BOOLEAN]
    <3>1. CASE routine' = [routine EXCEPT ![r].retired = ~@]
      <4>1. routine[r] \in Entry
        BY DEF TypeOK
      <4>2. [routine[r] EXCEPT !.retired = ~@] \in Entry
        BY <4>1, Zenon
      <4>3. routine' = [routine EXCEPT ![r] = [routine[r] EXCEPT !.retired = ~@]]
        BY <3>1, Zenon
      <4>4. routine' \in [Routines -> Entry]
        BY <4>2, <4>3, Zenon DEF TypeOK
      <4> QED BY <2>9, <2>10, <4>4 DEF EditRoutine, TypeOK
    <3>2. ASSUME NEW S \in SUBSET Members, routine' = [routine EXCEPT ![r].members = S]
          PROVE  TypeOK'
      <4>1. routine' \in [Routines -> Entry]
        BY <3>2, Zenon DEF TypeOK
      <4> QED BY <2>9, <2>10, <4>1 DEF EditRoutine, TypeOK
    <3> QED BY <2>10, <3>1, <3>2 DEF EditRoutine
  <2>11. ASSUME NEW slot \in Near, EditRow(slot) PROVE TypeOK'
    <3>1. slot \in Slots
      <4>1. {today, today + 1} \subseteq Nat
        BY SMT DEF TypeOK
      <4> QED BY <2>11, <4>1 DEF Near, Slots
    <3>2. Rows(rows') /\ moved' \subseteq Slots
      <4>1. CASE rows' = Changed(slot, -1) /\ UNCHANGED moved
        BY <2>1, <3>1, <4>1 DEF TypeOK
      <4>2. ASSUME NEW m \in Members, NEW to, to = <<slot[1], slot[2], m>>,
                   rows' = [s \in (DOMAIN Changed(slot, -1)) \cup {to} |->
                              IF s = to THEN RowsOf(to) + 1 ELSE Changed(slot, -1)[s]],
                   moved' = moved \cup (IF slot[1] \in Pool THEN {} ELSE {to})
            PROVE  Rows(rows') /\ moved' \subseteq Slots
        <5>1. to \in Slots
          BY <3>1, <4>2 DEF Slots
        <5>2. RowsOf(to) + 1 \in Nat \ {0}
          BY <5>1, SMT DEF RowsOf, TypeOK
        <5>3. Rows(Changed(slot, -1))
          BY <2>1, <3>1
        <5>. HIDE DEF Rows
        <5>4. Rows(rows')
          BY <4>2, <5>1, <5>2, <5>3 DEF Rows
        <5> QED BY <4>2, <5>1, <5>4 DEF TypeOK
      <4>3. CASE rows' = Changed(slot, 1) /\ moved' = moved \cup {slot}
        BY <2>1, <3>1, <4>3 DEF TypeOK
      <4> QED BY <2>11, <4>1, <4>2, <4>3 DEF EditRow
    <3> QED BY <2>9, <2>11, <3>2 DEF EditRow, TypeOK
  <2>12. CASE UNCHANGED vars
    BY <2>12 DEF vars, TypeOK
  <2> QED BY <2>3, <2>5, <2>6, <2>7, <2>8, <2>10, <2>11, <2>12 DEF Next
<1> QED BY <1>3, <1>4, PTL DEF Spec

-----------------------------------------------------------------------------
\* A run that no edit disturbed has created what its horizon lacked, or will; and the
\* last one that completed looked no further than one of today would.
Filling ==
  /\ job.today <= today /\ filled <= today + Horizon - 1
  /\ pc = "create" /\ ~job.dirty =>
       \A s \in Wanted(routine, job.today) :
         s[2] >= today => s \in job.todo \/ Taken(s, DOMAIN rows)

(***************************************************************************)
(* HorizonIsFilled of Occurrences.tla: once a run has completed, every     *)
(* occurrence of its horizon has its row until that horizon is over        *)
(* (generate_occurrences.py, run).                                         *)
(***************************************************************************)
THEOREM HorizonIsFilledHolds == Spec => []HorizonIsFilled
<1>. USE OccurrencesAssumption
<1>. DEFINE FillInv == Filling /\ HorizonIsFilled
<1>1. ASSUME TypeOK PROVE /\ today \in Nat \ {0} /\ filled \in Nat /\ job.today \in Nat
                          /\ job.todo \subseteq Slots /\ job.dirty \in BOOLEAN
  <2>1. today \in Nat \ {0}
    BY <1>1, SMT DEF TypeOK
  <2> QED BY <1>1, <2>1 DEF TypeOK
<1>2. NoLocals.today = 0
  BY DEF NoLocals
\* What is wanted from a day on, for the days that a later day also looks at.
<1>3. ASSUME NEW from \in Nat, NEW s \in Wanted(routine, from)
      PROVE  s[2] \in Nat /\ s[2] >= from /\ s[2] <= from + Horizon - 1
  <2>1. s[2] \in from..(from + Horizon - 1)
    BY <1>3 DEF Wanted
  <2> QED BY <2>1, SMT
<1>4. ASSUME NEW from \in Nat, NEW to \in Nat, NEW s \in Wanted(routine, from),
             s[2] >= to, s[2] <= to + Horizon - 1
      PROVE  s \in Wanted(routine, to)
  <2>1. s[2] \in to..(to + Horizon - 1)
    BY <1>3, <1>4, SMT
  <2> QED BY <1>4, <2>1 DEF Wanted
<1>5. TypeOK /\ Init => FillInv
  <2>. SUFFICES ASSUME TypeOK, Init PROVE FillInv
    OBVIOUS
  <2>1. job.today = 0 /\ filled = 0 /\ pc = "idle"
    BY <1>2 DEF Init
  <2> QED BY <1>1, <2>1, SMT DEF Filling, HorizonIsFilled
<1>6. TypeOK /\ TypeOK' /\ FillInv /\ [Next]_vars => FillInv'
  <2>. SUFFICES ASSUME TypeOK, TypeOK', FillInv, [Next]_vars PROVE FillInv'
    OBVIOUS
  <2>1. ASSUME NEW s, NEW t \in DOMAIN rows, SameOccurrence(s, t), t \in DOMAIN rows'
        PROVE  Taken(s, DOMAIN rows')
    BY <2>1 DEF Taken
  \* A run that is over leaves what was filled before.
  <2>2. ASSUME job' = NoLocals, pc' = "idle", UNCHANGED <<today, routine, filled>>,
               DOMAIN rows \subseteq DOMAIN rows'
        PROVE  FillInv'
    <3>1. HorizonIsFilled'
      BY <2>2 DEF HorizonIsFilled, Taken
    <3>2. Filling'
      BY <1>1, <1>2, <2>2, SMT DEF Filling
    <3> QED BY <3>1, <3>2
  <2>3. CASE Load
    <3>. DEFINE inHorizon == {s \in DOMAIN rows : s[2] \in today..(today + Horizon - 1)}
    <3>1. /\ job' = [today |-> today,
                     todo |-> {s \in Wanted(routine, today) : ~Taken(s, inHorizon)},
                     dirty |-> FALSE]
          /\ UNCHANGED <<today, routine, rows, filled>>
      BY <2>3 DEF Load
    <3>2. ASSUME NEW s \in Wanted(routine, today)
          PROVE  s \in job'.todo \/ Taken(s, DOMAIN rows)
      BY <3>1, <3>2 DEF Taken
    <3>3. job'.today = today
      BY <3>1
    <3>4. Filling'
      BY <1>1, <3>1, <3>2, <3>3 DEF Filling
    <3>5. HorizonIsFilled'
      BY <3>1 DEF HorizonIsFilled
    <3> QED BY <3>4, <3>5
  <2>4. CASE CreateRow
    <3>1. PICK x :
            /\ \/ /\ rows' = Changed(x, 1) /\ UNCHANGED <<pc, faults>>
                  /\ job' = [job EXCEPT !.todo = @ \ {x}]
               \/ Fault /\ rows' \in {rows, Changed(x, 1)}
            /\ UNCHANGED <<today, routine, filled>>
      BY <2>4 DEF CreateRow
    <3>2. DOMAIN Changed(x, 1) = DOMAIN rows \cup {x}
      <4>1. RowsOf(x) + 1 > 0
        BY SMT DEF RowsOf, TypeOK
      <4> QED BY <4>1 DEF Changed
    <3>3. CASE Fault
      BY <2>2, <3>1, <3>2, <3>3 DEF Fault
    <3>4. CASE rows' = Changed(x, 1) /\ pc' = pc /\ job' = [job EXCEPT !.todo = @ \ {x}]
      <4>1. job'.today = job.today /\ job'.dirty = job.dirty /\ job'.todo = job.todo \ {x}
        BY <3>4 DEF TypeOK
      <4>2. \A s : Taken(s, DOMAIN rows) \/ s = x => Taken(s, DOMAIN rows')
        BY <3>2, <3>4 DEF Taken, SameOccurrence
      <4>3. HorizonIsFilled'
        BY <3>1, <4>2 DEF HorizonIsFilled
      <4>4. Filling'
        BY <3>1, <3>4, <4>1, <4>2 DEF Filling
      <4> QED BY <4>3, <4>4
    <3> QED BY <3>1, <3>3, <3>4
  <2>5. CASE Finish
    <3>1. /\ pc = "create" /\ job.todo = {} /\ pc' = "idle" /\ job' = NoLocals
          /\ filled' = IF job.dirty THEN filled ELSE job.today + Horizon - 1
          /\ UNCHANGED <<today, routine, rows>>
      BY <2>5 DEF Finish
    <3>2. CASE job.dirty
      BY <2>2, <3>1, <3>2
    <3>3. CASE ~job.dirty
      <4>1. filled' = job.today + Horizon - 1
        BY <3>1, <3>3
      <4>2. Filling'
        BY <1>1, <1>2, <3>1, <4>1, SMT DEF Filling
      <4>3. ASSUME NEW s \in Wanted(routine, today), s[2] <= filled' PROVE Taken(s, DOMAIN rows)
        <5>1. s \in Wanted(routine, job.today) /\ s[2] >= today
          BY <1>1, <1>3, <1>4, <4>1, <4>3, SMT DEF Filling
        <5> QED BY <3>1, <3>3, <5>1 DEF Filling
      <4>4. HorizonIsFilled'
        BY <3>1, <4>3 DEF HorizonIsFilled
      <4> QED BY <4>2, <4>4
    <3> QED BY <3>2, <3>3
  <2>6. CASE Die
    BY <2>2, <2>6 DEF Die, Fault
  <2>7. CASE NewDay
    <3>1. today' = today + 1 /\ UNCHANGED <<routine, pc, job, filled>>
      BY <2>7 DEF NewDay
    <3>2. DOMAIN rows' = {s \in DOMAIN rows : s[2] > today}
      BY <2>7 DEF NewDay
    \* Only rows of days that are over are no longer looked at.
    <3>3. ASSUME NEW s, s[2] \in Nat, s[2] >= today + 1, Taken(s, DOMAIN rows)
          PROVE  Taken(s, DOMAIN rows')
      <4>1. PICK t \in DOMAIN rows : SameOccurrence(s, t)
        BY <3>3 DEF Taken
      <4>2. t[2] = s[2]
        BY <4>1 DEF SameOccurrence
      <4>3. t \in DOMAIN rows'
        BY <1>1, <3>2, <3>3, <4>2, SMT
      <4> QED BY <4>1, <4>3 DEF Taken
    <3>4. Filling'
      <4>1. job.today <= today + 1 /\ filled <= today + 1 + Horizon - 1
        BY <1>1, SMT DEF Filling
      <4>2. ASSUME pc = "create", ~job.dirty, NEW s \in Wanted(routine, job.today),
                   s[2] >= today + 1
            PROVE  s \in job.todo \/ Taken(s, DOMAIN rows')
        <5>1. s[2] \in Nat /\ s[2] >= today
          BY <1>1, <1>3, <4>2, SMT
        <5> QED BY <3>3, <4>2, <5>1 DEF Filling
      <4> QED BY <3>1, <4>1, <4>2 DEF Filling
    <3>5. ASSUME filled >= today + 1, NEW s \in Wanted(routine, today + 1), s[2] <= filled
          PROVE  Taken(s, DOMAIN rows')
      <4>1. /\ s \in Wanted(routine, today) /\ s[2] \in Nat
            /\ filled >= today /\ s[2] >= today + 1
        BY <1>1, <1>3, <1>4, <3>5, SMT DEF Filling
      <4> QED BY <3>3, <3>5, <4>1 DEF HorizonIsFilled
    <3>6. HorizonIsFilled'
      BY <3>1, <3>5 DEF HorizonIsFilled
    <3> QED BY <3>4, <3>6
  \* An edit takes it all back until the next run.
  <2>8. ASSUME Edit PROVE FillInv'
    <3>1. /\ filled' = 0 /\ today' = today /\ pc' = pc
          /\ job' = [job EXCEPT !.dirty = pc # "idle"]
      BY <2>8 DEF Edit
    <3>2. job'.today = job.today /\ (pc = "create" => job'.dirty)
      BY <3>1 DEF TypeOK
    <3> QED BY <1>1, <3>1, <3>2, SMT DEF Filling, HorizonIsFilled
  <2>9. CASE UNCHANGED vars
    BY <2>9 DEF vars, Filling, HorizonIsFilled
  <2> QED BY <2>3, <2>4, <2>5, <2>6, <2>7, <2>8, <2>9 DEF Next, EditRoutine, EditRow
<1>7. Spec => []FillInv
  BY <1>5, <1>6, TypeCorrectness, PTL DEF Spec
<1> QED BY <1>7, PTL

-----------------------------------------------------------------------------
(* The calendar: years and months follow one another without gap or        *)
(* overlap, a date is its year, month and day and no other, and the dates  *)
(* that rules.py computes from them lie where they should.                 *)

\* The leap day of a year, if it has one.
Leap(y) == IF IsLeap(y) THEN 1 ELSE 0

\* A year starts where the mean year of 146097 / 400 days puts it, up to two days and a half.
LEMMA YearStartIs ==
  ASSUME NEW y \in Int
  PROVE  /\ YearStart(y) \in Int
         /\ 146097 * (y - 1) - 1000 <= 400 * YearStart(y)
         /\ 400 * YearStart(y) <= 146097 * (y - 1) + 1000
<1>. DEFINE k == y - 1
<1>1. /\ 4 * (k \div 4) <= k /\ k <= 4 * (k \div 4) + 3
      /\ 100 * (k \div 100) <= k /\ k <= 100 * (k \div 100) + 99
      /\ 400 * (k \div 400) <= k /\ k <= 400 * (k \div 400) + 399
      /\ k \in Int /\ k \div 4 \in Int /\ k \div 100 \in Int /\ k \div 400 \in Int
  OBVIOUS
<1>2. YearStart(y) = k * 365 + k \div 4 - k \div 100 + k \div 400
  BY DEF YearStart
<1>3. \A a, b, c, n \in Int :
        /\ 4 * a <= n /\ n <= 4 * a + 3 /\ 100 * b <= n /\ n <= 100 * b + 99
        /\ 400 * c <= n /\ n <= 400 * c + 399
        => /\ n * 365 + a - b + c \in Int
           /\ 146097 * n - 1000 <= 400 * (n * 365 + a - b + c)
           /\ 400 * (n * 365 + a - b + c) <= 146097 * n + 1000
  OBVIOUS
<1> QED BY <1>1, <1>2, <1>3

\* And is as long as its leap day makes it.
LEMMA YearLength ==
  ASSUME NEW y \in Int
  PROVE  YearStart(y + 1) = YearStart(y) + 365 + Leap(y)
<1>1. \A n \in {4, 100, 400} :
        y \div n - (y - 1) \div n = IF y % n = 0 THEN 1 ELSE 0
  <2>1. y \div 4 - (y - 1) \div 4 = IF y % 4 = 0 THEN 1 ELSE 0
    OBVIOUS
  <2>2. y \div 100 - (y - 1) \div 100 = IF y % 100 = 0 THEN 1 ELSE 0
    OBVIOUS
  <2>3. y \div 400 - (y - 1) \div 400 = IF y % 400 = 0 THEN 1 ELSE 0
    OBVIOUS
  <2> QED BY <2>1, <2>2, <2>3
<1>2. (y % 400 = 0 => y % 100 = 0) /\ (y % 100 = 0 => y % 4 = 0)
  OBVIOUS
<1>3. YearStart(y + 1) = y * 365 + y \div 4 - y \div 100 + y \div 400
  <2>1. (y + 1) - 1 = y
    OBVIOUS
  <2> QED BY <2>1 DEF YearStart
<1>4. YearStart(y) = (y - 1) * 365 + (y - 1) \div 4 - (y - 1) \div 100 + (y - 1) \div 400
  BY DEF YearStart
<1>5. Leap(y) = (y \div 4 - (y - 1) \div 4) - (y \div 100 - (y - 1) \div 100)
                + (y \div 400 - (y - 1) \div 400)
  BY <1>1, <1>2 DEF Leap, IsLeap
<1> QED BY <1>3, <1>4, <1>5

\* Every date is in a year.
LEMMA YearIs ==
  ASSUME NEW date \in Int
  PROVE  /\ YearOf(date) \in Int
         /\ YearStart(YearOf(date)) < date /\ date <= YearStart(YearOf(date) + 1)
<1>. DEFINE guess == (date * 400) \div 146097 + 1
<1>1. guess \in Int /\ 146097 * (guess - 1) <= 400 * date /\ 400 * date < 146097 * guess
  OBVIOUS
<1>. HIDE DEF guess
<1>3. YearStart(guess - 1) < date
  BY <1>1, YearStartIs
<1>4. date <= YearStart(guess + 2)
  BY <1>1, YearStartIs
<1>5. \E y \in {guess - 1, guess, guess + 1} : YearStart(y) < date /\ date <= YearStart(y + 1)
  <2>1. /\ YearStart(guess) \in Int /\ YearStart(guess + 1) \in Int
        /\ (guess - 1) + 1 = guess /\ (guess + 1) + 1 = guess + 2
    BY <1>1, YearStartIs
  <2> QED BY <1>3, <1>4, <2>1
<1>6. /\ YearOf(date) \in {guess - 1, guess, guess + 1}
      /\ YearStart(YearOf(date)) < date /\ date <= YearStart(YearOf(date) + 1)
  BY <1>5 DEF YearOf, guess
<1> QED BY <1>1, <1>6

\* Years are in order.
LEMMA YearOrder ==
  ASSUME NEW a \in Int, NEW b \in Int, a + 1 <= b
  PROVE  YearStart(a + 1) <= YearStart(b)
<1>1. CASE b = a + 1
  BY <1>1, YearStartIs
<1>2. CASE a + 1 < b
  <2>1. 400 * YearStart(a + 1) <= 146097 * a + 1000 /\ YearStart(a + 1) \in Int
    BY YearStartIs
  <2>2. 146097 * (b - 1) - 1000 <= 400 * YearStart(b) /\ YearStart(b) \in Int
    BY YearStartIs
  <2>3. 146097 * (a + 1) <= 146097 * (b - 1)
    BY <1>2
  <2> QED BY <2>1, <2>2, <2>3
<1> QED BY <1>1, <1>2

\* And in one only.
LEMMA OneYear ==
  ASSUME NEW date \in Int, NEW y \in Int, YearStart(y) < date, date <= YearStart(y + 1)
  PROVE  YearOf(date) = y
<1>2. PICK z \in Int : z = YearOf(date) /\ YearStart(z) < date /\ date <= YearStart(z + 1)
  BY YearIs
<1>3. /\ YearStart(y) \in Int /\ YearStart(y + 1) \in Int
      /\ YearStart(z) \in Int /\ YearStart(z + 1) \in Int
  BY <1>2, YearStartIs
<1>4. ~(y + 1 <= z)
  BY <1>2, <1>3, YearOrder
<1>5. ~(z + 1 <= y)
  BY <1>2, <1>3, YearOrder
<1>6. z = y
  BY <1>4, <1>5
<1> QED BY <1>2, <1>6

\* What the tables of months hold.
LEMMA MonthTable ==
  /\ \A m \in 1..12 : <<31, 28, 31, 30, 31, 30, 31, 31, 30, 31, 30, 31>>[m] \in 28..31
  /\ \A m \in 1..12 : <<0, 31, 59, 90, 120, 151, 181, 212, 243, 273, 304, 334>>[m] \in Nat
  /\ \A m \in 1..11 : <<0, 31, 59, 90, 120, 151, 181, 212, 243, 273, 304, 334>>[m + 1]
                      = <<0, 31, 59, 90, 120, 151, 181, 212, 243, 273, 304, 334>>[m]
                        + <<31, 28, 31, 30, 31, 30, 31, 31, 30, 31, 30, 31>>[m]
  /\ <<0, 31, 59, 90, 120, 151, 181, 212, 243, 273, 304, 334>>[1] = 0
  /\ <<0, 31, 59, 90, 120, 151, 181, 212, 243, 273, 304, 334>>[12] = 334
  /\ <<31, 28, 31, 30, 31, 30, 31, 31, 30, 31, 30, 31>>[12] = 31
  /\ <<31, 28, 31, 30, 31, 30, 31, 31, 30, 31, 30, 31>>[2] = 28
<1>1. \A m \in 1..12 : m = 1 \/ m = 2 \/ m = 3 \/ m = 4 \/ m = 5 \/ m = 6 \/ m = 7 \/ m = 8
                       \/ m = 9 \/ m = 10 \/ m = 11 \/ m = 12
  OBVIOUS
<1> QED BY <1>1

\* Months follow one another and fill the year.
LEMMA Months ==
  ASSUME NEW y \in Int
  PROVE  /\ \A m \in 1..12 : MonthDays(y, m) \in 28..31 /\ MonthStart(y, m) \in Int
         /\ MonthStart(y, 1) = YearStart(y)
         /\ \A m \in 1..11 : MonthStart(y, m) + MonthDays(y, m) = MonthStart(y, m + 1)
         /\ MonthStart(y, 12) + MonthDays(y, 12) = YearStart(y + 1)
<1>1. YearStart(y) \in Int
  BY YearStartIs
<1>2. \A m \in 1..12 : MonthDays(y, m) \in 28..31
  BY MonthTable DEF MonthDays
<1>3. \A m \in 1..12 : MonthStart(y, m) \in Int
  BY <1>1, MonthTable DEF MonthStart
<1>4. MonthStart(y, 1) = YearStart(y)
  BY <1>1, MonthTable DEF MonthStart
<1>5. MonthStart(y, 12) + MonthDays(y, 12) = YearStart(y + 1)
  <2>1. MonthStart(y, 12) = YearStart(y) + 334 + Leap(y)
    BY <1>1, MonthTable DEF MonthStart, Leap
  <2>2. MonthDays(y, 12) = 31
    BY MonthTable DEF MonthDays
  <2>3. Leap(y) \in Int
    BY DEF Leap
  <2> QED BY <1>1, <2>1, <2>2, <2>3, YearLength
<1>6. ASSUME NEW m \in 1..11
      PROVE  MonthStart(y, m) + MonthDays(y, m) = MonthStart(y, m + 1)
  <2>1. CASE m = 2
    BY <1>1, <2>1, MonthTable DEF MonthStart, MonthDays
  <2>2. CASE m # 2
    BY <1>1, <2>2, MonthTable DEF MonthStart, MonthDays
  <2> QED BY <2>1, <2>2
<1> QED BY <1>2, <1>3, <1>4, <1>5, <1>6

\* Months do not overlap.
LEMMA MonthOrder ==
  ASSUME NEW y \in Int, NEW m \in 1..12, NEW n \in 1..12, m < n
  PROVE  MonthStart(y, m) + MonthDays(y, m) <= MonthStart(y, n)
<1>. DEFINE From(i) == MonthStart(y, i)
            To(i) == MonthStart(y, i) + MonthDays(y, i)
<1>1. ASSUME NEW i \in 1..12 PROVE From(i) \in Int /\ To(i) \in Int /\ From(i) <= To(i)
  <2>1. MonthDays(y, i) \in 28..31 /\ MonthStart(y, i) \in Int
    BY Months
  <2> QED BY <2>1
<1>2. \A i \in 1..11 : To(i) = From(i + 1)
  BY Months
<1>. HIDE DEF From, To
<1>3. /\ From(1) <= From(2) /\ From(2) <= From(3) /\ From(3) <= From(4) /\ From(4) <= From(5)
      /\ From(5) <= From(6) /\ From(6) <= From(7) /\ From(7) <= From(8) /\ From(8) <= From(9)
      /\ From(9) <= From(10) /\ From(10) <= From(11) /\ From(11) <= From(12)
  BY <1>1, <1>2
<1>4. \A i, j \in 1..12 : i <= j => From(i) <= From(j)
  <2>1. \A i \in 1..12 : i = 1 \/ i = 2 \/ i = 3 \/ i = 4 \/ i = 5 \/ i = 6 \/ i = 7 \/ i = 8
                         \/ i = 9 \/ i = 10 \/ i = 11 \/ i = 12
    OBVIOUS
  <2> QED BY <1>1, <1>3, <2>1
<1>5. To(m) <= From(n)
  BY <1>2, <1>4
<1> QED BY <1>5 DEF From, To

\* Every date is in a month of its year.
LEMMA MonthIs ==
  ASSUME NEW date \in Int
  PROVE  /\ YearOf(date) \in Int /\ MonthOf(date) \in 1..12
         /\ MonthStart(YearOf(date), MonthOf(date)) < date
         /\ date <= MonthStart(YearOf(date), MonthOf(date))
                    + MonthDays(YearOf(date), MonthOf(date))
<1>1. PICK y \in Int : y = YearOf(date) /\ YearStart(y) < date /\ date <= YearStart(y + 1)
  BY YearIs
<1>. DEFINE From(i) == MonthStart(y, i)
            To(i) == MonthStart(y, i) + MonthDays(y, i)
<1>2. /\ \A i \in 1..12 : From(i) \in Int /\ To(i) \in Int
      /\ \A i \in 1..11 : To(i) = From(i + 1)
      /\ From(1) < date /\ date <= To(12)
  BY <1>1, Months
<1>3. \E i \in 1..12 : From(i) < date /\ date <= To(i)
  <2>. HIDE DEF From, To
  <2>. SUFFICES ASSUME \A i \in 1..12 : From(i) < date => ~(date <= To(i)) PROVE FALSE
    OBVIOUS
  <2>1. \A i \in 1..11 : From(i) < date => From(i + 1) < date
    BY <1>2
  <2>2. From(2) < date /\ From(3) < date /\ From(4) < date /\ From(5) < date
    BY <1>2, <2>1
  <2>3. From(6) < date /\ From(7) < date /\ From(8) < date /\ From(9) < date
    BY <2>1, <2>2
  <2>4. From(10) < date /\ From(11) < date /\ From(12) < date
    BY <2>1, <2>3
  <2> QED BY <1>2, <2>4
<1>4. MonthOf(date) = CHOOSE i \in 1..12 : From(i) < date /\ date <= To(i)
  BY <1>1 DEF MonthOf
<1>5. MonthOf(date) \in 1..12 /\ From(MonthOf(date)) < date /\ date <= To(MonthOf(date))
  <2>. HIDE DEF From, To
  <2> QED BY <1>3, <1>4
<1> QED BY <1>1, <1>5

\* The days of a month, counted from one, are the dates of that month.
LEMMA DateIs ==
  ASSUME NEW y \in Int, NEW m \in 1..12, NEW d \in 1..MonthDays(y, m)
  PROVE  /\ DateOf(y, m, d) \in Int
         /\ YearOf(DateOf(y, m, d)) = y
         /\ MonthOf(DateOf(y, m, d)) = m
         /\ DayOf(DateOf(y, m, d)) = d
<1>0. /\ \A i \in 1..12 : MonthDays(y, i) \in 28..31 /\ MonthStart(y, i) \in Int
      /\ MonthStart(y, 1) = YearStart(y)
      /\ MonthStart(y, 12) + MonthDays(y, 12) = YearStart(y + 1)
  BY Months
<1>1. /\ d \in Int /\ 1 <= d /\ d <= MonthDays(y, m)
      /\ MonthDays(y, m) \in Int /\ MonthStart(y, m) \in Int
  BY <1>0
<1>2. PICK e \in Int : e = DateOf(y, m, d) /\ e = MonthStart(y, m) + d
  BY <1>1 DEF DateOf
<1>3. MonthStart(y, m) < e /\ e <= MonthStart(y, m) + MonthDays(y, m)
  BY <1>1, <1>2
<1>4. YearStart(y) <= MonthStart(y, m)
  <2>1. CASE m = 1
    BY <1>0, <2>1
  <2>2. CASE m # 1
    <3>1. 1 < m /\ 1 \in 1..12
      BY <2>2
    <3>2. MonthStart(y, 1) + MonthDays(y, 1) <= MonthStart(y, m)
      BY <3>1, MonthOrder
    <3>3. MonthDays(y, 1) \in 28..31 /\ MonthStart(y, 1) \in Int
      BY <1>0
    <3> QED BY <1>0, <1>1, <3>2, <3>3
  <2> QED BY <2>1, <2>2
<1>5. MonthStart(y, m) + MonthDays(y, m) <= YearStart(y + 1)
  <2>1. CASE m = 12
    BY <1>0, <2>1
  <2>2. CASE m # 12
    <3>1. m < 12 /\ 12 \in 1..12
      BY <2>2
    <3>2. MonthStart(y, m) + MonthDays(y, m) <= MonthStart(y, 12)
      BY <3>1, MonthOrder
    <3>3. MonthDays(y, 12) \in 28..31 /\ MonthStart(y, 12) \in Int
      BY <1>0
    <3> QED BY <1>0, <1>1, <3>2, <3>3
  <2> QED BY <2>1, <2>2
<1>6. YearStart(y) < e /\ e <= YearStart(y + 1)
  <2>1. YearStart(y) \in Int /\ YearStart(y + 1) \in Int
    BY YearStartIs
  <2> QED BY <1>1, <1>3, <1>4, <1>5, <2>1
<1>7. YearOf(e) = y
  BY <1>6, OneYear
<1>8. PICK n \in 1..12 : n = MonthOf(e) /\ MonthStart(y, n) < e
                         /\ e <= MonthStart(y, n) + MonthDays(y, n)
  BY <1>7, MonthIs
<1>9. n = m
  <2>1. MonthDays(y, n) \in Int /\ MonthStart(y, n) \in Int
    BY <1>0
  <2>2. ~(n < m)
    <3>. SUFFICES ASSUME n < m PROVE FALSE
      OBVIOUS
    <3>1. MonthStart(y, n) + MonthDays(y, n) <= MonthStart(y, m)
      BY MonthOrder
    <3> QED BY <1>1, <1>3, <1>8, <2>1, <3>1
  <2>3. ~(m < n)
    <3>. SUFFICES ASSUME m < n PROVE FALSE
      OBVIOUS
    <3>1. MonthStart(y, m) + MonthDays(y, m) <= MonthStart(y, n)
      BY MonthOrder
    <3> QED BY <1>1, <1>3, <1>8, <2>1, <3>1
  <2> QED BY <2>2, <2>3
<1>10. DayOf(e) = d
  BY <1>1, <1>2, <1>7, <1>8, <1>9 DEF DayOf
<1> QED BY <1>2, <1>7, <1>8, <1>9, <1>10

\* And every date is one of them.
LEMMA DateParts ==
  ASSUME NEW date \in Int
  PROVE  /\ YearOf(date) \in Int /\ MonthOf(date) \in 1..12
         /\ DayOf(date) \in 1..MonthDays(YearOf(date), MonthOf(date))
         /\ MonthDays(YearOf(date), MonthOf(date)) \in 28..31
         /\ date = DateOf(YearOf(date), MonthOf(date), DayOf(date))
<1>1. PICK y \in Int, m \in 1..12 :
        /\ y = YearOf(date) /\ m = MonthOf(date) /\ MonthStart(y, m) < date
        /\ date <= MonthStart(y, m) + MonthDays(y, m)
  BY MonthIs
<1>2. MonthDays(y, m) \in 28..31 /\ MonthStart(y, m) \in Int
  BY Months
<1>3. DayOf(date) = date - MonthStart(y, m)
  BY <1>1 DEF DayOf
<1>4. DayOf(date) \in 1..MonthDays(y, m) /\ date = MonthStart(y, m) + DayOf(date)
  BY <1>1, <1>2, <1>3
<1> QED BY <1>1, <1>2, <1>4 DEF DateOf

\* The n-th weekday of a month lies in it.
LEMMA NthIsInMonth ==
  ASSUME NEW y \in Int, NEW m \in 1..12, NEW w \in 0..6, NEW n \in 1..5
  PROVE  \E d \in 1..MonthDays(y, m) : nth_weekday_of_month(y, m, w, n) = DateOf(y, m, d)
<1>1. MonthDays(y, m) \in 28..31 /\ MonthStart(y, m) \in Int
  BY Months
<1>2. PICK x \in 0..6 : x = (w - Weekday(DateOf(y, m, 1))) % 7
  BY <1>1 DEF DateOf, Weekday
<1>3. PICK day \in 1..35 : day = 1 + x + (n - 1) * 7
  OBVIOUS
<1>4. PICK over \in Int : over = day - MonthDays(y, m)
  BY <1>1
<1>5. nth_weekday_of_month(y, m, w, n)
        = DateOf(y, m, IF over > 0 THEN day - ((over + 6) \div 7) * 7 ELSE day)
  BY <1>2, <1>3, <1>4 DEF nth_weekday_of_month
<1>6. CASE over > 0
  <2>1. PICK k \in Int : k = (over + 6) \div 7
    OBVIOUS
  <2>2. over <= 7 * k /\ 7 * k <= over + 6
    BY <2>1
  <2>3. day - k * 7 \in 1..MonthDays(y, m)
    BY <1>1, <1>4, <2>2
  <2> QED BY <1>5, <1>6, <2>1, <2>3
<1>7. CASE ~(over > 0)
  <2>1. day \in 1..MonthDays(y, m)
    BY <1>1, <1>4, <1>7
  <2> QED BY <1>5, <1>7, <2>1
<1> QED BY <1>6, <1>7

\* A date is in one of the five weeks of its month.
LEMMA WeekIs ==
  ASSUME NEW date \in Int
  PROVE  week_of_month(date) \in 1..5
<1>1. PICK last \in 28..31 : DayOf(date) \in 1..last
  BY DateParts
<1>2. DayOf(date) \in 1..31
  BY <1>1
<1> QED BY <1>2 DEF week_of_month

\* A Dia del mes, clamped, is a day of the month.
LEMMA ClampedIs ==
  ASSUME NEW y \in Int, NEW m \in 1..12, NEW d \in Nat \ {0}
  PROVE  Clamped(y, m, d) \in 1..MonthDays(y, m)
<1>1. MonthDays(y, m) \in 28..31
  BY Months
<1> QED BY <1>1 DEF Clamped

\* Months after months.
LEMMA AddMonthsIs ==
  ASSUME NEW date \in Int, NEW n \in Int
  PROVE  AddMonths(date, n) \in Int /\ MonthsBetween(date, AddMonths(date, n)) = n
<1>1. PICK y \in Int, m \in 1..12, d \in Nat \ {0} :
        y = YearOf(date) /\ m = MonthOf(date) /\ d = DayOf(date)
  <2>1. YearOf(date) \in Int /\ MonthOf(date) \in 1..12
    BY DateParts
  <2>2. /\ DayOf(date) \in 1..MonthDays(YearOf(date), MonthOf(date))
        /\ MonthDays(YearOf(date), MonthOf(date)) \in 28..31
    BY DateParts
  <2>3. DayOf(date) \in Nat \ {0}
    BY <2>2
  <2> QED BY <2>1, <2>3
<1>2. PICK total \in Int : total = y * 12 + m - 1 + n
  OBVIOUS
<1>3. PICK to \in Int, month \in 1..12 :
        to = total \div 12 /\ month = (total % 12) + 1 /\ to * 12 + month - 1 = total
  <2>1. total \div 12 \in Int
    OBVIOUS
  <2>2. total % 12 \in 0..11
    OBVIOUS
  <2>3. total = 12 * (total \div 12) + (total % 12)
    OBVIOUS
  <2>4. (total \div 12) * 12 + ((total % 12) + 1) - 1 = total
    BY <2>1, <2>2, <2>3
  <2>5. (total % 12) + 1 \in 1..12
    BY <2>2
  <2> QED BY <2>1, <2>4, <2>5
<1>4. PICK day \in 1..MonthDays(to, month) : day = Clamped(to, month, d)
  BY ClampedIs
<1>5. AddMonths(date, n) = DateOf(to, month, day)
  BY <1>1, <1>2, <1>3, <1>4 DEF AddMonths
<1>6. /\ DateOf(to, month, day) \in Int
      /\ YearOf(DateOf(to, month, day)) = to /\ MonthOf(DateOf(to, month, day)) = month
  BY DateIs
<1>7. (to - y) * 12 + month - m = n
  BY <1>2, <1>3
<1> QED BY <1>1, <1>5, <1>6, <1>7 DEF MonthsBetween

\* A date of a later month is later.
LEMMA LaterMonth ==
  ASSUME NEW a \in Int, NEW b \in Int, MonthsBetween(a, b) >= 1
  PROVE  a < b
<1>1. PICK y \in Int, m \in 1..12 :
        /\ y = YearOf(a) /\ m = MonthOf(a) /\ a <= MonthStart(y, m) + MonthDays(y, m)
  BY MonthIs
<1>2. PICK z \in Int, n \in 1..12 : z = YearOf(b) /\ n = MonthOf(b) /\ MonthStart(z, n) < b
  BY MonthIs
<1>3. /\ a <= YearStart(y + 1) /\ YearStart(z) < b
      /\ YearStart(y + 1) \in Int /\ YearStart(z) \in Int
  BY <1>1, <1>2, YearIs, YearStartIs
<1>4. (z - y) * 12 + n - m >= 1
  BY <1>1, <1>2 DEF MonthsBetween
<1>5. CASE z = y
  <2>1. m < n
    BY <1>4, <1>5
  <2>2. MonthStart(y, m) + MonthDays(y, m) <= MonthStart(y, n)
    BY <2>1, MonthOrder
  <2>3. /\ MonthDays(y, m) \in 28..31 /\ MonthStart(y, m) \in Int /\ MonthStart(y, n) \in Int
    BY Months
  <2> QED BY <1>1, <1>2, <1>5, <2>2, <2>3
<1>6. CASE z # y
  <2>1. y + 1 <= z
    BY <1>4, <1>6
  <2>2. YearStart(y + 1) <= YearStart(z)
    BY <2>1, YearOrder
  <2> QED BY <1>3, <2>2
<1> QED BY <1>5, <1>6

\* The earliest of some dates is one of them.
LEMMA EarliestIs ==
  ASSUME NEW dates \in SUBSET Int, dates # {}, NEW low \in Int, \A d \in dates : low <= d
  PROVE  Earliest(dates) \in dates
<1>. DEFINE After == {n \in Nat : low + n \in dates}
<1>1. After \subseteq Nat /\ After # {}
  <2>1. PICK d \in dates : TRUE
    OBVIOUS
  <2>2. d - low \in Nat /\ low + (d - low) = d
    OBVIOUS
  <2> QED BY <2>2
<1>2. \E n \in After : \A k \in After : ~(<<k, n>> \in OpToRel(<, Nat))
  <2>. HIDE DEF After
  <2> QED BY <1>1, NatLessThanWellFounded, WFMin
<1>3. PICK n \in After : \A k \in After : ~(k < n)
  BY <1>1, <1>2 DEF OpToRel
<1>4. low + n \in dates /\ \A d \in dates : low + n <= d
  <2>1. ASSUME NEW d \in dates PROVE low + n <= d
    <3>1. d - low \in After
      <4>1. d - low \in Nat /\ low + (d - low) = d
        OBVIOUS
      <4> QED BY <4>1
    <3>2. ~(d - low < n)
      BY <1>3, <3>1
    <3> QED BY <1>1, <3>2
  <2> QED BY <2>1
<1> QED BY <1>4 DEF Earliest

\* A weekly mirror is due on one of the routine's weekdays, within a week.
LEMMA WeeklyIsDue ==
  ASSUME NEW dias \in SUBSET (0..6), dias # {}, NEW day \in Int
  PROVE  /\ next_weekly_occurrence(dias, day) \in day..(day + 6)
         /\ Weekday(next_weekly_occurrence(dias, day)) \in dias
<1>. DEFINE dates == {d \in day..(day + 6) : Weekday(d) \in dias}
<1>1. dates # {}
  <2>1. PICK w \in dias : w \in 0..6
    OBVIOUS
  <2>2. PICK k \in 0..6 : k = (w - Weekday(day)) % 7
    BY <2>1 DEF Weekday
  <2>3. Weekday(day + k) = w
    <3>1. PICK v \in 0..6 : v = (day + 6) % 7
      OBVIOUS
    <3>2. PICK a \in Int : day + 6 = 7 * a + v
      BY <3>1
    <3>3. k = (w - v) % 7
      BY <2>2, <3>1 DEF Weekday
    <3>4. PICK b \in Int : w - v = 7 * b + k
      BY <2>1, <3>3
    <3>5. PICK c \in Int : c = a - b
      OBVIOUS
    <3>6. day + k + 6 = 7 * c + w
      BY <2>1, <3>2, <3>4, <3>5
    <3>7. (7 * c + w) % 7 = w
      BY <2>1
    <3> QED BY <3>6, <3>7 DEF Weekday
  <2>4. day + k \in dates
    BY <2>1, <2>3
  <2> QED BY <2>4
<1>2. dates \in SUBSET Int /\ \A d \in dates : day <= d
  OBVIOUS
<1>3. Earliest(dates) \in dates
  <2>. HIDE DEF dates
  <2> QED BY <1>1, <1>2, EarliestIs
<1>4. next_weekly_occurrence(dias, day) = Earliest(dates)
  BY DEF next_weekly_occurrence
<1> QED BY <1>3, <1>4

\* A fortnightly mirror is due a whole number of fortnights after Vigente desde.
LEMMA FortnightlyIsDue ==
  ASSUME NEW desde \in Int, NEW day \in Int,
         NEW due, due = IF day < desde THEN desde ELSE day - ((day - desde) % 14)
  PROVE  due \in Int /\ due >= desde /\ (due - desde) % 14 = 0 /\ Weekday(due) = Weekday(desde)
<1>1. CASE day < desde
  BY <1>1
<1>2. CASE ~(day < desde)
  <2>1. PICK k \in Nat : day - desde - ((day - desde) % 14) = 14 * k
    <3>1. PICK k \in Int : k = (day - desde) \div 14
      OBVIOUS
    <3>2. day - desde - ((day - desde) % 14) = 14 * k /\ k >= 0
      BY <1>2, <3>1
    <3> QED BY <3>1, <3>2
  <2>2. due = desde + 14 * k
    BY <1>2, <2>1
  <2>3. (desde + 14 * k + 6) % 7 = (desde + 6) % 7
    OBVIOUS
  <2>4. (14 * k) % 14 = 0
    OBVIOUS
  <2>5. due - desde = 14 * k
    BY <2>2
  <2> QED BY <2>2, <2>3, <2>4, <2>5 DEF Weekday
<1> QED BY <1>1, <1>2

\* What the code makes of the month it picked.
MonthlyDue(s, y, m) ==
  IF s.dia # None THEN DateOf(y, m, Clamped(y, m, s.dia))
  ELSE Earliest({nth_weekday_of_month(y, m, w, week_of_month(s.desde)) : w \in s.dias})

\* A monthly mirror is due on a day of that month on which the routine has a row.
LEMMA MonthlyIsDue ==
  ASSUME NEW s, s.dia \in Nat, s.desde \in Int, s.dias \subseteq 0..6,
         s.dia # None \/ s.dias # {}, NEW y \in Int, NEW m \in 1..12
  PROVE  \E due \in Int :
           /\ due = MonthlyDue(s, y, m) /\ YearOf(due) = y /\ MonthOf(due) = m
           /\ IF s.dia # None THEN DayOf(due) = Clamped(y, m, s.dia)
              ELSE \E w \in s.dias : due = nth_weekday_of_month(y, m, w, week_of_month(s.desde))
<1>1. CASE s.dia # None
  <2>1. PICK d \in 1..MonthDays(y, m) : d = Clamped(y, m, s.dia)
    BY <1>1, ClampedIs DEF None
  <2>2. PICK due : due = MonthlyDue(s, y, m) /\ due = DateOf(y, m, d)
    BY <1>1, <2>1 DEF MonthlyDue
  <2>3. due \in Int /\ YearOf(due) = y /\ MonthOf(due) = m /\ DayOf(due) = d
    BY <2>2, DateIs
  <2> QED BY <1>1, <2>1, <2>2, <2>3
<1>2. CASE ~(s.dia # None)
  <2>1. PICK n \in 1..5 : n = week_of_month(s.desde)
    BY WeekIs
  <2>. DEFINE dates == {nth_weekday_of_month(y, m, w, n) : w \in s.dias}
  <2>2. \A e \in dates : \E d \in 1..MonthDays(y, m) : e = DateOf(y, m, d)
    BY NthIsInMonth
  <2>3. \A d \in 1..MonthDays(y, m) : /\ DateOf(y, m, d) \in Int
                                       /\ YearOf(DateOf(y, m, d)) = y
                                       /\ MonthOf(DateOf(y, m, d)) = m
    BY DateIs
  <2>4. \A d \in 1..MonthDays(y, m) : MonthStart(y, m) <= DateOf(y, m, d)
    <3>1. MonthDays(y, m) \in 28..31 /\ MonthStart(y, m) \in Int
      BY Months
    <3> QED BY <3>1 DEF DateOf
  <2>5. dates # {} /\ MonthStart(y, m) \in Int
    BY <1>2, Months
  <2>6. Earliest(dates) \in dates
    <3>. HIDE DEF dates
    <3>1. dates \in SUBSET Int /\ \A e \in dates : MonthStart(y, m) <= e
      BY <2>2, <2>3, <2>4
    <3> QED BY <2>5, <3>1, EarliestIs
  <2>7. PICK due : due = MonthlyDue(s, y, m) /\ due = Earliest(dates)
    BY <1>2, <2>1 DEF MonthlyDue
  <2>8. PICK w \in s.dias : due = nth_weekday_of_month(y, m, w, n)
    BY <2>6, <2>7
  <2>9. PICK d \in 1..MonthDays(y, m) : due = DateOf(y, m, d)
    BY <2>2, <2>6, <2>7
  <2>10. due \in Int /\ YearOf(due) = y /\ MonthOf(due) = m
    BY <2>3, <2>9
  <2> QED BY <1>2, <2>1, <2>7, <2>8, <2>10
<1> QED BY <1>1, <1>2

\* On Vigente desde itself the month looked at is that of Vigente desde, as it is in every
\* month of the first period.
LEMMA FirstPeriod ==
  ASSUME NEW s, s.desde \in Int, s.recurrencia \in {"Mensual", "Trimestral"},
         NEW step \in {1, 3}, step = StepMonths(s.recurrencia),
         NEW target \in Int, MonthsBetween(s.desde, target) = 0
  PROVE  current_todo_occurrence(s, s.desde) = MonthlyDue(s, YearOf(target), MonthOf(target))
<1>1. /\ YearOf(s.desde) \in Int /\ MonthOf(s.desde) \in 1..12
      /\ YearOf(target) \in Int /\ MonthOf(target) \in 1..12
  BY MonthIs
<1>2. MonthsBetween(s.desde, s.desde) = 0 /\ 0 - (0 % step) = 0
  <2>1. MonthsBetween(s.desde, s.desde) = 0
    BY <1>1 DEF MonthsBetween
  <2>2. CASE step = 1
    BY <2>1, <2>2
  <2>3. CASE step = 3
    BY <2>1, <2>3
  <2> QED BY <2>2, <2>3
<1>3. PICK first \in Int : /\ first = AddMonths(s.desde, 0) /\ MonthsBetween(s.desde, first) = 0
                           /\ YearOf(first) \in Int /\ MonthOf(first) \in 1..12
  <2>1. \A a, n \in Int : AddMonths(a, n) \in Int /\ MonthsBetween(a, AddMonths(a, n)) = n
    BY AddMonthsIs
  <2>2. PICK z \in Int : z = 0
    OBVIOUS
  <2>3. AddMonths(s.desde, z) \in Int /\ MonthsBetween(s.desde, AddMonths(s.desde, z)) = z
    BY <2>1
  <2> QED BY <2>2, <2>3, MonthIs
<1>4. YearOf(first) = YearOf(target) /\ MonthOf(first) = MonthOf(target)
  <2>1. PICK y1, y2, y3 \in Int : y1 = YearOf(s.desde) /\ y2 = YearOf(first) /\ y3 = YearOf(target)
    BY <1>1, <1>3
  <2>2. PICK n1, n2, n3 \in 1..12 :
          n1 = MonthOf(s.desde) /\ n2 = MonthOf(first) /\ n3 = MonthOf(target)
    BY <1>1, <1>3
  <2>3. (y2 - y1) * 12 + n2 - n1 = 0 /\ (y3 - y1) * 12 + n3 - n1 = 0
    BY <1>3, <2>1, <2>2 DEF MonthsBetween
  <2>4. y2 = y3 /\ n2 = n3
    BY <2>3
  <2> QED BY <2>1, <2>2, <2>4
<1>5. s.recurrencia # "Semanal" /\ s.recurrencia # "Quincenal"
  OBVIOUS
<1>6. current_todo_occurrence(s, s.desde) = MonthlyDue(s, YearOf(first), MonthOf(first))
  BY <1>2, <1>3, <1>5 DEF current_todo_occurrence, MonthlyDue
<1> QED BY <1>4, <1>6

\* Each kind of schedule has an occurrence on the date of its mirror once it is in force.
LEMMA MirrorIsDue ==
  ASSUME NEW s \in Schedules, NEW day \in Int
  PROVE  MirrorOnARow(s, day)
<1>. DEFINE due == MirrorDate(s, day)
<1>0. /\ s.dias \subseteq 0..6 /\ s.desde \in Nat /\ s.dia \in Nat /\ s.desde \in Int
      /\ s.recurrencia = "Quincenal" /\ s.desde # None => Weekday(s.desde) \in s.dias
  BY SchedulesAssumption
<1>. SUFFICES ASSUME HasOccurrence(s), InForce(s, day)
              PROVE  occurs_on(due, s)
  BY DEF MirrorOnARow
<1>1. CASE s.recurrencia = "Semanal"
  <2>1. s.dias # {}
    BY <1>1 DEF HasOccurrence
  <2>2. PICK d \in day..(day + 6) : d = due /\ Weekday(d) \in s.dias
    <3>1. due = next_weekly_occurrence(s.dias, day)
      BY <1>1 DEF MirrorDate
    <3> QED BY <1>0, <2>1, <3>1, WeeklyIsDue
  <2>3. d >= s.desde
    BY <1>0, <1>1, <2>2 DEF InForce
  <2> QED BY <1>1, <2>2, <2>3 DEF occurs_on
<1>2. CASE s.recurrencia = "Quincenal"
  <2>1. s.desde # None
    BY <1>2 DEF HasOccurrence
  <2>2. due = IF day < s.desde THEN s.desde ELSE day - ((day - s.desde) % 14)
    BY <1>2 DEF MirrorDate, current_todo_occurrence
  <2>3. PICK d \in Int : /\ d = due /\ d >= s.desde /\ (d - s.desde) % 14 = 0
                         /\ Weekday(d) = Weekday(s.desde)
    BY <1>0, <2>2, FortnightlyIsDue
  <2> QED BY <1>0, <1>2, <2>1, <2>3 DEF occurs_on
<1>3. CASE s.recurrencia \in {"Mensual", "Trimestral"}
  <2>1. s.desde # None /\ (s.dia # None \/ s.dias # {})
    BY <1>3 DEF HasOccurrence
  <2>2. PICK step \in {1, 3} : step = StepMonths(s.recurrencia)
    BY DEF StepMonths
  <2>3. PICK months \in Int : months = MonthsBetween(s.desde, day)
    <3>1. /\ YearOf(s.desde) \in Int /\ MonthOf(s.desde) \in 1..12
          /\ YearOf(day) \in Int /\ MonthOf(day) \in 1..12
      BY <1>0, MonthIs
    <3> QED BY <3>1 DEF MonthsBetween
  <2>4. PICK k \in Nat : k % step = 0 /\ k = IF months < 0 THEN 0 ELSE months - (months % step)
    <3>1. CASE step = 1
      BY <3>1
    <3>2. CASE step = 3
      BY <3>2
    <3> QED BY <2>2, <3>1, <3>2
  <2>5. PICK target \in Int :
          /\ target = IF months < 0 THEN s.desde
                      ELSE AddMonths(s.desde, months - (months % step))
          /\ MonthsBetween(s.desde, target) = k
    <3>1. CASE months < 0
      <4>1. MonthsBetween(s.desde, s.desde) = 0
        <5>1. YearOf(s.desde) \in Int /\ MonthOf(s.desde) \in 1..12
          BY <1>0, MonthIs
        <5> QED BY <5>1 DEF MonthsBetween
      <4> QED BY <1>0, <2>4, <3>1, <4>1
    <3>2. CASE ~(months < 0)
      <4>1. k = months - (months % step)
        BY <2>4, <3>2
      <4>2. AddMonths(s.desde, k) \in Int /\ MonthsBetween(s.desde, AddMonths(s.desde, k)) = k
        <5>1. \A a, n \in Int : AddMonths(a, n) \in Int /\ MonthsBetween(a, AddMonths(a, n)) = n
          BY AddMonthsIs
        <5>2. k \in Int
          OBVIOUS
        <5> QED BY <1>0, <5>1, <5>2
      <4> QED BY <3>2, <4>1, <4>2
    <3> QED BY <3>1, <3>2
  <2>6. PICK y \in Int, m \in 1..12 : y = YearOf(target) /\ m = MonthOf(target)
    BY MonthIs
  <2>7. due = MonthlyDue(s, y, m)
    <3>1. s.recurrencia # "Semanal" /\ s.recurrencia # "Quincenal"
      BY <1>3
    <3> QED BY <2>2, <2>3, <2>5, <2>6, <3>1
            DEF MirrorDate, current_todo_occurrence, MonthlyDue
  <2>. HIDE DEF due
  <2>8. /\ due \in Int /\ YearOf(due) = y /\ MonthOf(due) = m
        /\ IF s.dia # None THEN DayOf(due) = Clamped(y, m, s.dia)
           ELSE \E w \in s.dias : due = nth_weekday_of_month(y, m, w, week_of_month(s.desde))
    <3>1. PICK e \in Int :
            /\ e = MonthlyDue(s, y, m) /\ YearOf(e) = y /\ MonthOf(e) = m
            /\ IF s.dia # None THEN DayOf(e) = Clamped(y, m, s.dia)
               ELSE \E w \in s.dias : e = nth_weekday_of_month(y, m, w, week_of_month(s.desde))
      BY <1>0, <2>1, MonthlyIsDue
    <3>2. e = due
      BY <2>7, <3>1
    <3> QED BY <3>1, <3>2
  <2>9. MonthsBetween(s.desde, due) = k
    BY <2>5, <2>6, <2>8 DEF MonthsBetween
  <2>10. CASE due >= s.desde
    BY <1>3, <2>1, <2>2, <2>4, <2>8, <2>9, <2>10 DEF occurs_on
  <2>11. CASE ~(due >= s.desde)
    <3>1. due < s.desde
      BY <1>0, <2>8, <2>11
    <3>2. ~(MonthsBetween(s.desde, due) >= 1)
      BY <1>0, <2>8, <2>11, LaterMonth
    <3>3. k = 0
      BY <2>4, <2>9, <3>2
    <3>4. ~(months >= step)
      <4>1. CASE step = 1
        BY <2>4, <3>3, <4>1
      <4>2. CASE step = 3
        BY <2>4, <3>3, <4>2
      <4> QED BY <2>2, <4>1, <4>2
    <3>5. current_todo_occurrence(s, s.desde) >= s.desde
      BY <1>3, <2>2, <2>3, <3>4 DEF InForce
    <3>6. current_todo_occurrence(s, s.desde) = due
      BY <1>0, <1>3, <2>2, <2>5, <2>6, <2>7, <3>3, FirstPeriod
    <3> QED BY <3>1, <3>5, <3>6, <2>8, <1>0
  <2> QED BY <2>10, <2>11
<1>4. s.recurrencia \in {"Semanal", "Quincenal", "Mensual", "Trimestral"}
  BY DEF HasOccurrence
<1> QED BY <1>1, <1>2, <1>3, <1>4

\* MirrorFallsOnARow of Occurrences.tla, for schedules of any kind and any days: the
\* calendar never puts the mirror of a schedule in force on a day without a row.
THEOREM MirrorFallsOnARowHolds == Spec => []MirrorFallsOnARow
<1>1. TypeOK => MirrorFallsOnARow
  <2>. SUFFICES ASSUME TypeOK, NEW r \in Routines,
                       NEW p \in (today..(today + Ahead)) \X {routine[r].schedule} \X {TRUE}
                PROVE  p \in MirrorDays
    BY DEF MirrorFallsOnARow
  <2>0. PICK d \in today..(today + Ahead) : p = <<d, routine[r].schedule, TRUE>>
    <3>1. \A A, B, C : \A q \in A \X B \X C :
            q = <<q[1], q[2], q[3]>> /\ q[1] \in A /\ q[2] \in B /\ q[3] \in C
      OBVIOUS
    <3>2. /\ p = <<p[1], p[2], p[3]>> /\ p[1] \in today..(today + Ahead)
          /\ p[2] \in {routine[r].schedule} /\ p[3] \in {TRUE}
      <4>. DEFINE A == today..(today + Ahead)
                  B == {routine[r].schedule}
                  C == {TRUE}
      <4>1. p \in A \X B \X C
        OBVIOUS
      <4>. HIDE DEF A, B, C
      <4>2. p = <<p[1], p[2], p[3]>> /\ p[1] \in A /\ p[2] \in B /\ p[3] \in C
        BY <3>1, <4>1
      <4> QED BY <4>2 DEF A, B, C
    <3>3. p[2] = routine[r].schedule /\ p[3] = TRUE
      BY <3>2, Zenon
    <3>4. p = <<p[1], routine[r].schedule, TRUE>>
      BY <3>2, <3>3, Zenon
    <3> QED BY <3>2, <3>4, Zenon
  <2>1. routine[r].schedule \in Schedules
    BY DEF TypeOK
  <2>2. start \in Starts /\ start \in Int /\ today \in start..(start + MaxDays)
        /\ MaxDays \in Int /\ Ahead \in Int
    BY OccurrencesAssumption DEF TypeOK
  <2>3. d \in start..(start + MaxDays + Ahead) /\ d \in Int
    BY <2>2
  <2>4. d \in Days
    BY <2>2, <2>3 DEF Days
  <2>5. MirrorOnARow(routine[r].schedule, d) = TRUE
    <3>1. MirrorOnARow(routine[r].schedule, d)
      BY <2>1, <2>3, MirrorIsDue
    <3>2. MirrorOnARow(routine[r].schedule, d) \in BOOLEAN
      BY DEF MirrorOnARow
    <3> QED BY <3>1, <3>2
  <2>6. <<d, routine[r].schedule, MirrorOnARow(routine[r].schedule, d)>> \in MirrorDays
    BY <2>1, <2>4 DEF MirrorDays
  <2> QED BY <2>0, <2>5, <2>6
<1> QED BY <1>1, TypeCorrectness, PTL
=============================================================================
