-------------------------- MODULE HostWatchProofs ---------------------------
(***************************************************************************)
(* One announcement of each finding while state.json keeps it, and none of *)
(* a load that was not counted as often as it takes, proved for every      *)
(* host, every set of shells and any number of changes, faults and scans   *)
(* by hand.                                                                *)
(***************************************************************************)
EXTENDS HostWatch, FiniteSetTheorems, TLAPS

\* Files and local variables have the fields that the steps below change.
Shapes ==
  /\ disk \in {NoFile, Torn} \/ "findings" \in DOMAIN disk
  /\ tmp = NoFile \/ "findings" \in DOMAIN tmp
  /\ DOMAIN pc = Runners /\ DOMAIN job = Runners
  /\ \A r \in Runners : /\ {"state", "found", "new", "busy", "quiet"} \subseteq DOMAIN job[r]
                        /\ "findings" \in DOMAIN job[r].state
                        /\ job[r].quiet \in BOOLEAN
  /\ overlap \in BOOLEAN

Checking == {"processes", "listeners", "peers", "save"}
Alone == \A r, q \in Runners : pc[r] # "idle" /\ pc[q] # "idle" => r = q

\* What a scan holds that no other runs next to, by how far it is.
Saving(r) ==
  /\ pc[r] \in {"idle", "replace", "notify"} \cup Checking
  /\ pc[r] \in Checking => job[r].state.findings = Known
  /\ pc[r] = "replace" => /\ tmp # NoFile /\ tmp.findings = job[r].found
                          /\ job[r].new = job[r].found \ Known
  /\ pc[r] = "notify" => /\ Known = job[r].found /\ job[r].new \subseteq job[r].found
                         /\ job[r].new \cap told = {}
                         /\ job[r].quiet => job[r].new \subseteq hushed

\* Nothing is told that is not known; what is known and was not told is hushed, or
\* about to be told.
Accounted ==
  /\ told \subseteq Known
  /\ \A f \in Known : \/ f \in told \cup hushed
                      \/ \E r \in Runners : pc[r] = "notify" /\ f \in job[r].new

Inv == Shapes /\ (~overlap => Alone /\ Accounted /\ \A r \in Runners : Saving(r))

(***************************************************************************)
(* AlertedOnce of HostWatch.tla (state.py, scanner.py: run_scan): the      *)
(* phone is told of a finding once for as long as every saved scan finds   *)
(* it under the same key and state.json survives; and not never, unless    *)
(* its one announcement was lost or scans ran next to each other.          *)
(***************************************************************************)
THEOREM AlertedOnceHolds == Spec => []AlertedOnce
<1>. USE HostWatchAssumption
<1>1. "findings" \notin DOMAIN NoFile /\ "findings" \notin DOMAIN Torn
  BY SMT DEF NoFile, Torn
<1>2. /\ {"state", "found", "new", "busy", "quiet"} \subseteq DOMAIN Idle
      /\ Idle.state = Fresh /\ Idle.quiet \in BOOLEAN /\ "findings" \in DOMAIN Fresh
  BY SMT DEF Idle, Fresh
<1>3. Init => Inv
  <2>. SUFFICES ASSUME Init PROVE Inv
    OBVIOUS
  <2>1. \A r \in Runners : pc[r] = "idle" /\ job[r] = Idle
    BY DEF Init
  <2>2. Shapes
    <3>1. DOMAIN pc = Runners /\ DOMAIN job = Runners
      BY SMT DEF Init
    <3>2. disk = NoFile /\ tmp = NoFile /\ overlap \in BOOLEAN
      BY DEF Init
    <3> QED BY <1>2, <2>1, <3>1, <3>2, Zenon DEF Shapes
  <2> QED BY <2>1, <2>2, SMT DEF Init, Inv, Alone, Accounted, Saving, Known, Checking
<1>4. Inv => AlertedOnce
  <2>. SUFFICES ASSUME Inv PROVE AlertedOnce
    OBVIOUS
  <2>1. NotTwice
    BY SMT DEF Inv, Saving, NotTwice
  <2>2. ASSUME disk \in State PROVE Known = disk.findings
    BY <1>1, <2>2, SMT DEF State, Known
  <2>3. NotSilenced
    BY <2>2, SMT DEF Inv, Accounted, NotSilenced
  <2> QED BY <2>1, <2>3 DEF AlertedOnce
<1>5. Inv /\ [Next]_vars => Inv'
  <2>. SUFFICES ASSUME Inv, [Next]_vars PROVE Inv'
    OBVIOUS
  <2>. DEFINE Others(r) == /\ DOMAIN job' = Runners
                           /\ \A q \in Runners \ {r} : job'[q] = job[q]
              Whole(r) == /\ {"state", "found", "new", "busy", "quiet"} \subseteq DOMAIN job'[r]
                          /\ "findings" \in DOMAIN job'[r].state
                          /\ job'[r].quiet \in BOOLEAN
  \* A check leaves the findings alone that the scan has loaded.
  <2>1. ASSUME NEW r \in Runners, NEW to \in Checking, pc[r] \in Checking,
               pc' = [pc EXCEPT ![r] = to], Others(r), Whole(r),
               job'[r].state.findings = job[r].state.findings,
               UNCHANGED <<disk, tmp, history>>
        PROVE  Inv'
    <3>. USE <2>1
    <3>1. Shapes'
      BY SMT DEF Inv, Shapes, history
    <3>2. pc'[r] = to /\ \A q \in Runners \ {r} : pc'[q] = pc[q]
      BY SMT DEF Inv, Shapes
    <3>3. Known' = Known
      BY DEF Known
    <3>4. ASSUME ~overlap' PROVE Alone' /\ Accounted'
      BY <3>2, <3>3, <3>4, SMT DEF Inv, Alone, Accounted, history, Checking
    <3>5. ASSUME ~overlap', NEW q \in Runners PROVE Saving(q)'
      <4>1. CASE q = r
        BY <3>2, <3>3, <3>5, <4>1, SMT DEF Inv, Saving, history, Checking
      <4>2. CASE q # r
        BY <3>2, <3>3, <3>5, <4>2, SMT DEF Inv, Saving, history
      <4> QED BY <4>1, <4>2
    <3> QED BY <3>1, <3>4, <3>5 DEF Inv
  \* A scan that stops leaves nothing known that is neither told nor hushed.
  <2>2. ASSUME NEW r \in Runners, pc[r] # "idle", Stop(r), UNCHANGED <<disk, tmp, overlap>>,
               ~overlap => /\ told' \subseteq Known
                           /\ told \cup hushed \subseteq told' \cup hushed'
                           /\ pc[r] = "notify" => job[r].new \subseteq told' \cup hushed'
        PROVE  Inv'
    <3>. USE <2>2
    <3>1. /\ pc'[r] = "idle" /\ \A q \in Runners \ {r} : pc'[q] = pc[q]
          /\ DOMAIN pc' = Runners
      BY SMT DEF Stop, Goto, Inv, Shapes
    <3>2. Others(r) /\ job'[r] = Idle
      BY SMT DEF Stop, Inv, Shapes
    <3>3. Shapes'
      BY <1>2, <3>1, <3>2, SMT DEF Inv, Shapes
    <3>4. Known' = Known
      BY DEF Known
    <3>5. ASSUME ~overlap' PROVE Alone' /\ Accounted'
      BY <3>1, <3>4, <3>5, SMT DEF Inv, Alone, Accounted
    <3>6. ASSUME ~overlap', NEW q \in Runners PROVE Saving(q)'
      <4>1. pc'[q] = "idle"
        BY <3>1, <3>6, SMT DEF Inv, Alone
      <4> QED BY <4>1, SMT DEF Saving, Checking
    <3> QED BY <3>3, <3>5, <3>6 DEF Inv
  <2>3. ASSUME NEW r \in Runners, NEW quiet \in BOOLEAN, LoadState(r, quiet) PROVE Inv'
    <3>. USE <2>3
    <3>. DEFINE loaded == IF disk \in {NoFile, Torn} THEN Fresh ELSE disk
    <3>1. /\ pc[r] = "idle" /\ UNCHANGED tmp
          /\ pc' = [pc EXCEPT ![r] = "processes"]
          /\ job' = [job EXCEPT ![r] = [Idle EXCEPT !.state = loaded, !.quiet = quiet]]
          /\ disk' = IF disk = Torn THEN NoFile ELSE disk
          /\ overlap' = \E q \in Runners \ {r} : pc[q] # "idle"
          /\ \/ UNCHANGED <<told, hushed>> /\ (overlap => overlap')
             \/ told' = told \cap Known /\ hushed' = Known \ told
      BY DEF LoadState, Goto, Recount
    <3>2. /\ Fresh.findings = {} /\ "findings" \in DOMAIN Fresh
          /\ {"state", "found", "new", "busy", "quiet"} = DOMAIN Idle
      BY SMT DEF Fresh, Idle
    <3>3. Others(r) /\ job'[r] = [Idle EXCEPT !.state = loaded, !.quiet = quiet]
      BY <3>1, SMT DEF Inv, Shapes
    <3>4. job'[r].state = loaded /\ job'[r].quiet = quiet /\ DOMAIN job'[r] = DOMAIN Idle
      BY <3>2, <3>3, SMT
    <3>5. loaded.findings = Known /\ "findings" \in DOMAIN loaded /\ Known' = Known
      <4>1. CASE disk = Torn
        BY <3>1, <3>2, <4>1 DEF Known
      <4>2. CASE disk = NoFile
        BY <3>1, <3>2, <4>2 DEF Known
      <4>3. CASE disk \notin {NoFile, Torn}
        <5>1. loaded = disk /\ disk' = disk /\ Known = disk.findings
          BY <3>1, <4>3, Zenon DEF Known
        <5>2. Known' = Known
          BY <5>1 DEF Known
        <5> QED BY <4>3, <5>1, <5>2 DEF Inv, Shapes
      <4> QED BY <4>1, <4>2, <4>3
    <3>6. pc'[r] = "processes" /\ \A q \in Runners \ {r} : pc'[q] = pc[q]
      BY <3>1, SMT DEF Inv, Shapes
    <3>. HIDE DEF loaded
    <3>7. Shapes'
      BY <3>1, <3>2, <3>3, <3>4, <3>5, SMT DEF Inv, Shapes
    <3>8. ASSUME ~overlap' PROVE Alone' /\ Accounted' /\ \A q \in Runners : Saving(q)'
      <4>1. \A q \in Runners \ {r} : pc'[q] = "idle"
        BY <3>1, <3>6, <3>8
      <4>2. Known' = Known /\ \A q \in Runners : pc[q] = "idle"
        BY <3>1, <3>5, <3>8
      <4>3. Alone'
        BY <4>1, SMT DEF Alone
      <4>4. told' \subseteq Known /\ Known \subseteq told' \cup hushed'
        <5>1. CASE UNCHANGED <<told, hushed>> /\ (overlap => overlap')
          BY <3>8, <4>2, <5>1, SMT DEF Inv, Accounted
        <5>2. CASE told' = told \cap Known /\ hushed' = Known \ told
          BY <5>2
        <5> QED BY <3>1, <5>1, <5>2
      <4>6. Accounted'
        BY <4>2, <4>4, Zenon DEF Accounted
      <4>5. \A q \in Runners : Saving(q)'
        BY <3>4, <3>5, <3>6, <4>1, SMT DEF Saving, Checking
      <4> QED BY <4>3, <4>5, <4>6
    <3> QED BY <3>7, <3>8 DEF Inv
  <2>4. ASSUME NEW r \in Runners, CheckProcesses(r) PROVE Inv'
    <3>. USE <2>4
    <3>1. /\ pc[r] = "processes" /\ pc' = [pc EXCEPT ![r] = "listeners"]
          /\ UNCHANGED <<disk, tmp, history>>
      BY DEF CheckProcesses, Goto
    <3>2. Others(r) /\ Whole(r) /\ job'[r].state.findings = job[r].state.findings
      <4>1. PICK hits, busy, found :
              job' = [job EXCEPT ![r].state.hits = hits, ![r].busy = busy, ![r].found = found]
        BY DEF CheckProcesses
      <4>2. Others(r)
        BY <4>1, SMT DEF Inv, Shapes
      <4>3. /\ job'[r].state = [job[r].state EXCEPT !.hits = hits]
            /\ job'[r].quiet = job[r].quiet /\ DOMAIN job'[r] = DOMAIN job[r]
        BY <4>1, SMT DEF Inv, Shapes
      <4> QED BY <4>2, <4>3, SMT DEF Inv, Shapes
    <3>. HIDE DEF Others, Whole
    <3> QED BY <2>1, <3>1, <3>2 DEF Checking
  <2>5. ASSUME NEW r \in Runners, CheckListeners(r) PROVE Inv'
    <3>. USE <2>5
    <3>1. /\ pc[r] = "listeners" /\ pc' = [pc EXCEPT ![r] = "peers"]
          /\ UNCHANGED <<disk, tmp, history>>
      BY DEF CheckListeners, Goto
    <3>2. Others(r) /\ Whole(r) /\ job'[r].state.findings = job[r].state.findings
      BY SMT DEF CheckListeners, Inv, Shapes
    <3>. HIDE DEF Others, Whole
    <3> QED BY <2>1, <3>1, <3>2 DEF Checking
  <2>6. ASSUME NEW r \in Runners, CheckPeers(r) PROVE Inv'
    <3>. USE <2>6
    <3>1. /\ pc[r] = "peers" /\ pc' = [pc EXCEPT ![r] = "save"]
          /\ UNCHANGED <<disk, tmp, history>>
      BY DEF CheckPeers, Goto
    <3>2. Others(r) /\ Whole(r) /\ job'[r].state.findings = job[r].state.findings
      <4>1. CASE UNCHANGED job
        BY <4>1, SMT DEF Inv, Shapes
      <4>2. ASSUME NEW ipinfo, NEW more,
                   job' = [job EXCEPT ![r].state.ipinfo = ipinfo, ![r].found = @ \cup more]
            PROVE  /\ Others(r) /\ Whole(r)
                   /\ job'[r].state.findings = job[r].state.findings
        BY <4>2, SMT DEF Inv, Shapes
      <4> QED BY <4>1, <4>2 DEF CheckPeers
    <3>. HIDE DEF Others, Whole
    <3> QED BY <2>1, <3>1, <3>2 DEF Checking
  <2>7. ASSUME NEW r \in Runners, WriteTmp(r) PROVE Inv'
    <3>. USE <2>7
    <3>. DEFINE marked == Marked(job[r].state, job[r].found)
    <3>1. /\ pc[r] = "save" /\ pc' = [pc EXCEPT ![r] = "replace"] /\ tmp' = marked
          /\ job' = [job EXCEPT ![r].new = NewOf(job[r].state, job[r].found),
                                ![r].state = marked]
          /\ UNCHANGED <<disk, told, hushed, overlap>>
      BY DEF WriteTmp, Goto, history
    <3>2. "findings" \in DOMAIN marked /\ marked.findings = job[r].found /\ marked # NoFile
      BY <1>1, SMT DEF Inv, Shapes, Marked
    <3>. HIDE DEF marked
    <3>3. /\ Others(r) /\ DOMAIN job'[r] = DOMAIN job[r] /\ job'[r].state = marked
          /\ job'[r].found = job[r].found /\ job'[r].quiet = job[r].quiet
          /\ job'[r].new = job[r].found \ job[r].state.findings
      BY <3>1, SMT DEF Inv, Shapes, NewOf
    <3>4. pc'[r] = "replace" /\ \A q \in Runners \ {r} : pc'[q] = pc[q]
      BY <3>1, SMT DEF Inv, Shapes
    <3>5. Known' = Known
      BY <3>1 DEF Known
    <3>6. Shapes'
      BY <3>1, <3>2, <3>3, SMT DEF Inv, Shapes
    <3>7. ASSUME ~overlap' PROVE Alone' /\ Accounted'
      BY <3>1, <3>3, <3>4, <3>5, <3>7, SMT DEF Inv, Alone, Accounted
    <3>8. ASSUME ~overlap', NEW q \in Runners PROVE Saving(q)'
      <4>1. q # r => pc[q] = "idle"
        BY <3>1, <3>8, SMT DEF Inv, Alone
      <4>2. Saving(r) /\ job[r].state.findings = Known
        BY <3>1, <3>8, SMT DEF Inv, Saving, Checking
      <4> QED BY <3>1, <3>2, <3>3, <3>4, <3>5, <4>1, <4>2, SMT DEF Saving, Checking
    <3> QED BY <3>6, <3>7, <3>8 DEF Inv
  <2>8. ASSUME NEW r \in Runners, Replace(r) PROVE Inv'
    <3>. USE <2>8
    <3>1. pc[r] = "replace"
      BY DEF Replace
    <3>2. CASE tmp # NoFile
      <4>1. /\ disk' = tmp /\ tmp' = NoFile /\ told' = told \cap job[r].found
            /\ hushed' = (hushed \cap job[r].found)
                         \cup (IF job[r].quiet THEN job[r].new ELSE {})
            /\ pc' = [pc EXCEPT ![r] = "notify"] /\ UNCHANGED <<job, overlap>>
        BY <3>2 DEF Replace, Goto
      <4>2. pc'[r] = "notify" /\ \A q \in Runners \ {r} : pc'[q] = pc[q]
        BY <4>1, SMT DEF Inv, Shapes
      <4>3. Shapes'
        BY <3>2, <4>1, SMT DEF Inv, Shapes
      <4>4. ASSUME ~overlap' PROVE Alone' /\ Accounted' /\ \A q \in Runners : Saving(q)'
        <5>1. \A q \in Runners \ {r} : pc[q] = "idle" /\ pc'[q] = "idle"
          BY <3>1, <4>1, <4>2, <4>4, SMT DEF Inv, Alone
        <5>2. /\ tmp.findings = job[r].found /\ job[r].new = job[r].found \ Known
              /\ told \subseteq Known
          BY <3>1, <4>1, <4>4, SMT DEF Inv, Saving, Accounted
        <5>3. Known \subseteq told \cup hushed
          BY <3>1, <4>1, <4>4, <5>1, SMT DEF Inv, Accounted
        <5>4. Known' = job[r].found
          <6>1. tmp \notin {NoFile, Torn}
            BY <1>1, <3>2 DEF Inv, Shapes
          <6> QED BY <4>1, <5>2, <6>1 DEF Known
        <5>5. Alone'
          BY <5>1, SMT DEF Alone
        <5>6. Accounted'
          BY <4>1, <4>2, <5>2, <5>3, <5>4, SMT DEF Accounted
        <5>7. Saving(r)'
          BY <4>1, <4>2, <5>2, <5>4, SMT DEF Saving, Checking
        <5>8. \A q \in Runners \ {r} : Saving(q)'
          BY <5>1, SMT DEF Saving, Checking
        <5> QED BY <5>5, <5>6, <5>7, <5>8
      <4> QED BY <4>3, <4>4 DEF Inv
    <3>3. CASE tmp = NoFile
      <4>1. Stop(r) /\ UNCHANGED <<disk, tmp, history>>
        BY <3>3 DEF Replace
      <4>2. UNCHANGED <<told, hushed, overlap>> /\ pc[r] # "idle" /\ pc[r] # "notify"
        BY <3>1, <4>1 DEF history
      <4>3. ~overlap => told' \subseteq Known
        BY <4>2, Zenon DEF Inv, Accounted
      <4> QED BY <2>2, <4>1, <4>2, <4>3
    <3> QED BY <3>2, <3>3
  <2>9. ASSUME NEW r \in Runners, Notify(r) PROVE Inv'
    <3>. USE <2>9
    <3>. DEFINE body == IF job[r].quiet THEN {} ELSE job[r].new
    <3>1. /\ pc[r] = "notify" /\ Stop(r) /\ UNCHANGED <<disk, tmp, overlap>>
          /\ \/ told' = told \cup body /\ hushed' = hushed
             \/ told' = told /\ hushed' = hushed \cup body
      BY DEF Notify
    <3>2. ASSUME ~overlap PROVE told' \subseteq Known /\ job[r].new \subseteq told' \cup hushed'
      <4>1. /\ job[r].new \subseteq Known /\ told \subseteq Known
            /\ job[r].quiet => job[r].new \subseteq hushed
        BY <3>1, <3>2, SMT DEF Inv, Saving, Accounted
      <4> QED BY <3>1, <4>1
    <3> QED BY <2>2, <3>1, <3>2
  <2>10. ASSUME NEW r \in Runners, Die(r) PROVE Inv'
    <3>. USE <2>10
    <3>1. /\ pc[r] # "idle" /\ Stop(r) /\ UNCHANGED <<disk, tmp, told, overlap>>
          /\ hushed' = hushed \cup (IF pc[r] = "notify" THEN job[r].new ELSE {})
      BY DEF Die
    <3>2. ~overlap => told' \subseteq Known
      BY <3>1, SMT DEF Inv, Accounted
    <3> QED BY <2>2, <3>1, <3>2
  <2>11. CASE PowerCut
    <3>1. /\ disk' = Torn /\ tmp' = tmp /\ told' = {} /\ overlap' = overlap
          /\ pc' = [r \in Runners |-> "idle"] /\ job' = [r \in Runners |-> Idle]
      BY <2>11 DEF PowerCut
    <3>2. \A r \in Runners : pc'[r] = "idle" /\ job'[r] = Idle
      BY <3>1
    <3>3. Known' = {}
      BY <3>1 DEF Known
    <3>4. DOMAIN pc' = Runners /\ DOMAIN job' = Runners
      BY <3>1, SMT
    <3>5. Shapes'
      BY <1>2, <3>1, <3>2, <3>4, Zenon DEF Inv, Shapes
    <3> QED BY <3>1, <3>2, <3>3, <3>5, SMT DEF Inv, Alone, Accounted, Saving, Checking
  <2>12. CASE Reinstall
    <3>1. /\ disk' = NoFile /\ tmp' = NoFile /\ told' = {} /\ overlap' = FALSE
          /\ UNCHANGED <<pc, job>> /\ \A r \in Runners : pc'[r] = "idle"
      BY <2>12 DEF Reinstall
    <3>2. Known' = {}
      BY <3>1 DEF Known
    <3>3. Shapes'
      BY <3>1, Zenon DEF Inv, Shapes
    <3> QED BY <3>1, <3>2, <3>3, SMT DEF Inv, Alone, Accounted, Saving, Checking
  <2>13. ASSUME NEW x, HostChanges(x) PROVE Inv'
    BY <2>13, SMT DEF HostChanges, Inv, Shapes, Alone, Accounted, Saving, Known, history
  <2>14. CASE UNCHANGED vars
    BY <2>14, SMT DEF vars, Inv, Shapes, Alone, Accounted, Saving, Known, history
  <2> QED BY <2>3, <2>4, <2>5, <2>6, <2>7, <2>8, <2>9, <2>10, <2>11, <2>12, <2>13, <2>14
          DEF Next, Scan
<1> QED BY <1>3, <1>4, <1>5, PTL DEF Spec

-----------------------------------------------------------------------------
(***************************************************************************)
(* Hits are counted no further than the threshold, and never below 0.      *)
(***************************************************************************)
LEMMA MinOfTwo ==
  ASSUME NEW a \in Nat, NEW b \in Nat
  PROVE  Min({a, b}) = IF a <= b THEN a ELSE b
<1>1. PICK x \in {a, b} : \A y \in {a, b} : x <= y
  BY SMT
<1>2. Min({a, b}) \in {a, b} /\ \A y \in {a, b} : Min({a, b}) <= y
  BY <1>1 DEF Min
<1> QED BY <1>2, SMT

\* Of counts the processes of an identity in a part of the host.
LEMMA OfType ==
  ASSUME NEW i, NEW part \in SUBSET Procs
  PROVE  /\ IsFiniteSet({p \in part : Identity[p] = i}) /\ Of(part, i) \in Nat
         /\ Of(part, i) = 0 <=> ~\E p \in part : Identity[p] = i
<1>. DEFINE these == {p \in part : Identity[p] = i}
<1>1. these \subseteq Procs /\ IsFiniteSet(Procs)
  BY HostWatchAssumption
<1>. HIDE DEF these
<1>2. IsFiniteSet(these)
  BY <1>1, FS_Subset
<1>3. Cardinality(these) \in Nat /\ (Cardinality(these) = 0 <=> these = {})
  BY <1>2, FS_CardinalityType, FS_EmptySet
<1> QED BY <1>2, <1>3, Zenon DEF Of, these

\* Hits after a scan stay between 0 and the threshold (state.py, bump_cpu).
LEMMA BumpInRange ==
  ASSUME NEW hits \in [Identities -> 0..Consecutive], NEW early \in SUBSET Procs,
         NEW late \in SUBSET Procs, NEW cleared
  PROVE  Bump(hits, early, late, cleared) \in [Identities -> 0..Consecutive]
<1>1. ASSUME NEW i \in Identities
      PROVE  (IF Of(early, i) + Of(late, i) = 0 THEN 0
              ELSE Min({Consecutive,
                        Of(late, i) + IF i \in cleared THEN 0 ELSE hits[i] + Of(early, i)}))
               \in 0..Consecutive
  <2>. DEFINE sum == Of(late, i) + IF i \in cleared THEN 0 ELSE hits[i] + Of(early, i)
  <2>1. Of(early, i) \in Nat /\ Of(late, i) \in Nat
    BY OfType
  <2>2. hits[i] \in Nat /\ Consecutive \in Nat
    BY HostWatchAssumption, SMT
  <2>3. sum \in Nat
    BY <2>1, <2>2, SMT
  <2>. HIDE DEF sum
  <2>4. Min({Consecutive, sum}) = IF Consecutive <= sum THEN Consecutive ELSE sum
    BY <2>2, <2>3, MinOfTwo, Zenon
  <2>5. Min({Consecutive, sum}) \in 0..Consecutive /\ 0 \in 0..Consecutive
    BY <2>2, <2>3, <2>4, SMT
  <2> QED BY <2>5 DEF sum
<1> QED BY <1>1 DEF Bump

Places == {"idle", "processes", "listeners", "peers", "save", "replace", "notify"}
Job == [state : State, found : SUBSET Findings, new : SUBSET Findings,
        busy : SUBSET Identities, quiet : BOOLEAN]

(***************************************************************************)
(* TypeOK of HostWatch.tla: the two files and each scan hold what the code *)
(* may put there, and hits stay below the threshold (state.py, scanner.py).*)
(***************************************************************************)
THEOREM TypeCorrectness == Spec => []TypeOK
<1>. USE HostWatchAssumption
<1>1. Consecutive \in Nat \ {0} /\ 0 \in 0..Consecutive
  BY SMT
<1>2. ASSUME NEW findings \in SUBSET Findings, NEW hits \in [Identities -> 0..Consecutive],
             NEW ipinfo \in [Peers -> {"none", "org", "nothing"}]
      PROVE  [findings |-> findings, hits |-> hits, ipinfo |-> ipinfo] \in State
  BY Zenon DEF State
<1>3. Fresh \in State
  <2>1. [i \in Identities |-> 0] \in [Identities -> 0..Consecutive]
    BY <1>1, Zenon
  <2>2. [a \in Peers |-> "none"] \in [Peers -> {"none", "org", "nothing"}]
    BY Zenon
  <2>3. {} \in SUBSET Findings
    OBVIOUS
  <2> QED BY <1>2, <2>1, <2>2, <2>3, Zenon DEF Fresh
<1>4. ASSUME NEW state \in State, NEW found \in SUBSET Findings, NEW new \in SUBSET Findings,
             NEW busy \in SUBSET Identities, NEW quiet \in BOOLEAN
      PROVE  [state |-> state, found |-> found, new |-> new, busy |-> busy, quiet |-> quiet]
               \in Job
  BY Zenon DEF Job
<1>5. Idle \in Job
  <2>1. {} \in SUBSET Findings /\ {} \in SUBSET Identities /\ FALSE \in BOOLEAN
    OBVIOUS
  <2> QED BY <1>3, <1>4, <2>1, Zenon DEF Idle
<1>. DEFINE Files == disk \in State \cup {NoFile, Torn} /\ tmp \in State \cup {NoFile}
            Jobs == pc \in [Runners -> Places] /\ job \in [Runners -> Job]
            Histories == /\ told \subseteq Findings /\ hushed \subseteq Findings
                         /\ streak \in [Identities -> 0..Consecutive] /\ overlap \in BOOLEAN
            Bounds == /\ changes \in 0..MaxChanges /\ faults \in 0..MaxFaults
                      /\ byhand \in 0..MaxByHand
            Host == host \subseteq Procs \cup Ports \cup Peers
<1>6. /\ TypeOK <=> Host /\ Files /\ Jobs /\ Histories /\ Bounds
      /\ TypeOK' <=> Host' /\ Files' /\ Jobs' /\ Histories' /\ Bounds'
  BY DEF TypeOK, Places, Job
<1>7. Init => TypeOK
  <2>. SUFFICES ASSUME Init PROVE TypeOK
    OBVIOUS
  <2>1. Jobs
    <3>1. "idle" \in Places
      BY DEF Places
    <3> QED BY <1>5, <3>1, Zenon DEF Init
  <2>2. streak \in [Identities -> 0..Consecutive]
    BY <1>1, Zenon DEF Init
  <2>3. Bounds
    BY SMT DEF Init
  <2> QED BY <1>6, <2>1, <2>2, <2>3 DEF Init
<1>8. TypeOK /\ [Next]_vars => TypeOK'
  <2>. SUFFICES ASSUME Host, Files, Jobs, Histories, Bounds, [Next]_vars
                PROVE  TypeOK'
    BY <1>6
  <2>1. ASSUME NEW r, NEW to \in Places, Goto(r, to) PROVE pc' \in [Runners -> Places]
    BY <2>1, Zenon DEF Goto
  <2>2. ASSUME NEW r, Stop(r) PROVE Jobs'
    <3>1. "idle" \in Places
      BY DEF Places
    <3> QED BY <1>5, <2>1, <2>2, <3>1, Zenon DEF Stop
  <2>3. ASSUME Fault \/ NoFault PROVE faults' \in 0..MaxFaults
    BY <2>3, SMT DEF Fault, NoFault
  <2>4. UNCHANGED history => Histories'
    BY DEF history
  <2>5. Places = {"idle", "processes", "listeners", "peers", "save", "replace", "notify"}
    BY DEF Places
  \* A step of a scan that only changes its local variables.
  <2>6. ASSUME NEW r \in Runners, NEW to \in Places, NEW local \in Job, Goto(r, to),
               job' = [job EXCEPT ![r] = local]
        PROVE  Jobs'
    BY <2>1, <2>6, Zenon
  <2>7. ASSUME NEW r \in Runners, NEW quiet \in BOOLEAN, LoadState(r, quiet) PROVE TypeOK'
    <3>. DEFINE loaded == IF disk \in {NoFile, Torn} THEN Fresh ELSE disk
    <3>1. loaded \in State
      BY <1>3
    <3>2. [Idle EXCEPT !.state = loaded, !.quiet = quiet] \in Job
      BY <1>5, <3>1, Zenon DEF Job
    <3>3. Jobs'
      BY <2>5, <2>6, <2>7, <3>2 DEF LoadState
    <3>4. Bounds'
      BY <2>7, SMT DEF LoadState
    <3>5. disk' \in State \cup {NoFile, Torn} /\ UNCHANGED <<host, tmp>>
      BY <2>7 DEF LoadState
    <3>6. overlap' \in BOOLEAN
      BY <2>7, Zenon DEF LoadState, Recount
    <3>7. Known \subseteq Findings
      BY DEF Known, State
    <3>8. \/ UNCHANGED <<told, hushed, streak>>
          \/ told' = told \cap Known /\ hushed' = Known \ told
             /\ streak' = [i \in Identities |-> Consecutive]
      BY <2>7, Zenon DEF LoadState, Recount
    <3>9. Consecutive \in 0..Consecutive
      BY <1>1, SMT
    <3>10. Histories'
      BY <3>6, <3>7, <3>8, <3>9, Zenon
    <3> QED BY <1>6, <3>3, <3>4, <3>5, <3>10
  <2>8. ASSUME NEW r \in Runners, CheckProcesses(r) PROVE TypeOK'
    <3>1. PICK early \in SUBSET ((host \cap Heavy) \ Allowed), cleared \in SUBSET Identities :
            LET heavy == (host \cap Heavy) \ Allowed
                flagged == UNION {Flags[p] \X {p} : p \in host \cap Procs}
                hits == job[r].state.hits
                long == Reached(hits, early, heavy \ early, cleared)
            IN job' = [job EXCEPT ![r].state.hits = Bump(hits, early, heavy \ early, cleared),
                                  ![r].busy = {Identity[p] : p \in heavy},
                                  ![r].found = flagged \cup ({"resource_unknown"} \X long)]
      <4>. DEFINE trusted == {Identity[p] : p \in host \cap Allowed}
      <4>1. trusted \in SUBSET Identities
        BY DEF Identities
      <4>2. PICK early \in SUBSET ((host \cap Heavy) \ Allowed) :
              LET heavy == (host \cap Heavy) \ Allowed
                  flagged == UNION {Flags[p] \X {p} : p \in host \cap Procs}
                  hits == job[r].state.hits
                  long == Reached(hits, early, heavy \ early, trusted)
              IN job' = [job EXCEPT ![r].state.hits = Bump(hits, early, heavy \ early, trusted),
                                    ![r].busy = {Identity[p] : p \in heavy},
                                    ![r].found = flagged \cup ({"resource_unknown"} \X long)]
        BY <2>8 DEF CheckProcesses
      <4>. HIDE DEF trusted
      <4> QED BY <4>1, <4>2, Zenon
    <3>. DEFINE heavy == (host \cap Heavy) \ Allowed
                late == heavy \ early
                hits == Bump(job[r].state.hits, early, late, cleared)
                flagged == UNION {Flags[p] \X {p} : p \in host \cap Procs}
                long == Reached(job[r].state.hits, early, late, cleared)
                busy == {Identity[p] : p \in heavy}
                found == flagged \cup ({"resource_unknown"} \X long)
    <3>11. job' = [job EXCEPT ![r].state.hits = hits, ![r].busy = busy, ![r].found = found]
      BY <3>1
    <3>2. /\ job[r] \in Job /\ job[r].state \in State
          /\ job[r].state.hits \in [Identities -> 0..Consecutive]
      BY DEF Job, State
    <3>3. hits \in [Identities -> 0..Consecutive]
      BY <3>2, BumpInRange
    <3>4. found \in SUBSET Findings
      <4>1. flagged \subseteq Kinds \X Procs
        OBVIOUS
      <4>2. {"resource_unknown"} \X long \subseteq {"resource_unknown"} \X Identities
        BY DEF Reached
      <4> QED BY <4>1, <4>2 DEF Findings
    <3>5. busy \in SUBSET Identities
      BY DEF Identities
    <3>. HIDE DEF hits, busy, found
    <3>6. [job[r].state EXCEPT !.hits = hits] \in State
      BY <3>2, <3>3, Zenon DEF State
    <3>7. [job[r] EXCEPT !.state = [job[r].state EXCEPT !.hits = hits], !.busy = busy,
                         !.found = found] \in Job
      BY <3>2, <3>4, <3>5, <3>6, Zenon DEF Job
    <3>8. job' = [job EXCEPT ![r] = [job[r] EXCEPT !.state = [job[r].state EXCEPT !.hits = hits],
                                                   !.busy = busy, !.found = found]]
      BY <3>2, <3>11, Zenon
    <3>9. Jobs'
      BY <2>5, <2>6, <2>8, <3>7, <3>8 DEF CheckProcesses
    <3> QED BY <1>6, <2>4, <2>8, <3>9 DEF CheckProcesses
  <2>9. ASSUME NEW r \in Runners, CheckListeners(r) PROVE TypeOK'
    <3>1. PICK more \in SUBSET Findings :
            job' = [job EXCEPT ![r].found = @ \cup more] \/ job' = job
      <4>1. {"listener"} \X (host \cap Ports) \in SUBSET Findings
        BY DEF Findings
      <4> QED BY <2>9, <4>1 DEF CheckListeners
    <3>2. job' \in [Runners -> Job]
      <4>1. [job[r] EXCEPT !.found = @ \cup more] \in Job
        BY Zenon DEF Job
      <4>2. job' = [job EXCEPT ![r] = [job[r] EXCEPT !.found = @ \cup more]] \/ job' = job
        BY <3>1, Zenon
      <4> QED BY <4>1, <4>2, Zenon
    <3>3. Jobs' /\ Bounds'
      BY <2>1, <2>3, <2>5, <2>9, <3>2 DEF CheckListeners
    <3> QED BY <1>6, <2>4, <2>9, <3>3 DEF CheckListeners
  <2>10. ASSUME NEW r \in Runners, CheckPeers(r) PROVE TypeOK'
    <3>1. PICK ipinfo \in [Peers -> {"none", "org", "nothing"}], more \in SUBSET Findings :
            \/ job' = [job EXCEPT ![r].state.ipinfo = ipinfo, ![r].found = @ \cup more]
            \/ job' = job
      <4>1. CASE UNCHANGED job
        <5>1. {} \in SUBSET Findings /\ Fresh.ipinfo \in [Peers -> {"none", "org", "nothing"}]
          BY <1>3 DEF State
        <5> QED BY <4>1, <5>1
      <4>2. CASE ~UNCHANGED job
        <5>. DEFINE old == job[r].state.ipinfo
        <5>1. PICK cached, failed, ipinfo :
                /\ ipinfo = lookup_ipinfo(old, cached, failed)
                /\ job' = [job EXCEPT ![r].state.ipinfo = ipinfo,
                                      ![r].found = @ \cup PeerFindings(ipinfo)]
          BY <2>10, <4>2 DEF CheckPeers
        <5>2. old \in [Peers -> {"none", "org", "nothing"}]
          BY DEF Job, State
        <5>3. ipinfo \in [Peers -> {"none", "org", "nothing"}]
          BY <5>1, <5>2 DEF lookup_ipinfo
        <5>4. PeerFindings(ipinfo) \in SUBSET Findings
          <6>1. PeerFindings(ipinfo) \subseteq {"peer"} \X Peers \X {"org", "unknown"}
            BY DEF PeerFindings
          <6> QED BY <6>1, Zenon DEF Findings
        <5> QED BY <5>1, <5>3, <5>4
      <4> QED BY <4>1, <4>2
    <3>2. job' \in [Runners -> Job]
      <4>. DEFINE state == [job[r].state EXCEPT !.ipinfo = ipinfo]
                  local == [job[r] EXCEPT !.state = state, !.found = @ \cup more]
      <4>1. state \in State
        <5>1. job[r].state \in State
          BY DEF Job
        <5> QED BY <5>1, Zenon DEF State
      <4>. HIDE DEF state
      <4>2. local \in Job
        BY <4>1, Zenon DEF Job
      <4>3. job' = [job EXCEPT ![r] = local] \/ job' = job
        BY <3>1, Zenon DEF state
      <4> QED BY <4>2, <4>3, Zenon
    <3>3. Jobs' /\ Bounds'
      BY <2>1, <2>3, <2>5, <2>10, <3>2 DEF CheckPeers
    <3> QED BY <1>6, <2>4, <2>10, <3>3 DEF CheckPeers
  <2>11. ASSUME NEW r \in Runners, WriteTmp(r) PROVE TypeOK'
    <3>. DEFINE marked == Marked(job[r].state, job[r].found)
                local == [job[r] EXCEPT !.new = NewOf(job[r].state, job[r].found),
                                        !.state = marked]
    <3>1. marked \in State
      <4>1. job[r].state \in State /\ job[r].found \in SUBSET Findings
        BY DEF Job
      <4> QED BY <4>1, Zenon DEF Marked, State
    <3>2. NewOf(job[r].state, job[r].found) \in SUBSET Findings
      BY DEF NewOf, Job
    <3>. HIDE DEF marked
    <3>3. local \in Job
      BY <3>1, <3>2, Zenon DEF Job
    <3>4. job' = [job EXCEPT ![r] = local] /\ tmp' = marked
      BY <2>11, Zenon DEF WriteTmp, marked
    <3>5. Jobs'
      BY <2>5, <2>6, <2>11, <3>3, <3>4 DEF WriteTmp
    <3> QED BY <1>6, <2>4, <2>11, <3>1, <3>4, <3>5 DEF WriteTmp
  <2>12. ASSUME NEW r \in Runners, Replace(r) PROVE TypeOK'
    <3>1. CASE tmp = NoFile /\ Stop(r) /\ UNCHANGED <<disk, tmp, history>>
      BY <1>6, <2>2, <2>4, <2>12, <3>1 DEF Replace
    <3>2. CASE /\ tmp # NoFile /\ disk' = tmp /\ tmp' = NoFile /\ told' = told \cap job[r].found
               /\ hushed' = (hushed \cap job[r].found)
                            \cup (IF job[r].quiet THEN job[r].new ELSE {})
               /\ streak' = [i \in Identities |->
                    IF i \in job[r].busy THEN Min({Consecutive, streak[i] + 1}) ELSE 0]
               /\ Goto(r, "notify") /\ UNCHANGED <<job, overlap>>
      <4>1. told' \subseteq Findings /\ hushed' \subseteq Findings
        BY <3>2 DEF Job
      <4>2. ASSUME NEW i \in Identities PROVE Min({Consecutive, streak[i] + 1}) \in 0..Consecutive
        <5>1. streak[i] + 1 \in Nat /\ Consecutive \in Nat
          BY <1>1, SMT
        <5>2. Min({Consecutive, streak[i] + 1})
                = IF Consecutive <= streak[i] + 1 THEN Consecutive ELSE streak[i] + 1
          BY <5>1, MinOfTwo, Zenon
        <5> QED BY <5>1, <5>2, SMT
      <4>3. streak' \in [Identities -> 0..Consecutive]
        BY <1>1, <3>2, <4>2
      <4>4. Jobs'
        BY <2>1, <2>5, <3>2
      <4> QED BY <1>6, <2>12, <3>2, <4>1, <4>3, <4>4 DEF Replace
    <3> QED BY <2>12, <3>1, <3>2 DEF Replace
  <2>13. ASSUME NEW r \in Runners, Notify(r) PROVE TypeOK'
    <3>1. told' \subseteq Findings /\ hushed' \subseteq Findings
      BY <2>13 DEF Notify, Job
    <3>2. faults' \in 0..MaxFaults
      BY <2>3, <2>13 DEF Notify
    <3> QED BY <1>6, <2>2, <2>13, <3>1, <3>2 DEF Notify
  <2>14. ASSUME NEW r \in Runners, Die(r) PROVE TypeOK'
    <3>1. hushed' \subseteq Findings
      BY <2>14 DEF Die, Job
    <3>2. faults' \in 0..MaxFaults
      BY <2>3, <2>14 DEF Die
    <3> QED BY <1>6, <2>2, <2>14, <3>1, <3>2 DEF Die
  <2>15. CASE PowerCut
    <3>1. Jobs'
      BY <1>5, <2>5, <2>15, Zenon DEF PowerCut
    <3>2. streak' \in [Identities -> 0..Consecutive]
      BY <1>1, <2>15, Zenon DEF PowerCut
    <3>3. faults' \in 0..MaxFaults
      BY <2>3, <2>15 DEF PowerCut
    <3> QED BY <1>6, <2>15, <3>1, <3>2, <3>3 DEF PowerCut
  <2>16. CASE Reinstall
    <3>1. streak' \in [Identities -> 0..Consecutive]
      BY <1>1, <2>16, Zenon DEF Reinstall
    <3> QED BY <1>6, <2>16, <3>1 DEF Reinstall
  <2>17. ASSUME NEW x \in Procs \cup Ports \cup Peers, HostChanges(x) PROVE TypeOK'
    <3>1. changes' \in 0..MaxChanges
      BY <2>17, SMT DEF HostChanges
    <3>2. Host'
      BY <2>17 DEF HostChanges
    <3> QED BY <1>6, <2>4, <2>17, <3>1, <3>2 DEF HostChanges
  <2>18. CASE UNCHANGED vars
    BY <1>6, <2>18 DEF vars
  <2> QED BY <2>7, <2>8, <2>9, <2>10, <2>11, <2>12, <2>13, <2>14, <2>15, <2>16, <2>17, <2>18
          DEF Next, Scan
<1> QED BY <1>7, <1>8, PTL DEF Spec

-----------------------------------------------------------------------------
Twins(i) == Of(Heavy \ Allowed, i)

\* Hits, and a finding of them, that so many scans in a row account for.
Earned(hits, findings, scans) ==
  \A i \in Identities :
    /\ hits[i] <= Twins(i) * scans[i]
    /\ <<"resource_unknown", i>> \in findings => Twins(i) * scans[i] >= Consecutive

\* The scans in a row, when this one is saved.
StreakThen(busy) ==
  [i \in Identities |-> IF i \in busy THEN Min({Consecutive, streak[i] + 1}) ELSE 0]

\* What a scan that runs alone has counted, by how far it is.
Counted(r) ==
  /\ pc[r] = "processes" => Earned(job[r].state.hits, {}, streak)
  /\ pc[r] \in {"listeners", "peers", "save", "replace"} =>
       Earned(job[r].state.hits, job[r].found, StreakThen(job[r].busy))
  /\ pc[r] = "replace" => tmp = job[r].state /\ tmp.findings = job[r].found

LoadInv ==
  ~overlap => /\ Alone /\ \A r \in Runners : Counted(r)
              /\ disk \in State => Earned(disk.hits, disk.findings, streak)

\* Hits and findings of load are of identities that some unknown process may load.
Possible(hits, findings) ==
  \A i \in Identities :
    hits[i] > 0 \/ <<"resource_unknown", i>> \in findings => Twins(i) >= 1

\* That they are holds also while scans run next to each other.
OnlyUnknown ==
  /\ disk \in State => Possible(disk.hits, disk.findings)
  /\ tmp \in State => Possible(tmp.hits, tmp.findings)
  /\ \A r \in Runners : /\ Possible(job[r].state.hits, job[r].state.findings)
                         /\ Possible(job[r].state.hits, job[r].found)

(***************************************************************************)
(* One scan counts an identity at most once for each of its processes, and *)
(* reports it only with as many counts as the threshold (state.py,         *)
(* bump_cpu, clear_cpu and prune_cpu).                                     *)
(***************************************************************************)
LEMMA OneScan ==
  ASSUME NEW heavy \in SUBSET (Heavy \ Allowed), NEW early \in SUBSET heavy, NEW cleared,
         NEW i \in Identities, NEW hits, hits[i] \in 0..Consecutive, NEW scans \in Nat,
         hits[i] <= Twins(i) * scans
  PROVE  LET then == IF i \in {Identity[p] : p \in heavy}
                     THEN Min({Consecutive, scans + 1}) ELSE 0
         IN /\ Bump(hits, early, heavy \ early, cleared)[i] <= Twins(i) * then
            /\ i \in Reached(hits, early, heavy \ early, cleared) =>
                 Twins(i) * then >= Consecutive
<1>. USE HostWatchAssumption
<1>. DEFINE e == Of(early, i)
            l == Of(heavy \ early, i)
            h == hits[i]
            t == Twins(i)
            sum == l + IF i \in cleared THEN 0 ELSE h + e
            here == i \in {Identity[p] : p \in heavy}
            then == IF here THEN Min({Consecutive, scans + 1}) ELSE 0
            bump == Bump(hits, early, heavy \ early, cleared)[i]
            reached == i \in Reached(hits, early, heavy \ early, cleared)
<1>1. e \in Nat /\ l \in Nat /\ t \in Nat
  BY OfType DEF Twins
<1>2. e + l <= t
  <2>. DEFINE a == {p \in early : Identity[p] = i}
              b == {p \in heavy \ early : Identity[p] = i}
              all == {p \in Heavy \ Allowed : Identity[p] = i}
  <2>1. IsFiniteSet(a) /\ IsFiniteSet(b) /\ IsFiniteSet(all)
    BY OfType
  <2>2. a \cap b = {} /\ a \cup b \subseteq all
    OBVIOUS
  <2>3. e = Cardinality(a) /\ l = Cardinality(b) /\ t = Cardinality(all)
    BY DEF Of, Twins
  <2>. HIDE DEF a, b, all, e, l, t
  <2>4. Cardinality(a \cup b) = Cardinality(a) + Cardinality(b) - Cardinality(a \cap b)
    BY <2>1, FS_Union
  <2>5. Cardinality(a \cap b) = 0
    BY <2>2, FS_EmptySet
  <2>6. Cardinality(a \cup b) <= Cardinality(all)
    BY <2>1, <2>2, FS_Subset
  <2> QED BY <1>1, <2>3, <2>4, <2>5, <2>6, SMT
<1>3. here <=> e + l # 0
  <2>1. here <=> (\E p \in early : Identity[p] = i) \/ (\E p \in heavy \ early : Identity[p] = i)
    OBVIOUS
  <2>2. /\ e = 0 <=> ~\E p \in early : Identity[p] = i
        /\ l = 0 <=> ~\E p \in heavy \ early : Identity[p] = i
    BY OfType
  <2>. HIDE DEF here, e, l
  <2> QED BY <1>1, <2>1, <2>2, SMT
<1>4. h \in Nat /\ Consecutive \in Nat /\ h <= t * scans
  BY SMT
<1>5. bump = IF e + l = 0 THEN 0 ELSE Min({Consecutive, sum})
  BY DEF Bump
<1>6. reached => e + l # 0 /\ (h + e >= Consecutive \/ sum >= Consecutive)
  <2>1. reached => \/ e > 0 /\ h + e >= Consecutive
                   \/ l > 0 /\ sum >= Consecutive
    BY DEF Reached
  <2>. HIDE DEF reached, h, e, l, sum
  <2> QED BY <1>1, <2>1, SMT
<1>7. sum \in Nat /\ sum <= h + e + l
  <2>. HIDE DEF h, e, l
  <2> QED BY <1>1, <1>4, SMT
<1>8. then = IF ~here THEN 0 ELSE IF Consecutive <= scans + 1 THEN Consecutive ELSE scans + 1
  <2>1. scans + 1 \in Nat
    OBVIOUS
  <2> QED BY <1>4, <2>1, MinOfTwo, Zenon
<1>9. Min({Consecutive, sum}) = IF Consecutive <= sum THEN Consecutive ELSE sum
  <2>. HIDE DEF sum
  <2> QED BY <1>4, <1>7, MinOfTwo, Zenon
<1>. SUFFICES bump <= t * then /\ (reached => t * then >= Consecutive)
  BY Zenon
<1>. HIDE DEF e, l, h, t, sum, here, then, bump, reached
<1>10. t * (scans + 1) = t * scans + t /\ t * scans \in Nat /\ t * 0 = 0
  BY <1>1, SMT
<1>11. e + l # 0 => t >= 1 /\ Consecutive <= t * Consecutive
  BY <1>1, <1>2, <1>4, SMT
<1>12. h + e + l <= t * (scans + 1) /\ h + e <= t * (scans + 1)
  BY <1>1, <1>2, <1>4, <1>10, SMT
<1>13. CASE e + l = 0
  BY <1>3, <1>5, <1>6, <1>8, <1>10, <1>13, SMT
<1>14. CASE e + l # 0 /\ Consecutive <= scans + 1
  <2>1. then = Consecutive /\ t * then = t * Consecutive
    BY <1>3, <1>8, <1>14
  <2>2. bump <= Consecutive
    BY <1>4, <1>5, <1>7, <1>9, <1>14, SMT
  <2>3. t * Consecutive \in Nat /\ bump \in Nat
    BY <1>1, <1>4, <1>5, <1>7, <1>9, SMT
  <2> QED BY <1>4, <1>11, <1>14, <2>1, <2>2, <2>3, SMT
<1>15. CASE e + l # 0 /\ ~(Consecutive <= scans + 1)
  <2>1. then = scans + 1 /\ t * then = t * (scans + 1)
    BY <1>3, <1>8, <1>15
  <2>2. bump <= sum /\ bump \in Nat
    BY <1>4, <1>5, <1>7, <1>9, <1>15, SMT
  <2>3. t * (scans + 1) \in Nat
    BY <1>1, <1>10, SMT
  <2> QED BY <1>1, <1>4, <1>6, <1>7, <1>12, <2>1, <2>2, <2>3, SMT
<1> QED BY <1>13, <1>14, <1>15

(***************************************************************************)
(* A scan counts, and finds, only identities of unknown processes that are *)
(* above a threshold now (scanner.py, check_processes).                    *)
(***************************************************************************)
LEMMA OnlyBusy ==
  ASSUME NEW heavy \in SUBSET (Heavy \ Allowed), NEW early \in SUBSET heavy, NEW cleared,
         NEW hits, NEW i \in Identities,
         \/ Bump(hits, early, heavy \ early, cleared)[i] > 0
         \/ i \in Reached(hits, early, heavy \ early, cleared)
  PROVE  Twins(i) >= 1
<1>. USE HostWatchAssumption
<1>1. Of(early, i) \in Nat /\ Of(heavy \ early, i) \in Nat /\ Twins(i) \in Nat
  BY OfType DEF Twins
<1>2. Of(early, i) # 0 \/ Of(heavy \ early, i) # 0
  <2>1. CASE Bump(hits, early, heavy \ early, cleared)[i] > 0
    <3>1. Of(early, i) + Of(heavy \ early, i) # 0
      BY <2>1, SMT DEF Bump
    <3> QED BY <1>1, <3>1, SMT
  <2>2. CASE i \in Reached(hits, early, heavy \ early, cleared)
    <3>1. Of(early, i) > 0 \/ Of(heavy \ early, i) > 0
      BY <2>2 DEF Reached
    <3> QED BY <1>1, <3>1, SMT
  <2> QED BY <2>1, <2>2
<1>3. \E p \in Heavy \ Allowed : Identity[p] = i
  <2>1. (\E p \in early : Identity[p] = i) \/ (\E p \in heavy \ early : Identity[p] = i)
    BY <1>2, OfType
  <2> QED BY <2>1
<1>4. Twins(i) # 0
  BY <1>3, OfType DEF Twins
<1> QED BY <1>1, <1>4, SMT

(***************************************************************************)
(* LoadTakesScans of HostWatch.tla: a load that one process alone can      *)
(* cause is reported after as many scans in a row as promised, and hits    *)
(* never outlive the scan that did not see them (state.py, bump_cpu and    *)
(* prune_cpu).  LoadInv says it for any number of processes of an          *)
(* identity, each of which counts in every scan.                           *)
(***************************************************************************)
THEOREM LoadTakesScansHolds == Spec => []LoadTakesScans
<1>. USE HostWatchAssumption
<1>1. NoFile \notin State /\ Torn \notin State /\ NoFile # Torn
  <2>1. "file" \in DOMAIN NoFile /\ "file" \in DOMAIN Torn /\ NoFile.file # Torn.file
    BY SMT DEF NoFile, Torn
  <2>2. ASSUME NEW x \in State PROVE "file" \notin DOMAIN x
    BY <2>2 DEF State
  <2> QED BY <2>1, <2>2
<1>2. ASSUME NEW i \in Identities PROVE Twins(i) \in Nat
  BY OfType DEF Twins
<1>3. ASSUME NEW scans \in [Identities -> 0..Consecutive] PROVE Earned(Fresh.hits, {}, scans)
  <2>1. ASSUME NEW i \in Identities PROVE Fresh.hits[i] = 0 /\ Twins(i) * scans[i] >= 0
    <3>1. Fresh.hits[i] = 0
      BY DEF Fresh
    <3>2. scans[i] \in Nat /\ Twins(i) \in Nat
      BY <1>2, SMT
    <3>. DEFINE a == Twins(i)
                b == scans[i]
    <3>3. a \in Nat /\ b \in Nat
      BY <3>2
    <3>. HIDE DEF a, b
    <3>4. a * b >= 0
      BY <3>3, SMT
    <3> QED BY <3>1, <3>4 DEF a, b
  <2> QED BY <2>1 DEF Earned
<1>4. TypeOK /\ Init => LoadInv
  <2>. SUFFICES ASSUME TypeOK, Init PROVE LoadInv
    OBVIOUS
  <2>1. (\A r \in Runners : pc[r] = "idle") /\ disk = NoFile
    BY DEF Init
  <2> QED BY <1>1, <2>1 DEF LoadInv, Alone, Counted
<1>5. TypeOK /\ LoadInv => LoadTakesScans
  <2>. SUFFICES ASSUME TypeOK, LoadInv, disk \in State, ~overlap,
                       NEW i \in Identities, Twins(i) <= 1
                PROVE  /\ disk.hits[i] <= streak[i]
                       /\ <<"resource_unknown", i>> \in disk.findings
                            => streak[i] >= Consecutive
    BY DEF LoadTakesScans, Twins
  <2>. DEFINE t == Twins(i)
              n == streak[i]
  <2>1. t \in Nat /\ t <= 1 /\ n \in Nat
    BY <1>2 DEF TypeOK
  <2>2. /\ disk.hits[i] <= t * n
        /\ <<"resource_unknown", i>> \in disk.findings => t * n >= Consecutive
    BY DEF LoadInv, Earned
  <2>3. disk.hits[i] \in Nat
    BY DEF State
  <2>. HIDE DEF t, n
  <2>4. t * n <= n
    <3>1. t = 0 \/ t = 1
      BY <2>1
    <3> QED BY <2>1, <3>1
  <2>5. t * n \in Nat
    BY <2>1
  <2>6. disk.hits[i] <= n /\ (<<"resource_unknown", i>> \in disk.findings => n >= Consecutive)
    BY <2>1, <2>2, <2>3, <2>4, <2>5
  <2> QED BY <2>6 DEF n
<1>6. TypeOK /\ TypeOK' /\ OnlyUnknown /\ LoadInv /\ [Next]_vars => LoadInv'
  <2>. SUFFICES ASSUME TypeOK, TypeOK', OnlyUnknown, LoadInv, [Next]_vars, ~overlap'
                PROVE  LoadInv'
    BY DEF LoadInv
  <2>1. ASSUME NEW q \in Runners, UNCHANGED <<tmp, streak>>, pc'[q] = pc[q], job'[q] = job[q],
               Counted(q)
        PROVE  Counted(q)'
    BY <2>1 DEF Counted, Earned, StreakThen
  <2>2. ASSUME NEW q \in Runners, pc'[q] \in {"idle", "notify"} PROVE Counted(q)'
    BY <2>2 DEF Counted
  <2>3. pc \in [Runners -> Places] /\ job \in [Runners -> Job]
    BY DEF TypeOK, Places, Job
  \* A step of a scan that leaves the files alone.
  <2>4. ASSUME NEW r \in Runners, NEW to, Goto(r, to), ~overlap, UNCHANGED <<disk, streak, tmp>>,
               \A q \in Runners \ {r} : pc[q] = "idle" \/ to = "idle",
               \A q \in Runners \ {r} : pc[q] # "idle" => job'[q] = job[q], Counted(r)'
        PROVE  LoadInv'
    <3>1. pc'[r] = to /\ \A q \in Runners \ {r} : pc'[q] = pc[q]
      BY <2>3, <2>4 DEF Goto
    <3>2. Alone'
      BY <2>4, <3>1 DEF LoadInv, Alone
    <3>3. \A q \in Runners : Counted(q)'
      BY <2>1, <2>2, <2>4, <3>1 DEF LoadInv
    <3>4. disk' \in State => Earned(disk'.hits, disk'.findings, streak)
      BY <2>4 DEF LoadInv, Earned
    <3> QED BY <2>4, <3>2, <3>3 DEF LoadInv, Earned
  <2>5. ASSUME NEW r \in Runners, NEW quiet \in BOOLEAN, LoadState(r, quiet) PROVE LoadInv'
    <3>. DEFINE loaded == IF disk \in {NoFile, Torn} THEN Fresh ELSE disk
    <3>1. /\ pc[r] = "idle" /\ Goto(r, "processes") /\ UNCHANGED tmp
          /\ job' = [job EXCEPT ![r] = [Idle EXCEPT !.state = loaded, !.quiet = quiet]]
          /\ disk' = IF disk = Torn THEN NoFile ELSE disk
          /\ \A q \in Runners \ {r} : pc[q] = "idle"
          /\ IF overlap THEN streak' = [i \in Identities |-> Consecutive]
             ELSE UNCHANGED streak
      BY <2>5 DEF LoadState, Recount
    <3>9. streak' \in [Identities -> 0..Consecutive]
      BY DEF TypeOK
    <3>10. disk \in State => Earned(disk.hits, disk.findings, streak')
      <4>1. CASE ~overlap
        BY <3>1, <4>1 DEF LoadInv
      <4>2. ASSUME overlap, disk \in State, NEW i \in Identities
            PROVE  /\ disk.hits[i] <= Twins(i) * streak'[i]
                   /\ <<"resource_unknown", i>> \in disk.findings =>
                        Twins(i) * streak'[i] >= Consecutive
        <5>. DEFINE t == Twins(i)
                    h == disk.hits[i]
                    known == <<"resource_unknown", i>> \in disk.findings
        <5>1. streak'[i] = Consecutive /\ h \in 0..Consecutive /\ Consecutive \in Nat
          BY <3>1, <4>2, SMT DEF State
        <5>2. t \in Nat
          BY <1>2
        <5>3. h > 0 \/ known => t >= 1
          BY <4>2 DEF OnlyUnknown, Possible
        <5>. HIDE DEF t, h, known
        <5>4. h <= t * Consecutive /\ (known => t * Consecutive >= Consecutive)
          <6>1. t >= 1 => t * Consecutive >= Consecutive
            BY <5>1, <5>2, SMT
          <6>2. t * Consecutive \in Nat
            BY <5>1, <5>2, SMT
          <6> QED BY <5>1, <5>3, <6>1, <6>2, SMT
        <5> QED BY <5>1, <5>4 DEF t, h, known
      <4> QED BY <4>1, <4>2 DEF Earned
    <3>2. \A q \in Runners \ {r} : pc'[q] = "idle"
      BY <2>3, <3>1 DEF Goto
    <3>3. pc'[r] = "processes" /\ job'[r].state = loaded
      BY <2>3, <3>1 DEF Goto, Idle
    <3>4. Earned(loaded.hits, {}, streak')
      <4>1. CASE disk \in {NoFile, Torn}
        BY <1>3, <3>9, <4>1
      <4>2. CASE disk \notin {NoFile, Torn}
        BY <3>10, <4>2 DEF TypeOK, Earned
      <4> QED BY <4>1, <4>2
    <3>5. Counted(r)'
      BY <3>1, <3>3, <3>4 DEF Counted, Earned
    <3>6. Alone' /\ \A q \in Runners : Counted(q)'
      BY <2>2, <3>2, <3>5 DEF Alone
    <3>7. disk' \in State => disk' = disk
      BY <1>1, <3>1
    <3>8. disk' \in State => Earned(disk'.hits, disk'.findings, streak')
      BY <3>7, <3>10
    <3> QED BY <3>6, <3>8 DEF LoadInv, Earned
  <2>6. ASSUME NEW r \in Runners, pc[r] # "idle", ~overlap
        PROVE  Counted(r) /\ \A q \in Runners \ {r} : pc[q] = "idle"
    BY <2>6 DEF LoadInv, Alone
  <2>7. ASSUME NEW r \in Runners, CheckProcesses(r) PROVE LoadInv'
    <3>. DEFINE heavy == (host \cap Heavy) \ Allowed
                busy == {Identity[p] : p \in heavy}
    <3>1. /\ pc[r] = "processes" /\ ~overlap /\ Goto(r, "listeners")
          /\ UNCHANGED <<disk, tmp, streak>>
      BY <2>7 DEF CheckProcesses, history
    <3>2. PICK early \in SUBSET heavy, cleared \in SUBSET Identities,
              flagged \in SUBSET (Kinds \X Procs) :
            LET hits == job[r].state.hits
                long == Reached(hits, early, heavy \ early, cleared)
            IN job' = [job EXCEPT ![r].state.hits = Bump(hits, early, heavy \ early, cleared),
                                  ![r].busy = busy,
                                  ![r].found = flagged \cup ({"resource_unknown"} \X long)]
      <4>. DEFINE found == UNION {Flags[p] \X {p} : p \in host \cap Procs}
                  hits == job[r].state.hits
                  trusted == {Identity[p] : p \in host \cap Allowed}
      <4>1. found \in SUBSET (Kinds \X Procs)
        OBVIOUS
      <4>3. trusted \in SUBSET Identities /\ {Identity[p] : p \in heavy} \in SUBSET Identities
        BY HostWatchAssumption DEF Identities
      <4>2. PICK early \in SUBSET heavy :
              job' = [job EXCEPT ![r].state.hits = Bump(hits, early, heavy \ early, trusted),
                                 ![r].busy = {Identity[p] : p \in heavy},
                                 ![r].found = found \cup ({"resource_unknown"}
                                    \X Reached(hits, early, heavy \ early, trusted))]
        BY <2>7 DEF CheckProcesses
      <4>. HIDE DEF found, hits, trusted, heavy
      <4> QED BY <4>1, <4>2, <4>3, Zenon DEF hits, busy
    <3>. DEFINE hits == Bump(job[r].state.hits, early, heavy \ early, cleared)
                long == Reached(job[r].state.hits, early, heavy \ early, cleared)
    <3>11. job' = [job EXCEPT ![r].state.hits = hits, ![r].busy = busy,
                              ![r].found = flagged \cup ({"resource_unknown"} \X long)]
      BY <3>2
    <3>12. heavy \in SUBSET (Heavy \ Allowed) /\ early \in SUBSET heavy
      OBVIOUS
    <3>13. \A i \in Identities :
             StreakThen(busy)[i] = IF i \in {Identity[p] : p \in heavy}
                                   THEN Min({Consecutive, streak[i] + 1}) ELSE 0
      BY DEF StreakThen
    <3>14. busy \subseteq Identities /\ \A i \in Identities : streak[i] \in Nat
      BY DEF Identities, TypeOK
    <3>15. ASSUME NEW i \in Identities, job[r].state.hits[i] \in 0..Consecutive,
                  job[r].state.hits[i] <= Twins(i) * streak[i]
           PROVE  /\ hits[i] <= Twins(i) * StreakThen(busy)[i]
                  /\ i \in long => Twins(i) * StreakThen(busy)[i] >= Consecutive
      <4>. HIDE DEF heavy
      <4> QED BY <3>12, <3>13, <3>14, <3>15, OneScan
    <3>. HIDE DEF heavy, hits, busy, long
    <3>3. job[r] \in Job /\ job[r].state \in State
          /\ job[r].state.hits \in [Identities -> 0..Consecutive]
      BY <2>3 DEF Job, State
    <3>4. /\ job'[r].state.hits = hits /\ job'[r].busy = busy
          /\ job'[r].found = flagged \cup ({"resource_unknown"} \X long)
          /\ \A q \in Runners \ {r} : job'[q] = job[q]
      BY <2>3, <3>3, <3>11 DEF Job, State
    <3>5. pc'[r] = "listeners"
      BY <2>3, <3>1 DEF Goto
    <3>6. ASSUME NEW i \in Identities
          PROVE  /\ hits[i] <= Twins(i) * StreakThen(busy)[i]
                 /\ <<"resource_unknown", i>> \in job'[r].found =>
                      Twins(i) * StreakThen(busy)[i] >= Consecutive
      <4>1. job[r].state.hits[i] \in 0..Consecutive
        BY <3>3
      <4>2. job[r].state.hits[i] <= Twins(i) * streak[i]
        BY <2>6, <3>1 DEF Counted, Earned
      <4>3. <<"resource_unknown", i>> \in job'[r].found => i \in long
        <5>1. <<"resource_unknown", i>> \notin Kinds \X Procs
          BY DEF Kinds
        <5> QED BY <3>4, <5>1
      <4> QED BY <3>15, <4>1, <4>2, <4>3
    <3>7. Earned(job'[r].state.hits, job'[r].found, StreakThen(busy))
      BY <3>4, <3>6 DEF Earned
    <3>8. Counted(r)'
      BY <3>1, <3>4, <3>5, <3>7 DEF Counted, Earned, StreakThen
    <3> QED BY <2>4, <2>6, <3>1, <3>4, <3>8
  \* The checks that follow find nothing about load.
  <2>8. ASSUME NEW r \in Runners, NEW to \in {"peers", "save"}, pc[r] \in {"listeners", "peers"},
               Goto(r, to), ~overlap, UNCHANGED <<disk, tmp, streak>>,
               job'[r].state.hits = job[r].state.hits, job'[r].busy = job[r].busy,
               NEW more, job'[r].found = job[r].found \cup more,
               \A i \in Identities : <<"resource_unknown", i>> \notin more,
               \A q \in Runners \ {r} : job'[q] = job[q]
        PROVE  LoadInv'
    <3>1. pc'[r] = to
      BY <2>3, <2>8 DEF Goto
    <3>2. Earned(job[r].state.hits, job[r].found, StreakThen(job[r].busy))
      BY <2>6, <2>8 DEF Counted
    <3>3. Earned(job'[r].state.hits, job'[r].found, StreakThen(job[r].busy))
      BY <2>8, <3>2 DEF Earned
    <3>4. Counted(r)'
      BY <2>8, <3>1, <3>3 DEF Counted, Earned, StreakThen
    <3> QED BY <2>4, <2>6, <2>8, <3>4
  <2>9. ASSUME NEW r \in Runners, CheckListeners(r) PROVE LoadInv'
    <3>1. /\ pc[r] = "listeners" /\ ~overlap /\ Goto(r, "peers")
          /\ UNCHANGED <<disk, tmp, streak>>
      BY <2>9 DEF CheckListeners, history
    <3>2. PICK more \in SUBSET ({"listener"} \X Ports) :
            job' = [job EXCEPT ![r].found = @ \cup more] \/ (job' = job /\ more = {})
      <4>1. {"listener"} \X (host \cap Ports) \in SUBSET ({"listener"} \X Ports)
            /\ {} \in SUBSET ({"listener"} \X Ports)
        OBVIOUS
      <4> QED BY <2>9, <4>1 DEF CheckListeners
    <3>3. /\ job'[r].state.hits = job[r].state.hits /\ job'[r].busy = job[r].busy
          /\ job'[r].found = job[r].found \cup more /\ \A q \in Runners \ {r} : job'[q] = job[q]
      BY <2>3, <3>2 DEF Job
    <3>4. \A i \in Identities : <<"resource_unknown", i>> \notin more
      OBVIOUS
    <3> QED BY <2>8, <3>1, <3>3, <3>4
  <2>10. ASSUME NEW r \in Runners, CheckPeers(r) PROVE LoadInv'
    <3>1. /\ pc[r] = "peers" /\ ~overlap /\ Goto(r, "save")
          /\ UNCHANGED <<disk, tmp, streak>>
      BY <2>10 DEF CheckPeers, history
    <3>2. PICK ipinfo, more :
            /\ job' = [job EXCEPT ![r].state.ipinfo = ipinfo, ![r].found = @ \cup more]
               \/ (job' = job /\ more = {})
            /\ more = {} \/ more = PeerFindings(ipinfo)
      BY <2>10 DEF CheckPeers
    <3>3. /\ job'[r].state.hits = job[r].state.hits /\ job'[r].busy = job[r].busy
          /\ job'[r].found = job[r].found \cup more /\ \A q \in Runners \ {r} : job'[q] = job[q]
      <4>1. job[r] \in Job /\ job[r].state \in State
        BY <2>3 DEF Job
      <4> QED BY <2>3, <3>2, <4>1 DEF Job, State
    <3>4. \A i \in Identities : <<"resource_unknown", i>> \notin more
      BY <3>2 DEF PeerFindings
    <3> QED BY <2>8, <3>1, <3>3, <3>4
  <2>11. ASSUME NEW r \in Runners, WriteTmp(r) PROVE LoadInv'
    <3>. DEFINE marked == Marked(job[r].state, job[r].found)
                new == NewOf(job[r].state, job[r].found)
    <3>1. /\ pc[r] = "save" /\ ~overlap /\ Goto(r, "replace") /\ tmp' = marked
          /\ job' = [job EXCEPT ![r].new = new, ![r].state = marked]
          /\ UNCHANGED <<disk, streak>>
      BY <2>11 DEF WriteTmp, history
    <3>2. marked.hits = job[r].state.hits /\ marked.findings = job[r].found
      BY <2>3 DEF Marked, Job, State
    <3>. HIDE DEF marked, new
    <3>3. /\ job'[r].state = marked /\ job'[r].found = job[r].found
          /\ job'[r].busy = job[r].busy
      BY <2>3, <3>1 DEF Job
    <3>4. pc'[r] = "replace" /\ \A q \in Runners \ {r} : pc'[q] = "idle"
      BY <2>3, <2>6, <3>1 DEF Goto
    <3>5. Earned(job[r].state.hits, job[r].found, StreakThen(job[r].busy))
      BY <2>6, <3>1 DEF Counted
    <3>6. Counted(r)'
      BY <3>1, <3>2, <3>3, <3>4, <3>5 DEF Counted, Earned, StreakThen
    <3>7. Alone' /\ \A q \in Runners : Counted(q)'
      BY <2>2, <3>4, <3>6 DEF Alone
    <3> QED BY <3>1, <3>7 DEF LoadInv, Earned
  <2>12. ASSUME NEW r \in Runners, pc[r] # "idle", ~overlap, Stop(r),
                UNCHANGED <<disk, tmp, streak>>
         PROVE  LoadInv'
    <3>1. pc'[r] = "idle" /\ Goto(r, "idle") /\ \A q \in Runners \ {r} : job'[q] = job[q]
      BY <2>3, <2>12 DEF Stop, Goto
    <3> QED BY <2>2, <2>4, <2>12, <3>1
  <2>13. ASSUME NEW r \in Runners, Replace(r) PROVE LoadInv'
    <3>1. CASE tmp = NoFile /\ Stop(r) /\ UNCHANGED <<disk, tmp, history>>
      BY <2>12, <2>13, <3>1 DEF Replace, history
    <3>2. CASE /\ tmp # NoFile /\ disk' = tmp
               /\ streak' = [i \in Identities |->
                    IF i \in job[r].busy THEN Min({Consecutive, streak[i] + 1}) ELSE 0]
               /\ Goto(r, "notify") /\ UNCHANGED <<job, overlap>>
      <4>1. pc[r] = "replace" /\ ~overlap
        BY <2>13, <3>2 DEF Replace
      <4>2. pc'[r] = "notify" /\ \A q \in Runners \ {r} : pc'[q] = "idle"
        BY <2>3, <2>6, <3>2, <4>1 DEF Goto
      <4>3. Alone' /\ \A q \in Runners : Counted(q)'
        BY <2>2, <4>2 DEF Alone
      <4>4. /\ Earned(job[r].state.hits, job[r].found, StreakThen(job[r].busy))
            /\ tmp = job[r].state /\ tmp.findings = job[r].found
        BY <2>6, <4>1 DEF Counted
      <4>5. streak' = StreakThen(job[r].busy)
        BY <3>2 DEF StreakThen
      <4>6. Earned(disk'.hits, disk'.findings, streak')
        BY <3>2, <4>4, <4>5
      <4> QED BY <4>3, <4>6 DEF LoadInv, Earned
    <3> QED BY <2>13, <3>1, <3>2 DEF Replace
  <2>14. ASSUME NEW r \in Runners, Notify(r) \/ Die(r) PROVE LoadInv'
    BY <2>12, <2>14 DEF Notify, Die
  <2>15. CASE PowerCut
    <3>1. disk' = Torn /\ \A r \in Runners : pc'[r] = "idle"
      BY <2>15 DEF PowerCut
    <3> QED BY <1>1, <2>2, <3>1 DEF LoadInv, Alone
  <2>16. CASE Reinstall
    <3>1. disk' = NoFile /\ \A r \in Runners : pc'[r] = "idle"
      BY <2>16 DEF Reinstall
    <3> QED BY <1>1, <2>2, <3>1 DEF LoadInv, Alone
  <2>17. ASSUME UNCHANGED <<disk, tmp, pc, job, streak, overlap>> PROVE LoadInv'
    BY <2>17 DEF LoadInv, Alone, Counted, Earned, StreakThen
  <2>18. ASSUME NEW x, HostChanges(x) PROVE LoadInv'
    BY <2>17, <2>18 DEF HostChanges, history
  <2>19. CASE UNCHANGED vars
    BY <2>17, <2>19 DEF vars
  <2> QED BY <2>5, <2>7, <2>9, <2>10, <2>11, <2>13, <2>14, <2>15, <2>16, <2>18, <2>19
          DEF Next, Scan
<1>7. TypeOK /\ Init => OnlyUnknown
  <2>. SUFFICES ASSUME Init PROVE OnlyUnknown
    OBVIOUS
  <2>1. Possible(Fresh.hits, Fresh.findings) /\ Possible(Fresh.hits, {})
    BY SMT DEF Possible, Fresh
  <2>2. disk = NoFile /\ tmp = NoFile /\ \A r \in Runners : job[r] = Idle
    BY DEF Init
  <2> QED BY <1>1, <2>1, <2>2 DEF OnlyUnknown, Idle
<1>8. TypeOK /\ OnlyUnknown /\ [Next]_vars => OnlyUnknown'
  <2>. SUFFICES ASSUME TypeOK, OnlyUnknown, [Next]_vars PROVE OnlyUnknown'
    OBVIOUS
  <2>. DEFINE Sound(local) == /\ Possible(local.state.hits, local.state.findings)
                              /\ Possible(local.state.hits, local.found)
              Files == /\ disk \in State => Possible(disk.hits, disk.findings)
                       /\ tmp \in State => Possible(tmp.hits, tmp.findings)
  <2>1. pc \in [Runners -> Places] /\ job \in [Runners -> Job]
    BY DEF TypeOK, Places, Job
  <2>2. Sound(Idle)
    BY SMT DEF Possible, Fresh, Idle
  <2>3. Files /\ \A r \in Runners : Sound(job[r])
    BY DEF OnlyUnknown, Possible
  <2>4. ASSUME Files', \A r \in Runners : Sound(job'[r]) PROVE OnlyUnknown'
    BY <2>4 DEF OnlyUnknown, Possible
  <2>. HIDE DEF Sound, Files
  <2>5. UNCHANGED <<disk, tmp>> => Files'
    BY <2>3 DEF Files, Possible
  <2>6. ASSUME NEW r \in Runners, NEW local, job' = [job EXCEPT ![r] = local], Sound(local),
               Files'
        PROVE  OnlyUnknown'
    BY <2>1, <2>3, <2>4, <2>6
  <2>7. ASSUME NEW r \in Runners, Stop(r), Files' PROVE OnlyUnknown'
    BY <2>2, <2>6, <2>7 DEF Stop
  <2>8. ASSUME NEW r \in Runners, NEW quiet, LoadState(r, quiet) PROVE OnlyUnknown'
    <3>. DEFINE loaded == IF disk \in {NoFile, Torn} THEN Fresh ELSE disk
                local == [Idle EXCEPT !.state = loaded, !.quiet = quiet]
    <3>1. /\ job' = [job EXCEPT ![r] = local] /\ UNCHANGED tmp
          /\ disk' = IF disk = Torn THEN NoFile ELSE disk
      BY <2>8 DEF LoadState
    <3>2. Files'
      BY <1>1, <2>3, <3>1 DEF Files, Possible
    <3>3. Possible(loaded.hits, loaded.findings) /\ Possible(loaded.hits, {})
      <4>1. CASE disk \in {NoFile, Torn}
        BY <4>1, SMT DEF Possible, Fresh
      <4>2. CASE disk \notin {NoFile, Torn}
        BY <2>3, <4>2 DEF TypeOK, Files, Possible
      <4> QED BY <4>1, <4>2
    <3>4. local.state = loaded /\ local.found = {}
      BY DEF Idle
    <3>5. Sound(local)
      BY <3>3, <3>4 DEF Sound
    <3>. HIDE DEF local
    <3> QED BY <2>6, <3>1, <3>2, <3>5
  <2>9. ASSUME NEW r \in Runners, CheckProcesses(r) PROVE OnlyUnknown'
    <3>. DEFINE heavy == (host \cap Heavy) \ Allowed
    <3>1. PICK early \in SUBSET heavy, cleared \in SUBSET Identities,
              busy \in SUBSET Identities, flagged \in SUBSET (Kinds \X Procs) :
            LET hits == job[r].state.hits
                long == Reached(hits, early, heavy \ early, cleared)
            IN job' = [job EXCEPT ![r].state.hits = Bump(hits, early, heavy \ early, cleared),
                                  ![r].busy = busy,
                                  ![r].found = flagged \cup ({"resource_unknown"} \X long)]
      <4>. DEFINE found == UNION {Flags[p] \X {p} : p \in host \cap Procs}
                  hits == job[r].state.hits
                  trusted == {Identity[p] : p \in host \cap Allowed}
      <4>1. found \in SUBSET (Kinds \X Procs)
        OBVIOUS
      <4>3. trusted \in SUBSET Identities /\ {Identity[p] : p \in heavy} \in SUBSET Identities
        BY HostWatchAssumption DEF Identities
      <4>2. PICK early \in SUBSET heavy :
              job' = [job EXCEPT ![r].state.hits = Bump(hits, early, heavy \ early, trusted),
                                 ![r].busy = {Identity[p] : p \in heavy},
                                 ![r].found = found \cup ({"resource_unknown"}
                                    \X Reached(hits, early, heavy \ early, trusted))]
        BY <2>9 DEF CheckProcesses
      <4>. HIDE DEF found, hits, trusted, heavy
      <4> QED BY <4>1, <4>2, <4>3, Zenon DEF hits
    <3>. DEFINE hits == Bump(job[r].state.hits, early, heavy \ early, cleared)
                long == Reached(job[r].state.hits, early, heavy \ early, cleared)
                found == flagged \cup ({"resource_unknown"} \X long)
                local == [job[r] EXCEPT !.state = [job[r].state EXCEPT !.hits = hits],
                                        !.busy = busy, !.found = found]
    <3>2. heavy \in SUBSET (Heavy \ Allowed) /\ early \in SUBSET heavy
      OBVIOUS
    <3>3. ASSUME NEW i \in Identities, hits[i] > 0 \/ i \in long PROVE Twins(i) >= 1
      <4>. HIDE DEF heavy
      <4> QED BY <3>2, <3>3, OnlyBusy
    <3>4. job[r] \in Job /\ job[r].state \in State
      BY <2>1 DEF Job
    <3>5. job' = [job EXCEPT ![r] = local]
      BY <2>1, <3>1, <3>4, Zenon DEF Job, State
    <3>. HIDE DEF heavy, hits, long
    <3>6. /\ local.state.hits = hits /\ local.state.findings = job[r].state.findings
          /\ local.found = found
      BY <3>4 DEF Job, State
    <3>7. Possible(hits, job[r].state.findings)
      BY <2>3, <3>3 DEF Sound, Possible
    <3>8. Possible(hits, found)
      <4>1. \A i \in Identities : <<"resource_unknown", i>> \notin Kinds \X Procs
        BY DEF Kinds
      <4> QED BY <3>3, <4>1 DEF Possible
    <3>9. Sound(local)
      BY <3>6, <3>7, <3>8 DEF Sound
    <3>10. Files'
      BY <2>5, <2>9 DEF CheckProcesses
    <3>. HIDE DEF local
    <3> QED BY <2>6, <3>5, <3>9, <3>10
  \* The checks that follow find nothing about load.
  <2>10. ASSUME NEW r \in Runners, NEW ipinfo, NEW more,
                job' = [job EXCEPT ![r].state.ipinfo = ipinfo, ![r].found = @ \cup more]
                \/ job' = [job EXCEPT ![r].found = @ \cup more],
                \A i \in Identities : <<"resource_unknown", i>> \notin more,
                UNCHANGED <<disk, tmp>>
         PROVE  OnlyUnknown'
    <3>1. job[r] \in Job /\ job[r].state \in State
      BY <2>1 DEF Job
    <3>. DEFINE local == job'[r]
    <3>2. job' = [job EXCEPT ![r] = local]
      BY <2>1, <2>10
    <3>3. /\ local.state.hits = job[r].state.hits
          /\ local.state.findings = job[r].state.findings
          /\ local.found = job[r].found \cup more
      <4>1. CASE job' = [job EXCEPT ![r].found = @ \cup more]
        BY <2>1, <3>1, <4>1, SMT DEF Job, State
      <4>2. CASE job' = [job EXCEPT ![r].state.ipinfo = ipinfo, ![r].found = @ \cup more]
        BY <2>1, <3>1, <4>2, SMT DEF Job, State
      <4> QED BY <2>10, <4>1, <4>2
    <3>4. Sound(local)
      BY <2>3, <2>10, <3>3 DEF Sound, Possible
    <3>. HIDE DEF local
    <3> QED BY <2>5, <2>6, <2>10, <3>2, <3>4
  <2>11. ASSUME NEW r \in Runners, CheckListeners(r) PROVE OnlyUnknown'
    <3>1. CASE UNCHANGED job
      BY <2>3, <2>4, <2>5, <2>11, <3>1 DEF CheckListeners
    <3>2. CASE job' = [job EXCEPT ![r].found = @ \cup ({"listener"} \X (host \cap Ports))]
      BY <2>10, <2>11, <3>2 DEF CheckListeners
    <3> QED BY <2>11, <3>1, <3>2 DEF CheckListeners
  <2>12. ASSUME NEW r \in Runners, CheckPeers(r) PROVE OnlyUnknown'
    <3>1. CASE UNCHANGED job
      BY <2>3, <2>4, <2>5, <2>12, <3>1 DEF CheckPeers
    <3>2. CASE ~UNCHANGED job
      <4>1. PICK ipinfo, more :
              /\ job' = [job EXCEPT ![r].state.ipinfo = ipinfo, ![r].found = @ \cup more]
              /\ more = PeerFindings(ipinfo)
        BY <2>12, <3>2 DEF CheckPeers
      <4>2. \A i \in Identities : <<"resource_unknown", i>> \notin more
        BY <4>1 DEF PeerFindings
      <4> QED BY <2>10, <2>12, <4>1, <4>2 DEF CheckPeers
    <3> QED BY <3>1, <3>2
  <2>13. ASSUME NEW r \in Runners, WriteTmp(r) PROVE OnlyUnknown'
    <3>. DEFINE marked == Marked(job[r].state, job[r].found)
                new == NewOf(job[r].state, job[r].found)
    <3>1. /\ job' = [job EXCEPT ![r].new = new, ![r].state = marked] /\ tmp' = marked
          /\ UNCHANGED disk
      BY <2>13 DEF WriteTmp
    <3>2. marked.hits = job[r].state.hits /\ marked.findings = job[r].found
      BY <2>1 DEF Marked, Job, State
    <3>3. Possible(marked.hits, marked.findings)
      BY <2>3, <3>2 DEF Sound
    <3>. HIDE DEF marked, new
    <3>. DEFINE local == [job[r] EXCEPT !.new = new, !.state = marked]
    <3>4. job' = [job EXCEPT ![r] = local] /\ local.state = marked
          /\ local.found = job[r].found
      BY <2>1, <3>1 DEF Job
    <3>5. Sound(local)
      BY <3>2, <3>3, <3>4 DEF Sound
    <3>6. Files'
      BY <2>3, <3>1, <3>3 DEF Files, Possible
    <3>. HIDE DEF local
    <3> QED BY <2>6, <3>4, <3>5, <3>6
  <2>14. ASSUME NEW r \in Runners, Replace(r) PROVE OnlyUnknown'
    <3>1. CASE tmp # NoFile /\ disk' = tmp /\ tmp' = NoFile /\ UNCHANGED job
      <4>1. Files'
        BY <1>1, <2>3, <3>1 DEF Files, Possible
      <4> QED BY <2>3, <2>4, <3>1, <4>1
    <3>2. CASE Stop(r) /\ UNCHANGED <<disk, tmp>>
      BY <2>5, <2>7, <3>2
    <3> QED BY <2>14, <3>1, <3>2 DEF Replace
  <2>15. ASSUME NEW r \in Runners, Notify(r) \/ Die(r) PROVE OnlyUnknown'
    BY <2>5, <2>7, <2>15 DEF Notify, Die
  <2>16. CASE PowerCut
    <3>1. Files'
      BY <1>1, <2>3, <2>16 DEF PowerCut, Files, Possible
    <3>2. \A r \in Runners : job'[r] = Idle
      BY <2>16 DEF PowerCut
    <3> QED BY <2>2, <2>4, <3>1, <3>2
  <2>17. CASE Reinstall
    <3>1. Files' /\ UNCHANGED job
      BY <1>1, <2>17 DEF Reinstall, Files
    <3> QED BY <2>3, <2>4, <3>1
  <2>18. ASSUME UNCHANGED <<disk, tmp, job>> PROVE OnlyUnknown'
    BY <2>3, <2>4, <2>5, <2>18
  <2> QED BY <2>8, <2>9, <2>11, <2>12, <2>13, <2>14, <2>15, <2>16, <2>17, <2>18
          DEF Next, Scan, HostChanges, vars
<1> QED BY <1>4, <1>5, <1>6, <1>7, <1>8, TypeCorrectness, PTL DEF Spec
=============================================================================
