---------------------------- MODULE FactoryProofs ----------------------------
(***************************************************************************)
(* Theorems about ControlPlane and about Factory, which extends it, for any *)
(* slots, operators and tasks, and every bound on requests, attempts and   *)
(* failures, checked by TLAPS.                                             *)
(*                                                                         *)
(* The first part is about the control plane alone, whoever its clients    *)
(* are: it cites nothing of Factory, not even its assumption. The programs *)
(* of Factory are such clients: FactorySpec implements ControlPlane's Spec, *)
(* so what the first part shows of all clients holds of them. What they    *)
(* add, the lock of a task and one call at a time, gives the rest.         *)
(***************************************************************************)
EXTENDS Factory, TLAPS

(***************************************************************************)
(* The records requests are made of.                                       *)
(***************************************************************************)

\* The request of a client that has none, the shapes most handlers leave
\* behind, a bare response and a job to send, and what they carry.
LEMMA RequestTypes ==
  /\ Idle \in Requests /\ WellFormed(Idle)
  /\ \A answer \in Answers : Reply(answer) \in Requests /\ WellFormed(Reply(answer))
  /\ \A j \in Jobs : ToSend(j) \in Requests /\ WellFormed(ToSend(j))
  /\ \A k \in Kinds, t \in Tasks, n \in 0 .. MaxAttempt : Job(k, t, n) \in Jobs
  /\ DaemonKinds \in Seq(Kinds) /\ CliKinds \in Seq(Kinds)
  <1>1. Idle \in Requests /\ WellFormed(Idle)
    BY ControlPlaneAssumption DEF Idle, Requests, Stages, Answers, Same, NoJob, WellFormed
  <1>2. ASSUME NEW answer \in Answers
        PROVE  Reply(answer) \in Requests /\ WellFormed(Reply(answer))
    BY <1>1 DEF Reply, Idle, Requests, Stages, Answers, WellFormed
  <1>3. ASSUME NEW j \in Jobs
        PROVE  ToSend(j) \in Requests /\ WellFormed(ToSend(j))
    BY <1>1 DEF ToSend, Idle, Requests, Stages, Answers, WellFormed
  <1>4. ASSUME NEW k \in Kinds, NEW t \in Tasks, NEW n \in 0 .. MaxAttempt
        PROVE  Job(k, t, n) \in Jobs
    BY DEF Job, Jobs
  <1>5. DaemonKinds \in Seq(Kinds) /\ CliKinds \in Seq(Kinds)
    BY DEF DaemonKinds, CliKinds, Kinds
  <1> QED BY <1>1, <1>2, <1>3, <1>4, <1>5

\* What Checked hands on is a well-formed request.
LEMMA CheckedType ==
  ASSUME TypeOK, NEW r \in Requests, r.task \in Tasks
  PROVE  Checked(r) \in Requests /\ WellFormed(Checked(r))
  <1>1. Reply("error") \in Requests /\ WellFormed(Reply("error"))
    BY RequestTypes DEF Answers
  <1>2. /\ [r EXCEPT !.stage = "write", !.saw = status[r.task]] \in Requests
        /\ WellFormed([r EXCEPT !.stage = "write", !.saw = status[r.task]])
    BY DEF TypeOK, Requests, Stages, Answers, WellFormed
  <1> QED BY <1>1, <1>2 DEF Checked

(***************************************************************************)
(* Types and well-formed requests. A step that only moves one request is   *)
(* settled by the lemma below; the others add what they do to the tables.  *)
(***************************************************************************)

LEMMA RequestStep ==
  ASSUME TypeOK, RequestsWellFormed, NEW c \in Clients, NEW r \in Requests,
         WellFormed(r), req' = [req EXCEPT ![c] = r]
  PROVE  req' \in [Clients -> Requests] /\ RequestsWellFormed'
  BY DEF TypeOK, RequestsWellFormed

\* Every step keeps the types and the shape of requests: one step per action.
LEMMA TypeStep ==
  ASSUME TypeOK, RequestsWellFormed, [Next]_vars
  PROVE  TypeOK' /\ RequestsWellFormed'
<1>IdleType. Idle \in Requests /\ WellFormed(Idle)
  BY RequestTypes
<1>SubmitStep. ASSUME TypeOK, RequestsWellFormed, NEW c \in Clients, NEW r \in Requests,
                      WellFormed(r), Submit(c, r)
               PROVE  req' \in [Clients -> Requests] /\ RequestsWellFormed'
  BY <1>SubmitStep, RequestStep DEF Submit
<1>RespondStep. ASSUME TypeOK, RequestsWellFormed, NEW c \in Clients, NEW answer \in Answers,
                       Respond(c, answer)
                PROVE  req' \in [Clients -> Requests] /\ RequestsWellFormed'
  BY <1>RespondStep, RequestStep, RequestTypes DEF Respond
\* A request that moves on keeps what it carries.
<1>ReachStep. ASSUME TypeOK, RequestsWellFormed, NEW c \in Clients, NEW stage \in Stages,
                     Reach(c, stage), WellFormed([req[c] EXCEPT !.stage = stage])
              PROVE  req' \in [Clients -> Requests] /\ RequestsWellFormed'
  <2> USE <1>ReachStep
  <2>1. req[c] \in Requests
    BY DEF TypeOK
  <2>2. [req[c] EXCEPT !.stage = stage] \in Requests
    BY <2>1 DEF Requests
  <2>3. req' = [req EXCEPT ![c] = [req[c] EXCEPT !.stage = stage]]
    BY DEF Reach, TypeOK
  <2> QED BY <2>2, <2>3, RequestStep
\* The history stays well-typed.
<1>NoteStatusType. ASSUME TypeOK, NEW t \in Tasks, NEW s, NoteStatus(t, s)
                   PROVE  proposed' \in SUBSET Tasks /\ winners' \in [Tasks -> SUBSET Clients]
  BY <1>NoteStatusType DEF TypeOK, NoteStatus
<1>1. CASE UNCHANGED vars
  BY <1>1 DEF vars, TypeOK, RequestsWellFormed
<1>2. ASSUME NEW c \in Clients, NEW t \in Tasks, Request(c, t)
      PROVE  TypeOK' /\ RequestsWellFormed'
  <2>1. ASSUME NEW to \in Statuses \cup {Same}, NEW w \in Agents \cup {None, Keep},
               Patch(c, t, to, w)
        PROVE  TypeOK' /\ RequestsWellFormed'
    <3> DEFINE r == [Idle EXCEPT !.task = t, !.to = to, !.who = w]
    <3>1. r \in Requests /\ r.task \in Tasks
      BY <1>IdleType DEF Requests, Idle
    <3>2. Checked(r) \in Requests /\ WellFormed(Checked(r))
      BY <3>1, CheckedType
    <3> QED BY <2>1, <3>2, <1>SubmitStep DEF Patch, TypeOK
  <2>2. ASSUME NEW a \in ArtifactKinds, AddArtifact(c, t, a)
        PROVE  TypeOK' /\ RequestsWellFormed'
    <3> DEFINE r == [Idle EXCEPT !.stage = "attach", !.task = t,
                                 !.arts = artifacts[t] \cup {a}]
    <3>1. r \in Requests /\ WellFormed(r)
      BY <1>IdleType DEF Requests, Idle, Stages, Answers, WellFormed, TypeOK
    <3>2. Reply("error") \in Requests /\ WellFormed(Reply("error"))
      BY RequestTypes DEF Answers
    <3> QED BY <2>2, <3>1, <3>2, <1>SubmitStep DEF AddArtifact, TypeOK
  <2>3. ASSUME NEW s \in Statuses, NEW plan \in BOOLEAN, Create(c, t, s, plan)
        PROVE  TypeOK' /\ RequestsWellFormed'
    <3>1. /\ ToSend(Job("plan", t, 0)) \in Requests
          /\ WellFormed(ToSend(Job("plan", t, 0)))
      BY RequestTypes, ControlPlaneAssumption DEF Kinds
    <3>2. \A answer \in Answers : Reply(answer) \in Requests /\ WellFormed(Reply(answer))
      BY RequestTypes
    <3>3. req' \in [Clients -> Requests] /\ RequestsWellFormed'
      <4>1. CASE status[t] = Absent /\ plan
        BY <2>3, <3>1, <4>1, <1>SubmitStep DEF Create
      <4>2. CASE status[t] = Absent /\ ~plan
        BY <2>3, <3>2, <4>2, <1>SubmitStep DEF Create, Answers
      <4>3. CASE status[t] # Absent
        BY <2>3, <3>2, <4>3, <1>SubmitStep DEF Create, Answers
      <4> QED BY <4>1, <4>2, <4>3
    <3>4. proposed' \in SUBSET Tasks /\ winners' \in [Tasks -> SUBSET Clients]
      BY <2>3, <1>NoteStatusType DEF Create, TypeOK
    <3> QED BY <2>3, <3>3, <3>4 DEF Create, TypeOK
  <2>4. ASSUME NEW k \in Kinds, NEW n \in 0 .. MaxAttempt, EnqueueJob(c, k, t, n)
        PROVE  TypeOK' /\ RequestsWellFormed'
    <3>1. ToSend(Job(k, t, n)) \in Requests /\ WellFormed(ToSend(Job(k, t, n)))
      BY RequestTypes
    <3>2. Reply("error") \in Requests /\ WellFormed(Reply("error"))
      BY RequestTypes DEF Answers
    <3> QED BY <2>4, <3>1, <3>2, <1>SubmitStep DEF EnqueueJob, TypeOK
  <2>5. ASSUME Approve(c, t) \/ Retry(c, t)
        PROVE  TypeOK' /\ RequestsWellFormed'
    <3> DEFINE approve == [Idle EXCEPT !.stage = "check", !.task = t, !.to = "proposed",
                                       !.job = Job("implement", t, 0)]
               retry == [Idle EXCEPT !.stage = "check", !.task = t, !.to = "proposed",
                                     !.who = None, !.job = Job("implement", t, 0)]
    <3>1. Job("implement", t, 0) \in Jobs
      BY RequestTypes, ControlPlaneAssumption DEF Kinds
    <3>2. "proposed" \in Statuses
      BY DEF Statuses, Lifecycle!Statuses
    <3>3. approve \in Requests /\ WellFormed(approve)
      BY <3>1, <3>2, RequestTypes DEF Requests, Idle, Stages, Answers, WellFormed
    <3>4. retry \in Requests /\ WellFormed(retry)
      BY <3>1, <3>2, RequestTypes DEF Requests, Idle, Stages, Answers, WellFormed
    <3>5. Reply("error") \in Requests /\ WellFormed(Reply("error"))
      BY RequestTypes DEF Answers
    <3>6. req' \in [Clients -> Requests] /\ RequestsWellFormed'
      BY <2>5, <3>3, <3>4, <3>5, <1>SubmitStep DEF Approve, Retry
    <3> QED BY <2>5, <3>6 DEF Approve, Retry, TypeOK
  <2>6. ASSUME ThreadReply(c, t)
        PROVE  TypeOK' /\ RequestsWellFormed'
    <3>1. /\ ToSend(Job("plan", t, 0)) \in Requests
          /\ WellFormed(ToSend(Job("plan", t, 0)))
      BY RequestTypes, ControlPlaneAssumption DEF Kinds
    <3>2. \A answer \in Answers : Reply(answer) \in Requests /\ WellFormed(Reply(answer))
      BY RequestTypes
    <3> QED BY <2>6, <3>1, <3>2, <1>SubmitStep DEF ThreadReply, TypeOK, Answers
  <2>7. "failed" \in Statuses /\ "planning" \in Statuses /\ BirthStatuses \subseteq Statuses
    BY ControlPlaneAssumption DEF Statuses, Lifecycle!Statuses
  <2> QED BY <1>2, <2>1, <2>2, <2>3, <2>4, <2>5, <2>6, <2>7 DEF Request, Cancel, Intake
<1>3. ASSUME NEW c \in Clients, Claim(c)
      PROVE  TypeOK' /\ RequestsWellFormed'
  <2>1. ASSUME NEW w \in Agents, NEW kinds \in Seq(Kinds), NEW t \in Tasks \cup {NoTask},
               FetchJob(c, w, kinds, t)
        PROVE  TypeOK' /\ RequestsWellFormed'
    <3> DEFINE r == [Idle EXCEPT !.stage = "fetch", !.who = w, !.left = kinds, !.task = t]
    <3>1. r \in Requests /\ WellFormed(r)
      BY <1>IdleType DEF Requests, Idle, Stages, Answers, WellFormed
    <3> QED BY <2>1, <3>1, <1>SubmitStep DEF FetchJob, TypeOK
  <2>2. ASSUME NEW w \in Agents, NEW t \in Tasks \cup {NoTask}, ClaimDirect(c, w, t)
        PROVE  TypeOK' /\ RequestsWellFormed'
    <3> DEFINE r == [Idle EXCEPT !.stage = IF t = NoTask THEN "next" ELSE "claim",
                                 !.who = w, !.task = t]
    <3>1. r \in Requests /\ WellFormed(r)
      BY <1>IdleType DEF Requests, Idle, Stages, Answers, WellFormed
    <3> QED BY <2>2, <3>1, <1>SubmitStep DEF ClaimDirect, TypeOK
  <2> QED BY <1>3, <2>1, <2>2, RequestTypes DEF Claim
<1>4. ASSUME NEW c \in Clients, Handle(c)
      PROVE  TypeOK' /\ RequestsWellFormed'
  <2> DEFINE t == req[c].task
  <2>0. req[c] \in Requests /\ WellFormed(req[c])
    BY DEF TypeOK, RequestsWellFormed
  <2>1. CASE Check(c)
    <3>1. Checked(req[c]) \in Requests /\ WellFormed(Checked(req[c]))
      BY <2>0, <2>1, CheckedType DEF Check, WellFormed
    <3>2. req' = [req EXCEPT ![c] = Checked(req[c])]
      BY <2>1 DEF Check, TypeOK
    <3> QED BY <2>1, <3>1, <3>2, RequestStep DEF Check, TypeOK
  <2>2. CASE Write(c)
    <3>1. t \in Tasks /\ req[c].to \in Statuses \cup {Same}
          /\ req[c].who \in Agents \cup {None, Keep}
      BY <2>0, <2>2 DEF Write, WellFormed, Requests
    <3>2. status' \in [Tasks -> Statuses \cup {Absent}]
      BY <2>2, <3>1 DEF Write, TypeOK
    <3>3. assignee' \in [Tasks -> Agents \cup {None}]
      BY <2>2, <3>1 DEF Write, TypeOK
    <3>4. proposed' \in SUBSET Tasks /\ winners' \in [Tasks -> SUBSET Clients]
      BY <2>2, <3>1, <1>NoteStatusType DEF Write
    <3>5. req' \in [Clients -> Requests] /\ RequestsWellFormed'
      <4>1. CASE req[c].job = NoJob
        BY <2>2, <4>1, <1>RespondStep DEF Write, Answers
      <4>2. CASE req[c].job # NoJob
        <5>1. ToSend(req[c].job) \in Requests /\ WellFormed(ToSend(req[c].job))
          BY <2>0, <4>2, RequestTypes DEF Requests
        <5>2. req' = [req EXCEPT ![c] = ToSend(req[c].job)]
          BY <2>2, <4>2 DEF Write, TypeOK
        <5> QED BY <5>1, <5>2, RequestStep
      <4> QED BY <4>1, <4>2
    <3> QED BY <2>2, <3>2, <3>3, <3>4, <3>5 DEF Write, TypeOK
  <2>3. CASE Attach(c)
    <3>1. req' \in [Clients -> Requests] /\ RequestsWellFormed'
      BY <2>3, <1>RespondStep DEF Attach, Answers
    <3>2. req[c].arts \in SUBSET ArtifactKinds
      BY <2>0 DEF Requests
    <3> QED BY <2>3, <3>1, <3>2 DEF Attach, TypeOK
  <2>4. CASE Enqueue(c)
    <3>1. req' \in [Clients -> Requests] /\ RequestsWellFormed'
      BY <2>4, <1>RespondStep DEF Enqueue, Answers
    <3>2. req[c].job \in Jobs /\ req[c].job.kind \in Kinds
      BY <2>0, <2>4 DEF Enqueue, WellFormed, Jobs
    <3>3. queue' \in [Kinds -> Seq(Jobs)]
      BY <2>4, <3>2 DEF Enqueue, TypeOK
    <3> QED BY <2>4, <3>1, <3>3 DEF Enqueue, TypeOK
  <2>5. CASE Fetch(c)
    <3>1. req[c].left \in Seq(Kinds)
      BY <2>0 DEF Requests
    <3>2. CASE req[c].left = <<>>
      <4> DEFINE stage == IF t = NoTask THEN "next" ELSE "claim"
      <4>1. WellFormed([req[c] EXCEPT !.stage = stage])
        BY <2>0, <2>5 DEF Fetch, WellFormed, Requests
      <4>2. stage \in Stages /\ Reach(c, stage)
        BY <2>5, <3>2 DEF Fetch, Stages
      <4>3. req' \in [Clients -> Requests] /\ RequestsWellFormed'
        BY <4>1, <4>2, <1>ReachStep
      <4> QED BY <2>5, <3>2, <4>3 DEF Fetch, TypeOK
    <3>3. CASE req[c].left # <<>> /\ queue[Head(req[c].left)] = <<>>
      <4> DEFINE r == [req[c] EXCEPT !.left = Tail(@)]
      <4>1. Tail(req[c].left) \in Seq(Kinds)
        BY <3>1, <3>3
      <4>2. r \in Requests /\ WellFormed(r)
        BY <2>0, <2>5, <4>1 DEF Fetch, WellFormed, Requests
      <4>3. req' = [req EXCEPT ![c] = r]
        BY <2>5, <3>3 DEF Fetch, TypeOK
      <4>4. req' \in [Clients -> Requests] /\ RequestsWellFormed'
        BY <4>2, <4>3, RequestStep
      <4> QED BY <2>5, <3>3, <4>4 DEF Fetch, TypeOK
    <3>4. CASE req[c].left # <<>> /\ queue[Head(req[c].left)] # <<>>
      <4> DEFINE k == Head(req[c].left)
                 j == Head(queue[k])
                 r == [req[c] EXCEPT !.stage = "complete", !.left = <<>>,
                                     !.task = j.task, !.job = j]
      <4>1. k \in Kinds /\ queue[k] \in Seq(Jobs)
        BY <3>1, <3>4 DEF TypeOK
      <4>2. j \in Jobs /\ Tail(queue[k]) \in Seq(Jobs)
        BY <3>4, <4>1
      <4>3. j.task \in Tasks
        BY <4>2 DEF Jobs
      <4>4. r \in Requests /\ WellFormed(r)
        <5>1. req[c].who \in Agents
          BY <2>0, <2>5 DEF Fetch, WellFormed
        <5>2. <<>> \in Seq(Kinds)
          OBVIOUS
        <5> HIDE DEF j
        <5>3. r \in Requests
          BY <2>0, <4>2, <4>3, <5>2 DEF Requests, Stages
        <5> QED BY <2>0, <4>2, <4>3, <5>1, <5>3 DEF WellFormed, Requests
      <4>5. req' = [req EXCEPT ![c] = r]
        BY <2>5, <3>4 DEF Fetch, TypeOK
      <4>6. req' \in [Clients -> Requests] /\ RequestsWellFormed'
        BY <4>4, <4>5, RequestStep
      <4>7. queue' \in [Kinds -> Seq(Jobs)]
        BY <2>5, <3>4, <4>1, <4>2 DEF Fetch, TypeOK
      <4> QED BY <2>5, <4>6, <4>7 DEF Fetch, TypeOK
    <3> QED BY <3>2, <3>3, <3>4
  <2>6. CASE Complete(c)
    <3>1. WellFormed([req[c] EXCEPT !.stage = "dispatch"])
      BY <2>0, <2>6 DEF Complete, WellFormed, Requests
    <3>2. req' \in [Clients -> Requests] /\ RequestsWellFormed'
      BY <2>6, <3>1, <1>ReachStep DEF Complete, Stages
    <3> QED BY <2>6, <3>2 DEF Complete, TypeOK
  <2>7. CASE Dispatch(c)
    <3>1. WellFormed([req[c] EXCEPT !.stage = "claim"])
      BY <2>0, <2>7 DEF Dispatch, WellFormed, Requests
    <3>2. WellFormed([req[c] EXCEPT !.stage = "ok"])
      BY <2>0, <2>7 DEF Dispatch, WellFormed, Requests
    <3>3. Respond(c, "empty") \/ Reach(c, "claim") \/ Reach(c, "ok")
      BY <2>7 DEF Dispatch
    <3>4. req' \in [Clients -> Requests] /\ RequestsWellFormed'
      BY <3>1, <3>2, <3>3, <1>RespondStep, <1>ReachStep DEF Stages, Answers
    <3> QED BY <2>7, <3>4 DEF Dispatch, TypeOK
  <2>8. ASSUME NEW u \in Tasks, Win(c, u), req[c].who \in Agents,
               req' \in [Clients -> Requests], RequestsWellFormed'
        PROVE  TypeOK' /\ RequestsWellFormed'
    <3>1. "claimed" \in Statuses
      BY DEF Statuses, Lifecycle!Statuses
    <3> QED BY <2>8, <3>1 DEF Win, TypeOK
  <2>9. CASE ClaimTask(c)
    <3>1. WellFormed([req[c] EXCEPT !.stage = "ok"]) /\ t \in Tasks /\ req[c].who \in Agents
      BY <2>0, <2>9 DEF ClaimTask, WellFormed, Requests
    <3>2. CASE Win(c, t) /\ Reach(c, "ok")
      <4>1. req' \in [Clients -> Requests] /\ RequestsWellFormed'
        BY <3>1, <3>2, <1>ReachStep DEF Stages, Answers
      <4> QED BY <2>8, <3>1, <3>2, <4>1
    <3>3. CASE Respond(c, "error") /\ UNCHANGED <<status, assignee, artifacts, queue, proposed, winners>>
      BY <3>3, <1>RespondStep DEF Answers, TypeOK
    <3> QED BY <2>9, <3>2, <3>3 DEF ClaimTask
  <2>10. CASE ClaimNextProposed(c)
    <3>1. req[c].who \in Agents
      BY <2>0, <2>10 DEF ClaimNextProposed, WellFormed
    <3>2. ASSUME NEW u \in Tasks, Win(c, u),
                 req' = [req EXCEPT ![c].stage = "ok", ![c].task = u]
          PROVE  TypeOK' /\ RequestsWellFormed'
      <4> DEFINE r == [req[c] EXCEPT !.stage = "ok", !.task = u]
      <4>1. r \in Requests /\ WellFormed(r)
        BY <2>0 DEF WellFormed, Requests, Stages, Answers
      <4>2. req' = [req EXCEPT ![c] = r]
        BY <3>2 DEF TypeOK
      <4>3. req' \in [Clients -> Requests] /\ RequestsWellFormed'
        BY <4>1, <4>2, RequestStep
      <4> QED BY <2>8, <3>1, <3>2, <4>3
    <3>3. CASE Respond(c, "empty") /\ UNCHANGED <<status, assignee, artifacts, queue, proposed, winners>>
      BY <3>3, <1>RespondStep DEF Answers, TypeOK
    <3> QED BY <2>10, <3>2, <3>3 DEF ClaimNextProposed
  <2> QED BY <1>4, <2>1, <2>2, <2>3, <2>4, <2>5, <2>6, <2>7, <2>9, <2>10 DEF Handle
<1>5. ASSUME NEW c \in Clients, Abort(c)
      PROVE  TypeOK' /\ RequestsWellFormed'
  <2>1. req' \in [Clients -> Requests] /\ RequestsWellFormed'
    BY <1>5, <1>RespondStep DEF Abort, Answers
  <2>2. queue' \in [Kinds -> Seq(Jobs)]
    <3>1. CASE req[c].stage = "complete"
      <4>1. req[c].job \in Jobs /\ req[c].job.kind \in Kinds
        BY <3>1 DEF RequestsWellFormed, WellFormed, Jobs
      <4>2. <<req[c].job>> \o queue[req[c].job.kind] \in Seq(Jobs)
        BY <4>1 DEF TypeOK
      <4> QED BY <1>5, <3>1, <4>1, <4>2 DEF Abort, TypeOK
    <3>2. CASE req[c].stage # "complete"
      BY <1>5, <3>2 DEF Abort, TypeOK
    <3> QED BY <3>1, <3>2
  <2> QED BY <1>5, <2>1, <2>2 DEF Abort, TypeOK
<1>6. ASSUME NEW c \in Clients, Return(c)
      PROVE  TypeOK' /\ RequestsWellFormed'
  <2>1. req' \in [Clients -> Requests] /\ RequestsWellFormed'
    BY <1>6, RequestTypes, RequestStep DEF Return
  <2> QED BY <1>6, <2>1 DEF Return, TypeOK
<1> QED BY <1>1, <1>2, <1>3, <1>4, <1>5, <1>6 DEF Next

(***************************************************************************)
(* To the tables there are five kinds of step: a checked request reaching  *)
(* its UPDATE, the UPDATE, a creation, a claim, and every other step,      *)
(* which changes no row and brings no request to an UPDATE.                *)
(***************************************************************************)

\* The step changes no status and no history.
QuietTables == UNCHANGED <<status, proposed, winners>>

\* c's request moves, and not to an UPDATE.
Moves(c) == req' = [req EXCEPT ![c] = req'[c]] /\ req'[c].stage # "write"

QuietStep  == \E c \in Clients : QuietTables /\ Moves(c)
CheckStep  == \E c \in Clients, r \in Requests :
                r.task \in Tasks /\ QuietTables /\ req' = [req EXCEPT ![c] = Checked(r)]
WriteStep  == \E c \in Clients : Write(c)
CreateStep == \E c \in Clients, t \in Tasks, s \in BirthStatuses, plan \in BOOLEAN :
                Create(c, t, s, plan)
WinStep    == \E c \in Clients, t \in Tasks :
                status[t] = "proposed" /\ Win(c, t) /\ Moves(c)

\* Every step is of one of these kinds.
LEMMA StepKinds ==
  ASSUME IInv, [Next]_vars
  PROVE  UNCHANGED vars \/ QuietStep \/ CheckStep \/ WriteStep \/ CreateStep \/ WinStep
<1> USE DEF IInv
<1>0. req \in [Clients -> Requests]
  BY DEF TypeOK
<1>2. ASSUME NEW c \in Clients, NEW t \in Tasks, NEW to \in Statuses \cup {Same},
             NEW w \in Agents \cup {None, Keep}, Patch(c, t, to, w)
      PROVE  CheckStep
  <2> DEFINE r == [Idle EXCEPT !.task = t, !.to = to, !.who = w]
  <2>1. r \in Requests /\ r.task \in Tasks
    BY RequestTypes DEF Requests, Idle
  <2>2. req' = [req EXCEPT ![c] = Checked(r)] /\ QuietTables
    BY <1>2 DEF Patch, Submit, QuietTables
  <2> QED BY <2>1, <2>2 DEF CheckStep
<1>3. ASSUME NEW c \in Clients, Check(c)
      PROVE  CheckStep
  <2>1. req[c] \in Requests /\ req[c].task \in Tasks
    BY <1>0, <1>3 DEF Check, RequestsWellFormed, WellFormed
  <2>2. req' = [req EXCEPT ![c] = Checked(req[c])] /\ QuietTables
    BY <1>3 DEF Check, QuietTables, TypeOK
  <2> QED BY <2>1, <2>2 DEF CheckStep
<1>4. ASSUME NEW c \in Clients, Write(c) PROVE WriteStep
  BY <1>4 DEF WriteStep
<1>5. ASSUME NEW c \in Clients, NEW t \in Tasks, NEW s \in BirthStatuses,
             NEW plan \in BOOLEAN, Create(c, t, s, plan)
      PROVE  CreateStep
  BY <1>5 DEF CreateStep
<1>6. ASSUME NEW c \in Clients, NEW t \in Tasks, status[t] = "proposed", Win(c, t),
             NEW r, req' = [req EXCEPT ![c] = r], r.stage # "write"
      PROVE  WinStep
  BY <1>0, <1>6 DEF WinStep, Moves
<1>7. ASSUME NEW c \in Clients, NEW r, req' = [req EXCEPT ![c] = r], r.stage # "write",
             QuietTables
      PROVE  QuietStep \/ CheckStep \/ WriteStep \/ CreateStep \/ WinStep
  BY <1>0, <1>7 DEF QuietStep, Moves
<1>8. ASSUME NEW c \in Clients, NEW t \in Tasks, Request(c, t)
      PROVE  QuietStep \/ CheckStep \/ WriteStep \/ CreateStep \/ WinStep
  <2>1. "failed" \in Statuses /\ "planning" \in BirthStatuses
    BY ControlPlaneAssumption DEF Statuses, Lifecycle!Statuses
  <2>2. CASE Cancel(c, t) \/ Intake(c, t)
    BY <1>2, <1>5, <2>1, <2>2 DEF Cancel, Intake
  <2>3. ASSUME NEW a \in ArtifactKinds, AddArtifact(c, t, a)
        PROVE  QuietStep \/ CheckStep \/ WriteStep \/ CreateStep \/ WinStep
    <3> DEFINE r == IF status[t] = Absent THEN Reply("error")
                    ELSE [Idle EXCEPT !.stage = "attach", !.task = t,
                                      !.arts = artifacts[t] \cup {a}]
    <3>1. req' = [req EXCEPT ![c] = r] /\ r.stage # "write" /\ QuietTables
      BY <2>3 DEF AddArtifact, Submit, Reply, Idle, QuietTables
    <3> QED BY <1>7, <3>1
  <2>4. ASSUME NEW k \in Kinds, NEW n \in 0 .. MaxAttempt, EnqueueJob(c, k, t, n)
        PROVE  QuietStep \/ CheckStep \/ WriteStep \/ CreateStep \/ WinStep
    <3> DEFINE r == IF status[t] = Absent THEN Reply("error") ELSE ToSend(Job(k, t, n))
    <3>1. req' = [req EXCEPT ![c] = r] /\ r.stage # "write" /\ QuietTables
      BY <2>4 DEF EnqueueJob, Submit, Reply, ToSend, Idle, QuietTables
    <3> QED BY <1>7, <3>1
  <2>5. CASE Approve(c, t)
    <3> DEFINE r == IF status[t] = "planning"
                    THEN [Idle EXCEPT !.stage = "check", !.task = t, !.to = "proposed",
                                      !.job = Job("implement", t, 0)]
                    ELSE Reply("error")
    <3>1. req' = [req EXCEPT ![c] = r] /\ r.stage # "write" /\ QuietTables
      BY <2>5 DEF Approve, Submit, Reply, Idle, QuietTables
    <3> QED BY <1>7, <3>1
  <2>6. CASE Retry(c, t)
    <3> DEFINE r == IF status[t] = "failed"
                    THEN [Idle EXCEPT !.stage = "check", !.task = t, !.to = "proposed",
                                      !.who = None, !.job = Job("implement", t, 0)]
                    ELSE Reply("error")
    <3>1. req' = [req EXCEPT ![c] = r] /\ r.stage # "write" /\ QuietTables
      BY <2>6 DEF Retry, Submit, Reply, Idle, QuietTables
    <3> QED BY <1>7, <3>1
  <2>7. CASE ThreadReply(c, t)
    <3> DEFINE r == CASE status[t] = Absent -> Reply("error")
                      [] status[t] = "planning" -> ToSend(Job("plan", t, 0))
                      [] OTHER -> Reply("ok")
    <3>1. req' = [req EXCEPT ![c] = r] /\ r.stage # "write" /\ QuietTables
      BY <2>7 DEF ThreadReply, Submit, Reply, ToSend, Idle, QuietTables
    <3> QED BY <1>7, <3>1
  <2> QED BY <1>2, <1>5, <1>8, <2>2, <2>3, <2>4, <2>5, <2>6, <2>7 DEF Request
<1>9. ASSUME NEW c \in Clients, Claim(c)
      PROVE  QuietStep \/ CheckStep \/ WriteStep \/ CreateStep \/ WinStep
  <2>1. ASSUME NEW w, NEW kinds, NEW t, FetchJob(c, w, kinds, t)
        PROVE  QuietStep \/ CheckStep \/ WriteStep \/ CreateStep \/ WinStep
    <3> DEFINE r == [Idle EXCEPT !.stage = "fetch", !.who = w, !.left = kinds, !.task = t]
    <3>1. req' = [req EXCEPT ![c] = r] /\ r.stage # "write" /\ QuietTables
      BY <2>1 DEF FetchJob, Submit, Idle, QuietTables
    <3> QED BY <1>7, <3>1
  <2>2. ASSUME NEW w, NEW t, ClaimDirect(c, w, t)
        PROVE  QuietStep \/ CheckStep \/ WriteStep \/ CreateStep \/ WinStep
    <3> DEFINE r == [Idle EXCEPT !.stage = IF t = NoTask THEN "next" ELSE "claim",
                                 !.who = w, !.task = t]
    <3>1. req' = [req EXCEPT ![c] = r] /\ r.stage # "write" /\ QuietTables
      BY <2>2 DEF ClaimDirect, Submit, Idle, QuietTables
    <3> QED BY <1>7, <3>1
  <2> QED BY <1>9, <2>1, <2>2 DEF Claim
<1>10. ASSUME NEW c \in Clients, Handle(c)
       PROVE  QuietStep \/ CheckStep \/ WriteStep \/ CreateStep \/ WinStep
  <2>0. req[c] \in Requests
    BY <1>0
  <2>1. ASSUME NEW stage \in Stages \ {"write"}, Reach(c, stage), QuietTables
        PROVE  QuietStep \/ CheckStep \/ WriteStep \/ CreateStep \/ WinStep
    <3> DEFINE r == [req[c] EXCEPT !.stage = stage]
    <3>1. req' = [req EXCEPT ![c] = r] /\ r.stage # "write"
      BY <1>0, <2>0, <2>1 DEF Reach, Requests
    <3> QED BY <1>7, <2>1, <3>1
  <2>2. ASSUME NEW answer \in Answers, Respond(c, answer), QuietTables
        PROVE  QuietStep \/ CheckStep \/ WriteStep \/ CreateStep \/ WinStep
    <3>1. Reply(answer).stage # "write"
      BY DEF Reply, Idle, Answers
    <3> QED BY <1>7, <2>2, <3>1 DEF Respond
  <2>3. CASE Attach(c) \/ Enqueue(c)
    BY <2>2, <2>3 DEF Attach, Enqueue, Answers, QuietTables
  <2>4. CASE Complete(c)
    BY <2>1, <2>4 DEF Complete, Stages, QuietTables
  <2>5. CASE Dispatch(c)
    <3>1. Respond(c, "empty") \/ Reach(c, "claim") \/ Reach(c, "ok")
      BY <2>5 DEF Dispatch
    <3>2. QuietTables
      BY <2>5 DEF Dispatch, QuietTables
    <3> QED BY <2>1, <2>2, <3>1, <3>2 DEF Stages, Answers
  <2>6. CASE Fetch(c)
    <3>1. PICK r : req' = [req EXCEPT ![c] = r] /\ r.stage # "write"
      <4> DEFINE k == Head(req[c].left)
                 skip == [req[c] EXCEPT !.left = Tail(@)]
                 take == [req[c] EXCEPT !.stage = "complete", !.left = <<>>,
                                        !.task = Head(queue[k]).task, !.job = Head(queue[k])]
                 next == [req[c] EXCEPT !.stage = IF req[c].task = NoTask
                                                  THEN "next" ELSE "claim"]
      <4>1. \/ req' = [req EXCEPT ![c] = skip]
            \/ req' = [req EXCEPT ![c] = take]
            \/ req' = [req EXCEPT ![c] = next]
        BY <1>0, <2>6 DEF Fetch, Reach
      <4>2. skip.stage # "write" /\ take.stage # "write" /\ next.stage # "write"
        BY <2>0, <2>6 DEF Requests, Fetch
      <4> QED BY <4>1, <4>2
    <3> QED BY <1>7, <2>6, <3>1 DEF Fetch, QuietTables
  <2>7. CASE ClaimTask(c)
    <3>1. CASE status[req[c].task] = "proposed" /\ Win(c, req[c].task) /\ Reach(c, "ok")
      <4> DEFINE r == [req[c] EXCEPT !.stage = "ok"]
      <4>1. req' = [req EXCEPT ![c] = r] /\ r.stage # "write"
        BY <1>0, <2>0, <3>1 DEF Reach, Requests
      <4>2. req[c].task \in Tasks
        BY <2>7 DEF ClaimTask, RequestsWellFormed, WellFormed
      <4> QED BY <1>6, <3>1, <4>1, <4>2
    <3>2. CASE Respond(c, "error") /\ QuietTables
      BY <2>2, <3>2 DEF Answers
    <3> QED BY <2>7, <3>1, <3>2 DEF ClaimTask, QuietTables
  <2>8. CASE ClaimNextProposed(c)
    <3>1. ASSUME NEW t \in Tasks, status[t] = "proposed", Win(c, t),
                 req' = [req EXCEPT ![c].stage = "ok", ![c].task = t]
          PROVE  QuietStep \/ CheckStep \/ WriteStep \/ CreateStep \/ WinStep
      <4> DEFINE r == [req[c] EXCEPT !.stage = "ok", !.task = t]
      <4>1. req' = [req EXCEPT ![c] = r] /\ r.stage # "write"
        BY <1>0, <2>0, <3>1 DEF Requests
      <4> QED BY <1>6, <3>1, <4>1
    <3>2. CASE Respond(c, "empty") /\ QuietTables
      BY <2>2, <3>2 DEF Answers
    <3> QED BY <2>8, <3>1, <3>2 DEF ClaimNextProposed, QuietTables
  <2> QED BY <1>3, <1>4, <1>10, <2>3, <2>4, <2>5, <2>6, <2>7, <2>8 DEF Handle
<1>11. ASSUME NEW c \in Clients, Abort(c) \/ Return(c)
       PROVE  QuietStep \/ CheckStep \/ WriteStep \/ CreateStep \/ WinStep
  <2>1. PICK r \in {Reply("error"), Idle} : req' = [req EXCEPT ![c] = r]
    BY <1>11 DEF Abort, Return, Respond
  <2>2. r.stage # "write" /\ QuietTables
    BY <1>11 DEF Abort, Return, Reply, Idle, QuietTables
  <2> QED BY <1>7, <2>1, <2>2
<1> QED BY <1>8, <1>9, <1>10, <1>11 DEF Next

(***************************************************************************)
(* The plan gate and the winners.                                          *)
(***************************************************************************)

\* Every step keeps the gate and the winners.
LEMMA GateStep ==
  ASSUME IInv, [Next]_vars
  PROVE  Gated' /\ Unclaimed' /\ OneWinner'
\* A request that Checked lets through to claimed or further is about a task
\* that has been proposed.
<1>CheckedGate. ASSUME TypeOK, Gated, NEW r \in Requests, r.task \in Tasks,
                       Checked(r).stage = "write", Checked(r).to \in WorkerStatuses
                PROVE  Checked(r).task \in proposed
  <2> USE <1>CheckedGate
  <2>1. Checked(r) = [r EXCEPT !.stage = "write", !.saw = status[r.task]]
    BY DEF Checked, Reply, Idle
  <2>2. Checked(r).to = r.to /\ Checked(r).task = r.task
    BY <2>1 DEF Requests
  <2>3. status[r.task] # Absent /\ CanTransition(status[r.task], r.to) /\ r.to # Same
    BY <2>1, <2>2 DEF Checked, Reply, Idle, WorkerStatuses, Same
  <2>4. status[r.task] \in WorkerStatuses \cup {"proposed"}
    <3>1. status[r.task] \in Statuses
      BY <2>3 DEF TypeOK
    <3> QED
      BY <2>2, <2>3, <3>1 DEF CanTransition, Lifecycle!CanTransition, Lifecycle!Transitions,
         WorkerStatuses, Statuses, Lifecycle!Statuses
  <2> QED BY <2>2, <2>4 DEF Gated
\* A quiet step that brings no request but a gated one to its UPDATE.
<1>QuietGate. ASSUME Gated, Unclaimed, OneWinner, QuietTables,
                     NEW c \in Clients, NEW r, req \in [Clients -> Requests],
                     req' = [req EXCEPT ![c] = r],
                     r.stage = "write" /\ r.to \in WorkerStatuses => r.task \in proposed
              PROVE  Gated' /\ Unclaimed' /\ OneWinner'
  BY <1>QuietGate DEF QuietTables, Gated, Unclaimed, OneWinner
<1> USE DEF IInv
<1>0. req \in [Clients -> Requests]
  BY DEF TypeOK
<1>1. CASE UNCHANGED vars
  BY <1>1 DEF vars, Gated, Unclaimed, OneWinner
<1>2. CASE QuietStep
  BY <1>0, <1>2, <1>QuietGate DEF QuietStep, Moves
<1>3. CASE CheckStep
  <2>1. PICK c \in Clients, r \in Requests :
          r.task \in Tasks /\ QuietTables /\ req' = [req EXCEPT ![c] = Checked(r)]
    BY <1>3 DEF CheckStep
  <2>2. Checked(r).stage = "write" /\ Checked(r).to \in WorkerStatuses
        => Checked(r).task \in proposed
    BY <2>1, <1>CheckedGate
  <2> QED BY <1>0, <2>1, <2>2, <1>QuietGate
<1>4. ASSUME NEW c \in Clients, Write(c)
      PROVE  Gated' /\ Unclaimed' /\ OneWinner'
  <2> DEFINE t  == req[c].task
             to == req[c].to
  <2>1. t \in Tasks /\ to \in Statuses \cup {Same} /\ req[c].stage = "write"
    BY <1>0, <1>4 DEF Write, RequestsWellFormed, WellFormed, Requests
  <2>2. req'[c].stage # "write" /\ \A d \in Clients \ {c} : req'[d] = req[d]
    BY <1>0, <1>4 DEF Write, Respond, Reply, ToSend, Idle
  <2>3. proposed \subseteq proposed' /\ (to = "proposed" => t \in proposed')
    BY <1>4 DEF Write, NoteStatus
  <2>4. /\ to = Same => status' = status
        /\ to # Same => status' = [status EXCEPT ![t] = to]
    BY <1>4 DEF Write
  <2>5. Gated'
    <3>1. to \in WorkerStatuses => t \in proposed
      BY <2>1 DEF Gated
    <3> QED BY <2>1, <2>2, <2>3, <2>4, <3>1 DEF Gated, TypeOK
  <2>6. /\ to = "proposed" => winners' = [winners EXCEPT ![t] = {}]
        /\ to # "proposed" => winners' = winners
    BY <1>4 DEF Write, NoteStatus
  <2>7. Unclaimed'
    BY <2>1, <2>4, <2>6 DEF Unclaimed, TypeOK, Same
  <2>8. OneWinner'
    BY <2>1, <2>6 DEF OneWinner, TypeOK
  <2> QED BY <2>5, <2>7, <2>8
<1>5. ASSUME NEW c \in Clients, NEW t \in Tasks, NEW s \in BirthStatuses,
             NEW plan \in BOOLEAN, Create(c, t, s, plan)
      PROVE  Gated' /\ Unclaimed' /\ OneWinner'
  <2> DEFINE r == IF status[t] = Absent
                  THEN IF plan THEN ToSend(Job("plan", t, 0)) ELSE Reply("ok")
                  ELSE Reply("error")
  <2>1. req' = [req EXCEPT ![c] = r] /\ r.stage # "write"
    BY <1>5 DEF Create, Submit, ToSend, Reply, Idle
  <2>2. CASE status[t] # Absent
    <3>1. QuietTables
      BY <1>5, <2>2 DEF Create, QuietTables
    <3> QED BY <1>0, <2>1, <3>1, <1>QuietGate
  <2>3. CASE status[t] = Absent
    <3>1. status' = [status EXCEPT ![t] = s] /\ NoteStatus(t, s)
      BY <1>5, <2>3 DEF Create
    <3>2. s = "planning" \/ s = "proposed"
      BY ControlPlaneAssumption
    <3>3. Gated'
      BY <1>0, <2>1, <3>1, <3>2 DEF Gated, NoteStatus, TypeOK, WorkerStatuses
    <3>4. Unclaimed'
      BY <3>1, <3>2 DEF Unclaimed, NoteStatus, TypeOK
    <3>5. OneWinner'
      BY <3>1, <3>2 DEF OneWinner, NoteStatus, TypeOK
    <3> QED BY <3>3, <3>4, <3>5
  <2> QED BY <2>2, <2>3
<1>6. ASSUME NEW c \in Clients, NEW t \in Tasks, status[t] = "proposed", Win(c, t), Moves(c)
      PROVE  Gated' /\ Unclaimed' /\ OneWinner'
  <2>1. t \in proposed /\ winners[t] = {}
    BY <1>6 DEF Gated, Unclaimed
  <2>2. Gated'
    BY <1>0, <1>6, <2>1 DEF Win, Moves, Gated, TypeOK
  <2>3. Unclaimed'
    BY <1>6 DEF Win, Unclaimed, TypeOK
  <2>4. OneWinner'
    BY <1>6, <2>1 DEF Win, OneWinner, TypeOK
  <2> QED BY <2>2, <2>3, <2>4
<1> QED BY <1>1, <1>2, <1>3, <1>4, <1>5, <1>6, StepKinds DEF WriteStep, CreateStep, WinStep

-----------------------------------------------------------------------------

\* The inductive invariant holds of every reachable state.
THEOREM Invariance == Spec => []IInv
<1>InitIInv. Init => IInv
  <2> SUFFICES ASSUME Init PROVE IInv
    OBVIOUS
  <2>1. TypeOK
    <3>1. [k \in Kinds |-> <<>>] \in [Kinds -> Seq(Jobs)]
      OBVIOUS
    <3> QED BY <3>1, RequestTypes DEF Init, TypeOK
  <2>2. RequestsWellFormed
    BY RequestTypes DEF Init, RequestsWellFormed
  <2>3. Gated /\ Unclaimed /\ OneWinner
    BY DEF Init, Gated, Unclaimed, OneWinner, Idle, Absent, Lifecycle!Absent, WorkerStatuses
  <2> QED BY <2>1, <2>2, <2>3 DEF IInv
<1>1. IInv /\ [Next]_vars => IInv'
  BY TypeStep, GateStep DEF IInv
<1> QED BY <1>InitIInv, <1>1, PTL DEF Spec

\* Rows, queues and requests keep their types in every interleaving of
\* requests.
THEOREM TypeCorrectness == Spec => []TypeOK
<1>1. IInv => TypeOK
  BY DEF IInv
<1> QED BY Invariance, <1>1, PTL

\* The plan gate: no interleaving of any requests gets a task claimed, worked
\* on, reviewed or done that was never proposed.
THEOREM PlanGateHolds == Spec => []PlanGate
<1>1. IInv => PlanGate
  BY DEF IInv, Gated, PlanGate
<1> QED BY Invariance, <1>1, PTL

\* Each time a task is proposed at most one client's claim of it succeeds.
THEOREM OneWinnerHolds == Spec => []OneWinner
<1>1. IInv => OneWinner
  BY DEF IInv
<1> QED BY Invariance, <1>1, PTL

-----------------------------------------------------------------------------
(***************************************************************************)
(* The state machine's promise. updateTask checks the transition and then  *)
(* writes, whatever the row is by then. A request keeps what its check     *)
(* found, so an UPDATE leaves the state machine only if the row's status   *)
(* was written meanwhile; with one client, i.e. as long as requests do not *)
(* overlap, that cannot be and the control plane implements TaskLifecycle. *)
(***************************************************************************)

\* A request that Checked lets through asks for a status the row may take.
LEMMA CheckedFinds ==
  ASSUME NEW r \in Requests, Checked(r).stage = "write"
  PROVE  LET q == Checked(r)
         IN  /\ q.saw = status[q.task] /\ q.saw # Absent
             /\ q.to # Same => CanTransition(q.saw, q.to)
<1>1. Checked(r) = [r EXCEPT !.stage = "write", !.saw = status[r.task]]
  BY DEF Checked, Reply, Idle
<1>2. Checked(r).to = r.to /\ Checked(r).task = r.task /\ Checked(r).saw = status[r.task]
  BY <1>1 DEF Requests
<1> QED BY <1>1, <1>2 DEF Checked, Reply, Idle

\* An UPDATE and a creation bring no request to its UPDATE.
LEMMA WritesMove ==
  ASSUME TypeOK, NEW c \in Clients,
         \/ Write(c)
         \/ \E t \in Tasks, s \in BirthStatuses, plan \in BOOLEAN : Create(c, t, s, plan)
  PROVE  Moves(c)
<1>0. req \in [Clients -> Requests]
  BY DEF TypeOK
<1>1. PICK r \in {Reply("ok"), Reply("error")} \cup {ToSend(j) : j \in Jobs \cup {NoJob}} :
        req' = [req EXCEPT ![c] = r]
  <2>1. CASE Write(c)
    <3>1. req[c].job \in Jobs \cup {NoJob}
      BY <1>0 DEF Requests
    <3> QED BY <2>1, <3>1 DEF Write, Respond
  <2>2. ASSUME NEW t \in Tasks, NEW s, NEW plan \in BOOLEAN, Create(c, t, s, plan)
        PROVE  \E r \in {Reply("ok"), Reply("error")} \cup {ToSend(j) : j \in Jobs \cup {NoJob}} :
                 req' = [req EXCEPT ![c] = r]
    <3>1. Job("plan", t, 0) \in Jobs
      BY ControlPlaneAssumption, RequestTypes DEF Kinds
    <3> QED BY <2>2, <3>1 DEF Create, Submit
  <2> QED BY <2>1, <2>2
<1>2. r.stage # "write"
  BY <1>1 DEF Reply, ToSend, Idle
<1> QED BY <1>0, <1>1, <1>2 DEF Moves

\* No step undoes what a check found, with any number of clients.
LEMMA ChecksStep ==
  ASSUME IInv, ChecksHeld, [Next]_vars
  PROVE  ChecksHeld'
<1>0. TypeOK /\ req \in [Clients -> Requests]
  BY DEF IInv, TypeOK
<1>1. CASE UNCHANGED vars
  BY <1>1 DEF vars, ChecksHeld
<1>2. ASSUME NEW c \in Clients, Moves(c)
      PROVE  ChecksHeld'
  <2>1. \A d \in Clients \ {c} : req'[d] = req[d]
    BY <1>0, <1>2 DEF Moves
  <2> QED BY <1>2, <2>1 DEF Moves, ChecksHeld
<1>3. CASE CheckStep
  <2>1. PICK c \in Clients, r \in Requests : req' = [req EXCEPT ![c] = Checked(r)]
    BY <1>3 DEF CheckStep
  <2>2. req'[c] = Checked(r) /\ \A d \in Clients \ {c} : req'[d] = req[d]
    BY <1>0, <2>1
  <2> QED BY <2>2, CheckedFinds DEF ChecksHeld
<1> QED BY <1>0, <1>1, <1>2, <1>3, StepKinds, WritesMove
        DEF QuietStep, WriteStep, CreateStep, WinStep

\* A step is one of the abstract machine, unless it is an UPDATE that was overtaken.
LEMMA LawfulStep ==
  ASSUME IInv, ChecksHeld, [Next]_vars
  PROVE  \/ [Lifecycle!Next]_status
         \/ \E c \in Clients : Write(c) /\ status[req[c].task] # req[c].saw
<1>1. CASE UNCHANGED vars \/ QuietStep \/ CheckStep
  BY <1>1 DEF vars, QuietStep, CheckStep, QuietTables
<1>2. ASSUME NEW c \in Clients, Write(c), status[req[c].task] = req[c].saw
      PROVE  [Lifecycle!Next]_status
  <2> DEFINE t  == req[c].task
             to == req[c].to
  <2>1. t \in Tasks /\ to \in Statuses \cup {Same}
    BY <1>2 DEF IInv, TypeOK, Write, RequestsWellFormed, WellFormed, Requests
  <2>2. CASE to = Same
    BY <1>2, <2>2 DEF Write
  <2>3. CASE to # Same
    <3>1. /\ CanTransition(status[t], to) /\ status[t] # Absent
          /\ status' = [status EXCEPT ![t] = to]
      BY <1>2, <2>3 DEF Write, ChecksHeld
    <3> QED BY <2>1, <2>3, <3>1
            DEF Lifecycle!Next, Lifecycle!Move, CanTransition, Statuses, Absent
  <2> QED BY <2>2, <2>3
<1>3. ASSUME NEW c \in Clients, NEW t \in Tasks, NEW s \in BirthStatuses,
             NEW plan \in BOOLEAN, Create(c, t, s, plan)
      PROVE  [Lifecycle!Next]_status
  BY <1>3 DEF Create, Lifecycle!Next, Lifecycle!Create, Absent
<1>4. ASSUME NEW c \in Clients, NEW t \in Tasks, status[t] = "proposed", Win(c, t)
      PROVE  [Lifecycle!Next]_status
  <2>1. /\ Lifecycle!CanTransition(status[t], "claimed")
        /\ status[t] # Lifecycle!Absent /\ "claimed" \in Lifecycle!Statuses
    BY <1>4 DEF Lifecycle!CanTransition, Lifecycle!Transitions, Lifecycle!Absent,
       Lifecycle!Statuses
  <2>2. status' = [status EXCEPT ![t] = "claimed"]
    BY <1>4 DEF Win
  <2> QED BY <1>4, <2>1, <2>2 DEF Lifecycle!Next, Lifecycle!Move
<1> QED BY <1>1, <1>2, <1>3, <1>4, StepKinds DEF WriteStep, CreateStep, WinStep

\* Whatever requests overlap, fail or are repeated, a task is created and moved only
\* along the edges of the state machine, unless an UPDATE was overtaken.
THEOREM LawfulHolds == Spec => LawfulUnlessOvertaken
<1>1. Init => ChecksHeld
  BY DEF Init, ChecksHeld, Idle
<1>2. IInv /\ ChecksHeld /\ [Next]_vars => ChecksHeld'
  BY ChecksStep
<1>3. IInv /\ ChecksHeld /\ [Next]_vars
      => [status' # status =>
            \/ Lifecycle!Next
            \/ \E c \in Clients : Write(c) /\ status[req[c].task] # req[c].saw]_vars
  BY LawfulStep
<1> QED BY Invariance, <1>1, <1>2, <1>3, PTL DEF Spec, LawfulUnlessOvertaken

\* Requests do not overlap.
OneClient == \A c, d \in Clients : c = d

\* With one client, a step that brings no request but a fresh one to its
\* UPDATE, and leaves the rows alone, keeps the reads fresh.
LEMMA FreshStep ==
  ASSUME OneClient, IInv, ReadsAreFresh, [Next]_vars
  PROVE  ReadsAreFresh'
<1>0. TypeOK /\ req \in [Clients -> Requests]
  BY DEF IInv, TypeOK
<1>1. CASE UNCHANGED vars
  BY <1>1 DEF vars, ReadsAreFresh
<1>2. ASSUME NEW c \in Clients, Moves(c)
      PROVE  ReadsAreFresh'
  BY <1>0, <1>2 DEF Moves, OneClient, ReadsAreFresh
<1>3. CASE CheckStep
  <2>1. PICK c \in Clients, r \in Requests :
          QuietTables /\ req' = [req EXCEPT ![c] = Checked(r)]
    BY <1>3 DEF CheckStep
  <2>2. req'[c] = Checked(r) /\ status' = status /\ \A d \in Clients : d = c
    BY <1>0, <2>1 DEF OneClient, QuietTables
  <2> QED BY <2>2, CheckedFinds DEF ReadsAreFresh
<1> QED BY <1>0, <1>1, <1>2, <1>3, StepKinds, WritesMove
        DEF QuietStep, WriteStep, CreateStep, WinStep

\* As long as requests do not overlap, the control plane implements
\* TaskLifecycle: no request, in whatever order and however it fails, takes a
\* task along an edge the state machine does not have.
THEOREM SerialRefinement ==
  ASSUME OneClient
  PROVE  Spec => LifecycleSpec
<1>1. Init => Lifecycle!Init /\ ReadsAreFresh /\ ChecksHeld
  BY DEF Init, Lifecycle!Init, Absent, ReadsAreFresh, ChecksHeld, Idle
<1>2. IInv /\ ReadsAreFresh /\ ChecksHeld /\ [Next]_vars => (ReadsAreFresh /\ ChecksHeld)'
  BY FreshStep, ChecksStep
<1>3. IInv /\ ReadsAreFresh /\ ChecksHeld /\ [Next]_vars => [Lifecycle!Next]_status
  <2>1. ASSUME IInv, ReadsAreFresh, NEW c \in Clients, Write(c)
        PROVE  status[req[c].task] = req[c].saw
    BY <2>1 DEF Write, ReadsAreFresh
  <2> QED BY <2>1, LawfulStep
<1> QED BY Invariance, <1>1, <1>2, <1>3, PTL DEF Spec, LifecycleSpec, Lifecycle!Spec

-----------------------------------------------------------------------------
(***************************************************************************)
(* The control plane with its daemon, programs and operators.              *)
(*                                                                         *)
(* The inductive invariant. Its first part holds whatever fails.           *)
(***************************************************************************)

\* A slot has a job from the response to its claim until its program is over,
\* and a fix run is one the attempts allow.
HeldJobs ==
  \A s \in Slots :
    /\ pc[s] \in {"free", "claiming"} => held[s] = NoJob
    /\ pc[s] \in {"queued"} \cup Programs => held[s] \in Jobs
    /\ pc[s] = "fix" => held[s].attempt < MaxFixes

\* The stages of a claim that is served.
Claiming == {"fetch", "complete", "dispatch", "claim", "next"}

\* What a slot waits for while it claims is the response to a claim.
ClaimUnderway ==
  \A s \in Slots :
    pc[s] = "claiming" =>
      /\ req[s].stage \in Claiming \cup Answers
      /\ req[s].stage = "ok" => req[s].task \in Tasks

\* The programs of a task take turns.
Locked ==
  \A r, s \in Slots : Running(r) /\ Running(s) /\ TaskOf(r) = TaskOf(s) => r = s

\* Operators neither start tasks nor attach artifacts.
OperatorsOnlyAsk ==
  \A o \in Operators :
    /\ req[o].stage \in {"check", "write"} => req[o].to # "in_progress"
    /\ req[o].stage # "attach"

Sound == FactoryTypeOK /\ IInv /\ HeldJobs /\ ClaimUnderway /\ Locked /\ OperatorsOnlyAsk

(***************************************************************************)
(* As long as no process is killed a request in flight is the one its      *)
(* slot's program waits for.                                               *)
(***************************************************************************)

\* The places where a program waits for nothing, and those where it makes a
\* call: with the status it sets, with an artifact, with a job.
Quiet == {"free", "queued", "begin", "work", "plan", "draft", "watch", "hung"}
StatusSet(place) ==
  CASE place = "reserve" -> "claimed"
    [] place = "start"   -> "in_progress"
    [] place = "finish"  -> "review"
    [] place = "fail"    -> "failed"
Patching == {"reserve", "start", "finish", "fail"}
Pinning == {"pin", "planpin"}
Sending == {"announce", "planwatch", "fix"}

Waits(s) ==
  /\ pc[s] \in Quiet => req[s] = Idle
  /\ pc[s] \in Patching =>
       \/ req[s] = Idle \/ req[s].stage \in {"ok", "error"}
       \/ /\ req[s].stage = "write" /\ req[s].task = TaskOf(s)
          /\ req[s].to = StatusSet(pc[s]) /\ req[s].job = NoJob
  /\ pc[s] \in Pinning =>
       \/ req[s] = Idle \/ req[s].stage \in {"ok", "error"}
       \/ req[s].stage = "attach" /\ req[s].task = TaskOf(s)
  /\ pc[s] \in Sending => req[s] = Idle \/ req[s].stage \in {"enqueue", "ok", "error"}

CallsMatch == \A s \in Slots : Waits(s)

\* A program that has read a task without a pull request is the one to pin it.
SnapshotsHold ==
  \A s \in Slots :
    pc[s] \in {"reserve", "start", "work", "draft"} /\ ~pinned[s] => ~HasPr(TaskOf(s))

\* A task in progress is a program's that has yet to report how it ended.
Attended ==
  \A t \in Tasks : status[t] = "in_progress" =>
    \E s \in Slots :
      /\ TaskOf(s) = t
      /\ \/ pc[s] \in {"start", "work", "pin", "announce", "hung"}
         \/ pc[s] \in {"finish", "fail"} /\ req[s].stage \notin Answers

FactoryInv ==
  /\ Sound
  /\ crashes = 0 => CallsMatch /\ SnapshotsHold /\ PinsOnce
  /\ crashes = 0 /\ outages = 0 => Attended

(***************************************************************************)
(* A step of a slot's program is a call, or the answer to one or a step    *)
(* without any that takes the program to another place.                    *)
(***************************************************************************)

Calls(s) ==
  /\ UNCHANGED workVars
  /\ \/ pc[s] \in Patching /\ Patch(s, TaskOf(s), StatusSet(pc[s]), Worker)
     \/ pc[s] \in Pinning /\ AddArtifact(s, TaskOf(s), "pr")
     \/ /\ pc[s] \in Sending
        /\ \E k \in Kinds, n \in 0 .. MaxAttempt : EnqueueJob(s, k, TaskOf(s), n)

Moment(s) ==
  \/ pc[s] \in Quiet \ {"free"} /\ UNCHANGED vars
  \/ pc[s] \in Patching \cup Pinning \cup Sending /\ Return(s)

\* Where it goes, and what it keeps.
Goes(s) ==
  /\ UNCHANGED <<asks, crashes, outages>>
  /\ pc' = [pc EXCEPT ![s] = pc'[s]] /\ pc[s] \in {"queued"} \cup Programs
  /\ \/ pc'[s] \in Programs /\ held' = held
     \/ pc'[s] = "free" /\ held' = [held EXCEPT ![s] = NoJob]
  /\ pinned' = [pinned EXCEPT ![s] = pinned'[s]] /\ pinned'[s] \in BOOLEAN
  /\ pc[s] = "queued" =>
       \A r \in Slots \ {s} : Running(r) => TaskOf(r) # TaskOf(s)
  /\ pc'[s] = "fix" => held[s].attempt < MaxFixes
  /\ pc'[s] \in Pinning => pc[s] \in {"work", "draft"} /\ ~pinned[s]
  /\ pc'[s] \in {"reserve", "start", "work", "draft"} =>
       \/ pinned'[s] = HasPr(TaskOf(s))
       \/ pinned'[s] = pinned[s] /\ pc[s] \in {"reserve", "start"}
  /\ pc[s] \in {"start", "work", "pin", "announce", "hung"} =>
       pc'[s] \in {"work", "pin", "announce", "finish", "fail", "hung"}

LEMMA ProgramSteps ==
  ASSUME FactoryTypeOK, HeldJobs, NEW s \in Slots, RunJob(s) \/ Hang(s)
  PROVE  Calls(s) \/ (Moment(s) /\ Goes(s))
<1>0. /\ pc \in [Slots -> Places] /\ held \in [Slots -> Jobs \cup {NoJob}]
      /\ pinned \in [Slots -> BOOLEAN]
  BY DEF FactoryTypeOK
<1>1. ASSUME NEW place \in Places, Goto(s, place)
      PROVE  /\ UNCHANGED <<asks, crashes, outages>> /\ held' = held
             /\ pc' = [pc EXCEPT ![s] = pc'[s]] /\ pc'[s] = place
             /\ pinned' = pinned /\ pinned' = [pinned EXCEPT ![s] = pinned'[s]]
             /\ pinned'[s] \in BOOLEAN
  BY <1>0, <1>1 DEF Goto
<1>2. ASSUME Release(s)
      PROVE  /\ UNCHANGED <<asks, crashes, outages>>
             /\ held' = [held EXCEPT ![s] = NoJob]
             /\ pc' = [pc EXCEPT ![s] = pc'[s]] /\ pc'[s] = "free"
             /\ pinned' = [pinned EXCEPT ![s] = pinned'[s]] /\ pinned'[s] \in BOOLEAN
  BY <1>0, <1>2 DEF Release
<1>3. /\ Worker \in Agents /\ MaxFixes \in Nat /\ MaxFixes <= MaxAttempt
      /\ MaxAttempt \in Nat
  BY FactoryAssumption, ControlPlaneAssumption
<1>4. CASE Acquire(s)
  <2>1. PICK place \in {"plan", "watch", "begin"} : Goto(s, place)
    BY <1>4 DEF Acquire, RunProgram
  <2> QED
    BY <1>1, <1>4, <2>1
    DEF Acquire, RunProgram, Moment, Goes, Quiet, Programs, Places, Pinning
<1>5. CASE Begin(s)
  <2>1. /\ pc[s] = "begin" /\ UNCHANGED vars /\ held' = held
        /\ UNCHANGED <<asks, crashes, outages>>
        /\ pc' = [pc EXCEPT ![s] = pc'[s]] /\ pc'[s] \in {"reserve", "start", "fail"}
        /\ pinned' = [pinned EXCEPT ![s] = pinned'[s]]
        /\ pinned'[s] = HasPr(TaskOf(s)) /\ HasPr(TaskOf(s)) \in BOOLEAN
    BY <1>0, <1>5 DEF Begin, HasPr
  <2> QED BY <2>1 DEF Moment, Goes, Quiet, Programs, Pinning
<1>6. CASE Plan(s)
  <2>1. CASE status[TaskOf(s)] = "planning"
    <3>1. /\ pc[s] = "plan" /\ UNCHANGED vars /\ held' = held
          /\ UNCHANGED <<asks, crashes, outages>>
          /\ pc' = [pc EXCEPT ![s] = pc'[s]] /\ pc'[s] = "draft"
          /\ pinned' = [pinned EXCEPT ![s] = pinned'[s]]
          /\ pinned'[s] = HasPr(TaskOf(s)) /\ HasPr(TaskOf(s)) \in BOOLEAN
      BY <1>0, <1>6, <2>1 DEF Plan, HasPr
    <3> QED BY <3>1 DEF Moment, Goes, Quiet, Programs, Pinning
  <2>2. CASE status[TaskOf(s)] # "planning"
    BY <1>2, <1>6, <2>2 DEF Plan, Moment, Goes, Quiet, Programs, Pinning
  <2> QED BY <2>1, <2>2
<1>7. CASE Work(s)
  <2>1. PICK next \in {"fail", "finish", IF pinned[s] THEN "announce" ELSE "pin"} :
          Goto(s, next)
    BY <1>7 DEF Work
  <2>2. /\ next \in {"fail", "finish", "announce", "pin"}
        /\ next = "pin" => ~pinned[s]
    BY <2>1
  <2>3. pc[s] = "work" /\ UNCHANGED vars
    BY <1>7 DEF Work
  <2> QED
    BY <1>1, <2>1, <2>2, <2>3 DEF Moment, Goes, Quiet, Programs, Places, Pinning
<1>8. CASE Draft(s)
  <2>1. pc[s] = "draft" /\ UNCHANGED vars
    BY <1>8 DEF Draft
  <2>2. CASE Release(s)
    BY <1>2, <2>1, <2>2 DEF Moment, Goes, Quiet, Programs, Pinning
  <2>3. CASE Goto(s, IF pinned[s] THEN "planwatch" ELSE "planpin")
    <3>1. PICK next \in {"planwatch", "planpin"} :
            Goto(s, next) /\ (next = "planpin" => ~pinned[s])
      BY <2>3
    <3> QED BY <1>1, <2>1, <3>1 DEF Moment, Goes, Quiet, Programs, Places, Pinning
  <2> QED BY <1>8, <2>2, <2>3 DEF Draft
<1>9. CASE Watch(s)
  <2>1. pc[s] = "watch" /\ UNCHANGED vars
    BY <1>9 DEF Watch
  <2>2. CASE Release(s)
    BY <1>2, <2>1, <2>2 DEF Moment, Goes, Quiet, Programs, Pinning
  <2>3. CASE held[s].attempt < MaxFixes /\ Goto(s, "fix")
    BY <1>1, <2>1, <2>3 DEF Moment, Goes, Quiet, Programs, Places, Pinning
  <2> QED BY <1>9, <2>2, <2>3 DEF Watch
<1>10. ASSUME NEW place \in Patching, SetStatus(s, place, StatusSet(place))
       PROVE  Calls(s)
  BY <1>10 DEF SetStatus, Calls
<1>11. ASSUME pc[s] \in Patching \cup Pinning \cup Sending, Return(s),
              NEW place \in Programs \ {"fix", "pin", "planpin", "reserve", "start", "draft"},
              Goto(s, place), place = "work" => pc[s] = "start",
              pc[s] \in {"start", "pin", "announce"} =>
                place \in {"work", "announce", "finish", "fail"}
       PROVE  Moment(s) /\ Goes(s)
  BY <1>1, <1>11 DEF Moment, Goes, Programs, Places, Patching, Pinning, Sending
<1>12. ASSUME pc[s] \in {"finish", "fail", "planwatch", "fix"}, Return(s), Release(s)
       PROVE  Moment(s) /\ Goes(s)
  BY <1>2, <1>12 DEF Moment, Goes, Programs, Patching, Pinning, Sending
<1>13. CASE Reserve(s)
  <2>1. CASE SetStatus(s, "reserve", "claimed")
    BY <1>10, <2>1 DEF Patching, StatusSet
  <2>2. CASE pc[s] = "reserve" /\ Answered(s) /\ Proceed(s, "start", "fail")
    <3>1. Return(s) /\ (Goto(s, "start") \/ Goto(s, "fail"))
      BY <2>2 DEF Proceed
    <3> QED
      BY <1>1, <2>2, <3>1
      DEF Moment, Goes, Programs, Places, Patching, Pinning, Sending
  <2> QED BY <1>13, <2>1, <2>2 DEF Reserve
<1>14. CASE Start(s)
  <2>1. CASE SetStatus(s, "start", "in_progress")
    BY <1>10, <2>1 DEF Patching, StatusSet
  <2>2. CASE pc[s] = "start" /\ Answered(s) /\ Proceed(s, "work", "fail")
    <3>1. Return(s) /\ (Goto(s, "work") \/ Goto(s, "fail"))
      BY <2>2 DEF Proceed
    <3> QED BY <1>11, <2>2, <3>1 DEF Programs, Patching
  <2> QED BY <1>14, <2>1, <2>2 DEF Start
<1>15. CASE Pin(s)
  <2>1. CASE pc[s] = "pin" /\ AddArtifact(s, TaskOf(s), "pr") /\ UNCHANGED workVars
    BY <2>1 DEF Calls, Pinning
  <2>2. CASE pc[s] = "pin" /\ Answered(s) /\ Proceed(s, "announce", "fail")
    <3>1. Return(s) /\ (Goto(s, "announce") \/ Goto(s, "fail"))
      BY <2>2 DEF Proceed
    <3> QED BY <1>11, <2>2, <3>1 DEF Programs, Pinning
  <2> QED BY <1>15, <2>1, <2>2 DEF Pin
<1>16. CASE Announce(s)
  <2>1. CASE /\ pc[s] = "announce" /\ UNCHANGED workVars
             /\ EnqueueJob(s, "watch-checks", TaskOf(s), held[s].attempt)
    <3>1. held[s] \in Jobs
      BY <2>1 DEF HeldJobs, Programs
    <3> QED BY <2>1, <3>1 DEF Calls, Sending, Jobs, Kinds
  <2>2. CASE pc[s] = "announce" /\ Answered(s) /\ Proceed(s, "finish", "finish")
    <3>1. Return(s) /\ Goto(s, "finish")
      BY <2>2 DEF Proceed
    <3> QED BY <1>11, <2>2, <3>1 DEF Programs, Sending
  <2> QED BY <1>16, <2>1, <2>2 DEF Announce, SendWatch
<1>17. CASE Finish(s)
  <2>1. CASE SetStatus(s, "finish", "review")
    BY <1>10, <2>1 DEF Patching, StatusSet
  <2>2. CASE /\ pc[s] = "finish" /\ Return(s)
             /\ Release(s) \/ Goto(s, "fail")
    BY <1>11, <1>12, <2>2 DEF Programs, Patching
  <2> QED BY <1>17, <2>1, <2>2 DEF Finish
<1>18. CASE Fail(s)
  <2>1. CASE SetStatus(s, "fail", "failed")
    BY <1>10, <2>1 DEF Patching, StatusSet
  <2>2. CASE pc[s] = "fail" /\ Answered(s) /\ Return(s) /\ Release(s)
    BY <1>12, <2>2
  <2> QED BY <1>18, <2>1, <2>2 DEF Fail
<1>19. CASE PlanPin(s)
  <2>1. CASE pc[s] = "planpin" /\ AddArtifact(s, TaskOf(s), "pr") /\ UNCHANGED workVars
    BY <2>1 DEF Calls, Pinning
  <2>2. CASE pc[s] = "planpin" /\ Answered(s) /\ Proceed(s, "planwatch", "planwatch")
    <3>1. Return(s) /\ Goto(s, "planwatch")
      BY <2>2 DEF Proceed
    <3> QED BY <1>11, <2>2, <3>1 DEF Programs, Pinning
  <2> QED BY <1>19, <2>1, <2>2 DEF PlanPin
<1>20. CASE PlanWatch(s)
  <2>1. CASE /\ pc[s] = "planwatch" /\ UNCHANGED workVars
             /\ EnqueueJob(s, "watch-checks", TaskOf(s), 0)
    BY <1>3, <2>1 DEF Calls, Sending, Kinds
  <2>2. CASE pc[s] = "planwatch" /\ Answered(s) /\ Return(s) /\ Release(s)
    BY <1>12, <2>2
  <2> QED BY <1>20, <2>1, <2>2 DEF PlanWatch
<1>21. CASE Fix(s)
  <2>1. CASE /\ pc[s] = "fix" /\ UNCHANGED workVars
             /\ EnqueueJob(s, "implement", TaskOf(s), held[s].attempt + 1)
    <3>1. held[s].attempt \in 0 .. MaxAttempt /\ held[s].attempt < MaxFixes
      BY <2>1 DEF HeldJobs, Programs, Jobs
    <3>2. held[s].attempt + 1 \in 0 .. MaxAttempt
      BY <1>3, <3>1
    <3> QED BY <2>1, <3>2 DEF Calls, Sending, Kinds
  <2>2. CASE pc[s] = "fix" /\ Answered(s) /\ Return(s) /\ Release(s)
    BY <1>12, <2>2
  <2> QED BY <1>21, <2>1, <2>2 DEF Fix
<1>22. CASE Hang(s)
  <2>1. pc[s] \in {"work", "draft", "watch"} /\ UNCHANGED vars /\ Goto(s, "hung")
    BY <1>22 DEF Hang
  <2> QED BY <1>1, <2>1 DEF Moment, Goes, Quiet, Programs, Places, Pinning
<1> QED
  BY <1>4, <1>5, <1>6, <1>7, <1>8, <1>9, <1>13, <1>14, <1>15, <1>16, <1>17, <1>18,
     <1>19, <1>20, <1>21, <1>22 DEF RunJob

(***************************************************************************)
(* What a step of a handler does to its request, the rows and the          *)
(* artifacts.                                                              *)
(***************************************************************************)

Served(c) ==
  /\ req' = [req EXCEPT ![c] = req'[c]]
  /\ req[c].stage \notin Answers \cup {"idle"}
  /\ req'[c].stage \notin {"idle", "check", "attach"}
  /\ req'[c].stage = "write" => req[c].stage = "check" /\ req'[c].to = req[c].to
  /\ req[c].stage = "write" =>
       /\ req'[c].stage \in {"ok", "enqueue"}
       /\ req[c].job = NoJob => req'[c].stage = "ok"
  /\ req[c].stage \in {"attach", "enqueue"} => req'[c].stage = "ok"
  /\ req[c].stage \in Claiming =>
       /\ req'[c].stage \in Claiming \cup Answers
       /\ req'[c].stage = "ok" => req'[c].task \in Tasks

RowsServed(c) ==
  \/ req[c].stage # "write" /\ status' = status
  \/ req[c].stage = "write" /\ req[c].to = Same /\ status' = status
  \/ /\ req[c].stage = "write" /\ req[c].task \in Tasks
     /\ status' = [status EXCEPT ![req[c].task] = req[c].to]
  \/ \E t \in Tasks : req[c].stage # "write" /\ status' = [status EXCEPT ![t] = "claimed"]

ArtifactsServed(c) ==
  \/ artifacts' = artifacts
  \/ /\ req[c].stage = "attach" /\ req[c].task \in Tasks
     /\ artifacts' = [artifacts EXCEPT ![req[c].task] = req[c].arts]

LEMMA HandleSteps ==
  ASSUME TypeOK, RequestsWellFormed, NEW c \in Clients, Handle(c)
  PROVE  Served(c) /\ RowsServed(c) /\ ArtifactsServed(c)
<1>0. /\ req \in [Clients -> Requests] /\ req[c] \in Requests /\ WellFormed(req[c])
      /\ "stage" \in DOMAIN req[c] /\ "task" \in DOMAIN req[c]
  BY DEF TypeOK, RequestsWellFormed, Requests
<1>1. ASSUME NEW answer \in Answers, Respond(c, answer)
      PROVE  /\ req' = [req EXCEPT ![c] = req'[c]]
             /\ req'[c].stage = answer
  BY <1>0, <1>1 DEF Respond, Reply, Idle
<1>2. ASSUME NEW stage, Reach(c, stage)
      PROVE  /\ req' = [req EXCEPT ![c] = req'[c]]
             /\ req'[c].stage = stage /\ req'[c].task = req[c].task
  <2>1. req'[c] = [req[c] EXCEPT !.stage = stage]
    BY <1>0, <1>2 DEF Reach
  <2> QED BY <1>0, <1>2, <2>1 DEF Reach, Requests
<1>3. CASE Check(c)
  <2>1. req' = [req EXCEPT ![c] = Checked(req[c])] /\ req[c].stage = "check"
    BY <1>3 DEF Check
  <2>2. \/ Checked(req[c]) = Reply("error")
        \/ Checked(req[c]) = [req[c] EXCEPT !.stage = "write", !.saw = status[req[c].task]]
    BY DEF Checked
  <2>3. req'[c] = Checked(req[c]) /\ req' = [req EXCEPT ![c] = req'[c]]
    BY <1>0, <2>1
  <2>4. \/ req'[c].stage = "error"
        \/ req'[c].stage = "write" /\ req'[c].to = req[c].to
    BY <1>0, <2>2, <2>3 DEF Reply, Idle, Requests
  <2>5. Served(c)
    BY <2>1, <2>3, <2>4 DEF Served, Claiming, Answers
  <2> QED BY <1>3, <2>1, <2>5 DEF Check, RowsServed, ArtifactsServed
<1>4. CASE Write(c)
  <2>1. req[c].stage = "write" /\ req[c].task \in Tasks
    BY <1>0, <1>4 DEF Write, WellFormed
  <2>2. \/ req[c].job = NoJob /\ req' = [req EXCEPT ![c] = Reply("ok")]
        \/ req[c].job # NoJob /\ req' = [req EXCEPT ![c] = ToSend(req[c].job)]
    BY <1>0, <1>4 DEF Write, Respond
  <2>3. /\ req' = [req EXCEPT ![c] = req'[c]]
        /\ req'[c].stage \in {"ok", "enqueue"}
        /\ req[c].job = NoJob => req'[c].stage = "ok"
    BY <1>0, <2>2 DEF Reply, ToSend, Idle
  <2>4. Served(c)
    BY <2>1, <2>3 DEF Served, Claiming, Answers
  <2>5. RowsServed(c)
    BY <1>4, <2>1 DEF Write, RowsServed
  <2> QED BY <1>4, <2>4, <2>5 DEF Write, ArtifactsServed
<1>5. CASE Attach(c) \/ Enqueue(c)
  <2>1. Respond(c, "ok") /\ req[c].stage \in {"attach", "enqueue"} /\ status' = status
    BY <1>5 DEF Attach, Enqueue
  <2>2. Served(c)
    BY <1>1, <2>1 DEF Served, Claiming, Answers
  <2>3. ArtifactsServed(c)
    BY <1>0, <1>5 DEF ArtifactsServed, Attach, Enqueue, WellFormed
  <2> QED BY <2>1, <2>2, <2>3 DEF RowsServed
<1>6. CASE Fetch(c)
  <2>1. req[c].stage = "fetch" /\ status' = status /\ artifacts' = artifacts
    BY <1>6 DEF Fetch
  <2>2. req' = [req EXCEPT ![c] = req'[c]] /\ req'[c].stage \in Claiming
    <3>1. CASE Reach(c, IF req[c].task = NoTask THEN "next" ELSE "claim")
      BY <1>2, <3>1 DEF Claiming
    <3>2. CASE req' = [req EXCEPT ![c].left = Tail(@)]
      BY <1>0, <2>1, <3>2 DEF Claiming
    <3>3. CASE req' = [req EXCEPT ![c] =
                         [@ EXCEPT !.stage = "complete", !.left = <<>>,
                                   !.task = Head(queue[Head(req[c].left)]).task,
                                   !.job  = Head(queue[Head(req[c].left)])]]
      BY <1>0, <3>3 DEF Claiming
    <3> QED BY <1>6, <3>1, <3>2, <3>3 DEF Fetch
  <2> QED
    BY <2>1, <2>2 DEF Served, RowsServed, ArtifactsServed, Claiming, Answers
<1>7. CASE Complete(c)
  BY <1>2, <1>7
  DEF Complete, Served, RowsServed, ArtifactsServed, Claiming, Answers
<1>8. CASE Dispatch(c)
  <2>1. /\ req[c].stage = "dispatch" /\ status' = status /\ artifacts' = artifacts
        /\ Respond(c, "empty") \/ Reach(c, "claim") \/ Reach(c, "ok")
        /\ req[c].task \in Tasks
    BY <1>0, <1>8 DEF Dispatch, WellFormed
  <2> QED
    BY <1>1, <1>2, <2>1 DEF Served, RowsServed, ArtifactsServed, Claiming, Answers
<1>9. CASE ClaimTask(c)
  <2>1. req[c].stage = "claim" /\ req[c].task \in Tasks
    BY <1>0, <1>9 DEF ClaimTask, WellFormed
  <2>2. CASE Win(c, req[c].task) /\ Reach(c, "ok")
    <3>1. /\ req' = [req EXCEPT ![c] = req'[c]]
          /\ req'[c].stage = "ok" /\ req'[c].task = req[c].task
      BY <1>2, <2>2
    <3>2. Served(c)
      BY <2>1, <3>1 DEF Served, Claiming, Answers
    <3> QED BY <2>1, <2>2, <3>2 DEF Win, RowsServed, ArtifactsServed
  <2>3. CASE Respond(c, "error") /\ UNCHANGED <<status, artifacts>>
    BY <1>1, <2>1, <2>3 DEF Served, RowsServed, ArtifactsServed, Claiming, Answers
  <2> QED BY <1>9, <2>2, <2>3 DEF ClaimTask
<1>10. CASE ClaimNextProposed(c)
  <2>1. req[c].stage = "next"
    BY <1>10 DEF ClaimNextProposed
  <2>2. ASSUME NEW t \in Tasks, Win(c, t),
               req' = [req EXCEPT ![c].stage = "ok", ![c].task = t]
        PROVE  Served(c) /\ RowsServed(c) /\ ArtifactsServed(c)
    <3>1. req'[c] = [req[c] EXCEPT !.stage = "ok", !.task = t]
      BY <1>0, <2>2
    <3>2. req'[c].stage = "ok" /\ req'[c].task = t
      BY <1>0, <3>1 DEF Requests
    <3>3. req' = [req EXCEPT ![c] = req'[c]]
      BY <1>0, <2>2, <3>1
    <3> QED
      BY <2>1, <2>2, <3>2, <3>3
      DEF Win, Served, RowsServed, ArtifactsServed, Claiming, Answers
  <2>3. CASE Respond(c, "empty") /\ UNCHANGED <<status, artifacts>>
    BY <1>1, <2>1, <2>3 DEF Served, RowsServed, ArtifactsServed, Claiming, Answers
  <2> QED BY <1>10, <2>2, <2>3 DEF ClaimNextProposed
<1> QED
  BY <1>3, <1>4, <1>5, <1>6, <1>7, <1>8, <1>9, <1>10 DEF Handle

(***************************************************************************)
(* What every step of the factory is to the control plane.                 *)
(***************************************************************************)

\* Every step of the factory is a step of ControlPlane or leaves it alone.
LEMMA FactoryStep ==
  ASSUME Sound, [FactoryNext]_fvars
  PROVE  [Next]_vars
<1>0. /\ Slots \subseteq Clients /\ Operators \subseteq Clients /\ Worker \in Agents
      /\ "pr" \in ArtifactKinds
  BY FactoryAssumption
<1>1. ASSUME NEW s \in Slots, RunJob(s) \/ Hang(s)
      PROVE  [Next]_vars
  <2>1. CASE Calls(s)
    <3>1. pc[s] \in Programs
      BY <2>1 DEF Calls, Patching, Pinning, Sending, Programs
    <3>2. TaskOf(s) \in Tasks
      BY <3>1 DEF Sound, HeldJobs, TaskOf, Jobs
    <3>3. pc[s] \in Patching => StatusSet(pc[s]) \in Statuses
      BY DEF Patching, StatusSet, Statuses, Lifecycle!Statuses
    <3>4. Request(s, TaskOf(s))
      BY <1>0, <2>1, <3>3 DEF Calls, Request
    <3> QED BY <1>0, <3>2, <3>4 DEF Next
  <2>2. CASE Moment(s)
    BY <1>0, <2>2 DEF Moment, Next
  <2> QED BY <1>1, <2>1, <2>2, ProgramSteps DEF Sound
<1>2. ASSUME NEW s \in Slots, Poll(s) PROVE [Next]_vars
  BY <1>0, <1>2 DEF Poll, Claim, Next
<1>3. ASSUME NEW s \in Slots, Claimed(s) \/ Unheard(s) PROVE [Next]_vars
  BY <1>0, <1>3 DEF Claimed, Unheard, Next
<1>4. ASSUME NEW s \in Slots, BeginUnread(s) \/ Crash(s) PROVE [Next]_vars
  BY <1>4 DEF BeginUnread, Crash
<1>5. ASSUME NEW o \in Operators, Ask(o) PROVE [Next]_vars
  <2>1. PICK t \in Tasks :
          \/ Intake(o, t) \/ ThreadReply(o, t) \/ Approve(o, t) \/ Cancel(o, t)
          \/ Retry(o, t) \/ Patch(o, t, "done", Keep)
    BY <1>5 DEF Ask
  <2>2. "done" \in Statuses
    BY DEF Statuses, Lifecycle!Statuses
  <2>3. Request(o, t)
    BY <2>1, <2>2 DEF Request
  <2> QED BY <1>0, <2>3 DEF Next
<1>6. ASSUME NEW o \in Operators, Told(o) PROVE [Next]_vars
  BY <1>0, <1>6 DEF Told, Next
<1>7. ASSUME NEW c \in Clients, Serve(c) \/ Outage(c) PROVE [Next]_vars
  BY <1>7 DEF Serve, Outage, Next
<1>8. CASE UNCHANGED fvars
  BY <1>8 DEF fvars
<1> QED
  BY <1>1, <1>2, <1>3, <1>4, <1>5, <1>6, <1>7, <1>8 DEF FactoryNext, Daemon

\* What an operator's request is when it is sent, and what it does to the rows.
LEMMA AskSteps ==
  ASSUME TypeOK, NEW o \in Clients, Ask(o)
  PROVE  /\ req' = [req EXCEPT ![o] = req'[o]]
         /\ req'[o].stage \in {"check", "write"} => req'[o].to # "in_progress"
         /\ req'[o].stage # "attach"
         /\ artifacts' = artifacts
         /\ status' = status \/ \E t \in Tasks : status' = [status EXCEPT ![t] = "planning"]
<1>0. req \in [Clients -> Requests]
  BY DEF TypeOK
<1>1. PICK t \in Tasks :
        \/ status[t] = Absent /\ Intake(o, t)
        \/ ThreadReply(o, t) \/ Approve(o, t) \/ Cancel(o, t) \/ Retry(o, t)
        \/ Patch(o, t, "done", Keep)
  BY DEF Ask
<1> DEFINE Fine(r) == /\ r.stage \in {"check", "write"} => r.to # "in_progress"
                      /\ r.stage # "attach"
<1>2. ASSUME NEW r, Fine(r), req' = [req EXCEPT ![o] = r]
      PROVE  req' = [req EXCEPT ![o] = req'[o]] /\ Fine(req'[o])
  BY <1>0, <1>2
<1>3. ASSUME NEW to \in {"failed", "done"}, Patch(o, t, to, Keep)
      PROVE  \E r : Fine(r) /\ req' = [req EXCEPT ![o] = r]
  <2> DEFINE r == [Idle EXCEPT !.task = t, !.to = to, !.who = Keep]
  <2>1. req' = [req EXCEPT ![o] = Checked(r)]
    BY <1>3 DEF Patch, Submit
  <2>2. Checked(r) = Reply("error") \/ Checked(r) = [r EXCEPT !.stage = "write", !.saw = status[r.task]]
    BY DEF Checked
  <2>3. Fine(Checked(r))
    BY <1>3, <2>2 DEF Reply, Idle
  <2> QED BY <2>1, <2>3
<1>4. Fine(Reply("ok")) /\ Fine(Reply("error"))
  BY DEF Reply, Idle
<1>5. Fine(ToSend(Job("plan", t, 0)))
  BY DEF ToSend, Idle
<1>6. CASE Intake(o, t) /\ status[t] = Absent
  BY <1>2, <1>5, <1>6 DEF Intake, Create, Submit
<1>7. CASE ThreadReply(o, t)
  <2>1. PICK r \in {Reply("error"), ToSend(Job("plan", t, 0)), Reply("ok")} :
          req' = [req EXCEPT ![o] = r]
    <3>1. CASE status[t] = Absent
      BY <1>7, <3>1 DEF ThreadReply, Submit, Absent, Lifecycle!Absent
    <3>2. CASE status[t] # Absent /\ status[t] = "planning"
      BY <1>7, <3>2 DEF ThreadReply, Submit
    <3>3. CASE status[t] # Absent /\ status[t] # "planning"
      BY <1>7, <3>3 DEF ThreadReply, Submit
    <3> QED BY <3>1, <3>2, <3>3
  <2>2. Fine(r)
    BY <1>4, <1>5
  <2>3. artifacts' = artifacts /\ status' = status
    BY <1>7 DEF ThreadReply
  <2> QED BY <1>2, <2>1, <2>2, <2>3
<1>8. CASE Approve(o, t) \/ Retry(o, t)
  <2> DEFINE approve == [Idle EXCEPT !.stage = "check", !.task = t, !.to = "proposed",
                                     !.job = Job("implement", t, 0)]
             retry == [Idle EXCEPT !.stage = "check", !.task = t, !.to = "proposed",
                                   !.who = None, !.job = Job("implement", t, 0)]
  <2>1. PICK r \in {Reply("error"), approve, retry} : req' = [req EXCEPT ![o] = r]
    BY <1>8 DEF Approve, Retry, Submit
  <2>2. Fine(approve) /\ Fine(retry)
    BY DEF Idle
  <2>3. Fine(r)
    BY <1>4, <2>2
  <2>4. artifacts' = artifacts /\ status' = status
    BY <1>8 DEF Approve, Retry
  <2> QED BY <1>2, <2>1, <2>3, <2>4
<1>9. CASE Cancel(o, t) \/ Patch(o, t, "done", Keep)
  <2>1. \E r : Fine(r) /\ req' = [req EXCEPT ![o] = r]
    BY <1>3, <1>9 DEF Cancel
  <2> QED BY <1>2, <1>9, <2>1 DEF Cancel, Patch
<1> QED BY <1>1, <1>6, <1>7, <1>8, <1>9

(***************************************************************************)
(* The theorems.                                                           *)
(***************************************************************************)

\* In every run of the factory the slots have the jobs, the locks and the
\* requests that FactoryInv says, whatever fails.
THEOREM FactoryInvariance == FactorySpec => []FactoryInv
\* The slots, the jobs they have and the bounds.
<1>WorkStep. ASSUME Sound, [FactoryNext]_fvars, TypeOK'
             PROVE  FactoryTypeOK' /\ HeldJobs' /\ Locked'
  <2> USE <1>WorkStep
  <2> USE DEF Sound
  <2>0. /\ pc \in [Slots -> Places] /\ held \in [Slots -> Jobs \cup {NoJob}]
        /\ pinned \in [Slots -> BOOLEAN] /\ NoJob \notin Jobs
        /\ asks \in 0 .. MaxAsks /\ outages \in 0 .. MaxOutages /\ crashes \in 0 .. MaxCrashes
        /\ MaxAsks \in Nat /\ MaxOutages \in Nat /\ MaxCrashes \in Nat
    BY FactoryAssumption DEF FactoryTypeOK, NoJob, Jobs, Kinds
  \* A slot whose program is over.
  <2>1. ASSUME NEW s \in Slots, pc' = [pc EXCEPT ![s] = "free"],
               held' = [held EXCEPT ![s] = NoJob], pinned' \in [Slots -> BOOLEAN],
               asks' = asks, outages' \in 0 .. MaxOutages, crashes' \in 0 .. MaxCrashes
        PROVE  FactoryTypeOK' /\ HeldJobs' /\ Locked'
    <3>1. FactoryTypeOK'
      BY <2>0, <2>1 DEF FactoryTypeOK, Places
    <3>2. HeldJobs'
      BY <2>0, <2>1 DEF HeldJobs, Programs
    <3>3. Locked'
      BY <2>0, <2>1 DEF Locked, Running, TaskOf, Programs
    <3> QED BY <3>1, <3>2, <3>3
  <2>2. ASSUME NEW s \in Slots, Goes(s)
        PROVE  FactoryTypeOK' /\ HeldJobs' /\ Locked'
    <3>1. CASE pc'[s] = "free" /\ held' = [held EXCEPT ![s] = NoJob]
      BY <2>0, <2>1, <2>2, <3>1 DEF Goes
    <3>2. CASE pc'[s] \in Programs /\ held' = held
      <4>1. FactoryTypeOK'
        BY <2>0, <2>2, <3>2 DEF Goes, FactoryTypeOK, Places
      <4>2. HeldJobs'
        BY <2>0, <2>2, <3>2 DEF Goes, HeldJobs, Programs
      <4>3. \A r \in Slots \ {s} : Running(r) => TaskOf(r) # TaskOf(s)
        <5>1. CASE pc[s] = "queued"
          BY <2>2, <5>1 DEF Goes
        <5>2. CASE pc[s] \in Programs
          BY <5>2 DEF Locked, Running
        <5> QED BY <2>2, <5>1, <5>2 DEF Goes
      <4>4. \A r \in Slots : /\ Running(r)' <=> Running(r) \/ r = s
                            /\ TaskOf(r)' = TaskOf(r)
        BY <2>0, <2>2, <3>2 DEF Goes, Running, TaskOf
      <4>5. Locked'
        BY <4>3, <4>4 DEF Locked
      <4> QED BY <4>1, <4>2, <4>5
    <3> QED BY <2>2, <3>1, <3>2 DEF Goes
  <2>3. CASE UNCHANGED <<pc, held, pinned, crashes>> /\ asks' \in 0 .. MaxAsks
             /\ outages' \in 0 .. MaxOutages
    BY <2>0, <2>3 DEF FactoryTypeOK, HeldJobs, Locked, Running, TaskOf
  <2>4. ASSUME NEW s \in Slots, Poll(s)
        PROVE  FactoryTypeOK' /\ HeldJobs' /\ Locked'
    <3>1. /\ pc[s] = "free" /\ pc' = [pc EXCEPT ![s] = "claiming"]
          /\ UNCHANGED <<held, pinned, asks, outages, crashes>>
      BY <2>4 DEF Poll, Goto
    <3>2. FactoryTypeOK'
      BY <2>0, <3>1 DEF FactoryTypeOK, Places
    <3>3. HeldJobs'
      BY <2>0, <3>1 DEF HeldJobs, Programs
    <3>4. Locked'
      BY <2>0, <3>1 DEF Locked, Running, TaskOf, Programs
    <3> QED BY <3>2, <3>3, <3>4
  <2>5. ASSUME NEW s \in Slots, Claimed(s)
        PROVE  FactoryTypeOK' /\ HeldJobs' /\ Locked'
    <3>1. /\ pc[s] = "claiming" /\ UNCHANGED <<pinned, asks, outages, crashes>>
          /\ req[s].stage \in Answers
      BY <2>5 DEF Claimed, Answered
    <3>2. CASE ~Succeeded(s)
      BY <2>0, <2>1, <2>5, <3>1, <3>2 DEF Claimed
    <3>3. CASE Succeeded(s)
      <4>1. req[s].task \in Tasks /\ req[s].job \in Jobs \cup {NoJob}
        BY <3>1, <3>3, FactoryAssumption
        DEF Succeeded, ClaimUnderway, FactoryTypeOK, TypeOK, Requests
      <4>2. PICK j \in Jobs : held' = [held EXCEPT ![s] = j]
        <5>1. Job("implement", req[s].task, 0) \in Jobs
          BY <4>1, RequestTypes, ControlPlaneAssumption DEF Kinds
        <5>2. CASE req[s].job = NoJob
          BY <2>5, <3>3, <5>1, <5>2 DEF Claimed
        <5>3. CASE req[s].job # NoJob
          BY <2>5, <3>3, <4>1, <5>3 DEF Claimed
        <5> QED BY <5>2, <5>3
      <4>3. pc' = [pc EXCEPT ![s] = "queued"]
        BY <2>5, <3>3 DEF Claimed
      <4>4. FactoryTypeOK'
        BY <2>0, <3>1, <4>2, <4>3 DEF FactoryTypeOK, Places
      <4>5. HeldJobs'
        BY <2>0, <4>2, <4>3 DEF HeldJobs, Programs
      <4>6. Locked'
        BY <2>0, <4>2, <4>3 DEF Locked, Running, TaskOf, Programs
      <4> QED BY <4>4, <4>5, <4>6
    <3> QED BY <3>2, <3>3
  <2>6. ASSUME NEW s \in Slots, RunJob(s) \/ Hang(s)
        PROVE  FactoryTypeOK' /\ HeldJobs' /\ Locked'
    <3>1. CASE Calls(s)
      BY <2>0, <2>3, <3>1 DEF Calls, workVars
    <3> QED BY <2>2, <2>6, <3>1, ProgramSteps
  <2>7. ASSUME NEW s \in Slots, BeginUnread(s)
        PROVE  FactoryTypeOK' /\ HeldJobs' /\ Locked'
    <3>1. /\ pc' = [pc EXCEPT ![s] = "free"] /\ held' = [held EXCEPT ![s] = NoJob]
          /\ asks' = asks /\ crashes' = crashes
      BY <2>7 DEF BeginUnread
    <3>2. outages' \in 0 .. MaxOutages
      BY <2>0, <2>7 DEF BeginUnread
    <3>3. pinned' \in [Slots -> BOOLEAN]
      BY <2>0, <2>7 DEF BeginUnread
    <3> QED BY <2>0, <2>1, <3>1, <3>2, <3>3
  <2>8. ASSUME NEW s \in Slots, Crash(s)
        PROVE  FactoryTypeOK' /\ HeldJobs' /\ Locked'
    <3>1. /\ pc' = [pc EXCEPT ![s] = "free"] /\ held' = [held EXCEPT ![s] = NoJob]
          /\ asks' = asks /\ outages' = outages
      BY <2>8 DEF Crash
    <3>2. crashes' \in 0 .. MaxCrashes
      BY <2>0, <2>8 DEF Crash
    <3>3. pinned' \in [Slots -> BOOLEAN]
      BY <2>0, <2>8 DEF Crash
    <3> QED BY <2>0, <2>1, <3>1, <3>2, <3>3
  <2>9. ASSUME NEW o \in Operators, Ask(o)
        PROVE  FactoryTypeOK' /\ HeldJobs' /\ Locked'
    BY <2>0, <2>3, <2>9 DEF Ask
  <2>10. ASSUME NEW c \in Clients, Outage(c)
         PROVE  FactoryTypeOK' /\ HeldJobs' /\ Locked'
    BY <2>0, <2>3, <2>10 DEF Outage
  <2>11. CASE UNCHANGED workVars
    BY <2>0, <2>3, <2>11 DEF workVars
  <2> QED
    BY <2>4, <2>5, <2>6, <2>7, <2>8, <2>9, <2>10, <2>11
    DEF FactoryNext, Daemon, Unheard, Told, Serve, fvars
\* The requests of slots that claim, and those of operators.
<1>RequestsStep. ASSUME Sound, [FactoryNext]_fvars
                 PROVE  ClaimUnderway' /\ OperatorsOnlyAsk'
  <2> USE <1>RequestsStep
  <2> USE DEF Sound
  <2>0. /\ pc \in [Slots -> Places] /\ req \in [Clients -> Requests] /\ TypeOK
        /\ RequestsWellFormed
        /\ Slots \subseteq Clients /\ Operators \subseteq Clients
        /\ Clients = Slots \cup Operators /\ Slots \cap Operators = {}
    BY FactoryAssumption DEF FactoryTypeOK, TypeOK, IInv
  <2>1. ASSUME NEW s \in Slots, req' = [req EXCEPT ![s] = req'[s]],
               pc' = [pc EXCEPT ![s] = pc'[s]],
               pc'[s] = "claiming" =>
                 /\ req'[s].stage \in Claiming \cup Answers
                 /\ req'[s].stage = "ok" => req'[s].task \in Tasks
        PROVE  ClaimUnderway' /\ OperatorsOnlyAsk'
    <3>1. \A r \in Clients \ {s} : req'[r] = req[r]
      BY <2>0, <2>1
    <3>2. \A r \in Slots \ {s} : pc'[r] = pc[r]
      BY <2>0, <2>1
    <3> QED BY <2>0, <2>1, <3>1, <3>2 DEF ClaimUnderway, OperatorsOnlyAsk
  <2>2. ASSUME NEW o \in Operators, req' = [req EXCEPT ![o] = req'[o]], pc' = pc,
               req'[o].stage \in {"check", "write"} => req'[o].to # "in_progress",
               req'[o].stage # "attach"
        PROVE  ClaimUnderway' /\ OperatorsOnlyAsk'
    BY <2>0, <2>2 DEF ClaimUnderway, OperatorsOnlyAsk
  <2>3. CASE UNCHANGED vars /\ pc' = pc
    BY <2>3 DEF vars, ClaimUnderway, OperatorsOnlyAsk
  <2>4. ASSUME NEW s \in Slots, RunJob(s) \/ Hang(s)
        PROVE  ClaimUnderway' /\ OperatorsOnlyAsk'
    <3>1. CASE Calls(s)
      <4>1. PICK r : req' = [req EXCEPT ![s] = r]
        BY <3>1 DEF Calls, Patch, AddArtifact, EnqueueJob, Submit
      <4>2. req' = [req EXCEPT ![s] = req'[s]]
        BY <2>0, <4>1
      <4>3. pc' = pc /\ pc[s] # "claiming"
        BY <3>1 DEF Calls, Patching, Pinning, Sending, workVars
      <4> QED BY <2>0, <2>1, <4>2, <4>3
    <3>2. CASE Moment(s) /\ Goes(s)
      <4>1. req' = [req EXCEPT ![s] = req'[s]]
        BY <2>0, <3>2 DEF Moment, Return, vars
      <4>2. pc'[s] # "claiming" /\ pc' = [pc EXCEPT ![s] = pc'[s]]
        BY <3>2 DEF Goes, Programs
      <4> QED BY <2>1, <4>1, <4>2
    <3> QED BY <2>4, <3>1, <3>2, ProgramSteps
  <2>5. ASSUME NEW s \in Slots, Poll(s)
        PROVE  ClaimUnderway' /\ OperatorsOnlyAsk'
    <3>1. /\ pc' = [pc EXCEPT ![s] = pc'[s]]
          /\ req' = [req EXCEPT ![s] = [Idle EXCEPT !.stage = "fetch", !.who = Worker,
                                             !.left = DaemonKinds, !.task = NoTask]]
      BY <2>0, <2>5 DEF Poll, FetchJob, Submit, Goto
    <3>2. req' = [req EXCEPT ![s] = req'[s]] /\ req'[s].stage = "fetch"
      BY <2>0, <3>1 DEF Idle
    <3> QED BY <2>1, <3>1, <3>2 DEF Claiming
  <2>6. ASSUME NEW s \in Slots, Claimed(s)
        PROVE  ClaimUnderway' /\ OperatorsOnlyAsk'
    <3>1. /\ pc' = [pc EXCEPT ![s] = pc'[s]] /\ pc'[s] # "claiming"
          /\ req' = [req EXCEPT ![s] = req'[s]]
      BY <2>0, <2>6 DEF Claimed, Return
    <3> QED BY <2>1, <3>1
  <2>7. ASSUME NEW s \in Slots, Unheard(s)
        PROVE  ClaimUnderway' /\ OperatorsOnlyAsk'
    <3>1. /\ pc' = [pc EXCEPT ![s] = pc'[s]] /\ pc'[s] # "claiming"
          /\ req' = [req EXCEPT ![s] = req'[s]]
      BY <2>0, <2>7 DEF Unheard, Return, workVars
    <3> QED BY <2>1, <3>1
  <2>8. ASSUME NEW s \in Slots, BeginUnread(s) \/ Crash(s)
        PROVE  ClaimUnderway' /\ OperatorsOnlyAsk'
    <3>1. /\ pc' = [pc EXCEPT ![s] = pc'[s]] /\ pc'[s] # "claiming"
          /\ req' = [req EXCEPT ![s] = req'[s]]
      BY <2>0, <2>8 DEF BeginUnread, Crash, vars
    <3> QED BY <2>1, <3>1
  <2>9. ASSUME NEW o \in Operators, Ask(o)
        PROVE  ClaimUnderway' /\ OperatorsOnlyAsk'
    <3>1. pc' = pc /\ o \in Clients
      BY <2>0, <2>9 DEF Ask
    <3> QED BY <2>0, <2>2, <2>9, <3>1, AskSteps
  <2>10. ASSUME NEW o \in Operators, Told(o)
         PROVE  ClaimUnderway' /\ OperatorsOnlyAsk'
    <3>1. /\ pc' = pc /\ req' = [req EXCEPT ![o] = req'[o]]
          /\ req'[o].stage = "idle"
      BY <2>0, <2>10 DEF Told, Return, workVars, Idle
    <3> QED BY <2>2, <3>1
  <2>11. ASSUME NEW c \in Clients, Serve(c)
         PROVE  ClaimUnderway' /\ OperatorsOnlyAsk'
    <3>1. pc' = pc /\ Served(c)
      BY <2>0, <2>11, HandleSteps DEF Serve, workVars
    <3>2. CASE c \in Operators
      <4>1. req'[c].stage \in {"check", "write"} => req'[c].to # "in_progress"
        BY <3>1, <3>2 DEF Served, OperatorsOnlyAsk
      <4> QED BY <2>2, <3>1, <3>2, <4>1 DEF Served
    <3>3. CASE c \in Slots
      <4>1. pc'[c] = "claiming" =>
              /\ req'[c].stage \in Claiming \cup Answers
              /\ req'[c].stage = "ok" => req'[c].task \in Tasks
        BY <3>1, <3>3 DEF Served, ClaimUnderway
      <4> QED BY <2>0, <2>1, <3>1, <3>3, <4>1 DEF Served
    <3> QED BY <2>0, <3>2, <3>3
  <2>12. ASSUME NEW c \in Clients, Outage(c)
         PROVE  ClaimUnderway' /\ OperatorsOnlyAsk'
    <3>1. /\ pc' = pc /\ req' = [req EXCEPT ![c] = req'[c]]
          /\ req'[c].stage = "error"
      BY <2>0, <2>12 DEF Outage, Abort, Respond, Reply, Idle
    <3>2. CASE c \in Operators
      BY <2>2, <3>1, <3>2
    <3>3. CASE c \in Slots
      <4>1. pc' = [pc EXCEPT ![c] = pc'[c]]
        BY <2>0, <3>1, <3>3
      <4> QED BY <2>1, <3>1, <3>3, <4>1 DEF Answers
    <3> QED BY <2>0, <3>2, <3>3
  <2>13. CASE UNCHANGED fvars
    BY <2>3, <2>13 DEF fvars, workVars
  <2> QED
    BY <2>4, <2>5, <2>6, <2>7, <2>8, <2>9, <2>10, <2>11, <2>12, <2>13
    DEF FactoryNext, Daemon
\* Each step by what it does to the request and the program of one slot.
<1>CallsStep. ASSUME Sound, CallsMatch, [FactoryNext]_fvars, crashes' = crashes
              PROVE  CallsMatch'
  <2> USE <1>CallsStep
  <2> USE DEF Sound
  <2>0. /\ pc \in [Slots -> Places] /\ req \in [Clients -> Requests] /\ TypeOK
        /\ held \in [Slots -> Jobs \cup {NoJob}]
        /\ RequestsWellFormed /\ crashes \in Nat
        /\ Slots \subseteq Clients /\ Operators \subseteq Clients
        /\ Clients = Slots \cup Operators /\ Slots \cap Operators = {}
    BY FactoryAssumption DEF FactoryTypeOK, TypeOK, IInv
  <2>1. ASSUME NEW s \in Slots, req' = [req EXCEPT ![s] = req'[s]],
               pc' = [pc EXCEPT ![s] = pc'[s]], held' = [held EXCEPT ![s] = held'[s]],
               Waits(s)'
        PROVE  CallsMatch'
    <3>1. ASSUME NEW r \in Slots, r # s
          PROVE  pc'[r] = pc[r] /\ req'[r] = req[r] /\ TaskOf(r)' = TaskOf(r)
      BY <2>0, <2>1, <3>1 DEF TaskOf
    <3>2. ASSUME NEW r \in Slots, r # s PROVE Waits(r)'
      BY <3>1, <3>2 DEF CallsMatch, Waits
    <3> QED BY <2>1, <3>2 DEF CallsMatch
  <2>2. ASSUME NEW s \in Slots, req' = [req EXCEPT ![s] = Idle],
               pc' = [pc EXCEPT ![s] = pc'[s]], held' = [held EXCEPT ![s] = held'[s]]
        PROVE  CallsMatch'
    <3>1. req'[s] = Idle
      BY <2>0, <2>2
    <3>2. Waits(s)'
      BY <3>1 DEF Waits
    <3> QED BY <2>1, <2>2, <3>1, <3>2
  <2>3. ASSUME NEW o \in Operators, req' = [req EXCEPT ![o] = req'[o]],
               pc' = pc, held' = held
        PROVE  CallsMatch'
    <3>1. \A s \in Slots : req'[s] = req[s] /\ TaskOf(s)' = TaskOf(s)
      BY <2>0, <2>3 DEF TaskOf
    <3> QED BY <2>3, <3>1 DEF CallsMatch, Waits
  <2>4. ASSUME NEW s \in Slots, RunJob(s) \/ Hang(s)
        PROVE  CallsMatch'
    <3>1. CASE Calls(s)
      <4>1. pc' = pc /\ held' = held /\ TaskOf(s)' = TaskOf(s)
        BY <3>1 DEF Calls, workVars, TaskOf
      <4>2. CASE pc[s] \in Patching /\ Patch(s, TaskOf(s), StatusSet(pc[s]), Worker)
        <5> DEFINE r == [Idle EXCEPT !.task = TaskOf(s), !.to = StatusSet(pc[s]), !.who = Worker]
        <5>1. req' = [req EXCEPT ![s] = Checked(r)]
          BY <4>2 DEF Patch, Submit
        <5>2. Checked(r) = Reply("error") \/ Checked(r) = [r EXCEPT !.stage = "write", !.saw = status[r.task]]
          BY DEF Checked
        <5>3. \/ Checked(r).stage = "error"
              \/ /\ Checked(r).stage = "write" /\ Checked(r).task = TaskOf(s)
                 /\ Checked(r).to = StatusSet(pc[s]) /\ Checked(r).job = NoJob
          BY <5>2 DEF Reply, Idle
        <5> HIDE DEF r
        <5>4. req'[s] = Checked(r) /\ req' = [req EXCEPT ![s] = req'[s]]
          BY <2>0, <5>1
        <5>5. Waits(s)'
          BY <4>1, <4>2, <5>3, <5>4 DEF Waits, Quiet, Patching, Pinning, Sending
        <5> QED BY <2>0, <2>1, <4>1, <5>4, <5>5
      <4>3. CASE pc[s] \in Pinning /\ AddArtifact(s, TaskOf(s), "pr")
        <5> DEFINE r == [Idle EXCEPT !.stage = "attach", !.task = TaskOf(s),
                                     !.arts = artifacts[TaskOf(s)] \cup {"pr"}]
        <5>1. req' = [req EXCEPT ![s] = r] \/ req' = [req EXCEPT ![s] = Reply("error")]
          BY <4>3 DEF AddArtifact, Submit
        <5>2. /\ r.stage = "attach" /\ r.task = TaskOf(s)
              /\ Reply("error").stage = "error"
          BY DEF Reply, Idle
        <5> HIDE DEF r
        <5>3. req'[s] \in {r, Reply("error")} /\ req' = [req EXCEPT ![s] = req'[s]]
          BY <2>0, <5>1
        <5>4. Waits(s)'
          BY <4>1, <4>3, <5>2, <5>3 DEF Waits, Quiet, Patching, Pinning, Sending
        <5> QED BY <2>0, <2>1, <4>1, <5>3, <5>4
      <4>4. ASSUME NEW k \in Kinds, NEW n \in 0 .. MaxAttempt, pc[s] \in Sending,
                   EnqueueJob(s, k, TaskOf(s), n)
            PROVE  CallsMatch'
        <5> DEFINE r == ToSend(Job(k, TaskOf(s), n))
        <5>1. req' = [req EXCEPT ![s] = r] \/ req' = [req EXCEPT ![s] = Reply("error")]
          BY <4>4 DEF EnqueueJob, Submit
        <5>2. r.stage = "enqueue" /\ Reply("error").stage = "error"
          BY DEF Reply, ToSend, Idle
        <5> HIDE DEF r
        <5>3. req'[s] \in {r, Reply("error")} /\ req' = [req EXCEPT ![s] = req'[s]]
          BY <2>0, <5>1
        <5>4. Waits(s)'
          BY <4>1, <4>4, <5>2, <5>3 DEF Waits, Quiet, Patching, Pinning, Sending
        <5> QED BY <2>0, <2>1, <4>1, <5>3, <5>4
      <4> QED BY <3>1, <4>2, <4>3, <4>4 DEF Calls
    <3>2. CASE Moment(s) /\ Goes(s)
      <4>1. req' = [req EXCEPT ![s] = Idle]
        <5>1. CASE pc[s] \in Quiet /\ UNCHANGED vars
          BY <2>0, <5>1 DEF CallsMatch, Waits, vars
        <5> QED BY <3>2, <5>1 DEF Moment, Return
      <4>2. pc' = [pc EXCEPT ![s] = pc'[s]] /\ held' = [held EXCEPT ![s] = held'[s]]
        BY <2>0, <3>2 DEF Goes
      <4> QED BY <2>2, <4>1, <4>2
    <3> QED BY <2>4, <3>1, <3>2, ProgramSteps
  <2>5. ASSUME NEW s \in Slots, Poll(s)
        PROVE  CallsMatch'
    <3>1. /\ pc' = [pc EXCEPT ![s] = pc'[s]] /\ pc'[s] = "claiming"
          /\ held' = [held EXCEPT ![s] = held'[s]]
          /\ req' = [req EXCEPT ![s] = req'[s]]
      BY <2>0, <2>5 DEF Poll, FetchJob, Submit, Goto
    <3>2. Waits(s)'
      BY <3>1 DEF Waits, Quiet, Patching, Pinning, Sending
    <3> QED BY <2>1, <3>1, <3>2
  <2>6. ASSUME NEW s \in Slots, Claimed(s) \/ Unheard(s)
        PROVE  CallsMatch'
    <3>1. /\ pc' = [pc EXCEPT ![s] = pc'[s]] /\ held' = [held EXCEPT ![s] = held'[s]]
          /\ req' = [req EXCEPT ![s] = Idle]
      BY <2>0, <2>6 DEF Claimed, Unheard, Return, workVars
    <3> QED BY <2>2, <3>1
  <2>7. ASSUME NEW s \in Slots, BeginUnread(s)
        PROVE  CallsMatch'
    <3>1. req[s] = Idle
      BY <2>7 DEF BeginUnread, CallsMatch, Waits, Quiet
    <3>2. /\ pc' = [pc EXCEPT ![s] = pc'[s]] /\ held' = [held EXCEPT ![s] = held'[s]]
          /\ req' = [req EXCEPT ![s] = Idle]
      BY <2>0, <2>7, <3>1 DEF BeginUnread, vars
    <3> QED BY <2>2, <3>2
  <2>8. ASSUME NEW s \in Slots, Crash(s)
        PROVE  CallsMatch'
    BY <2>0, <2>8 DEF Crash
  <2>9. ASSUME NEW o \in Operators, Ask(o)
        PROVE  CallsMatch'
    <3>1. pc' = pc /\ held' = held /\ o \in Clients
      BY <2>0, <2>9 DEF Ask
    <3> QED BY <2>0, <2>3, <2>9, <3>1, AskSteps
  <2>10. ASSUME NEW o \in Operators, Told(o)
         PROVE  CallsMatch'
    <3>1. pc' = pc /\ held' = held /\ req' = [req EXCEPT ![o] = req'[o]]
      BY <2>0, <2>10 DEF Told, Return, workVars
    <3> QED BY <2>3, <3>1
  <2>11. ASSUME NEW c \in Clients, Serve(c)
         PROVE  CallsMatch'
    <3>1. pc' = pc /\ held' = held /\ Served(c)
      BY <2>0, <2>11, HandleSteps DEF Serve, workVars
    <3>2. CASE c \in Slots
      <4>1. Waits(c) /\ Idle.stage = "idle"
        BY <3>2 DEF CallsMatch, Idle
      <4>2. pc[c] \notin Quiet
        BY <3>1, <4>1 DEF Waits, Served
      <4>3. pc[c] \in Patching \cup Pinning \cup Sending => req'[c].stage = "ok"
        BY <3>1, <4>1 DEF Waits, Served, Answers
      <4>4. Waits(c)'
        BY <3>1, <4>2, <4>3 DEF Waits
      <4> QED BY <2>0, <2>1, <3>1, <3>2, <4>4 DEF Served
    <3> QED BY <2>0, <2>3, <3>1, <3>2 DEF Served
  <2>12. ASSUME NEW c \in Clients, Outage(c)
         PROVE  CallsMatch'
    <3>1. /\ pc' = pc /\ held' = held /\ req' = [req EXCEPT ![c] = req'[c]]
          /\ req'[c].stage = "error" /\ req[c].stage # "idle"
      BY <2>0, <2>12 DEF Outage, Abort, Respond, Reply, Idle
    <3>2. CASE c \in Slots
      <4>1. Waits(c) /\ Idle.stage = "idle"
        BY <3>2 DEF CallsMatch, Idle
      <4>2. pc[c] \notin Quiet
        BY <3>1, <4>1 DEF Waits
      <4>3. Waits(c)'
        BY <3>1, <4>2 DEF Waits
      <4> QED BY <2>0, <2>1, <3>1, <3>2, <4>3
    <3> QED BY <2>0, <2>3, <3>1, <3>2
  <2>13. CASE UNCHANGED fvars
    BY <2>13 DEF fvars, vars, workVars, CallsMatch, Waits, TaskOf
  <2> QED
    BY <2>4, <2>5, <2>6, <2>7, <2>8, <2>9, <2>10, <2>11, <2>12, <2>13
    DEF FactoryNext, Daemon
\* Who reads that a task has no pull request pins one before anyone else does.
<1>PinStep. ASSUME Sound, CallsMatch, SnapshotsHold, PinsOnce, [FactoryNext]_fvars,
                   crashes' = crashes
            PROVE  SnapshotsHold' /\ PinsOnce'
  <2> USE <1>PinStep
  <2> USE DEF Sound
  <2>0. /\ pc \in [Slots -> Places] /\ req \in [Clients -> Requests] /\ TypeOK
        /\ held \in [Slots -> Jobs \cup {NoJob}] /\ pinned \in [Slots -> BOOLEAN]
        /\ artifacts \in [Tasks -> SUBSET ArtifactKinds]
        /\ RequestsWellFormed /\ crashes \in Nat
        /\ Slots \subseteq Clients /\ Operators \subseteq Clients
        /\ Clients = Slots \cup Operators /\ Slots \cap Operators = {}
    BY FactoryAssumption DEF FactoryTypeOK, TypeOK, IInv
  \* A step that pins nothing and takes one slot to a place that needs no snapshot.
  <2>1. ASSUME NEW s \in Slots, artifacts' = artifacts,
               \A r \in Slots \ {s} : /\ req'[r] = req[r] /\ pc'[r] = pc[r]
                                      /\ held'[r] = held[r] /\ pinned'[r] = pinned[r],
               pc'[s] \in {"reserve", "start", "work", "draft"} /\ ~pinned'[s]
                 => ~HasPr(TaskOf(s))',
               pc'[s] \in Pinning /\ req'[s] = Idle => ~HasPr(TaskOf(s))'
        PROVE  SnapshotsHold' /\ PinsOnce'
    <3>1. \A r \in Slots \ {s} : HasPr(TaskOf(r))' <=> HasPr(TaskOf(r))
      BY <2>1 DEF HasPr, TaskOf
    <3> QED BY <2>1, <3>1 DEF SnapshotsHold, PinsOnce, Pinning
  \* A step of which the slots see nothing but, one of them, the stage of its call.
  <2>2. ASSUME artifacts' = artifacts, UNCHANGED <<pc, held, pinned>>,
               \A r \in Slots : req'[r] = Idle => req[r] = Idle
        PROVE  SnapshotsHold' /\ PinsOnce'
    BY <2>2 DEF SnapshotsHold, PinsOnce, HasPr, TaskOf
  <2>3. ASSUME NEW s \in Slots, RunJob(s) \/ Hang(s)
        PROVE  SnapshotsHold' /\ PinsOnce'
    <3>1. CASE Calls(s)
      <4>1. PICK r : req[s] = Idle /\ req' = [req EXCEPT ![s] = r]
        BY <3>1 DEF Calls, Patch, AddArtifact, EnqueueJob, Submit
      <4>2. UNCHANGED <<artifacts, pc, held, pinned>>
        BY <3>1 DEF Calls, Patch, AddArtifact, EnqueueJob, workVars
      <4>3. \A q \in Slots : req'[q] = Idle => req[q] = Idle
        BY <2>0, <4>1
      <4> QED BY <2>2, <4>2, <4>3
    <3>2. CASE Moment(s) /\ Goes(s)
      <4>1. /\ artifacts' = artifacts
            /\ TaskOf(s)' = TaskOf(s) \/ pc'[s] = "free"
            /\ \A r \in Slots \ {s} : /\ req'[r] = req[r] /\ pc'[r] = pc[r]
                                       /\ held'[r] = held[r] /\ pinned'[r] = pinned[r]
        <5>1. artifacts' = artifacts /\ \A r \in Slots \ {s} : req'[r] = req[r]
          BY <2>0, <3>2 DEF Moment, Return, vars
        <5>2. \A r \in Slots \ {s} : /\ pc'[r] = pc[r]
                                     /\ held'[r] = held[r] /\ pinned'[r] = pinned[r]
          BY <2>0, <3>2 DEF Goes
        <5>3. TaskOf(s)' = TaskOf(s) \/ pc'[s] = "free"
          BY <3>2 DEF Goes, TaskOf
        <5> QED BY <5>1, <5>2, <5>3
      <4>2. pc'[s] # "free" => (HasPr(TaskOf(s))' <=> HasPr(TaskOf(s)))
        BY <4>1 DEF HasPr
      <4>3. pc'[s] \in {"reserve", "start", "work", "draft"} /\ ~pinned'[s]
              => ~HasPr(TaskOf(s))'
        BY <3>2, <4>2 DEF Goes, SnapshotsHold
      <4>4. ASSUME pc'[s] \in Pinning
            PROVE  ~HasPr(TaskOf(s))'
        <5>1. pc[s] \in {"work", "draft"} /\ ~pinned[s] /\ pc'[s] # "free"
          BY <3>2, <4>4 DEF Goes, Pinning
        <5>2. ~HasPr(TaskOf(s))
          BY <5>1 DEF SnapshotsHold
        <5> QED BY <4>2, <5>1, <5>2
      <4> QED BY <2>1, <4>1, <4>3, <4>4
    <3> QED BY <2>3, <3>1, <3>2, ProgramSteps
  <2>4. ASSUME NEW s \in Slots, Poll(s) \/ Claimed(s) \/ BeginUnread(s) \/ Unheard(s)
        PROVE  SnapshotsHold' /\ PinsOnce'
    <3>1. /\ artifacts' = artifacts
          /\ pc'[s] \in {"claiming", "queued", "free"}
          /\ \A r \in Slots \ {s} : pc'[r] = pc[r] /\ held'[r] = held[r]
          /\ pinned' = pinned
      BY <2>0, <2>4
      DEF Poll, Claimed, BeginUnread, Unheard, Goto, FetchJob, Return, vars, workVars
    <3>2. \A r \in Slots \ {s} : req'[r] = req[r]
      BY <2>0, <2>4 DEF Poll, Claimed, BeginUnread, Unheard, FetchJob, Submit, Return, vars
    <3> QED BY <2>1, <3>1, <3>2 DEF Pinning
  <2>5. ASSUME NEW s \in Slots, Crash(s)
        PROVE  SnapshotsHold' /\ PinsOnce'
    BY <2>0, <2>5 DEF Crash
  <2>6. ASSUME NEW o \in Operators, Ask(o) \/ Told(o)
        PROVE  SnapshotsHold' /\ PinsOnce'
    <3>1. o \in Clients /\ UNCHANGED <<pc, held, pinned>>
      BY <2>0, <2>6 DEF Ask, Told, workVars
    <3>2. artifacts' = artifacts /\ req' = [req EXCEPT ![o] = req'[o]]
      <4>1. CASE Told(o)
        BY <2>0, <4>1 DEF Told, Return
      <4> QED BY <2>0, <2>6, <3>1, <4>1, AskSteps
    <3>3. \A r \in Slots : req'[r] = req[r]
      BY <2>0, <3>2
    <3> QED BY <2>2, <3>1, <3>2, <3>3
  <2>7. ASSUME NEW c \in Clients, Serve(c)
        PROVE  SnapshotsHold' /\ PinsOnce'
    <3>1. UNCHANGED <<pc, held, pinned>> /\ Served(c) /\ ArtifactsServed(c)
      BY <2>0, <2>7, HandleSteps DEF Serve, workVars
    <3>2. req'[c] # Idle /\ \A r \in Clients \ {c} : req'[r] = req[r]
      BY <2>0, <3>1 DEF Served, Idle
    <3>3. CASE artifacts' = artifacts
      BY <2>0, <2>2, <3>1, <3>2, <3>3
    <3>4. CASE /\ req[c].stage = "attach" /\ req[c].task \in Tasks
               /\ artifacts' = [artifacts EXCEPT ![req[c].task] = req[c].arts]
      <4>1. c \in Slots
        BY <2>0, <3>4 DEF OperatorsOnlyAsk
      <4>2. pc[c] \in Pinning /\ req[c].task = TaskOf(c)
        <5>1. Waits(c) /\ Idle.stage # "attach"
          BY <4>1 DEF CallsMatch, Idle
        <5>2. pc[c] # "claiming"
          BY <3>4, <4>1 DEF ClaimUnderway, Claiming, Answers
        <5>3. pc[c] \in {"claiming"} \cup Quiet \cup Patching \cup Pinning \cup Sending
          BY <2>0, <4>1 DEF Places, Programs, Quiet, Patching, Pinning, Sending
        <5> QED BY <3>4, <5>1, <5>2, <5>3 DEF Waits
      <4>3. ASSUME NEW r \in Slots, Running(r), r # c
            PROVE  HasPr(TaskOf(r))' <=> HasPr(TaskOf(r))
        <5>1. TaskOf(r) # TaskOf(c)
          BY <4>1, <4>2, <4>3 DEF Locked, Running, Pinning, Programs
        <5>2. TaskOf(r) \in Tasks
          BY <4>3 DEF HeldJobs, Running, TaskOf, Jobs
        <5> QED BY <2>0, <3>1, <3>4, <4>2, <5>1, <5>2 DEF HasPr, TaskOf
      <4>4. SnapshotsHold'
        BY <3>1, <4>2, <4>3 DEF SnapshotsHold, Pinning, Running, Programs
      <4>5. PinsOnce'
        BY <2>0, <3>1, <3>2, <4>3 DEF PinsOnce, Running, Programs
      <4> QED BY <4>4, <4>5
    <3> QED BY <3>1, <3>3, <3>4 DEF ArtifactsServed
  <2>8. ASSUME NEW c \in Clients, Outage(c)
        PROVE  SnapshotsHold' /\ PinsOnce'
    <3>1. UNCHANGED <<pc, held, pinned, artifacts>>
      BY <2>8 DEF Outage, Abort
    <3>2. req'[c] # Idle /\ \A r \in Clients \ {c} : req'[r] = req[r]
      BY <2>0, <2>8 DEF Outage, Abort, Respond, Reply, Idle
    <3> QED BY <2>0, <2>2, <3>1, <3>2
  <2>9. CASE UNCHANGED fvars
    BY <2>2, <2>9 DEF fvars, vars, workVars
  <2> QED
    BY <2>3, <2>4, <2>5, <2>6, <2>7, <2>8, <2>9 DEF FactoryNext, Daemon
\* Who started a task leaves it when it is in progress no more.
<1>AttendedStep. ASSUME Sound, CallsMatch, Attended, [FactoryNext]_fvars,
                        crashes' = crashes, outages' = outages
                 PROVE  Attended'
  <2> USE <1>AttendedStep
  <2> USE DEF Sound
  <2> DEFINE Attends(s) == \/ pc[s] \in {"start", "work", "pin", "announce", "hung"}
                           \/ pc[s] \in {"finish", "fail"} /\ req[s].stage \notin Answers
  <2>0. /\ pc \in [Slots -> Places] /\ req \in [Clients -> Requests] /\ TypeOK
        /\ held \in [Slots -> Jobs \cup {NoJob}]
        /\ status \in [Tasks -> Statuses \cup {Absent}]
        /\ RequestsWellFormed /\ crashes \in Nat /\ outages \in Nat
        /\ Slots \subseteq Clients /\ Operators \subseteq Clients
        /\ Clients = Slots \cup Operators /\ Slots \cap Operators = {}
    BY FactoryAssumption DEF FactoryTypeOK, TypeOK, IInv
  <2>1. ASSUME \A t \in Tasks : status'[t] = "in_progress" => status[t] = "in_progress",
               \A t \in Tasks, s \in Slots :
                 status'[t] = "in_progress" /\ TaskOf(s) = t /\ Attends(s)
                   => TaskOf(s)' = t /\ Attends(s)'
        PROVE  Attended'
    <3> SUFFICES ASSUME NEW t \in Tasks, status'[t] = "in_progress"
                 PROVE  \E s \in Slots : TaskOf(s)' = t /\ Attends(s)'
      BY DEF Attended
    <3>1. PICK s \in Slots : TaskOf(s) = t /\ Attends(s)
      BY <2>1 DEF Attended
    <3> HIDE DEF Attends
    <3> QED BY <2>1, <3>1
  <2>2. ASSUME NEW s \in Slots, status' = status,
               \A r \in Slots \ {s} : /\ req'[r] = req[r] /\ pc'[r] = pc[r]
                                      /\ TaskOf(r)' = TaskOf(r),
               Attends(s) => TaskOf(s)' = TaskOf(s) /\ Attends(s)'
        PROVE  Attended'
    <3>1. ASSUME NEW r \in Slots, Attends(r)
          PROVE  TaskOf(r)' = TaskOf(r) /\ Attends(r)'
      BY <2>2, <3>1
    <3> HIDE DEF Attends
    <3> QED BY <2>1, <2>2, <3>1
  <2>3. ASSUME NEW s \in Slots, RunJob(s) \/ Hang(s)
        PROVE  Attended'
    <3>1. CASE Calls(s)
      <4>1. PICK r : req[s] = Idle /\ req' = [req EXCEPT ![s] = r]
        BY <3>1 DEF Calls, Patch, AddArtifact, EnqueueJob, Submit
      <4>2. /\ UNCHANGED <<status, pc, held>>
            /\ \A q \in Slots : TaskOf(q)' = TaskOf(q)
        BY <3>1 DEF Calls, Patch, AddArtifact, EnqueueJob, workVars, TaskOf
      <4>3. \A q \in Slots \ {s} : req'[q] = req[q]
        BY <2>0, <4>1
      \* The task is in progress: the status that ends that is granted.
      <4>4. CASE /\ status[TaskOf(s)] = "in_progress"
                 /\ pc[s] \in {"finish", "fail"}
                 /\ Patch(s, TaskOf(s), StatusSet(pc[s]), Worker)
        <5> DEFINE q == [Idle EXCEPT !.task = TaskOf(s), !.to = StatusSet(pc[s]),
                                     !.who = Worker]
        <5>1. req' = [req EXCEPT ![s] = Checked(q)]
          BY <4>4 DEF Patch, Submit
        <5>2. q.task = TaskOf(s) /\ q.to \in {"review", "failed"}
          BY <4>4 DEF Idle, StatusSet
        <5>3. CanTransition("in_progress", q.to) /\ "in_progress" # Absent
          BY <5>2 DEF CanTransition, Lifecycle!CanTransition, Lifecycle!Transitions,
                      Absent, Lifecycle!Absent
        <5>4. Checked(q) = [q EXCEPT !.stage = "write", !.saw = status[q.task]]
          BY <4>4, <5>2, <5>3 DEF Checked
        <5>5. Checked(q).stage = "write"
          BY <5>4 DEF Idle
        <5> HIDE DEF q
        <5>6. req'[s].stage = "write"
          BY <2>0, <5>1, <5>5
        <5>7. Attends(s)'
          BY <4>2, <4>4, <5>6 DEF Answers
        <5> QED BY <2>2, <4>2, <4>3, <5>7
      <4>5. CASE pc[s] \notin {"finish", "fail"}
        <5>1. Attends(s) => Attends(s)'
          BY <4>2, <4>5
        <5> QED BY <2>2, <4>2, <4>3, <5>1
      <4>6. CASE status[TaskOf(s)] # "in_progress"
        <5>1. ASSUME NEW t \in Tasks, NEW q \in Slots,
                     status'[t] = "in_progress", TaskOf(q) = t, Attends(q)
              PROVE  TaskOf(q)' = t /\ Attends(q)'
          BY <4>2, <4>3, <4>6, <5>1
        <5> HIDE DEF Attends
        <5> QED BY <2>1, <4>2, <5>1
      <4> QED
        BY <3>1, <4>4, <4>5, <4>6 DEF Calls, Pinning, Sending
    <3>2. CASE Moment(s) /\ Goes(s)
      <4>1. status' = status /\ \A r \in Slots \ {s} : req'[r] = req[r]
        BY <2>0, <3>2 DEF Moment, Return, vars
      <4>2. \A r \in Slots \ {s} : pc'[r] = pc[r] /\ TaskOf(r)' = TaskOf(r)
        BY <2>0, <3>2 DEF Goes, TaskOf
      <4>3. Attends(s) => TaskOf(s)' = TaskOf(s) /\ Attends(s)'
        <5>1. CASE pc[s] \in {"start", "work", "pin", "announce", "hung"}
          <6>1. /\ pc'[s] \in {"work", "pin", "announce", "finish", "fail", "hung"}
                /\ TaskOf(s)' = TaskOf(s)
            BY <3>2, <5>1 DEF Goes, TaskOf
          <6>2. req'[s] = Idle
            BY <2>0, <3>2 DEF Moment, Return, vars, CallsMatch, Waits
          <6> QED BY <6>1, <6>2 DEF Idle, Answers
        <5>2. CASE pc[s] \in {"finish", "fail"} /\ req[s].stage \notin Answers
          BY <3>2, <5>2 DEF Moment, Return, Quiet
        <5> QED BY <5>1, <5>2
      <4> HIDE DEF Attends
      <4> QED BY <2>2, <4>1, <4>2, <4>3
    <3> QED BY <2>3, <3>1, <3>2, ProgramSteps
  <2>4. ASSUME NEW s \in Slots, Poll(s) \/ Claimed(s) \/ Unheard(s)
        PROVE  Attended'
    <3>1. /\ status' = status /\ pc[s] \in {"free", "claiming"}
          /\ \A r \in Slots \ {s} : pc'[r] = pc[r] /\ TaskOf(r)' = TaskOf(r)
      BY <2>0, <2>4
      DEF Poll, Claimed, Unheard, Goto, FetchJob, Return, workVars, TaskOf
    <3>2. \A r \in Slots \ {s} : req'[r] = req[r]
      BY <2>0, <2>4 DEF Poll, Claimed, Unheard, FetchJob, Submit, Return
    <3> QED BY <2>2, <3>1, <3>2
  <2>5. ASSUME NEW s \in Slots, BeginUnread(s) \/ Crash(s)
        PROVE  Attended'
    BY <2>0, <2>5 DEF Crash, BeginUnread
  <2>6. ASSUME NEW o \in Operators, Ask(o) \/ Told(o)
        PROVE  Attended'
    <3>1. o \in Clients /\ UNCHANGED <<pc, held>>
      BY <2>0, <2>6 DEF Ask, Told, workVars
    <3>2. /\ req' = [req EXCEPT ![o] = req'[o]]
          /\ status' = status \/ \E t \in Tasks : status' = [status EXCEPT ![t] = "planning"]
      <4>1. CASE Told(o)
        BY <2>0, <4>1 DEF Told, Return
      <4> QED BY <2>0, <2>6, <3>1, <4>1, AskSteps
    <3>3. \A r \in Slots : req'[r] = req[r] /\ TaskOf(r)' = TaskOf(r)
      BY <2>0, <3>1, <3>2 DEF TaskOf
    <3>4. \A t \in Tasks : status'[t] = "in_progress" => status[t] = "in_progress"
      BY <2>0, <3>2
    <3> QED BY <2>1, <3>1, <3>3, <3>4
  <2>7. ASSUME NEW c \in Clients, Serve(c)
        PROVE  Attended'
    <3>1. UNCHANGED <<pc, held>> /\ Served(c) /\ RowsServed(c)
      BY <2>0, <2>7, HandleSteps DEF Serve, workVars
    <3>2. /\ \A r \in Clients \ {c} : req'[r] = req[r]
          /\ \A r \in Slots : TaskOf(r)' = TaskOf(r)
      BY <2>0, <3>1 DEF Served, TaskOf
    <3>3. c \in Slots => Waits(c) /\ Idle.stage = "idle"
      BY DEF CallsMatch, Idle
    \* The response to the slot's own UPDATE says that its task is in progress no more.
    <3>4. ASSUME NEW r \in Slots, Attends(r), status'[TaskOf(r)] = "in_progress",
                 TaskOf(r) \in Tasks
          PROVE  Attends(r)'
      <4>1. CASE r # c \/ pc[r] \notin {"finish", "fail"}
        BY <2>0, <3>1, <3>2, <3>4, <4>1
      <4>2. CASE r = c /\ pc[r] \in {"finish", "fail"}
        <5>1. /\ req[c].stage = "write" /\ req[c].task = TaskOf(c)
              /\ req[c].to \in {"review", "failed"}
          BY <3>1, <3>3, <3>4, <4>2 DEF Waits, Patching, Served, Answers, StatusSet
        <5>2. status' = [status EXCEPT ![TaskOf(c)] = req[c].to]
          BY <3>1, <5>1 DEF RowsServed, Same
        <5> QED BY <2>0, <3>4, <4>2, <5>1, <5>2
      <4> QED BY <4>1, <4>2
    <3>5. CASE \A t \in Tasks : status'[t] = "in_progress" => status[t] = "in_progress"
      <4> HIDE DEF Attends
      <4> QED BY <2>1, <3>2, <3>4, <3>5
    <3>6. ASSUME NEW t \in Tasks, status'[t] = "in_progress", status[t] # "in_progress"
          PROVE  Attended'
      <4>1. /\ req[c].stage = "write" /\ req[c].to = "in_progress" /\ req[c].task = t
            /\ status' = [status EXCEPT ![t] = "in_progress"]
        BY <2>0, <3>1, <3>6 DEF RowsServed
      <4>2. c \in Slots
        BY <2>0, <4>1 DEF OperatorsOnlyAsk
      <4>3. pc[c] = "start" /\ TaskOf(c) = t
        <5>1. pc[c] # "claiming"
          BY <4>1, <4>2 DEF ClaimUnderway, Claiming, Answers
        <5>2. pc[c] \in {"claiming"} \cup Quiet \cup Patching \cup Pinning \cup Sending
          BY <2>0, <4>2 DEF Places, Programs, Quiet, Patching, Pinning, Sending
        <5>3. pc[c] \in Patching
          BY <3>3, <4>1, <4>2, <5>1, <5>2 DEF Waits
        <5> QED BY <3>3, <4>1, <4>2, <5>3 DEF Waits, Patching, StatusSet
      <4>4. TaskOf(c)' = t /\ Attends(c)'
        BY <3>1, <3>2, <4>2, <4>3
      <4>5. ASSUME NEW u \in Tasks, u # t, status'[u] = "in_progress"
            PROVE  \E r \in Slots : TaskOf(r)' = u /\ Attends(r)'
        <5>1. status[u] = "in_progress"
          BY <2>0, <4>1, <4>5
        <5>2. PICK r \in Slots : TaskOf(r) = u /\ Attends(r)
          BY <5>1 DEF Attended
        <5> HIDE DEF Attends
        <5> QED BY <3>2, <3>4, <4>5, <5>2
      <4> QED BY <4>2, <4>4, <4>5 DEF Attended
    <3> QED BY <3>5, <3>6
  <2>8. ASSUME NEW c \in Clients, Outage(c)
        PROVE  Attended'
    BY <2>0, <2>8 DEF Outage
  <2>9. CASE UNCHANGED fvars
    BY <2>9 DEF fvars, vars, workVars, Attended, TaskOf
  <2> QED
    BY <2>3, <2>4, <2>5, <2>6, <2>7, <2>8, <2>9 DEF FactoryNext, Daemon
<1>1. FactoryInit => FactoryInv
  <2> SUFFICES ASSUME FactoryInit PROVE FactoryInv
    OBVIOUS
  <2>0. Slots \subseteq Clients /\ Operators \subseteq Clients
    BY FactoryAssumption
  <2>1. IInv
    <3>1. [k \in Kinds |-> <<>>] \in [Kinds -> Seq(Jobs)]
      OBVIOUS
    <3>2. TypeOK
      BY <3>1, RequestTypes DEF FactoryInit, Init, TypeOK
    <3>3. RequestsWellFormed
      BY RequestTypes DEF FactoryInit, Init, RequestsWellFormed
    <3>4. Gated /\ Unclaimed /\ OneWinner
      BY DEF FactoryInit, Init, Gated, Unclaimed, OneWinner, Idle, Absent,
             Lifecycle!Absent, WorkerStatuses
    <3> QED BY <3>2, <3>3, <3>4 DEF IInv
  <2>2. FactoryTypeOK
    BY <2>1, FactoryAssumption DEF FactoryInit, FactoryTypeOK, Places, IInv
  <2>3. HeldJobs /\ ClaimUnderway /\ Locked /\ OperatorsOnlyAsk
    BY <2>0 DEF FactoryInit, Init, HeldJobs, ClaimUnderway, Locked, OperatorsOnlyAsk,
                Running, Programs, Idle
  <2>4. CallsMatch /\ SnapshotsHold /\ PinsOnce
    BY <2>0 DEF FactoryInit, Init, CallsMatch, Waits, SnapshotsHold, PinsOnce,
                Quiet, Patching, Pinning, Sending
  <2>5. Attended
    BY DEF FactoryInit, Init, Attended, Absent, Lifecycle!Absent
  <2> QED BY <2>1, <2>2, <2>3, <2>4, <2>5 DEF FactoryInv, Sound
<1>2. FactoryInv /\ [FactoryNext]_fvars => FactoryInv'
  <2> SUFFICES ASSUME FactoryInv, [FactoryNext]_fvars PROVE FactoryInv'
    OBVIOUS
  <2>1. Sound /\ [Next]_vars
    BY FactoryStep DEF FactoryInv
  <2>2. Sound'
    BY <2>1, TypeStep, GateStep, <1>WorkStep, <1>RequestsStep DEF Sound, IInv
  \* Failures are counted, so none so far means none before and none now.
  <2>3. /\ crashes' = 0 => crashes = 0 /\ crashes' = crashes
        /\ outages' = 0 => outages = 0 /\ outages' = outages
    <3>1. /\ crashes' \in {crashes, crashes + 1}
          /\ outages' \in {outages, outages + 1}
      <4>1. ASSUME NEW s \in Slots, RunJob(s) \/ Hang(s)
            PROVE  UNCHANGED <<crashes, outages>>
        BY <2>1, <4>1, ProgramSteps DEF Sound, Calls, Goes, workVars
      <4> QED
        BY <4>1 DEF FactoryNext, Daemon, Poll, Claimed, Unheard, Goto, BeginUnread, Crash,
                    Ask, Told, Serve, Outage, workVars, fvars
    <3>2. crashes \in Nat /\ outages \in Nat
      BY <2>1, FactoryAssumption DEF Sound, FactoryTypeOK
    <3> QED BY <3>1, <3>2
  <2>4. crashes' = 0 => CallsMatch' /\ SnapshotsHold' /\ PinsOnce'
    BY <2>1, <2>3, <1>CallsStep, <1>PinStep DEF FactoryInv
  <2>5. crashes' = 0 /\ outages' = 0 => Attended'
    BY <2>1, <2>3, <1>AttendedStep DEF FactoryInv
  <2> QED BY <2>2, <2>4, <2>5 DEF FactoryInv
<1> QED BY <1>1, <1>2, PTL DEF FactorySpec

\* The programs, their jobs and the counters keep their types.
THEOREM FactoryTypes == FactorySpec => []FactoryTypeOK
<1>1. FactoryInv => FactoryTypeOK
  BY DEF FactoryInv, Sound
<1> QED BY FactoryInvariance, <1>1, PTL

\* The factory implements the control plane: its daemon, its programs and its
\* operators do nothing but what clients of ControlPlane may do, so the plan
\* gate and the single winner of a claim are theirs as well.
THEOREM FactoryImplements == FactorySpec => Spec /\ []PlanGate /\ []OneWinner
<1>1. FactoryInit => Init
  BY DEF FactoryInit
<1>2. FactoryInv /\ [FactoryNext]_fvars => [Next]_vars
  BY FactoryStep DEF FactoryInv
<1>3. FactorySpec => Spec
  BY FactoryInvariance, <1>1, <1>2, PTL DEF FactorySpec, Spec
<1> QED BY <1>3, PlanGateHolds, OneWinnerHolds, PTL

\* The pull request of a task is pinned once, whatever calls fail: the lock of
\* run_job keeps the snapshot of the program that will pin it true. A process
\* that is killed leaves its request behind, and the promise ends there.
THEOREM PinsOnceHolds == FactorySpec => [](crashes = 0 => PinsOnce)
<1>1. FactoryInv => (crashes = 0 => PinsOnce)
  BY DEF FactoryInv
<1> QED BY FactoryInvariance, <1>1, PTL

\* A task in progress has a slot with a job for it: without a failed call or a
\* killed process no way out of run-task.sh forgets its task.
THEOREM NotStrandedHolds ==
  FactorySpec => [](crashes = 0 /\ outages = 0 => NotStranded)
<1>1. FactoryInv => (crashes = 0 /\ outages = 0 => NotStranded)
  BY DEF FactoryInv, Attended, NotStranded
<1> QED BY FactoryInvariance, <1>1, PTL
=============================================================================
