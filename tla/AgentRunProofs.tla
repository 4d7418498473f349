--------------------------- MODULE AgentRunProofs ---------------------------
(***************************************************************************)
(* What an agent's record says and what its transcript holds when its      *)
(* session is over, proved for every size of batches and transcripts and   *)
(* any number of lint rounds, messages and faults.                         *)
(***************************************************************************)
EXTENDS AgentRun, SequenceTheorems, TLAPS

\* The record and the session have the fields that the steps below change.
Fields ==
  /\ {"status", "transcript"} \subseteq DOMAIN record
  /\ {"known", "events", "reported", "last", "blocked", "attempt", "replied", "outcome",
      "verdict", "then"} \subseteq DOMAIN s
  /\ s.known \in BOOLEAN /\ s.reported \in BOOLEAN /\ s.blocked \in BOOLEAN
  /\ s.replied \in BOOLEAN /\ unreported \in BOOLEAN
  /\ s.attempt \in Nat /\ s.outcome \in Outcomes /\ s.then \in {"exit", "done"}

\* The verdict that the record shows, once it was reported and heard.
Verdict == IF s.outcome \in {"ok", "lint"} /\ s.last = "finished" THEN "finished" ELSE "error"

\* Until finish has reported, the record is open; from then on it keeps its verdict.
OpenUntilReported ==
  /\ pc = "create" => ~s.known
  /\ ~s.reported => ~unreported /\ (s.known => record.status = "running")
  /\ s.reported /\ s.known /\ ~unreported => record.status = Verdict

\* What is known at each place of the session.
Working == {"create", "agent", "prompt", "send", "stream", "wait", "judge", "lint"}
AtPlaces ==
  /\ pc \in Working => ~s.reported /\ s.outcome = "none"
  /\ pc \in Working \ {"judge", "lint"} /\ s.replied => s.attempt > 0
  /\ pc \in {"judge", "lint"} => s.last \in {"finished", "error", "cancelled"}
  /\ pc = "lint" /\ s.last = "error" => s.attempt > 0
  /\ s.outcome \in {"ok", "lint"} => s.last \in {"finished", "error", "cancelled"}
  /\ s.outcome = "ok" /\ s.last = "error" => s.attempt > 0
  /\ s.outcome = "failed" => s.last = "error"

\* finish: where it was called from tells what it may have to say.
AtFinish ==
  /\ pc = "exit" => s.outcome # "none" /\ (s.reported <=> s.outcome \in {"startup", "blocked"})
  /\ pc \in {"flush", "report"} =>
       /\ s.outcome # "none"
       /\ s.then = "exit" => ~s.reported /\ s.outcome \in {"startup", "blocked"}
       /\ ~s.reported => s.verdict = Verdict
  /\ pc = "report" => ~s.reported
  /\ pc = "done" => s.reported /\ s.outcome # "none"

Inv == Fields /\ OpenUntilReported /\ AtPlaces /\ AtFinish

(***************************************************************************)
(* FailureShows of AgentRun.tla: a session that is over and could report   *)
(* has closed its record, with the right verdict (sdk_session.py, finish   *)
(* and __exit__).                                                          *)
(***************************************************************************)
THEOREM FailureShowsHolds == Spec => []FailureShows
<1>. USE AgentRunAssumption
<1>1. Init => Inv
  <2>. SUFFICES ASSUME Init PROVE Inv
    OBVIOUS
  <2>1. /\ ~s.known /\ ~s.reported /\ ~s.replied /\ s.attempt \in Nat
        /\ s.blocked \in BOOLEAN /\ s.known \in BOOLEAN /\ s.reported \in BOOLEAN /\ s.replied \in BOOLEAN
        /\ s.outcome = "none" /\ s.then = "done"
    BY SMT DEF Init, Fresh
  <2>2. Fields
    <3>1. s = Fresh /\ record = NoRecord /\ unreported = FALSE
      BY DEF Init
    <3>2. {"status", "transcript"} \subseteq DOMAIN record
      BY <3>1, SMT DEF NoRecord
    <3>3. {"known", "events", "reported", "last", "blocked", "attempt", "replied", "outcome",
           "verdict", "then"} \subseteq DOMAIN s
      BY <3>1, Zenon DEF Fresh
    <3>4. unreported \in BOOLEAN
      BY <3>1
    <3> QED BY <2>1, <3>2, <3>3, <3>4, Zenon DEF Fields, Outcomes
  <2> QED BY <2>1, <2>2, SMT DEF Init, Inv, OpenUntilReported, AtPlaces, AtFinish, Working
<1>2. Inv => FailureShows
  BY SMT DEF Inv, Fields, OpenUntilReported, AtPlaces, AtFinish, FailureShows, Verdict, ExitCode,
    Outcomes, Working
<1>3. Inv /\ [Next]_vars => Inv'
  <2>. SUFFICES ASSUME Inv, [Next]_vars PROVE Inv'
    OBVIOUS
  <2>. USE DEF Inv, Fields, OpenUntilReported, AtPlaces, AtFinish, Verdict, Working, Outcomes
  <2>1. CASE CreateRun
    BY <2>1, SMT DEF CreateRun, Goto, At, Call, Served, Answers, NoRecord
  <2>2. CASE StartAgent
    <3>1. pc = "agent" /\ UNCHANGED quiet
      BY <2>2 DEF StartAgent, At
    <3>2. CASE Goto("prompt") /\ UNCHANGED s
      BY <3>1, <3>2, SMT DEF Goto, quiet
    <3>3. CASE Finish([s EXCEPT !.outcome = "startup"], "error", "done")
      <4>1. /\ pc' = "flush" /\ s'.outcome = "startup" /\ s'.verdict = "error"
            /\ s'.then = "done" /\ DOMAIN s' = DOMAIN s
        BY <3>3, SMT DEF Finish, Goto
      <4>2. /\ s'.known = s.known /\ s'.reported = s.reported /\ s'.blocked = s.blocked
            /\ s'.replied = s.replied /\ s'.attempt = s.attempt /\ s'.last = s.last
        BY <3>3, SMT DEF Finish
      <4> QED BY <3>1, <4>1, <4>2, SMT DEF quiet
    <3> QED BY <2>2, <3>2, <3>3 DEF StartAgent
  <2>. DEFINE Recorded == /\ DOMAIN record' = DOMAIN record
                          /\ record'.status = record.status
  <2>3. ASSUME NEW batch, Deliver(batch) PROVE Recorded
    BY <2>3, SMT DEF Deliver
  <2>4. CASE RecordPrompt
    <3>1. Recorded
      BY <2>3, <2>4 DEF RecordPrompt, RecordEvent
    <3> QED BY <2>4, <3>1, SMT DEF RecordPrompt, RecordEvent, Goto, At
  <2>5. CASE Send
    <3>1. pc = "send" /\ UNCHANGED quiet
      BY <2>5 DEF Send, At
    <3>2. CASE Goto("stream") /\ UNCHANGED s
      BY <3>1, <3>2, SMT DEF Goto, quiet
    <3>3. CASE Finish([s EXCEPT !.outcome = "startup"], "error", "exit")
      <4>1. /\ pc' = "flush" /\ s'.outcome = "startup" /\ s'.verdict = "error"
            /\ s'.then = "exit" /\ DOMAIN s' = DOMAIN s
        BY <3>3, SMT DEF Finish, Goto
      <4>2. /\ s'.known = s.known /\ s'.reported = s.reported /\ s'.blocked = s.blocked
            /\ s'.replied = s.replied /\ s'.attempt = s.attempt /\ s'.last = s.last
        BY <3>3, SMT DEF Finish
      <4> QED BY <3>1, <4>1, <4>2, SMT DEF quiet
    <3>4. CASE Goto("exit") /\ s' = [s EXCEPT !.outcome = "raised"]
      <4>1. pc' = "exit" /\ s'.outcome = "raised" /\ DOMAIN s' = DOMAIN s
        BY <3>4, SMT DEF Goto
      <4>2. /\ s'.known = s.known /\ s'.reported = s.reported /\ s'.blocked = s.blocked
            /\ s'.replied = s.replied /\ s'.attempt = s.attempt /\ s'.last = s.last
            /\ s'.verdict = s.verdict /\ s'.then = s.then
        BY <3>4, SMT
      <4> QED BY <3>1, <4>1, <4>2, SMT DEF quiet
    <3> QED BY <2>5, <3>2, <3>3, <3>4 DEF Send
  <2>6. CASE Message
    <3>1. Recorded
      BY <2>3, <2>6 DEF Message, RecordEvent
    <3> QED BY <2>6, <3>1, SMT DEF Message, RecordEvent, Goto, At
  <2>7. CASE EndStream
    BY <2>7, SMT DEF EndStream, Goto, At, quiet
  <2>8. CASE Wait
    <3>1. pc = "wait" /\ UNCHANGED unreported
      BY <2>8 DEF Wait, At
    <3>2. ASSUME NEW status \in {"finished", "error", "cancelled"}, NEW blocked \in BOOLEAN,
                 RecordEvent([s EXCEPT !.last = status, !.blocked = blocked, !.replied = TRUE],
                             TRUE),
                 Goto(IF s.replied THEN "lint" ELSE "judge")
          PROVE  Inv'
      <4>1. Recorded
        BY <2>3, <3>2 DEF RecordEvent
      <4>2. /\ pc' = (IF s.replied THEN "lint" ELSE "judge")
            /\ s'.last = status /\ s'.blocked = blocked /\ s'.replied /\ DOMAIN s' = DOMAIN s
            /\ s'.known = s.known /\ s'.reported = s.reported /\ s'.attempt = s.attempt
            /\ s'.outcome = s.outcome /\ s'.then = s.then /\ s'.verdict = s.verdict
            /\ s'.replied \in BOOLEAN
        BY <3>2, SMT DEF RecordEvent, Goto
      <4> QED BY <3>1, <3>2, <4>1, <4>2, SMT
    <3>3. CASE Goto("exit") /\ s' = [s EXCEPT !.outcome = "raised"] /\ UNCHANGED record
      <4>1. pc' = "exit" /\ s'.outcome = "raised" /\ DOMAIN s' = DOMAIN s
        BY <3>3, SMT DEF Goto
      <4>2. /\ s'.known = s.known /\ s'.reported = s.reported /\ s'.blocked = s.blocked
            /\ s'.replied = s.replied /\ s'.attempt = s.attempt /\ s'.last = s.last
            /\ s'.verdict = s.verdict /\ s'.then = s.then
        BY <3>3, SMT
      <4> QED BY <3>1, <3>3, <4>1, <4>2, SMT
    <3> QED BY <2>8, <3>2, <3>3 DEF Wait
  <2>9. CASE Judge
    <3>1. pc = "judge" /\ UNCHANGED quiet
      BY <2>9 DEF Judge, At
    <3>2. CASE Finish([s EXCEPT !.outcome = "blocked"], "error", "exit")
      <4>1. /\ pc' = "flush" /\ s'.outcome = "blocked" /\ s'.verdict = "error"
            /\ s'.then = "exit" /\ DOMAIN s' = DOMAIN s
        BY <3>2, SMT DEF Finish, Goto
      <4>2. /\ s'.known = s.known /\ s'.reported = s.reported /\ s'.blocked = s.blocked
            /\ s'.replied = s.replied /\ s'.attempt = s.attempt /\ s'.last = s.last
        BY <3>2, SMT DEF Finish
      <4> QED BY <3>1, <4>1, <4>2, SMT DEF quiet
    <3>3. CASE s.last = "error" /\ Goto("exit") /\ s' = [s EXCEPT !.outcome = "failed"]
      <4>1. pc' = "exit" /\ s'.outcome = "failed" /\ DOMAIN s' = DOMAIN s
        BY <3>3, SMT DEF Goto
      <4>2. /\ s'.known = s.known /\ s'.reported = s.reported /\ s'.blocked = s.blocked
            /\ s'.replied = s.replied /\ s'.attempt = s.attempt /\ s'.last = s.last
            /\ s'.verdict = s.verdict /\ s'.then = s.then
        BY <3>3, SMT
      <4> QED BY <3>1, <3>3, <4>1, <4>2, SMT DEF quiet
    <3>4. CASE s.last # "error" /\ Goto("lint") /\ UNCHANGED s
      BY <3>1, <3>4, SMT DEF Goto, quiet
    <3> QED BY <2>9, <3>2, <3>3, <3>4, SMT DEF Judge
  <2>10. CASE Lint
    BY <2>10, SMT DEF Lint, Goto, At, quiet
  <2>11. CASE Exit
    BY <2>11, SMT DEF Exit, Goto, At, Finish, quiet
  <2>12. CASE Flush
    <3>1. Recorded
      BY <2>3, <2>12 DEF Flush
    <3> QED BY <2>12, <3>1, SMT DEF Flush, Goto, At
  <2>13. CASE Report
    BY <2>13, SMT DEF Report, Goto, At, Call, Answers, Served, updateRun
  <2>14. CASE Kill
    BY <2>14, SMT DEF Kill, Goto
  <2>15. CASE UNCHANGED vars
    BY <2>15, SMT DEF vars
  <2> QED BY <2>1, <2>2, <2>4, <2>5, <2>6, <2>7, <2>8, <2>9, <2>10, <2>11, <2>12, <2>13,
             <2>14, <2>15 DEF Next
<1> QED BY <1>1, <1>2, <1>3, PTL DEF Spec

-----------------------------------------------------------------------------
(***************************************************************************)
(* An append leaves no more of the transcript than its size, and only      *)
(* events that it had or was given (runs.ts, appendRunEvents).             *)
(***************************************************************************)
LEMMA TranscriptIsBounded ==
  ASSUME NEW S, NEW transcript \in Seq(S), NEW batch \in Seq(S)
  PROVE  /\ appendRunEvents(transcript, batch) \in Seq(S)
         /\ Len(appendRunEvents(transcript, batch)) <= MaxTranscript
<1>. USE AgentRunAssumption
<1>. DEFINE whole == transcript \o batch
            over == Len(whole) - MaxTranscript
<1>1. whole \in Seq(S) /\ Len(whole) \in Nat
  BY ConcatProperties
<1>. HIDE DEF whole
<1>2. CASE over > 0
  <2>1. over + 1 \in 1..(Len(whole) + 1)
    BY <1>1, <1>2, SMT
  <2>2. appendRunEvents(transcript, batch) = SubSeq(whole, over + 1, Len(whole))
    BY <1>2 DEF appendRunEvents, whole
  <2>3. /\ SubSeq(whole, over + 1, Len(whole)) \in Seq(S)
        /\ Len(SubSeq(whole, over + 1, Len(whole))) = MaxTranscript
    BY <1>1, <1>2, <2>1, SubSeqProperties, SMT
  <2> QED BY <2>2, <2>3, SMT
<1>3. CASE ~(over > 0)
  <2>1. appendRunEvents(transcript, batch) = whole
    BY <1>3 DEF appendRunEvents, whole
  <2> QED BY <1>1, <1>3, <2>1, SMT
<1> QED BY <1>2, <1>3

Session == [known : BOOLEAN, events : Seq(1..made), reported : BOOLEAN,
            last : {"none", "finished", "error", "cancelled"}, blocked : BOOLEAN,
            attempt : 0..Attempts, replied : BOOLEAN, outcome : Outcomes,
            verdict : {"none", "finished", "error"}, then : {"exit", "done"}]
Places == Working \cup {"exit", "flush", "report", "done", "killed"}

(***************************************************************************)
(* TypeOK of AgentRun.tla: the record, the session and its buffer hold     *)
(* what the code may put there; the transcript and the buffer are bounded  *)
(* (sdk_session.py, runs.ts).                                              *)
(***************************************************************************)
THEOREM TypeCorrectness == Spec => []TypeOK
<1>. USE AgentRunAssumption
<1>. DEFINE Buffer == s \in Session /\ Len(s.events) < FlushSize
            Row == /\ record \in [status : RunStatuses \cup {"none"}, transcript : Seq(1..made)]
                   /\ Len(record.transcript) <= MaxTranscript
            Rest == /\ kind \in {"implement", "plan", "plan_with_fallback"}
                    /\ made \in Nat /\ faults \in 0..MaxFaults /\ lost \subseteq 1..made
                    /\ unreported \in BOOLEAN
<1>1. /\ TypeOK <=> Buffer /\ Row /\ Rest /\ pc \in Places
      /\ TypeOK' <=> Buffer' /\ Row' /\ Rest' /\ pc' \in Places
  BY DEF TypeOK, Session, Places, Working
<1>2. ASSUME NEW S PROVE <<>> \in Seq(S) /\ Len(<<>>) = 0
  BY EmptySeq
<1>3. Init => TypeOK
  <2>. SUFFICES ASSUME Init PROVE TypeOK
    OBVIOUS
  <2>1. s \in Session
    <3>1. /\ FALSE \in BOOLEAN /\ 0 \in 0..Attempts /\ "none" \in Outcomes
          /\ "none" \in {"none", "finished", "error", "cancelled"}
          /\ "none" \in {"none", "finished", "error"} /\ "done" \in {"exit", "done"}
      BY SMT DEF Outcomes
    <3> QED BY <1>2, <3>1, Zenon DEF Init, Fresh, Session
  <2>2. s.events = <<>> /\ record.transcript = <<>>
    BY DEF Init, Fresh, NoRecord
  <2>3. record \in [status : RunStatuses \cup {"none"}, transcript : Seq(1..made)]
    BY <1>2, Zenon DEF Init, NoRecord
  <2>4. Len(s.events) < FlushSize /\ Len(record.transcript) <= MaxTranscript
    BY <1>2, <2>2, SMT
  <2>5. Rest /\ pc \in Places
    <3>1. unreported = FALSE /\ lost = {} /\ faults = 0 /\ made = 0 /\ pc = "create"
      BY DEF Init
    <3>2. faults \in 0..MaxFaults /\ made \in Nat
      BY <3>1, SMT
    <3> QED BY <3>1, <3>2 DEF Init, Places, Working
  <2> QED BY <1>1, <2>1, <2>3, <2>4, <2>5
<1>4. TypeOK /\ [Next]_vars => TypeOK'
  <2>. SUFFICES ASSUME Buffer, Row, Rest, pc \in Places, [Next]_vars PROVE TypeOK'
    BY <1>1
  <2>1. Places = {"create", "agent", "prompt", "send", "stream", "wait", "judge", "lint", "exit",
                  "flush", "report", "done", "killed"}
    BY DEF Places, Working
  <2>2. ASSUME NEW answer, Call(answer) PROVE faults' \in 0..MaxFaults
    BY <2>2, SMT DEF Call
  \* What one more event makes of sequences of events.
  <2>3. ASSUME NEW u \in Seq(1..made) PROVE u \in Seq(1..(made + 1))
    <3>1. 1..made \subseteq 1..(made + 1)
      BY SMT
    <3> QED BY <3>1, SMT
  <2>4. ASSUME NEW batch, made' = made \/ made' = made + 1, batch \in Seq(1..made'), Deliver(batch)
        PROVE  Row' /\ faults' \in 0..MaxFaults /\ lost' \subseteq 1..made'
    <3>1. record.transcript \in Seq(1..made') /\ lost \subseteq 1..made'
      <4>1. record.transcript \in Seq(1..made)
        OBVIOUS
      <4>2. lost \subseteq 1..(made + 1)
        BY SMT
      <4> QED BY <2>3, <2>4, <4>1, <4>2
    <3>2. CASE UNCHANGED <<record, faults, lost>>
      BY <3>1, <3>2
    <3>3. ASSUME NEW answer, Call(answer),
                 record' = [record EXCEPT !.transcript = appendRunEvents(@, batch)],
                 UNCHANGED lost
          PROVE  Row' /\ faults' \in 0..MaxFaults /\ lost' \subseteq 1..made'
      <4>. DEFINE appended == appendRunEvents(record.transcript, batch)
      <4>1. appended \in Seq(1..made') /\ Len(appended) <= MaxTranscript
        BY <2>4, <3>1, TranscriptIsBounded
      <4>. HIDE DEF appended
      <4>2. record' = [record EXCEPT !.transcript = appended]
        BY <3>3 DEF appended
      <4> QED BY <2>2, <3>1, <3>3, <4>1, <4>2
    <3>4. ASSUME NEW answer, Call(answer), lost' = lost \cup ToSet(batch), UNCHANGED record
          PROVE  Row' /\ faults' \in 0..MaxFaults /\ lost' \subseteq 1..made'
      <4>1. ToSet(batch) \subseteq 1..made'
        BY <2>4 DEF ToSet
      <4> QED BY <2>2, <3>1, <3>4, <4>1
    <3> QED BY <2>4, <3>2, <3>3, <3>4 DEF Deliver
  <2>5. ASSUME NEW session \in Session, Len(session.events) < FlushSize, NEW force,
               RecordEvent(session, force)
        PROVE  /\ Row' /\ Buffer' /\ faults' \in 0..MaxFaults /\ lost' \subseteq 1..made'
               /\ made' = made + 1
    <3>. DEFINE events == Append(session.events, made + 1)
                full == force \/ Len(events) >= FlushSize
    <3>1. made' = made + 1 /\ made' \in Nat
      BY <2>5 DEF RecordEvent
    <3>2. session.events \in Seq(1..made') /\ made + 1 \in 1..made'
      <4>1. session.events \in Seq(1..made)
        BY DEF Session
      <4> QED BY <2>3, <3>1, <4>1, SMT
    <3>3. events \in Seq(1..made') /\ Len(events) \in Nat
      BY <3>1, <3>2, AppendProperties
    <3>4. /\ s' = [session EXCEPT !.events = IF full THEN <<>> ELSE events]
          /\ Deliver(IF full THEN events ELSE <<>>)
      BY <2>5 DEF RecordEvent
    <3>. HIDE DEF events
    <3>5. Row' /\ faults' \in 0..MaxFaults /\ lost' \subseteq 1..made'
      BY <1>2, <2>4, <3>1, <3>3, <3>4
    <3>. DEFINE kept == IF full THEN <<>> ELSE events
    <3>6. kept \in Seq(1..made') /\ Len(kept) < FlushSize
      <4>1. CASE full
        <5>1. kept = <<>>
          BY <4>1
        <5>2. <<>> \in Seq(1..made') /\ Len(<<>>) < FlushSize
          BY <1>2, SMT
        <5> QED BY <5>1, <5>2
      <4>2. CASE ~full
        <5>1. kept = events /\ ~(Len(events) >= FlushSize)
          BY <4>2
        <5> QED BY <3>3, <5>1, SMT
      <4> QED BY <4>1, <4>2
    <3>. HIDE DEF kept
    <3>7. s' = [session EXCEPT !.events = kept]
      BY <3>4 DEF kept
    <3>8. s' \in Session' /\ s'.events = kept
      BY <3>6, <3>7 DEF Session
    <3> QED BY <3>1, <3>5, <3>6, <3>8
  <2>6. ASSUME UNCHANGED made, NEW session \in Session, s' = session,
               Len(session.events) < FlushSize
        PROVE  Buffer'
    BY <2>6 DEF Session
  <2>7. ASSUME NEW session \in Session, Len(session.events) < FlushSize,
               NEW verdict \in {"finished", "error"}, NEW then \in {"exit", "done"},
               Finish(session, verdict, then), UNCHANGED made
        PROVE  Buffer' /\ pc' \in Places
    <3>1. [session EXCEPT !.verdict = verdict, !.then = then] \in Session
      BY <2>7 DEF Session
    <3>2. [session EXCEPT !.verdict = verdict, !.then = then].events = session.events
      BY DEF Session
    <3> QED BY <2>1, <2>6, <2>7, <3>1, <3>2 DEF Finish, Goto
  <2>8. ASSUME NEW outcome \in Outcomes
        PROVE  /\ [s EXCEPT !.outcome = outcome] \in Session
               /\ Len([s EXCEPT !.outcome = outcome].events) < FlushSize
    BY DEF Session
  <2>9. \A outcome \in {"startup", "raised", "blocked", "failed", "ok", "lint"} :
          outcome \in Outcomes
    BY DEF Outcomes
  <2>10. UNCHANGED quiet => Row' /\ UNCHANGED <<made, faults, lost, unreported>>
    BY DEF quiet
  <2>11. CASE CreateRun
    <3>1. pc' \in Places /\ UNCHANGED <<kind, made, lost, unreported>>
      BY <2>1, <2>11 DEF CreateRun, Goto
    <3>2. PICK answer :
            /\ Call(answer)
            /\ record' = IF Served(answer) THEN [NoRecord EXCEPT !.status = "running"] ELSE record
            /\ s' = [s EXCEPT !.known = answer = "ok"]
      BY <2>11 DEF CreateRun
    <3>3. Row'
      <4>1. [NoRecord EXCEPT !.status = "running"]
               = [status |-> "running", transcript |-> <<>>]
        BY DEF NoRecord
      <4>2. [NoRecord EXCEPT !.status = "running"]
               \in [status : RunStatuses \cup {"none"}, transcript : Seq(1..made)]
        BY <1>2, <4>1, Zenon DEF RunStatuses
      <4>3. Len([NoRecord EXCEPT !.status = "running"].transcript) <= MaxTranscript
        BY <1>2, <4>1, SMT
      <4> QED BY <3>1, <3>2, <4>2, <4>3
    <3>4. Buffer'
      <4>1. [s EXCEPT !.known = answer = "ok"] \in Session
        BY Zenon DEF Session
      <4>2. [s EXCEPT !.known = answer = "ok"].events = s.events
        BY DEF Session
      <4> QED BY <2>6, <3>1, <3>2, <4>1, <4>2
    <3> QED BY <1>1, <2>2, <3>1, <3>2, <3>3, <3>4
  <2>12. CASE StartAgent
    <3>1. UNCHANGED <<kind, quiet>>
      BY <2>12 DEF StartAgent
    <3>2. Buffer' /\ pc' \in Places
      BY <2>1, <2>6, <2>7, <2>8, <2>9, <2>10, <2>12, <3>1 DEF StartAgent, Goto
    <3> QED BY <1>1, <2>10, <3>1, <3>2
  <2>13. CASE RecordPrompt
    <3>1. /\ Row' /\ Buffer' /\ faults' \in 0..MaxFaults /\ lost' \subseteq 1..made'
          /\ made' = made + 1
      BY <2>5, <2>13 DEF RecordPrompt
    <3> QED BY <1>1, <2>1, <2>13, <3>1 DEF RecordPrompt, Goto
  <2>14. CASE Send
    <3>1. UNCHANGED <<kind, quiet>>
      BY <2>14 DEF Send
    <3>2. Buffer' /\ pc' \in Places
      BY <2>1, <2>6, <2>7, <2>8, <2>9, <2>10, <2>14, <3>1 DEF Send, Goto
    <3> QED BY <1>1, <2>10, <3>1, <3>2
  <2>15. CASE Message
    <3>1. /\ Row' /\ Buffer' /\ faults' \in 0..MaxFaults /\ lost' \subseteq 1..made'
          /\ made' = made + 1
      BY <2>5, <2>15 DEF Message
    <3> QED BY <1>1, <2>1, <2>15, <3>1 DEF Message, Goto
  <2>16. CASE EndStream
    BY <1>1, <2>1, <2>6, <2>10, <2>16 DEF EndStream, Goto
  <2>17. CASE Wait
    <3>1. UNCHANGED <<kind, unreported>>
      BY <2>17 DEF Wait
    <3>2. ASSUME NEW status \in {"finished", "error", "cancelled"}, NEW blocked \in BOOLEAN,
                 RecordEvent([s EXCEPT !.last = status, !.blocked = blocked, !.replied = TRUE],
                             TRUE),
                 Goto(IF s.replied THEN "lint" ELSE "judge")
          PROVE  TypeOK'
      <4>. DEFINE session == [s EXCEPT !.last = status, !.blocked = blocked, !.replied = TRUE]
      <4>1. session \in Session
        BY Zenon DEF Session
      <4>2. session.events = s.events
        BY DEF Session
      <4>. HIDE DEF session
      <4>3. /\ Row' /\ Buffer' /\ faults' \in 0..MaxFaults /\ lost' \subseteq 1..made'
            /\ made' = made + 1
        BY <2>5, <3>2, <4>1, <4>2 DEF session
      <4>4. pc' \in Places
        BY <2>1, <3>2 DEF Goto
      <4> QED BY <1>1, <3>1, <4>3, <4>4
    <3>3. CASE /\ Goto("exit") /\ s' = [s EXCEPT !.outcome = "raised"]
               /\ UNCHANGED <<record, made, faults, lost>>
      BY <1>1, <2>1, <2>6, <2>8, <2>9, <3>1, <3>3 DEF Goto
    <3> QED BY <2>17, <3>2, <3>3 DEF Wait
  <2>18. CASE Judge
    <3>1. UNCHANGED <<kind, quiet>>
      BY <2>18 DEF Judge
    <3>2. \/ Finish([s EXCEPT !.outcome = "blocked"], "error", "exit")
          \/ Goto("exit") /\ s' = [s EXCEPT !.outcome = "failed"]
          \/ Goto("lint") /\ UNCHANGED s
      BY <2>18, Zenon DEF Judge
    <3>3. Buffer' /\ pc' \in Places
      BY <2>1, <2>6, <2>7, <2>8, <2>9, <2>10, <3>1, <3>2 DEF Goto
    <3> QED BY <1>1, <2>10, <3>1, <3>3
  <2>19. CASE Lint
    <3>1. UNCHANGED <<kind, quiet>>
      BY <2>19 DEF Lint
    <3>2. ASSUME s.attempt < Attempts, s' = [s EXCEPT !.attempt = @ + 1] PROVE Buffer'
      <4>1. s.attempt + 1 \in 0..Attempts
        BY <3>2 DEF Session
      <4>2. [s EXCEPT !.attempt = s.attempt + 1] \in Session
        BY <4>1 DEF Session
      <4>3. [s EXCEPT !.attempt = s.attempt + 1].events = s.events
        BY DEF Session
      <4> QED BY <2>6, <2>10, <3>1, <3>2, <4>2, <4>3
    <3>3. Buffer' /\ pc' \in Places
      BY <2>1, <2>6, <2>8, <2>9, <2>10, <2>19, <3>1, <3>2 DEF Lint, Goto
    <3> QED BY <1>1, <2>10, <3>1, <3>3
  <2>20. CASE Exit
    <3>1. UNCHANGED <<kind, quiet>>
      BY <2>20 DEF Exit
    <3>2. PICK verdict \in {"finished", "error"} : Finish(s, verdict, "done")
      BY <2>20 DEF Exit
    <3>3. Buffer' /\ pc' \in Places
      BY <2>7, <2>10, <3>1, <3>2
    <3> QED BY <1>1, <2>10, <3>1, <3>3
  <2>21. CASE Flush
    <3>1. /\ UNCHANGED <<kind, made, unreported>> /\ Deliver(s.events)
          /\ s' = [s EXCEPT !.events = <<>>] /\ pc' \in Places
      BY <2>1, <2>21 DEF Flush, Goto, Session
    <3>2. s.events \in Seq(1..made)
      BY DEF Session
    <3>3. Row' /\ faults' \in 0..MaxFaults /\ lost' \subseteq 1..made'
      BY <2>4, <3>1, <3>2
    <3>4. [s EXCEPT !.events = <<>>] \in Session /\ [s EXCEPT !.events = <<>>].events = <<>>
      BY <1>2 DEF Session
    <3>5. Buffer'
      <4>1. Len([s EXCEPT !.events = <<>>].events) < FlushSize
        BY <1>2, <3>4, SMT
      <4> QED BY <2>6, <3>1, <3>4, <4>1
    <3> QED BY <1>1, <3>1, <3>3, <3>5
  <2>22. CASE Report
    <3>1. /\ UNCHANGED <<kind, made, lost>> /\ s' = [s EXCEPT !.reported = TRUE]
          /\ pc' \in Places
      BY <2>1, <2>22 DEF Report, Goto, Session
    <3>2. Buffer'
      <4>1. [s EXCEPT !.reported = TRUE] \in Session
        BY Zenon DEF Session
      <4>2. [s EXCEPT !.reported = TRUE].events = s.events
        BY DEF Session
      <4> QED BY <2>6, <3>1, <4>1, <4>2
    <3>3. Row' /\ faults' \in 0..MaxFaults /\ unreported' \in BOOLEAN
      <4>1. CASE UNCHANGED <<record, faults, unreported>>
        BY <3>1, <4>1
      <4>2. ASSUME NEW answer, Call(answer), updateRun(s.verdict) \/ UNCHANGED record,
                   s.verdict \in RunStatuses \cup {"none"}, unreported' = ~Served(answer)
            PROVE  Row' /\ faults' \in 0..MaxFaults /\ unreported' \in BOOLEAN
        <5>1. unreported' \in BOOLEAN
          BY <4>2, Zenon
        <5>2. Row'
          BY <3>1, <4>2 DEF updateRun
        <5> QED BY <2>2, <4>2, <5>1, <5>2
      <4>3. s.verdict \in RunStatuses \cup {"none"}
        BY DEF Session, RunStatuses
      <4> QED BY <2>22, <4>1, <4>2, <4>3 DEF Report
    <3> QED BY <1>1, <3>1, <3>2, <3>3
  <2>23. CASE Kill
    <3>1. faults' \in 0..MaxFaults
      BY <2>23, SMT DEF Kill
    <3>2. pc' \in Places /\ UNCHANGED <<kind, record, s, made, lost, unreported>>
      BY <2>1, <2>23 DEF Kill, Goto
    <3> QED BY <1>1, <2>6, <3>1, <3>2
  <2>24. CASE UNCHANGED vars
    BY <1>1, <2>6, <2>24 DEF vars
  <2> QED BY <2>11, <2>12, <2>13, <2>14, <2>15, <2>16, <2>17, <2>18, <2>19, <2>20, <2>21, <2>22,
             <2>23, <2>24 DEF Next
<1> QED BY <1>3, <1>4, PTL DEF Spec

-----------------------------------------------------------------------------
(***************************************************************************)
(* The next event is told after the others.                                *)
(***************************************************************************)
LEMMA OneMore ==
  ASSUME NEW n \in Nat, NEW told \in Seq(1..n), NEW events \in SUBSET (1..n), NEW full,
         Tells(told, events, full)
  PROVE  Tells(Append(told, n + 1), events \cup {n + 1}, full)
<1>. DEFINE more == Append(told, n + 1)
<1>1. /\ Len(told) \in Nat /\ DOMAIN told = 1..Len(told)
      /\ \A i \in 1..Len(told) : told[i] \in 1..n
  OBVIOUS
<1>2. /\ DOMAIN more = 1..(Len(told) + 1) /\ more[Len(told) + 1] = n + 1
      /\ \A i \in 1..Len(told) : more[i] = told[i]
  BY AppendProperties
<1>. HIDE DEF more
<1>3. \A i, j \in DOMAIN more : i < j => more[i] < more[j]
  <2>. SUFFICES ASSUME NEW i \in DOMAIN more, NEW j \in DOMAIN more, i < j
                PROVE  more[i] < more[j]
    OBVIOUS
  <2>1. i \in 1..Len(told) /\ (j \in 1..Len(told) \/ j = Len(told) + 1)
    BY <1>1, <1>2, SMT
  <2>2. CASE j \in 1..Len(told)
    BY <1>1, <1>2, <2>1, <2>2 DEF Tells
  <2>3. CASE j = Len(told) + 1
    <3>1. more[i] \in 1..n /\ more[j] = n + 1
      BY <1>1, <1>2, <2>1, <2>3
    <3> QED BY <3>1, SMT
  <2> QED BY <2>1, <2>2, <2>3
<1>4. ToSet(more) = ToSet(told) \cup {n + 1}
  <2>1. DOMAIN more = DOMAIN told \cup {Len(told) + 1}
    BY <1>1, <1>2, SMT
  <2> QED BY <1>1, <1>2, <2>1 DEF ToSet
<1>5. \A e \in events : e < n + 1
  BY SMT
<1> QED BY <1>3, <1>4, <1>5 DEF more, Tells

(***************************************************************************)
(* A batch that is appended leaves the transcript with the last events: it *)
(* is what was told and the batch, without the oldest.                     *)
(***************************************************************************)
LEMMA BatchIsKept ==
  ASSUME NEW n \in Nat, NEW transcript \in Seq(1..n), NEW batch \in Seq(1..n), batch # <<>>,
         Len(transcript) <= MaxTranscript, NEW events,
         Tells(transcript \o batch, events, Len(transcript) = MaxTranscript)
  PROVE  LET appended == appendRunEvents(transcript, batch)
         IN Tells(appended, events, Len(appended) = MaxTranscript)
<1>. USE AgentRunAssumption
<1>. DEFINE whole == transcript \o batch
            over == Len(whole) - MaxTranscript
            last == SubSeq(whole, over + 1, Len(whole))
<1>1. whole \in Seq(1..n) /\ Len(whole) \in Nat /\ Len(whole) > Len(transcript)
  <2>1. Len(batch) \in Nat /\ Len(batch) # 0
    BY EmptySeq, SMT
  <2>2. whole \in Seq(1..n) /\ Len(whole) = Len(transcript) + Len(batch)
    BY ConcatProperties
  <2> QED BY <2>1, <2>2, SMT
<1>2. Tells(whole, events, Len(transcript) = MaxTranscript)
  OBVIOUS
<1>3. appendRunEvents(transcript, batch) = IF over > 0 THEN last ELSE whole
  BY DEF appendRunEvents
<1>. HIDE DEF whole
<1>4. CASE ~(over > 0)
  <2>1. Len(transcript) # MaxTranscript
    BY <1>1, <1>4, SMT
  <2>2. Tells(whole, events, Len(whole) = MaxTranscript)
    BY <1>2, <2>1 DEF Tells
  <2> QED BY <1>3, <1>4, <2>2
<1>5. CASE over > 0
  <2>1. /\ over \in Nat /\ over + 1 \in 1..(Len(whole) + 1) /\ over + MaxTranscript = Len(whole)
        /\ MaxTranscript \in Nat \ {0}
    BY <1>1, <1>5, SMT
  <2>2. /\ last \in Seq(1..n) /\ Len(last) = MaxTranscript
        /\ \A i \in 1..MaxTranscript : last[i] = whole[over + i]
    <3>1. /\ last \in Seq(1..n)
          /\ Len(last) = IF over + 1 <= Len(whole) THEN Len(whole) - (over + 1) + 1 ELSE 0
          /\ \A i \in 1..(Len(whole) - (over + 1) + 1) : last[i] = whole[over + 1 + i - 1]
      <4>0. over + 1 \in Int /\ Len(whole) \in Int
        BY <1>1, <2>1, SMT
      <4>1. PICK from, to \in Int : from = over + 1 /\ to = Len(whole)
        BY <4>0, Zenon
      <4>2. \A i \in from..to : whole[i] \in 1..n
        <5>1. \A i \in 1..Len(whole) : whole[i] \in 1..n
          BY <1>1
        <5>2. \A i \in from..to : i \in 1..Len(whole)
          BY <1>1, <2>1, <4>1, SMT
        <5> QED BY <5>1, <5>2
      <4>3. /\ SubSeq(whole, from, to) \in Seq(1..n)
            /\ Len(SubSeq(whole, from, to)) = IF from <= to THEN to - from + 1 ELSE 0
            /\ \A i \in 1..(to - from + 1) : SubSeq(whole, from, to)[i] = whole[from + i - 1]
        BY <4>2, SubSeqProperties
      <4>4. last = SubSeq(whole, from, to)
        BY <4>1
      <4>. HIDE DEF last, over
      <4> QED BY <4>1, <4>3, <4>4, Zenon
    <3> QED BY <1>1, <2>1, <3>1, SMT
  <2>. HIDE DEF last, over
  <2>3. /\ DOMAIN last = 1..MaxTranscript /\ DOMAIN whole = 1..Len(whole)
        /\ \A i \in 1..MaxTranscript : over + i \in DOMAIN whole
        /\ \A k \in DOMAIN whole : whole[k] \in 1..n
    <3>1. DOMAIN last = 1..Len(last) /\ DOMAIN whole = 1..Len(whole)
      BY <1>1, <2>2
    <3>2. \A i \in 1..MaxTranscript : over + i \in 1..Len(whole)
      BY <1>1, <2>1, SMT
    <3> QED BY <1>1, <2>2, <3>1, <3>2
  <2>4. \A i, j \in DOMAIN last : i < j => last[i] < last[j]
    <3>. SUFFICES ASSUME NEW i \in DOMAIN last, NEW j \in DOMAIN last, i < j
                  PROVE  last[i] < last[j]
      OBVIOUS
    <3>1. over + i < over + j /\ over + i \in DOMAIN whole /\ over + j \in DOMAIN whole
      BY <2>1, <2>3, SMT
    <3> QED BY <1>2, <2>2, <2>3, <3>1 DEF Tells
  <2>5. ToSet(last) \subseteq ToSet(whole)
    BY <2>2, <2>3 DEF ToSet
  <2>6. ASSUME NEW e \in events \ ToSet(last), NEW x \in ToSet(last) PROVE e < x
    <3>1. PICK i \in 1..MaxTranscript : x = whole[over + i]
      BY <2>2, <2>3, <2>6 DEF ToSet
    <3>2. CASE e \notin ToSet(whole)
      BY <1>2, <2>5, <2>6, <3>2 DEF Tells
    <3>3. CASE e \in ToSet(whole)
      <4>1. PICK k \in DOMAIN whole : e = whole[k]
        BY <3>3 DEF ToSet
      <4>2. ~(k > over)
        <5>. SUFFICES ASSUME k > over PROVE FALSE
          OBVIOUS
        <5>1. k - over \in 1..MaxTranscript /\ over + (k - over) = k
          BY <1>1, <2>1, <2>3, SMT
        <5>2. e = last[k - over]
          BY <2>2, <4>1, <5>1
        <5> QED BY <2>3, <2>6, <5>1, <5>2 DEF ToSet
      <4>3. k < over + i /\ over + i \in DOMAIN whole
        BY <1>1, <2>1, <2>3, <4>2, SMT
      <4> QED BY <1>2, <3>1, <4>1, <4>3 DEF Tells
    <3> QED BY <3>2, <3>3
  <2>7. Tells(last, events, Len(last) = MaxTranscript)
    BY <1>2, <2>2, <2>4, <2>5, <2>6 DEF Tells
  <2> QED BY <1>3, <1>5, <2>7 DEF over
<1> QED BY <1>4, <1>5

(***************************************************************************)
(* A batch that is lost leaves the transcript with the events before it.   *)
(***************************************************************************)
LEMMA BatchIsLost ==
  ASSUME NEW n \in Nat, NEW transcript \in Seq(1..n), NEW batch \in Seq(1..n), NEW events,
         NEW full, Tells(transcript \o batch, events, full)
  PROVE  Tells(transcript, events \ ToSet(batch), full)
<1>. DEFINE whole == transcript \o batch
            first == Len(transcript)
<1>1. /\ DOMAIN transcript = 1..first /\ DOMAIN batch = 1..Len(batch)
      /\ first \in Nat /\ Len(batch) \in Nat /\ DOMAIN whole = 1..(first + Len(batch))
      /\ \A i \in 1..first : whole[i] = transcript[i]
      /\ \A i \in 1..Len(batch) : whole[first + i] = batch[i]
  <2>1. /\ whole \in Seq(1..n) /\ Len(whole) = first + Len(batch)
        /\ \A i \in 1..(first + Len(batch)) :
             whole[i] = IF i <= first THEN transcript[i] ELSE batch[i - first]
    BY ConcatProperties
  <2>2. first \in Nat /\ Len(batch) \in Nat
    OBVIOUS
  <2>. HIDE DEF whole, first
  <2>3. DOMAIN whole = 1..(first + Len(batch))
    BY <2>1
  <2>4. \A i \in 1..first : whole[i] = transcript[i]
    BY <2>1, <2>2, SMT
  <2>5. ASSUME NEW i \in 1..Len(batch) PROVE whole[first + i] = batch[i]
    <3>1. first + i \in 1..(first + Len(batch)) /\ ~(first + i <= first) /\ first + i - first = i
      BY <2>2, SMT
    <3>2. ASSUME NEW k \in 1..(first + Len(batch)), ~(k <= first)
          PROVE  whole[k] = batch[k - first]
      BY <2>1, <3>2
    <3> QED BY <2>2, <3>1, <3>2, SMT
  <2> QED BY <2>2, <2>3, <2>4, <2>5 DEF first
<1>2. Tells(whole, events, full)
  OBVIOUS
<1>3. \A k \in DOMAIN whole : whole[k] \in 1..n
  BY ConcatProperties
<1>. HIDE DEF whole, first
<1>4. \A i \in 1..first, j \in 1..Len(batch) : transcript[i] < batch[j]
  <2>. SUFFICES ASSUME NEW i \in 1..first, NEW j \in 1..Len(batch)
                PROVE  transcript[i] < batch[j]
    OBVIOUS
  <2>1. i \in DOMAIN whole /\ first + j \in DOMAIN whole /\ i < first + j
    BY <1>1, SMT
  <2> QED BY <1>1, <1>2, <2>1 DEF Tells
<1>5. ToSet(whole) = ToSet(transcript) \cup ToSet(batch)
  <2>1. ToSet(transcript) \cup ToSet(batch) \subseteq ToSet(whole)
    <3>1. /\ \A i \in 1..first : i \in DOMAIN whole
          /\ \A i \in 1..Len(batch) : first + i \in DOMAIN whole
      BY <1>1, SMT
    <3> QED BY <1>1, <3>1 DEF ToSet
  <2>2. ASSUME NEW k \in DOMAIN whole PROVE whole[k] \in ToSet(transcript) \cup ToSet(batch)
    <3>1. k \in 1..first \/ (k - first \in 1..Len(batch) /\ first + (k - first) = k)
      BY <1>1, SMT
    <3> QED BY <1>1, <3>1 DEF ToSet
  <2> QED BY <2>1, <2>2 DEF ToSet
<1>6. \A i, j \in DOMAIN transcript : i < j => transcript[i] < transcript[j]
  <2>1. \A i \in 1..first : i \in DOMAIN whole
    BY <1>1, SMT
  <2> QED BY <1>1, <1>2, <2>1 DEF Tells
<1>7. ASSUME NEW x \in ToSet(transcript) PROVE x \in events \ ToSet(batch)
  <2>1. PICK i \in 1..first : x = transcript[i]
    BY <1>1, <1>7 DEF ToSet
  <2>2. ASSUME NEW j \in 1..Len(batch) PROVE x # batch[j]
    <3>1. x < batch[j] /\ x \in Int
      <4>1. whole[i] \in 1..n
        BY <1>1, <1>3, SMT
      <4> QED BY <1>1, <1>4, <2>1, <4>1
    <3> QED BY <3>1, SMT
  <2> QED BY <1>1, <1>2, <1>5, <1>7, <2>2 DEF ToSet, Tells
<1> QED BY <1>2, <1>5, <1>6, <1>7 DEF Tells

-----------------------------------------------------------------------------
\* What was told and what is buffered are the whole conversation, without the batches
\* that were lost, and nothing is buffered when the record is closed.
Whole ==
  /\ pc = "create" => made = 0 /\ lost = {} /\ s.events = <<>> /\ record.transcript = <<>>
  /\ s.known => Tells(record.transcript \o s.events, (1..made) \ lost,
                      Len(record.transcript) = MaxTranscript)
  /\ pc \in Working => ~s.reported
  /\ pc = "report" \/ s.reported => s.events = <<>>
  /\ record.status \notin {"none", "running"} => s.known /\ s.reported

(***************************************************************************)
(* TranscriptIsWhole of AgentRun.tla: a record that is closed holds the    *)
(* last events of the conversation, in order, none twice; only a batch     *)
(* that was not delivered is missing (sdk_session.py, _flush and finish;   *)
(* runs.ts, appendRunEvents).                                              *)
(***************************************************************************)
THEOREM TranscriptIsWholeHolds == Spec => []TranscriptIsWhole
<1>. USE AgentRunAssumption
<1>1. ASSUME NEW n \in Nat, NEW u \in Seq(1..n)
      PROVE  u \o <<>> = u /\ <<>> \o u = u /\ u \in Seq(1..(n + 1))
  <2>1. u \o <<>> = u /\ <<>> \o u = u
    BY ConcatEmptySeq
  <2>2. 1..n \subseteq 1..(n + 1)
    BY SMT
  <2> QED BY <2>1, <2>2, SMT
<1>2. ASSUME TypeOK
      PROVE  /\ made \in Nat /\ record.transcript \in Seq(1..made) /\ s.events \in Seq(1..made)
             /\ Len(record.transcript) <= MaxTranscript /\ lost \subseteq 1..made
             /\ s \in Session /\ s.then \in {"exit", "done"} /\ s.known \in BOOLEAN
             /\ record \in [status : RunStatuses \cup {"none"}, transcript : Seq(1..made)]
  BY <1>2 DEF TypeOK, Session
<1>3. Init => Whole
  BY DEF Init, Whole, Fresh, NoRecord
<1>4. TypeOK /\ Whole => TranscriptIsWhole
  <2>. SUFFICES ASSUME TypeOK, Whole, record.status \notin {"none", "running"}
                PROVE  TranscriptIsWhole
    BY DEF TranscriptIsWhole
  <2>1. /\ s.events = <<>>
        /\ Tells(record.transcript \o s.events, (1..made) \ lost,
                 Len(record.transcript) = MaxTranscript)
    BY DEF Whole
  <2>2. record.transcript \o <<>> = record.transcript
    BY <1>1, <1>2
  <2> QED BY <2>1, <2>2 DEF TranscriptIsWhole
<1>5. ASSUME NEW S, NEW u \in Seq(S), NEW v \in Seq(S), NEW x \in S
      PROVE  u \o Append(v, x) = Append(u \o v, x)
  OBVIOUS
<1>6. TypeOK /\ TypeOK' /\ Whole /\ [Next]_vars => Whole'
  <2>. SUFFICES ASSUME TypeOK, TypeOK', Whole, [Next]_vars PROVE Whole'
    OBVIOUS
  <2>1. /\ made' \in Nat /\ record'.transcript \in Seq(1..made') /\ s'.events \in Seq(1..made')
    BY DEF TypeOK
  \* A batch that is delivered, or lost.
  <2>2. ASSUME NEW batch \in Seq(1..made'), Deliver(batch), record.transcript \in Seq(1..made')
        PROVE  /\ record'.status = record.status
               /\ s.known /\ Tells(record.transcript \o batch, (1..made') \ lost,
                                   Len(record.transcript) = MaxTranscript)
                    => Tells(record'.transcript, (1..made') \ lost',
                             Len(record'.transcript) = MaxTranscript)
    <3>. DEFINE told == record.transcript
    <3>1. CASE UNCHANGED <<record, lost>> /\ (batch = <<>> \/ ~s.known)
      <4>1. told \o <<>> = told
        BY <1>1, <2>1, <2>2
      <4>2. record' = record /\ lost' = lost
        BY <3>1
      <4> QED BY <3>1, <4>1, <4>2
    <3>2. CASE /\ batch # <<>> /\ UNCHANGED lost
               /\ record' = [record EXCEPT !.transcript = appendRunEvents(@, batch)]
      <4>1. record'.transcript = appendRunEvents(told, batch) /\ record'.status = record.status
        BY <1>2, <3>2
      <4>2. \A events : Tells(told \o batch, events, Len(told) = MaxTranscript) =>
              Tells(appendRunEvents(told, batch), events,
                    Len(appendRunEvents(told, batch)) = MaxTranscript)
        BY <1>2, <2>1, <2>2, <3>2, BatchIsKept
      <4> QED BY <3>2, <4>1, <4>2
    <3>3. CASE lost' = lost \cup ToSet(batch) /\ UNCHANGED record
      <4>1. (1..made') \ lost' = ((1..made') \ lost) \ ToSet(batch)
        BY <3>3
      <4>2. \A events, full : Tells(told \o batch, events, full) =>
              Tells(told, events \ ToSet(batch), full)
        BY <2>1, <2>2, BatchIsLost
      <4> QED BY <3>3, <4>1, <4>2
    <3> QED BY <2>2, <3>1, <3>2, <3>3 DEF Deliver
  \* An event, buffered or delivered with those before it.
  <2>3. ASSUME NEW session, NEW force, RecordEvent(session, force), session \in Session,
               session.events = s.events, session.known = s.known,
               session.reported = s.reported, pc \in Working \ {"create"},
               pc' \in Working \ {"create"}
        PROVE  Whole'
    <3>. DEFINE events == Append(s.events, made + 1)
                full == force \/ Len(events) >= FlushSize
                told == record.transcript
    <3>1. /\ made' = made + 1
          /\ s' = [session EXCEPT !.events = IF full THEN <<>> ELSE events]
          /\ Deliver(IF full THEN events ELSE <<>>)
      BY <2>3 DEF RecordEvent
    <3>2. /\ s'.known = s.known /\ s'.reported = s.reported
          /\ s'.events = IF full THEN <<>> ELSE events
      BY <2>3, <3>1 DEF Session
    <3>3. ~s.reported
      BY <2>3 DEF Whole
    <3>4. told \in Seq(1..made') /\ s.events \in Seq(1..made') /\ made + 1 \in 1..made'
      BY <1>1, <1>2, <3>1
    <3>5. events \in Seq(1..made') /\ <<>> \in Seq(1..made')
      BY <3>4, AppendProperties, EmptySeq
    <3>6. told \o events = Append(told \o s.events, made + 1)
      <4>. DEFINE buffer == s.events
                  event == made + 1
      <4>1. told \in Seq(1..made') /\ buffer \in Seq(1..made') /\ event \in 1..made'
        BY <3>4
      <4>. HIDE DEF told, buffer, event
      <4>2. told \o Append(buffer, event) = Append(told \o buffer, event)
        BY <1>5, <4>1
      <4> QED BY <4>2 DEF buffer, event
    <3>7. s.known => Tells(told \o events, (1..made') \ lost, Len(told) = MaxTranscript)
      <4>1. (1..made') \ lost = ((1..made) \ lost) \cup {made + 1}
        BY <1>2, <3>1, SMT
      <4>2. told \o s.events \in Seq(1..made)
        BY <1>2, ConcatProperties
      <4>3. s.known => Tells(told \o s.events, (1..made) \ lost, Len(told) = MaxTranscript)
        BY DEF Whole
      <4>4. (1..made) \ lost \in SUBSET (1..made)
        OBVIOUS
      <4>5. \A whole : Tells(told \o s.events, (1..made) \ lost, whole) =>
              Tells(Append(told \o s.events, made + 1), ((1..made) \ lost) \cup {made + 1}, whole)
        BY <1>2, <4>2, <4>4, OneMore
      <4> QED BY <3>6, <4>1, <4>3, <4>5
    <3>. HIDE DEF events
    <3>8. s.known => Tells(record'.transcript \o s'.events, (1..made') \ lost',
                           Len(record'.transcript) = MaxTranscript)
      <4>1. CASE full
        <5>1. Deliver(events) /\ s'.events = <<>>
          BY <3>1, <3>2, <4>1
        <5>2. record'.transcript \o <<>> = record'.transcript
          BY <1>1, <2>1
        <5> QED BY <2>2, <3>4, <3>5, <3>7, <5>1, <5>2
      <4>2. CASE ~full
        <5>1. Deliver(<<>>) /\ s'.events = events
          BY <3>1, <3>2, <4>2
        <5>2. UNCHANGED <<record, lost>>
          BY <5>1 DEF Deliver
        <5> QED BY <3>7, <5>1, <5>2
      <4> QED BY <4>1, <4>2
    <3>9. record'.status = record.status
      BY <2>2, <3>1, <3>4, <3>5
    <3>10. pc' # "create" /\ pc' # "report" /\ pc # "create"
      BY <2>3, <3>1 DEF RecordEvent, Working
    <3> QED BY <3>2, <3>3, <3>8, <3>9, <3>10 DEF Whole
  \* A step that tells nothing.
  <2>4. ASSUME UNCHANGED <<record, made, lost>>, s'.events = s.events, s'.known = s.known,
               s'.reported = s.reported, pc' # "create", pc' # "report",
               pc' \in Working => pc \in Working
        PROVE  Whole'
    BY <2>4 DEF Whole
  <2>5. /\ {"agent", "prompt", "send", "stream", "wait", "judge", "lint"} \subseteq Working
        /\ {"flush", "exit", "report", "done", "killed"} \cap Working = {}
        /\ "create" \in Working
    BY DEF Working
  <2>6. ASSUME NEW session, NEW verdict, NEW then, Finish(session, verdict, then),
               session \in Session, session.events = s.events, session.known = s.known,
               session.reported = s.reported, UNCHANGED quiet
        PROVE  Whole'
    <3>1. /\ s'.events = s.events /\ s'.known = s.known /\ s'.reported = s.reported
          /\ pc' = "flush"
      BY <2>6 DEF Finish, Goto, Session
    <3> QED BY <2>4, <2>5, <2>6, <3>1 DEF quiet
  <2>7. ASSUME NEW outcome \in Outcomes
        PROVE  LET session == [s EXCEPT !.outcome = outcome]
               IN /\ session \in Session /\ session.events = s.events
                  /\ session.known = s.known /\ session.reported = s.reported
    BY <1>2 DEF Session
  <2>8. {"startup", "raised", "blocked", "failed", "ok", "lint"} \subseteq Outcomes
    BY DEF Outcomes
  <2>9. CASE CreateRun
    <3>1. PICK answer :
            /\ record' = IF Served(answer) THEN [NoRecord EXCEPT !.status = "running"] ELSE record
            /\ s' = [s EXCEPT !.known = answer = "ok"]
      BY <2>9 DEF CreateRun
    <3>2. pc = "create" /\ pc' = "agent" /\ UNCHANGED <<made, lost>>
      BY <2>9 DEF CreateRun, Goto, At
    <3>3. /\ made = 0 /\ lost = {} /\ s.events = <<>> /\ record.transcript = <<>> /\ ~s.reported
          /\ record.status \in {"none", "running"}
      BY <2>5, <3>2 DEF Whole
    <3>4. s'.events = <<>> /\ s'.reported = s.reported
      BY <1>2, <3>1, <3>3 DEF Session
    <3>5. record'.transcript = <<>> /\ record'.status \in {"none", "running"}
      BY <1>2, <3>1, <3>3 DEF NoRecord
    <3>6. <<>> \o <<>> = <<>>
      BY <1>1, EmptySeq
    <3>7. Tells(<<>>, {}, Len(<<>>) = MaxTranscript)
      BY DEF Tells, ToSet
    <3>8. (1..made') \ lost' = {}
      BY <3>2, <3>3, SMT
    <3> QED BY <2>5, <3>2, <3>3, <3>4, <3>5, <3>6, <3>7, <3>8 DEF Whole
  <2>10. CASE StartAgent
    BY <2>4, <2>5, <2>6, <2>7, <2>8, <2>10 DEF StartAgent, Goto, At, quiet
  <2>11. CASE RecordPrompt
    BY <1>2, <2>3, <2>5, <2>11 DEF RecordPrompt, Goto, At
  <2>12. CASE Send
    <3>1. UNCHANGED quiet /\ pc = "send"
      BY <2>12 DEF Send, At
    <3>2. CASE Goto("stream") /\ UNCHANGED s
      BY <2>4, <2>5, <3>1, <3>2 DEF Goto, quiet
    <3>3. CASE Finish([s EXCEPT !.outcome = "startup"], "error", "exit")
      BY <2>6, <2>7, <2>8, <3>1, <3>3
    <3>4. CASE Goto("exit") /\ s' = [s EXCEPT !.outcome = "raised"]
      BY <2>4, <2>5, <2>7, <2>8, <3>1, <3>4 DEF Goto, quiet
    <3> QED BY <2>12, <3>2, <3>3, <3>4 DEF Send
  <2>13. CASE Message
    BY <1>2, <2>3, <2>5, <2>13 DEF Message, Goto, At
  <2>14. CASE EndStream
    BY <2>4, <2>5, <2>14 DEF EndStream, Goto, At, quiet
  <2>15. CASE Wait
    <3>1. pc = "wait"
      BY <2>15 DEF Wait, At
    <3>2. ASSUME NEW status \in {"finished", "error", "cancelled"}, NEW blocked \in BOOLEAN,
                 RecordEvent([s EXCEPT !.last = status, !.blocked = blocked, !.replied = TRUE],
                             TRUE),
                 Goto(IF s.replied THEN "lint" ELSE "judge")
          PROVE  Whole'
      <4>. DEFINE session == [s EXCEPT !.last = status, !.blocked = blocked, !.replied = TRUE]
      <4>1. session \in Session
        BY <1>2, Zenon DEF Session
      <4>2. /\ session.events = s.events /\ session.known = s.known
            /\ session.reported = s.reported
        BY <1>2 DEF Session
      <4>3. pc' \in Working \ {"create"}
        BY <2>5, <3>2 DEF Goto
      <4>. HIDE DEF session
      <4> QED BY <2>3, <2>5, <3>1, <3>2, <4>1, <4>2, <4>3 DEF session
    <3>3. CASE /\ Goto("exit") /\ s' = [s EXCEPT !.outcome = "raised"]
               /\ UNCHANGED <<record, made, faults, lost>>
      BY <2>4, <2>5, <2>7, <2>8, <3>3 DEF Goto
    <3> QED BY <2>15, <3>2, <3>3 DEF Wait
  <2>16. CASE Judge
    <3>1. UNCHANGED quiet /\ pc = "judge"
      BY <2>16 DEF Judge, At
    <3>2. CASE Finish([s EXCEPT !.outcome = "blocked"], "error", "exit")
      BY <2>6, <2>7, <2>8, <3>1, <3>2
    <3>3. CASE Goto("exit") /\ s' = [s EXCEPT !.outcome = "failed"]
      BY <2>4, <2>5, <2>7, <2>8, <3>1, <3>3 DEF Goto, quiet
    <3>4. CASE Goto("lint") /\ UNCHANGED s
      BY <2>4, <2>5, <3>1, <3>4 DEF Goto, quiet
    <3> QED BY <2>16, <3>2, <3>3, <3>4, Zenon DEF Judge
  <2>17. CASE Lint
    <3>1. UNCHANGED quiet /\ pc = "lint"
      BY <2>17 DEF Lint, At
    <3>2. s' = [s EXCEPT !.attempt = @ + 1] =>
            s'.events = s.events /\ s'.known = s.known /\ s'.reported = s.reported
      BY <1>2 DEF Session
    <3>3. CASE Goto("prompt") /\ s' = [s EXCEPT !.attempt = @ + 1]
      BY <2>4, <2>5, <3>1, <3>2, <3>3 DEF Goto, quiet
    <3>4. ASSUME NEW outcome \in {"ok", "lint"}, Goto("exit"), s' = [s EXCEPT !.outcome = outcome]
          PROVE  Whole'
      <4>1. s'.events = s.events /\ s'.known = s.known /\ s'.reported = s.reported
        BY <2>7, <2>8, <3>4
      <4> QED BY <2>4, <2>5, <3>1, <3>4, <4>1 DEF Goto, quiet
    <3> QED BY <2>17, <3>3, <3>4 DEF Lint
  <2>18. CASE Exit
    BY <1>2, <2>6, <2>18 DEF Exit
  <2>19. CASE Flush
    <3>1. /\ pc = "flush" /\ pc' = (IF s.reported THEN s.then ELSE "report")
          /\ s' = [s EXCEPT !.events = <<>>] /\ Deliver(s.events) /\ made' = made
      BY <2>19 DEF Flush, Goto, At
    <3>2. s'.events = <<>> /\ s'.known = s.known /\ s'.reported = s.reported
      BY <1>2, <3>1 DEF Session
    <3>3. /\ record'.status = record.status
          /\ s.known => Tells(record'.transcript, (1..made') \ lost',
                              Len(record'.transcript) = MaxTranscript)
      BY <1>2, <2>2, <3>1 DEF Whole
    <3>4. record'.transcript \o <<>> = record'.transcript
      BY <1>1, <2>1
    <3>5. pc' \notin Working
      BY <1>2, <2>5, <3>1
    <3> QED BY <2>5, <3>2, <3>3, <3>4, <3>5 DEF Whole
  <2>20. CASE Report
    <3>1. /\ pc = "report" /\ pc' = s.then /\ s' = [s EXCEPT !.reported = TRUE]
          /\ UNCHANGED <<made, lost>>
      BY <2>20 DEF Report, Goto, At
    <3>2. s'.events = s.events /\ s'.known = s.known /\ s'.reported
      BY <1>2, <3>1 DEF Session
    <3>3. record' = record \/ (s.known /\ record'.transcript = record.transcript)
      BY <1>2, <2>20 DEF Report, updateRun
    <3>4. pc' \notin Working /\ pc' # "create" /\ pc' # "report"
      BY <1>2, <2>5, <3>1
    <3> QED BY <3>1, <3>2, <3>3, <3>4 DEF Whole
  <2>21. CASE Kill
    BY <2>4, <2>5, <2>21 DEF Kill, Goto
  <2>22. CASE UNCHANGED vars
    BY <2>22 DEF vars, Whole
  <2> QED BY <2>9, <2>10, <2>11, <2>12, <2>13, <2>14, <2>15, <2>16, <2>17, <2>18, <2>19, <2>20,
             <2>21, <2>22 DEF Next
<1> QED BY <1>3, <1>4, <1>6, TypeCorrectness, PTL DEF Spec
=============================================================================
