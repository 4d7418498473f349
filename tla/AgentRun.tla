------------------------------ MODULE AgentRun ------------------------------
(***************************************************************************)
(* One agent run: the session of the Cursor SDK that the implementer or    *)
(* the planner opens (sdk_session.py, cursor_implement.py,                 *)
(* cursor_plan.py), and the agent_runs record by which the control plane   *)
(* shows it to the operator (runs.ts).                                     *)
(*                                                                         *)
(* The session buffers what it has to tell of the conversation and appends *)
(* it to the transcript in batches; it closes the record once, from one of *)
(* several places.  Calls to the control plane may fail, or be served and  *)
(* not heard; none is repeated and none stops the session.  The process    *)
(* may be killed.  What a session does that hangs is in Factory (Hang).    *)
(***************************************************************************)
EXTENDS Naturals, Sequences, SequencesExt

CONSTANTS
  FlushSize,     \* EVENT_FLUSH_SIZE
  MaxTranscript, \* MAX_TRANSCRIPT_EVENTS
  Attempts,      \* FORGE_LINT_FIX_ATTEMPTS
  Messages,      \* bound on the events of a session
  MaxFaults      \* bound on the calls that fail and the processes that die

ASSUME AgentRunAssumption ==
  /\ FlushSize \in Nat \ {0} /\ MaxTranscript \in Nat \ {0}
  /\ Attempts \in Nat /\ Messages \in Nat /\ MaxFaults \in Nat

VARIABLES
  kind,   \* who opened the session; a planner may be allowed its fallback
  record, \* the row of agent_runs
  pc, s,  \* the session, and its fields
  made,   \* how many events there were; an event is its number
  faults, \* counter, for the bound
  lost,   \* history: the events that an append did not deliver
  unreported \* history: finish_run failed

vars == <<kind, record, pc, s, made, faults, lost, unreported>>

NoRecord == [status |-> "none", transcript |-> <<>>]
RunStatuses == {"running", "finished", "error", "cancelled"}
Outcomes == {"none", "ok", "startup", "raised", "blocked", "failed", "lint"}

\* known: run_id is set.  last, blocked: of the agent's last reply.
\* verdict, then: what finish reports, and where it returns to.
Fresh == [known |-> FALSE, events |-> <<>>, reported |-> FALSE, last |-> "none",
          blocked |-> FALSE, attempt |-> 0, replied |-> FALSE, outcome |-> "none",
          verdict |-> "none", then |-> "done"]

Init ==
  /\ kind \in {"implement", "plan", "plan_with_fallback"}
  /\ record = NoRecord /\ pc = "create" /\ s = Fresh /\ made = 0
  /\ faults = 0 /\ lost = {} /\ unreported = FALSE

-----------------------------------------------------------------------------
(* Calls to the control plane *)

\* What becomes of a call, as the client takes it and as the server does.
Call(answer) ==
  \/ answer = "ok" /\ UNCHANGED faults
  \/ answer # "ok" /\ faults < MaxFaults /\ faults' = faults + 1
Answers == {"ok", "failed", "unheard"}
Served(answer) == answer # "failed"

\* Mutant of appendRunEvents: without its LIMIT.
appendAll(transcript, batch) == transcript \o batch

\* Beyond its size the transcript drops its oldest events.
appendRunEvents(transcript, batch) ==
  LET whole == transcript \o batch
      over == Len(whole) - MaxTranscript
  IN IF over > 0 THEN SubSeq(whole, over + 1, Len(whole)) ELSE whole

\* A batch has left the buffer, whatever becomes of it.
Deliver(batch) ==
  IF batch = <<>> \/ ~s.known THEN UNCHANGED <<record, faults, lost>>
  ELSE \E answer \in Answers :
         /\ Call(answer)
         /\ IF Served(answer)
            THEN /\ record' = [record EXCEPT !.transcript = appendRunEvents(@, batch)]
                 /\ UNCHANGED lost
            ELSE lost' = lost \cup ToSet(batch) /\ UNCHANGED record

\* _record_event and the flush that follows it, which the end of a reply forces.
RecordEvent(session, force) ==
  LET events == Append(session.events, made + 1)
      full == force \/ Len(events) >= FlushSize
  IN /\ made' = made + 1
     /\ s' = [session EXCEPT !.events = IF full THEN <<>> ELSE events]
     /\ Deliver(IF full THEN events ELSE <<>>)

-----------------------------------------------------------------------------
(* The session *)

At(place) == pc = place
Goto(place) == pc' = place
quiet == <<record, made, faults, lost, unreported>>

\* Mutant of Finish: the buffer is flushed only when it is full.
FinishUnflushed(session, verdict, then) ==
  /\ Goto(IF session.reported THEN then ELSE "report")
  /\ s' = [session EXCEPT !.verdict = verdict, !.then = then]

\* finish(verdict), which flushes first and then returns to a place.
Finish(session, verdict, then) ==
  Goto("flush") /\ s' = [session EXCEPT !.verdict = verdict, !.then = then]

CreateRun ==
  /\ At("create") /\ Goto("agent")
  /\ \E answer \in Answers :
       /\ Call(answer)
       /\ record' = IF Served(answer) THEN [NoRecord EXCEPT !.status = "running"] ELSE record
       /\ s' = [s EXCEPT !.known = answer = "ok"]
  /\ UNCHANGED <<kind, made, lost, unreported>>

\* Agent.create; where it fails __exit__ is never called.
StartAgent ==
  /\ At("agent")
  /\ \/ Goto("prompt") /\ UNCHANGED s
     \/ Finish([s EXCEPT !.outcome = "startup"], "error", "done")
  /\ UNCHANGED <<kind, quiet>>

RecordPrompt ==
  /\ At("prompt") /\ Goto("send") /\ RecordEvent(s, FALSE)
  /\ UNCHANGED <<kind, unreported>>

\* agent.send: accepted, refused by the SDK, or another exception.
Send ==
  /\ At("send")
  /\ \/ Goto("stream") /\ UNCHANGED s
     \/ Finish([s EXCEPT !.outcome = "startup"], "error", "exit")
     \/ Goto("exit") /\ s' = [s EXCEPT !.outcome = "raised"]
  /\ UNCHANGED <<kind, quiet>>

Message ==
  /\ At("stream") /\ made < Messages /\ Goto("stream") /\ RecordEvent(s, FALSE)
  /\ UNCHANGED <<kind, unreported>>

\* The stream ends or breaks: the session waits for the reply in both cases.
EndStream == At("stream") /\ Goto("wait") /\ UNCHANGED <<kind, s, quiet>>

Wait ==
  /\ At("wait")
  /\ \/ \E status \in {"finished", "error", "cancelled"}, blocked \in BOOLEAN :
          /\ RecordEvent([s EXCEPT !.last = status, !.blocked = blocked, !.replied = TRUE], TRUE)
          /\ Goto(IF s.replied THEN "lint" ELSE "judge")
     \/ /\ Goto("exit") /\ s' = [s EXCEPT !.outcome = "raised"]
        /\ UNCHANGED <<record, made, faults, lost>>
  /\ UNCHANGED <<kind, unreported>>

\* What implementer and planner make of the first reply, and only of that one.
Judge ==
  /\ At("judge")
  /\ CASE s.blocked -> Finish([s EXCEPT !.outcome = "blocked"], "error", "exit")
       [] ~s.blocked /\ s.last = "error" -> Goto("exit") /\ s' = [s EXCEPT !.outcome = "failed"]
       [] OTHER -> Goto("lint") /\ UNCHANGED s
  /\ UNCHANGED <<kind, quiet>>

\* ensure_lint_clean: findings go back to the same agent, a few times.
Lint ==
  /\ At("lint")
  /\ \/ Goto("exit") /\ s' = [s EXCEPT !.outcome = "ok"]
     \/ s.attempt < Attempts /\ Goto("prompt") /\ s' = [s EXCEPT !.attempt = @ + 1]
     \/ s.attempt >= Attempts /\ Goto("exit") /\ s' = [s EXCEPT !.outcome = "lint"]
  /\ UNCHANGED <<kind, quiet>>

\* __exit__: with an exception, or by the agent's last status.
Exit ==
  /\ At("exit")
  /\ Finish(s, IF s.outcome \notin {"startup", "raised"} /\ s.last \in {"none", "finished"}
               THEN "finished" ELSE "error", "done")
  /\ UNCHANGED <<kind, quiet>>

\* Mutant of Flush: finish does not look at _reported.
FlushUnguarded ==
  /\ At("flush") /\ Goto("report")
  /\ s' = [s EXCEPT !.events = <<>>] /\ Deliver(s.events)
  /\ UNCHANGED <<kind, made, unreported>>

Flush ==
  /\ At("flush") /\ Goto(IF s.reported THEN s.then ELSE "report")
  /\ s' = [s EXCEPT !.events = <<>>] /\ Deliver(s.events)
  /\ UNCHANGED <<kind, made, unreported>>

updateRun(status) == record' = [record EXCEPT !.status = status]

\* finish_run is called once, and _reported is set before it.
Report ==
  /\ At("report") /\ Goto(s.then) /\ s' = [s EXCEPT !.reported = TRUE]
  /\ IF ~s.known THEN UNCHANGED <<record, faults, unreported>>
     ELSE \E answer \in Answers :
            /\ Call(answer)
            /\ IF Served(answer) THEN updateRun(s.verdict) ELSE UNCHANGED record
            /\ unreported' = ~Served(answer)
  /\ UNCHANGED <<kind, made, lost>>

\* Somebody, a restart of the worker, or the host. (The watchdog of run-task.sh reaches
\* the shell only.)
Kill ==
  /\ pc \notin {"done", "killed"} /\ Goto("killed")
  /\ faults < MaxFaults /\ faults' = faults + 1
  /\ UNCHANGED <<kind, record, s, made, lost, unreported>>

Next ==
  \/ CreateRun \/ StartAgent \/ RecordPrompt \/ Send \/ Message \/ EndStream \/ Wait
  \/ Judge \/ Lint \/ Exit \/ Flush \/ Report \/ Kill

Spec == Init /\ [][Next]_vars

\* What run-task.sh and run_plan_job.py are told.  A planner whose agent does not
\* start writes a stub plan, where that is allowed.
ExitCode ==
  LET implementing == kind = "implement" IN
  CASE s.outcome = "ok" -> 0
    [] s.outcome = "startup" -> IF kind = "plan_with_fallback" THEN 0 ELSE 1
    [] s.outcome = "raised" -> 1
    [] s.outcome = "failed" -> 2
    [] s.outcome = "blocked" -> IF implementing THEN 3 ELSE 2
    [] s.outcome = "lint" -> IF implementing THEN 4 ELSE 3

-----------------------------------------------------------------------------
\* Every variable holds what the code may put there; the transcript is bounded.
TypeOK ==
  /\ kind \in {"implement", "plan", "plan_with_fallback"}
  /\ made \in Nat /\ faults \in 0..MaxFaults /\ lost \subseteq 1..made /\ unreported \in BOOLEAN
  /\ record \in [status : RunStatuses \cup {"none"}, transcript : Seq(1..made)]
  /\ Len(record.transcript) <= MaxTranscript
  /\ pc \in {"create", "agent", "prompt", "send", "stream", "wait", "judge", "lint", "exit",
             "flush", "report", "done", "killed"}
  /\ s \in [known : BOOLEAN, events : Seq(1..made), reported : BOOLEAN,
            last : {"none", "finished", "error", "cancelled"}, blocked : BOOLEAN,
            attempt : 0..Attempts, replied : BOOLEAN, outcome : Outcomes,
            verdict : {"none", "finished", "error"}, then : {"exit", "done"}]
  /\ Len(s.events) < FlushSize

(***************************************************************************)
(* A record that is closed holds the whole conversation: its last events,  *)
(* in order, none twice, up to the size of a transcript; only a batch that *)
(* was not delivered is missing (docs/runbooks/factory.md:232: "every      *)
(* plan/implement/fix run streams a redacted conversation").  The last     *)
(* words before a failure are what an operator reads first.                *)
(***************************************************************************)
\* What is told of some events: in order, and all but the oldest where there is no room.
Tells(told, events, full) ==
  /\ \A i, j \in DOMAIN told : i < j => told[i] < told[j]
  /\ ToSet(told) \subseteq events
  /\ \A e \in events \ ToSet(told) : full /\ \A x \in ToSet(told) : e < x

TranscriptIsWhole ==
  record.status \notin {"none", "running"} =>
    Tells(record.transcript, (1..made) \ lost, Len(record.transcript) = MaxTranscript)

(***************************************************************************)
(* A session that is over and could report has closed its record, and as   *)
(* an error if the agent did not start, broke, was blocked or failed:      *)
(* __exit__ reports after every other place that does, and must not undo   *)
(* it.  With lint findings left, the record follows the agent's last reply *)
(* (a caller is told of them by the exit code alone), and so it does when  *)
(* the lint is clean after a reply that failed.                            *)
(***************************************************************************)
FailureShows ==
  pc = "done" /\ s.known /\ ~unreported =>
    /\ record.status # "running"
    /\ record.status = "finished" <=> s.outcome \in {"ok", "lint"} /\ s.last = "finished"
    /\ ExitCode = 0 /\ record.status # "finished" =>
         s.outcome = "startup" \/ s.last = "cancelled" \/ s.attempt > 0
=============================================================================
