----------------------------- MODULE CycleClose -----------------------------
(***************************************************************************)
(* Payday: the close-cycle job of family-agile-sync                        *)
(* (jobs/close_cycle.py) against the Notion databases it reads and writes. *)
(*                                                                         *)
(* The job loads everything it decides by first and then, member by        *)
(* member, writes the Corte (the summary of the cycle) and deposits its    *)
(* net: one movement for the income, then for each sobre (envelope) a new  *)
(* Saldo and a movement, at last the Corte's Pagado. Notion has no         *)
(* transactions: each write is a step of its own, a run may die between    *)
(* any two, and the CronJob (concurrencyPolicy Forbid, restartPolicy       *)
(* OnFailure) starts it again from the beginning. Meanwhile people edit    *)
(* the Agenda and spend from the sobres.                                   *)
(***************************************************************************)
EXTENDS Integers, Sequences, FiniteSets, Functions

CONSTANTS
  Members,    \* active members that have Agenda rows in the cycle
  Sobres,     \* envelopes of these members
  Owner,      \* the member of a sobre
  Weight,     \* its "% de reparto"
  Nets,       \* what a member's Agenda may settle to, in colones
  Opening,    \* each sobre's Saldo before payday
  Distribute, \* DISTRIBUTE, with both finance databases configured
  MaxRuns,    \* bound on the runs that are started
  MaxCrashes, \* bound on the runs that die, at most the Job's backoffLimit
  MaxEdits,   \* bound on the edits of the Agenda
  MaxSpends   \* bound on the withdrawals from sobres

ASSUME CycleCloseAssumption ==
  /\ Members # {} /\ IsFiniteSet(Sobres) /\ "income" \notin Sobres
  /\ Owner \in [Sobres -> Members] /\ Weight \in [Sobres -> Nat]
  /\ Nets \subseteq Nat /\ Nets # {} /\ Opening \in Nat
  /\ Distribute \in BOOLEAN
  /\ MaxRuns \in Nat /\ MaxCrashes \in Nat /\ MaxEdits \in Nat /\ MaxSpends \in Nat

VARIABLES
  agenda,  \* what each member's Agenda rows settle to
  cortes,  \* Corte quincenal: the pages of this cycle, by page id
  movs,    \* Movimientos, by page id
  saldo,   \* Sobres: the Saldo of each
  pc,      \* where the job is
  job,     \* its local variables
  runs, crashes, edits, \* counters, for the bounds
  spent    \* history: what was withdrawn from each sobre

notion == <<agenda, cortes, movs, saldo>>
counters == <<runs, crashes, edits, spent>>
vars == <<notion, pc, job, counters>>

Places == {"idle", "failed", "agenda", "cortes", "sobres", "next",
           "deposit", "income", "saldo", "transfer", "pagado"}

Corte == [member: Members, net: Nets, pagado: BOOLEAN]
Movement == [corte: Nat, to: Sobres \cup {"income"}, amount: Nat]

\* Local variables while no run is at work.
NoLocals == [nets |-> <<>>, known |-> <<>>, saldos |-> <<>>, todo |-> {},
             member |-> CHOOSE m \in Members : TRUE, page |-> 0, left |-> {}]

TypeOK ==
  /\ agenda \in [Members -> Nets]
  /\ cortes \in Seq(Corte)
  /\ movs \in Seq(Movement)
  /\ saldo \in [Sobres -> Int]
  /\ pc \in Places
  /\ job.nets \in [Members -> Nets] \cup {<<>>}
  /\ job.known \in Seq(Corte)
  /\ job.saldos \in [Sobres -> Int] \cup {<<>>}
  /\ job.todo \subseteq Members /\ job.left \subseteq Sobres
  /\ job.member \in Members /\ job.page \in 0 .. Len(cortes)
  /\ runs \in 0 .. MaxRuns /\ crashes \in 0 .. MaxCrashes /\ edits \in 0 .. MaxEdits
  /\ spent \in [Sobres -> 0 .. MaxSpends]

Init ==
  /\ agenda \in [Members -> Nets]
  /\ cortes = <<>> /\ movs = <<>>
  /\ saldo = [s \in Sobres |-> Opening]
  /\ pc = "idle" /\ job = NoLocals
  /\ runs = 0 /\ crashes = 0 /\ edits = 0
  /\ spent = [s \in Sobres |-> 0]

-----------------------------------------------------------------------------
(* rules.py: the split of a net over the sobres of a member *)

SobresOf(m) == {s \in Sobres : Owner[s] = m}

TotalWeight(m) == SumFunctionOnSet(Weight, SobresOf(m))

\* The order of plan_deposits: the heaviest first, ties in a fixed order.
Heaviest(S) == CHOOSE s \in S : \A t \in S : Weight[t] <= Weight[s]

FloorShare(net, s) == (net * Weight[s]) \div TotalWeight(Owner[s])

\* Mutant of Share: the remainder goes nowhere.
ShareWithoutRest(net, s) ==
  IF net <= 0 \/ TotalWeight(Owner[s]) <= 0 THEN 0 ELSE FloorShare(net, s)

\* split_by_weights: floors, and the remainder to the largest weight.
Share(net, s) ==
  LET mine == SobresOf(Owner[s])
      rest == net - SumFunction([t \in mine |-> FloorShare(net, t)])
  IN IF net <= 0 \/ TotalWeight(Owner[s]) <= 0 THEN 0
     ELSE FloorShare(net, s) + (IF s = Heaviest(mine) THEN rest ELSE 0)

\* plan_deposits: the sobres that receive a positive share.
PerSobre(m, net) == {s \in SobresOf(m) : Share(net, s) > 0}

-----------------------------------------------------------------------------
(* Helpers *)

Set(field, value) == job' = [job EXCEPT ![field] = value]

Net == job.nets[job.member]

Linked(page) == \E i \in DOMAIN movs : movs[i].corte = page

\* The run is done with its member.
NextMember ==
  /\ pc' = "next"
  /\ Set("todo", job.todo \ {job.member})

-----------------------------------------------------------------------------
(* close_cycle.run *)

\* The guard that the day is a payday is not modelled: the model is one payday.
Start ==
  /\ pc = "idle" /\ runs < MaxRuns
  /\ pc' = "agenda" /\ runs' = runs + 1
  /\ UNCHANGED <<notion, job, crashes, edits, spent>>

\* The kubelet restarts the container of a run that failed.
Restart ==
  /\ pc = "failed"
  /\ pc' = "agenda"
  /\ UNCHANGED <<notion, job, counters>>

\* Mutant of LoadAgenda: a cycle may close below zero.
LoadAgendaUnfloored ==
  /\ pc = "agenda" /\ pc' = "cortes"
  /\ Set("nets", [m \in Members |-> agenda[m] - 1])
  /\ UNCHANGED <<notion, counters>>

\* load_agenda (with members, routines and tareas), and settle for each member.
LoadAgenda ==
  /\ pc = "agenda" /\ pc' = "cortes"
  /\ Set("nets", agenda)
  /\ UNCHANGED <<notion, counters>>

\* Mutant of LoadCortes: the Cortes of an earlier run are not looked up.
LoadNoCortes ==
  /\ pc = "cortes" /\ pc' = "sobres"
  /\ UNCHANGED <<notion, job, counters>>

\* load_cortes_for_cycle
LoadCortes ==
  /\ pc = "cortes" /\ pc' = "sobres"
  /\ Set("known", cortes)
  /\ UNCHANGED <<notion, counters>>

\* load_sobres
LoadSobres ==
  /\ pc = "sobres" /\ pc' = "next"
  /\ job' = [job EXCEPT !.saldos = saldo, !.todo = Members]
  /\ UNCHANGED <<notion, counters>>

\* The next member has a Corte already: it is paid only if it was not Pagado.
Reuse(m, page) ==
  /\ pc = "next" /\ m \in job.todo
  /\ job.known[page].member = m
  /\ IF Distribute /\ ~job.known[page].pagado
     THEN /\ pc' = "deposit"
          /\ job' = [job EXCEPT !.member = m, !.page = page]
     ELSE /\ pc' = "next"
          /\ job' = [job EXCEPT !.member = m, !.page = page, !.todo = @ \ {m}]
  /\ UNCHANGED <<notion, counters>>

\* It has none: create_page.
CreateCorte(m) ==
  /\ pc = "next" /\ m \in job.todo
  /\ \A page \in DOMAIN job.known : job.known[page].member # m
  /\ cortes' = Append(cortes, [member |-> m, net |-> job.nets[m], pagado |-> FALSE])
  /\ pc' = IF Distribute THEN "deposit" ELSE "next"
  /\ job' = [job EXCEPT !.member = m, !.page = Len(cortes) + 1,
                        !.todo = IF Distribute THEN @ ELSE @ \ {m}]
  /\ UNCHANGED <<agenda, movs, saldo, counters>>

\* _deposit goes to its end in this case, to its first write otherwise.
Check(settled) ==
  /\ pc = "deposit"
  /\ pc' = IF settled THEN "pagado" ELSE "income"
  /\ UNCHANGED <<notion, job, counters>>

\* Mutant of CheckDeposit: no look at the linked movements.
CheckNothing == Check(Net <= 0)

\* Mutant of CheckDeposit: with nothing to move, Pagado is forgotten.
CheckAndSkip ==
  /\ pc = "deposit"
  /\ IF Net <= 0 \/ Linked(job.page) THEN NextMember ELSE pc' = "income" /\ job' = job
  /\ UNCHANGED <<notion, counters>>

\* _deposit up to its first write: nothing to pay, or movements that are linked
\* to the Corte already, leave only Pagado to set.
CheckDeposit == Check(Net <= 0 \/ Linked(job.page))

\* An income movement of this amount, and on to the sobres.
Income(amount) ==
  /\ pc = "income"
  /\ movs' = Append(movs, [corte |-> job.page, to |-> "income", amount |-> amount])
  /\ Set("left", PerSobre(job.member, Net))
  /\ pc' = IF PerSobre(job.member, Net) = {} THEN "pagado" ELSE "saldo"
  /\ UNCHANGED <<agenda, cortes, saldo, counters>>

\* The 'Ingreso mesada' movement for the whole net.
RecordIncome == Income(Net)

NextSobre == Heaviest(job.left)

\* The sobre that is next gets this Saldo.
NewSaldo(amount) ==
  /\ pc = "saldo" /\ pc' = "transfer"
  /\ saldo' = [saldo EXCEPT ![NextSobre] = amount]
  /\ UNCHANGED <<agenda, cortes, movs, job, counters>>

\* Mutant of SetSaldo: the share replaces the Saldo.
SetSaldoToShare == NewSaldo(Share(Net, NextSobre))

\* The Saldo that was loaded and the share.
SetSaldo == NewSaldo(job.saldos[NextSobre] + Share(Net, NextSobre))

\* Its 'Transferencia a sobre' movement.
RecordTransfer ==
  LET s == NextSobre IN
  /\ pc = "transfer"
  /\ movs' = Append(movs, [corte |-> job.page, to |-> s, amount |-> Share(Net, s)])
  /\ Set("left", job.left \ {s})
  /\ pc' = IF job.left = {s} THEN "pagado" ELSE "saldo"
  /\ UNCHANGED <<agenda, cortes, saldo, counters>>

\* Pagado, and on to the next member.
SetPagado ==
  /\ pc = "pagado"
  /\ cortes' = [cortes EXCEPT ![job.page].pagado = TRUE]
  /\ NextMember
  /\ UNCHANGED <<agenda, movs, saldo, counters>>

Finish ==
  /\ pc = "next" /\ job.todo = {}
  /\ pc' = "idle" /\ job' = NoLocals
  /\ UNCHANGED <<notion, counters>>

\* A call to Notion fails for good, before or after it took effect, or the
\* process is killed: main returns 1 and the local variables are gone.
Crash ==
  /\ pc \notin {"idle", "failed"} /\ crashes < MaxCrashes
  /\ pc' = "failed" /\ job' = NoLocals /\ crashes' = crashes + 1
  /\ UNCHANGED <<notion, runs, edits, spent>>

-----------------------------------------------------------------------------
(* People *)

\* Somebody edits the Agenda (or pull-completions does) while payday goes on.
EditAgenda(m) ==
  /\ edits < MaxEdits /\ edits' = edits + 1
  /\ \E n \in Nets : agenda' = [agenda EXCEPT ![m] = n]
  /\ UNCHANGED <<cortes, movs, saldo, pc, job, runs, crashes, spent>>

\* A member takes money out of a sobre.
Spend(s) ==
  /\ SumFunction(spent) < MaxSpends /\ saldo[s] > 0
  /\ saldo' = [saldo EXCEPT ![s] = @ - 1]
  /\ spent' = [spent EXCEPT ![s] = @ + 1]
  /\ UNCHANGED <<agenda, cortes, movs, pc, job, runs, crashes, edits>>

-----------------------------------------------------------------------------

Step ==
  \/ LoadAgenda \/ LoadCortes \/ LoadSobres
  \/ \E m \in Members : CreateCorte(m)
  \/ \E m \in Members : \E page \in DOMAIN job.known : Reuse(m, page)
  \/ CheckDeposit \/ RecordIncome \/ SetSaldo \/ RecordTransfer \/ SetPagado
  \/ Finish

People ==
  \/ \E m \in Members : EditAgenda(m)
  \/ \E s \in Sobres : Spend(s)

Next == Start \/ Restart \/ Step \/ Crash \/ People

Spec == Init /\ [][Next]_vars

\* A run that was started goes on, and one that failed is restarted.
Fairness == WF_vars(Step) /\ WF_vars(Restart)

FairSpec == Spec /\ Fairness

-----------------------------------------------------------------------------
(* Properties *)

\* The movements of a Corte that go to the given place, and what they add up to.
MovesTo(page, to) == {i \in DOMAIN movs : movs[i].corte = page /\ movs[i].to = to}
Moved(page, to) == SumFunction([i \in MovesTo(page, to) |-> movs[i].amount])
MovedToSobres(page) == SumFunction([s \in Sobres |-> Moved(page, s)])

TransfersTo(s) == {i \in DOMAIN movs : movs[i].to = s}

PagesOf(m) == {page \in DOMAIN cortes : cortes[page].member = m}
IncomesOf(m) == {i \in DOMAIN movs : movs[i].to = "income" /\ movs[i].corte \in PagesOf(m)}

\* A rerun finds the Corte of the run before it: a member never gets a second
\* one for the cycle (close_cycle.py 107-113, repo.load_cortes_for_cycle).
OneCorte == \A m \in Members : Cardinality(PagesOf(m)) <= 1

\* The net of a Corte was recorded as income, and, if the member has sobres that
\* take a share, is in the sobres, to the last colon.
PaidInFull(page) ==
  LET c == cortes[page] IN
  /\ Moved(page, "income") = c.net
  /\ PerSobre(c.member, c.net) # {} => MovedToSobres(page) = c.net

\* A Corte that is Pagado and was not paid in full is the price of a failure, and
\* each failure costs one member at most: without failures all are paid in full.
\* And whatever dies, the sobres never get more for a Corte than its income.
ShortByCrash ==
  /\ Cardinality({page \in DOMAIN cortes : cortes[page].pagado /\ ~PaidInFull(page)}) <= crashes
  /\ \A page \in DOMAIN cortes : MovedToSobres(page) <= Moved(page, "income")

\* When no run is at work and none has died, the Saldo of a sobre nobody drew from
\* is what its movements make it: a deposit adds to the Saldo and loses nothing.
SaldoExplained ==
  pc = "idle" /\ crashes = 0 =>
    \A s \in Sobres :
      spent[s] = 0 =>
        saldo[s] = Opening + SumFunction([i \in TransfersTo(s) |-> movs[i].amount])

\* The net of each member is paid out at most once, however often the job dies
\* and is run again ("running the job twice on the same payday moves money
\* once", README of family-agile-sync): payday implements Payout.
payments ==
  [m \in Members |-> {[movement |-> i, amount |-> movs[i].amount] : i \in IncomesOf(m)}]

PaidOut == INSTANCE Payout WITH Amounts <- Nets

PaysOnce == PaidOut!PayoutSpec

\* A payday that starts ends, with every member's Corte written and Pagado, if
\* the failures do.
EverybodyIsPaid ==
  pc # "idle" ~>
    /\ pc = "idle"
    /\ \A m \in Members : \E page \in PagesOf(m) : cortes[page].pagado

(***************************************************************************)
(* What makes OneCorte and PaysOnce inductive.                             *)
(***************************************************************************)

Loaded == pc \in {"sobres", "next", "deposit", "income", "saldo", "transfer", "pagado"}
Settling == pc \in {"deposit", "income", "saldo", "transfer", "pagado"}

\* What a run knows of the Cortes is true of them still.
KnownIsTrue ==
  Loaded =>
    /\ DOMAIN job.known \subseteq DOMAIN cortes
    /\ \A page \in DOMAIN job.known : job.known[page].member = cortes[page].member

\* The Cortes a run does not know of belong to members it is done with, but for
\* the one it may have written for the member it is at.
UnknownIsOwn ==
  /\ pc = "sobres" => DOMAIN cortes \subseteq DOMAIN job.known
  /\ pc = "next" \/ Settling =>
       \A page \in DOMAIN cortes :
         cortes[page].member \in job.todo =>
           page \in DOMAIN job.known \/ (Settling /\ page = job.page)

\* A deposit is into the Corte of the member the run is at.
OwnPage ==
  Settling =>
    /\ job.page \in DOMAIN cortes
    /\ cortes[job.page].member = job.member

\* A Corte belongs to one member, an income to one Corte.
UniqueCortes ==
  \A p, q \in DOMAIN cortes : cortes[p].member = cortes[q].member => p = q

UniqueIncomes ==
  \A i, j \in DOMAIN movs :
    movs[i].to = "income" /\ movs[j].to = "income" /\ movs[i].corte = movs[j].corte => i = j

\* Movements are linked to Cortes that exist, and the one that is about to be
\* paid has none.
LinksExist == \A i \in DOMAIN movs : movs[i].corte \in DOMAIN cortes
NothingPaidYet == pc = "income" => ~Linked(job.page)

InductiveInv ==
  /\ KnownIsTrue /\ UnknownIsOwn /\ OwnPage
  /\ UniqueCortes /\ UniqueIncomes /\ LinksExist /\ NothingPaidYet
=============================================================================
