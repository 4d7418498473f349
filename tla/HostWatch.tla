----------------------------- MODULE HostWatch ------------------------------
(***************************************************************************)
(* The host watch (security/host-watch): a scan that a systemd timer       *)
(* starts every few minutes and that people also start by hand.            *)
(*                                                                         *)
(* A scan loads state.json, checks the processes, the listeners and the    *)
(* remote peers one after the other, marks what it found, saves state.json *)
(* through state.tmp, and only then tells the phone what is new.  It may   *)
(* die anywhere, every call it makes may fail, and a scan started by hand  *)
(* may run next to the timer's: both then share the two files.             *)
(***************************************************************************)
EXTENDS Integers, FiniteSets, FiniteSetsExt

CONSTANTS
  Procs,       \* processes that may run on the host
  Ports,       \* listeners it may have, none local and none allow-listed
  Peers,       \* remote peers it may have, none of an allow-listed address
  Flags,       \* the checks a process fails by its executable or command line
  Identity,    \* comm|exe|cmdline of a process: several may have the same
  Heavy,       \* processes above the CPU or the memory threshold
  Allowed,     \* processes that are allow-listed
  TrustedPeers,\* peers whose organisation is allow-listed
  Consecutive, \* cfg.scan.cpu_consecutive
  Runners,     \* the timer's unit and the shells that start a scan
  Timer,       \* the first of these
  AtFirst,     \* what there is to find when the watch is installed
  MaxChanges,  \* bound on the changes of the host
  MaxFaults,   \* bound on the calls that fail and the scans that die
  MaxByHand    \* bound on the scans started by hand

Kinds == {"deleted_exe", "forbidden_path", "suspicious_cmdline"}

ASSUME HostWatchAssumption ==
  /\ IsFiniteSet(Procs) /\ \A p \in Procs : Flags[p] \subseteq Kinds
  /\ Heavy \subseteq Procs /\ Allowed \subseteq Procs /\ TrustedPeers \subseteq Peers
  /\ AtFirst \subseteq Procs \cup Ports \cup Peers
  /\ Consecutive \in Nat \ {0} /\ Timer \in Runners
  /\ MaxChanges \in Nat /\ MaxFaults \in Nat /\ MaxByHand \in Nat

VARIABLES
  host,   \* what there is to find on the host now
  disk,   \* state.json, NoFile, or Torn (a power cut left it unreadable)
  tmp,    \* state.tmp, or NoFile
  pc,     \* where each runner is in run_scan
  job,    \* its local variables
  changes, faults, byhand, \* counters, for the bounds
  told,   \* history: findings the phone has, that no saved scan missed since
  hushed, \* history: findings that are known but were never announced
  streak, \* history: saved scans in a row that saw an identity above a threshold
  overlap \* history: two scans have been at work at once since the last that began alone

vars == <<host, disk, tmp, pc, job, changes, faults, byhand, told, hushed, streak, overlap>>

Identities == {Identity[p] : p \in Procs}
Findings == (Kinds \X Procs) \cup ({"resource_unknown"} \X Identities)
            \cup ({"listener"} \X Ports) \cup ({"peer"} \X Peers \X {"org", "unknown"})

\* hits counts no further than the threshold: the code only asks whether it is reached.
State == [findings : SUBSET Findings, hits : [Identities -> 0..Consecutive],
          ipinfo : [Peers -> {"none", "org", "nothing"}]]
Fresh == [findings |-> {}, hits |-> [i \in Identities |-> 0],
          ipinfo |-> [a \in Peers |-> "none"]]
NoFile == [file |-> "none"]
Torn == [file |-> "torn"]
Idle == [state |-> Fresh, found |-> {}, new |-> {}, busy |-> {}, quiet |-> FALSE]

Init ==
  /\ host = AtFirst /\ disk = NoFile /\ tmp = NoFile
  /\ pc = [r \in Runners |-> "idle"] /\ job = [r \in Runners |-> Idle]
  /\ changes = 0 /\ faults = 0 /\ byhand = 0
  /\ told = {} /\ hushed = {} /\ streak = [i \in Identities |-> 0] /\ overlap = FALSE

Goto(r, to) == pc' = [pc EXCEPT ![r] = to]
Stop(r) == Goto(r, "idle") /\ job' = [job EXCEPT ![r] = Idle]
Fault == faults < MaxFaults /\ faults' = faults + 1
NoFault == UNCHANGED faults
history == <<told, hushed, streak, overlap>>

\* What a scan that starts now takes for known.
Known == IF disk \in {NoFile, Torn} THEN {} ELSE disk.findings

(***************************************************************************)
(* The history at the start of a scan.  What scans that ran next to each   *)
(* other did to announcements and hits is excused: the first that starts   *)
(* alone after them counts anew, from what state.json says.                *)
(***************************************************************************)
Recount(r) ==
  IF \E s \in Runners \ {r} : pc[s] # "idle"
  THEN overlap' = TRUE /\ UNCHANGED <<told, hushed, streak>>
  ELSE /\ overlap' = FALSE
       /\ IF overlap
          THEN /\ told' = told \cap Known /\ hushed' = Known \ told
               /\ streak' = [i \in Identities |-> Consecutive]
          ELSE UNCHANGED <<told, hushed, streak>>

(***************************************************************************)
(* StateStore.load: no file and an unreadable one both start fresh; the    *)
(* unreadable one is moved away.  Only a scan by hand is ever quiet, with  *)
(* --dry-run or --no-notify.                                               *)
(***************************************************************************)
LoadState(r, quiet) ==
  /\ pc[r] = "idle"
  /\ IF r = Timer THEN ~quiet /\ UNCHANGED byhand
     ELSE byhand < MaxByHand /\ byhand' = byhand + 1
  /\ Goto(r, "processes")
  /\ job' = [job EXCEPT ![r] = [Idle EXCEPT
        !.state = IF disk \in {NoFile, Torn} THEN Fresh ELSE disk, !.quiet = quiet]]
  /\ disk' = IF disk = Torn THEN NoFile ELSE disk
  /\ Recount(r)
  /\ UNCHANGED <<host, tmp, changes, faults>>

\* How many of these processes have an identity.
Of(procs, i) == Cardinality({p \in procs : Identity[p] = i})

\* Mutant of Bump: prune_cpu is forgotten, so hits outlive a scan without load.
BumpOnly(hits, early, late, cleared) ==
  [i \in Identities |->
     Min({Consecutive, Of(late, i) + IF i \in cleared THEN 0 ELSE hits[i] + Of(early, i)})]

\* Mutant of Bump: a scan without load takes one hit away, also where there is none.
BumpAndDecay(hits, early, late, cleared) ==
  [i \in Identities |->
     IF Of(early, i) + Of(late, i) = 0 THEN hits[i] - 1
     ELSE Min({Consecutive, Of(late, i) + IF i \in cleared THEN 0 ELSE hits[i] + Of(early, i)})]

(***************************************************************************)
(* bump_cpu, clear_cpu and prune_cpu over the processes of a scan.  An     *)
(* unknown process above a threshold bumps the hits of its identity, so    *)
(* two of one identity bump them twice.  An allow-listed process of the    *)
(* same identity (120 characters of the command line) clears what the ones *)
(* before it counted; several of these are taken as one.  What nobody      *)
(* bumped in this scan loses its hits.                                     *)
(***************************************************************************)
Bump(hits, early, late, cleared) ==
  [i \in Identities |->
     IF Of(early, i) + Of(late, i) = 0 THEN 0
     ELSE Min({Consecutive, Of(late, i) + IF i \in cleared THEN 0 ELSE hits[i] + Of(early, i)})]

\* The identities of which a process found the threshold reached.
Reached(hits, early, late, cleared) ==
  {i \in Identities :
     \/ Of(early, i) > 0 /\ hits[i] + Of(early, i) >= Consecutive
     \/ Of(late, i) > 0 /\
          Of(late, i) + (IF i \in cleared THEN 0 ELSE hits[i] + Of(early, i)) >= Consecutive}

\* check_processes: some processes come before the allow-listed ones, the others after.
CheckProcesses(r) ==
  /\ pc[r] = "processes"
  /\ \E early \in SUBSET ((host \cap Heavy) \ Allowed) :
     LET heavy == (host \cap Heavy) \ Allowed
         late == heavy \ early
         cleared == {Identity[p] : p \in host \cap Allowed}
         flagged == UNION {Flags[p] \X {p} : p \in host \cap Procs}
         hits == job[r].state.hits
         long == Reached(hits, early, late, cleared)
     IN job' = [job EXCEPT ![r].state.hits = Bump(hits, early, late, cleared),
                           ![r].busy = {Identity[p] : p \in heavy},
                           ![r].found = flagged \cup ({"resource_unknown"} \X long)]
  /\ Goto(r, "listeners")
  /\ UNCHANGED <<host, disk, tmp, changes, faults, byhand, history>>

\* _parse_ss_listen: when ss fails the scan goes on as if nothing listened.
CheckListeners(r) ==
  /\ pc[r] = "listeners"
  /\ \/ /\ NoFault
        /\ job' = [job EXCEPT ![r].found = @ \cup ({"listener"} \X (host \cap Ports))]
     \/ Fault /\ UNCHANGED job
  /\ Goto(r, "peers")
  /\ UNCHANGED <<host, disk, tmp, changes, byhand, history>>

\* An entry of the cache is used until it is too old, an empty one as well; a lookup
\* that fails leaves an empty entry.
lookup_ipinfo(old, cached, failed) ==
  [a \in Peers |-> CASE a \notin host \/ a \in cached -> old[a]
                     [] a \in failed -> "nothing"
                     [] OTHER -> "org"]

\* A peer whose organisation is not known is a finding, and one that is not trusted.
PeerFindings(ipinfo) ==
  {<<"peer", a, IF ipinfo[a] = "org" THEN "org" ELSE "unknown">> :
     a \in {a \in host \cap Peers : ~(a \in TrustedPeers /\ ipinfo[a] = "org")}}

\* check_peers: when ss fails the scan goes on as if there were no peers.
CheckPeers(r) ==
  /\ pc[r] = "peers"
  /\ \/ \E cached \in SUBSET (host \cap Peers) :
          \E failed \in SUBSET ((host \cap Peers) \ cached) :
          LET old == job[r].state.ipinfo
              ipinfo == lookup_ipinfo(old, cached, failed)
          IN /\ \A a \in cached : old[a] # "none"
             /\ IF failed = {} THEN NoFault ELSE Fault
             /\ job' = [job EXCEPT ![r].state.ipinfo = ipinfo,
                                   ![r].found = @ \cup PeerFindings(ipinfo)]
     \/ Fault /\ UNCHANGED job
  /\ Goto(r, "save")
  /\ UNCHANGED <<host, disk, tmp, changes, byhand, history>>

\* Mutant of Marked: prune_missing is forgotten.
MarkedForEver(state, found) == [state EXCEPT !.findings = @ \cup found]

\* Mutant of NewOf: a finding is known if one of its kind is.
NewKindOf(state, found) == {f \in found : \A g \in state.findings : g[1] # f[1]}

\* mark_finding and prune_missing: the findings to keep, and the new ones of them.
Marked(state, found) == [state EXCEPT !.findings = found]
NewOf(state, found) == found \ state.findings

\* The first half of StateStore.save.
WriteTmp(r) ==
  LET marked == Marked(job[r].state, job[r].found)
  IN /\ pc[r] = "save"
     /\ job' = [job EXCEPT ![r].new = NewOf(job[r].state, job[r].found), ![r].state = marked]
     /\ tmp' = marked
     /\ Goto(r, "replace")
     /\ UNCHANGED <<host, disk, changes, faults, byhand, history>>

(***************************************************************************)
(* The second half: state.tmp becomes state.json.  Another scan's save may *)
(* have taken the file away in between; replace raises and the scan ends,  *)
(* with its findings untold.                                               *)
(***************************************************************************)
Replace(r) ==
  /\ pc[r] = "replace"
  /\ \/ /\ tmp # NoFile
        /\ disk' = tmp /\ tmp' = NoFile
        /\ told' = told \cap job[r].found
        /\ hushed' = (hushed \cap job[r].found)
                     \cup (IF job[r].quiet THEN job[r].new ELSE {})
        /\ streak' = [i \in Identities |->
             IF i \in job[r].busy THEN Min({Consecutive, streak[i] + 1}) ELSE 0]
        /\ Goto(r, "notify") /\ UNCHANGED <<job, overlap>>
     \/ tmp = NoFile /\ Stop(r) /\ UNCHANGED <<disk, tmp, history>>
  /\ UNCHANGED <<host, changes, faults, byhand>>

\* run_scan's end: a push that fails is only logged.
Notify(r) ==
  LET body == IF job[r].quiet THEN {} ELSE job[r].new
  IN /\ pc[r] = "notify"
     /\ \/ NoFault /\ told' = told \cup body /\ UNCHANGED hushed
        \/ body # {} /\ Fault /\ hushed' = hushed \cup body /\ UNCHANGED told
     /\ Stop(r)
     /\ UNCHANGED <<host, disk, tmp, changes, byhand, streak, overlap>>

\* The scan is killed; when it had saved, what was new stays untold.
Die(r) ==
  /\ pc[r] # "idle" /\ Fault
  /\ hushed' = hushed \cup (IF pc[r] = "notify" THEN job[r].new ELSE {})
  /\ Stop(r)
  /\ UNCHANGED <<host, disk, tmp, changes, byhand, told, streak, overlap>>

\* The host loses power: save does not sync, so state.json may be cut short.
PowerCut ==
  /\ Fault /\ disk # NoFile
  /\ disk' = Torn
  /\ pc' = [r \in Runners |-> "idle"] /\ job' = [r \in Runners |-> Idle]
  /\ told' = {} /\ hushed' = {} /\ streak' = [i \in Identities |-> 0]
  /\ UNCHANGED <<host, tmp, changes, byhand, overlap>>

\* README.md, Uninstall: the state directory is removed and the watch starts afresh.
Reinstall ==
  /\ disk # NoFile /\ \A r \in Runners : pc[r] = "idle"
  /\ disk' = NoFile /\ tmp' = NoFile
  /\ told' = {} /\ hushed' = {} /\ streak' = [i \in Identities |-> 0] /\ overlap' = FALSE
  /\ UNCHANGED <<host, pc, job, changes, faults, byhand>>

\* Something to find comes up on the host, or goes away.
HostChanges(x) ==
  /\ changes < MaxChanges /\ changes' = changes + 1
  /\ host' = IF x \in host THEN host \ {x} ELSE host \cup {x}
  /\ UNCHANGED <<disk, tmp, pc, job, faults, byhand, history>>

Scan(r) ==
  \/ \E quiet \in BOOLEAN : LoadState(r, quiet)
  \/ CheckProcesses(r) \/ CheckListeners(r) \/ CheckPeers(r)
  \/ WriteTmp(r) \/ Replace(r) \/ Notify(r)

Next ==
  \/ \E r \in Runners : Scan(r) \/ Die(r)
  \/ PowerCut \/ Reinstall
  \/ \E x \in Procs \cup Ports \cup Peers : HostChanges(x)

\* The timer starts a scan again and again, and a scan that runs goes on.
Spec == Init /\ [][Next]_vars /\ \A r \in Runners : WF_vars(pc[r] # "idle" /\ Scan(r))
             /\ WF_vars(Scan(Timer))

-----------------------------------------------------------------------------
\* Every variable holds what the code may put there.
TypeOK ==
  /\ host \subseteq Procs \cup Ports \cup Peers
  /\ disk \in State \cup {NoFile, Torn} /\ tmp \in State \cup {NoFile}
  /\ pc \in [Runners -> {"idle", "processes", "listeners", "peers", "save", "replace", "notify"}]
  /\ job \in [Runners -> [state : State, found : SUBSET Findings, new : SUBSET Findings,
                          busy : SUBSET Identities, quiet : BOOLEAN]]
  /\ told \subseteq Findings /\ hushed \subseteq Findings
  /\ streak \in [Identities -> 0..Consecutive] /\ overlap \in BOOLEAN
  /\ changes \in 0..MaxChanges /\ faults \in 0..MaxFaults /\ byhand \in 0..MaxByHand

\* What is about to be pushed was not told before.
NotTwice ==
  ~overlap => \A r \in Runners : pc[r] = "notify" => job[r].new \cap told = {}

\* What state.json knows between scans was told, or its one announcement was lost.
NotSilenced ==
  disk \in State /\ ~overlap /\ (\A r \in Runners : pc[r] = "idle")
    => disk.findings \subseteq told \cup hushed

(***************************************************************************)
(* A finding (a key of state.json) that every saved scan finds is pushed   *)
(* once: state.json is saved before the push (state.py:9 "so we only alert *)
(* on new items"), so neither a failed push nor a scan that dies repeats   *)
(* it.  And it is not passed over in silence: an announcement is lost only *)
(* with a push that fails, a scan that dies after saving, a quiet scan, or *)
(* scans that ran next to each other (Recount).  Nothing is said while     *)
(* they do; and a state.json lost to a power cut or an uninstall, a saved  *)
(* scan that missed the finding (ss failed), or another key for the same   *)
(* thing make it new again: a peer whose lookup fails in one scan and      *)
(* succeeds in the next is pushed twice (scanner.py:417).                  *)
(***************************************************************************)
AlertedOnce == NotTwice /\ NotSilenced

(***************************************************************************)
(* A load that one process alone can cause is reported only after          *)
(* `Consecutive` scans in a row saw it (README.md:17 "above thresholds for *)
(* N consecutive scans"), and hits never outlive the scan that did not see *)
(* them, whatever allow-listed processes share its identity (comm,         *)
(* executable and command line).  An identity of several unlisted          *)
(* processes is left out, as the code does not keep this for it: each of   *)
(* them bumps the counter (scanner.py 206), so two are reported after half *)
(* the scans.                                                              *)
(***************************************************************************)
LoadTakesScans ==
  disk \in State /\ ~overlap => \A i \in Identities :
    Of(Heavy \ Allowed, i) <= 1 =>
      /\ disk.hits[i] <= streak[i]
      /\ <<"resource_unknown", i>> \in disk.findings => streak[i] >= Consecutive

(***************************************************************************)
(* Something that stays on the host is told in the end, whatever failed    *)
(* before, unless its announcement was lost (hushed; scans that ran next   *)
(* to each other may have lost it too): the ports show it.                 *)
(***************************************************************************)
ListenerIsTold ==
  \A x \in Ports : []<>(x \notin host \/ <<"listener", x>> \in told \cup hushed)
=============================================================================
