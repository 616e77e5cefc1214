------------------------------- MODULE Reaper -------------------------------
(***************************************************************************)
(* The system monitor's timers and requests (systemInfo_service.go): the   *)
(* auto-terminator kills GPU processes that exceed a configured duration,  *)
(* except the scheduler's own (hash job:pid) and retained ones (set        *)
(* retained_pids); a cleaner drops retentions of processes that ended;     *)
(* administrators terminate, retain, release and configure.  The           *)
(* scheduler's processes are those of Tasks; the others were started by    *)
(* hand on the server.  Pids are not reused.                               *)
(***************************************************************************)
EXTENDS Tasks, Naturals

CONSTANTS
  Others,     \* pids of the processes started by hand
  NoPid,
  MaxLimit,   \* bound on the configured duration, in minutes
  MaxAge      \* bound on how long a process is seen to run, in minutes

ASSUME ReaperAssumption ==
  /\ Pids \cap Others = {} /\ NoPid \notin Pids \cup Others
  /\ MaxLimit \in Nat \ {0} /\ MaxAge \in Nat

VARIABLES
  other,      \* "free" | "live" | "gone", per process started by hand
  age,        \* limits of 1, 2, ... minutes a running process has exceeded, up to MaxAge
  retained,   \* Redis set of retained pids
  config,     \* Redis hash: on, limit
  term,       \* checkAndTerminate: pc, limit, due, blind
  clean,      \* cleanupRetainedTasks: todo, dead, blind
  adm         \* an administrator's request between its check and its write

taskVars == <<task, cache>>
vars == <<task, cache, other, age, retained, config, term, clean, adm>>

Procs == Pids \cup Others
Running(p) == IF p \in Pids THEN task[p] \in {"starting", "live", "stray"}
                            ELSE other[p] = "live"

TermOff  == [pc |-> "off", limit |-> 1, due |-> {}, blind |-> FALSE]
CleanOff == [todo |-> {}, dead |-> NoPid, blind |-> FALSE]
AdmIdle  == [op |-> "none", pid |-> NoPid]

\* Auto-termination is off until an administrator turns it on; the default
\* limit is one of the possible ones.
Init ==
  /\ TaskInit
  /\ other = [o \in Others |-> "free"]
  /\ age = [p \in Procs |-> 0]
  /\ retained = {} /\ config \in [on : {FALSE}, limit : 1 .. MaxLimit]
  /\ term = TermOff /\ clean = CleanOff /\ adm = AdmIdle

-----------------------------------------------------------------------------
(* The processes *)

SchedulerStep ==
  /\ TaskNext
  /\ age' = [p \in Procs |-> IF p \in Pids /\ task'[p] = "gone" THEN 0 ELSE age[p]]
  /\ UNCHANGED <<other, retained, config, term, clean, adm>>

OtherStart(o) ==
  /\ other[o] = "free"
  /\ other' = [other EXCEPT ![o] = "live"]
  /\ UNCHANGED <<taskVars, age, retained, config, term, clean, adm>>

\* terminateProcess, kill -9: of a process that is gone it reports an error.
Killed(p) ==
  \/ /\ Running(p) /\ p \in Pids
     /\ End(p) /\ age' = [age EXCEPT ![p] = 0] /\ UNCHANGED other
  \/ /\ Running(p) /\ p \in Others
     /\ other' = [other EXCEPT ![p] = "gone"] /\ age' = [age EXCEPT ![p] = 0] /\ UNCHANGED taskVars
  \/ /\ ~Running(p)
     /\ UNCHANGED <<taskVars, other, age>>

OtherEnd(o) ==
  /\ Running(o) /\ Killed(o)
  /\ UNCHANGED <<retained, config, term, clean, adm>>

\* One more minute is exceeded (the code compares duration > limit).
\* executeJob waits at most 15 s for a pid, so a process it is still starting
\* is younger than the shortest limit.
Minute(p) ==
  /\ Running(p) /\ age[p] < MaxAge
  /\ p \in Pids => task[p] # "starting"
  /\ age' = [age EXCEPT ![p] = @ + 1]
  /\ UNCHANGED <<taskVars, other, retained, config, term, clean, adm>>

-----------------------------------------------------------------------------
(* checkAndTerminate, every 60 s *)

\* HGETALL of the configuration; if it fails or says off the check ends here.
TermConfig ==
  /\ term.pc = "off" /\ config.on
  /\ term' = [TermOff EXCEPT !.pc = "durations", !.limit = config.limit]
  /\ UNCHANGED <<taskVars, other, age, retained, config, clean, adm>>

\* Mutant: the limit itself is compared in the next unit.
TermDurationsOff ==
  /\ term.pc = "durations"
  /\ term' = [TermOff EXCEPT !.pc = "system", !.due = {p \in Procs : Running(p) /\ age[p] > term.limit}]
  /\ UNCHANGED <<taskVars, other, age, retained, config, clean, adm>>

\* nvidia-smi and the start times of the processes it lists.
TermDurations ==
  /\ term.pc = "durations"
  /\ term' = [TermOff EXCEPT !.pc = "system", !.due = {p \in Procs : Running(p) /\ age[p] >= term.limit}]
  /\ UNCHANGED <<taskVars, other, age, retained, config, clean, adm>>

TermDurationsFail ==
  /\ term.pc = "durations"
  /\ term' = TermOff
  /\ UNCHANGED <<taskVars, other, age, retained, config, clean, adm>>

\* GetAllPid; an error counts as an empty hash.
TermSystem ==
  /\ term.pc = "system"
  /\ \/ term' = [term EXCEPT !.pc = "retained", !.due = @ \ cache]
     \/ term' = [term EXCEPT !.pc = "retained", !.blind = TRUE]
  /\ UNCHANGED <<taskVars, other, age, retained, config, clean, adm>>

\* SMEMBERS; an error counts as an empty set.
TermRetained ==
  /\ term.pc = "retained"
  /\ \E spare \in {retained, {}} : term' = [term EXCEPT !.pc = "kill", !.due = @ \ spare]
  /\ UNCHANGED <<taskVars, other, age, retained, config, clean, adm>>

TermKill(p) ==
  /\ term.pc = "kill" /\ p \in term.due
  /\ Killed(p)
  /\ term' = [term EXCEPT !.due = @ \ {p}]
  /\ UNCHANGED <<retained, config, clean, adm>>

\* kill -9 of a running process failed; the round goes on with the next one.
TermKillFail(p) ==
  /\ term.pc = "kill" /\ p \in term.due /\ Running(p)
  /\ term' = [term EXCEPT !.due = @ \ {p}]
  /\ UNCHANGED <<taskVars, other, age, retained, config, clean, adm>>

TermDone ==
  /\ term.pc = "kill" /\ term.due = {}
  /\ term' = TermOff
  /\ UNCHANGED <<taskVars, other, age, retained, config, clean, adm>>

TermNext ==
  \/ TermConfig \/ TermDurations \/ TermDurationsFail \/ TermSystem \/ TermRetained
  \/ (\E p \in Procs : TermKill(p) \/ TermKillFail(p)) \/ TermDone

-----------------------------------------------------------------------------
(* cleanupRetainedTasks, every 5 min *)

\* Mutant: the round walks the processes nvidia-smi lists.
CleanListRunning ==
  /\ clean = CleanOff /\ retained # {}
  /\ clean' = [clean EXCEPT !.todo = {p \in retained : Running(p)}]
  /\ UNCHANGED <<taskVars, other, age, retained, config, term, adm>>

CleanList ==
  /\ clean = CleanOff /\ retained # {}
  /\ clean' = [clean EXCEPT !.todo = retained]
  /\ UNCHANGED <<taskVars, other, age, retained, config, term, adm>>

\* Mutant: only the scheduler's processes count as running.
CleanCheckUnlisted(p) ==
  /\ clean.dead = NoPid /\ p \in clean.todo
  /\ clean' = [clean EXCEPT !.todo = @ \ {p}, !.dead = IF p \in cache THEN NoPid ELSE p]
  /\ UNCHANGED <<taskVars, other, age, retained, config, term, adm>>

\* isProcessRunning: an error of gopsutil counts as not running.
CleanCheck(p) ==
  /\ clean.dead = NoPid /\ p \in clean.todo
  /\ \/ Running(p)  /\ clean' = [clean EXCEPT !.todo = @ \ {p}]
     \/ ~Running(p) /\ clean' = [clean EXCEPT !.todo = @ \ {p}, !.dead = p]
     \/ Running(p)  /\ clean' = [clean EXCEPT !.todo = @ \ {p}, !.dead = p, !.blind = TRUE]
  /\ UNCHANGED <<taskVars, other, age, retained, config, term, adm>>

CleanRemove ==
  /\ clean.dead # NoPid
  /\ retained' = retained \ {clean.dead}
  /\ clean' = [clean EXCEPT !.dead = NoPid, !.blind = FALSE]
  /\ UNCHANGED <<taskVars, other, age, config, term, adm>>

\* SREM failed: the next round tries again.
CleanRemoveFail ==
  /\ clean.dead # NoPid
  /\ clean' = [clean EXCEPT !.dead = NoPid, !.blind = FALSE]
  /\ UNCHANGED <<taskVars, other, age, retained, config, term, adm>>

CleanNext == CleanList \/ (\E p \in Procs : CleanCheck(p)) \/ CleanRemove \/ CleanRemoveFail

-----------------------------------------------------------------------------
(* Requests of administrators *)

\* TerminateProcess and RetainProcess: isProcessInGPU, then the effect.
AdmCheckGpu(op, p) ==
  /\ adm = AdmIdle /\ Running(p)
  /\ adm' = [op |-> op, pid |-> p]
  /\ UNCHANGED <<taskVars, other, age, retained, config, term, clean>>

TerminateProcess ==
  /\ adm.op = "terminate"
  /\ Killed(adm.pid)
  /\ adm' = AdmIdle
  /\ UNCHANGED <<retained, config, term, clean>>

RetainProcess ==
  /\ adm.op = "retain"
  /\ retained' = retained \cup {adm.pid}
  /\ adm' = AdmIdle
  /\ UNCHANGED <<taskVars, other, age, config, term, clean>>

AdmCheckRetained(p) ==
  /\ adm = AdmIdle /\ p \in retained
  /\ adm' = [op |-> "cancel", pid |-> p]
  /\ UNCHANGED <<taskVars, other, age, retained, config, term, clean>>

CancelRetain ==
  /\ adm.op = "cancel"
  /\ retained' = retained \ {adm.pid}
  /\ adm' = AdmIdle
  /\ UNCHANGED <<taskVars, other, age, config, term, clean>>

\* The kill, SADD or SREM of the request failed.
AdmFail ==
  /\ adm.op # "none"
  /\ adm' = AdmIdle
  /\ UNCHANGED <<taskVars, other, age, retained, config, term, clean>>

\* Mutant: a limit of zero minutes gets through.
UpdateConfigUnchecked(on, limit) ==
  /\ config' = [on |-> on, limit |-> limit - 1]
  /\ UNCHANGED <<taskVars, other, age, retained, term, clean, adm>>

\* HSET of either field or both; the controller refuses a limit below 1.
UpdateConfig(on, limit) ==
  /\ config' = [on |-> on, limit |-> limit]
  /\ UNCHANGED <<taskVars, other, age, retained, term, clean, adm>>

AdmContinue == TerminateProcess \/ RetainProcess \/ CancelRetain \/ AdmFail

AdmNext ==
  \/ \E p \in Procs : AdmCheckRetained(p) \/ \E op \in {"terminate", "retain"} : AdmCheckGpu(op, p)
  \/ AdmContinue
  \/ \E on \in BOOLEAN, limit \in 1 .. MaxLimit : UpdateConfig(on, limit)

Next ==
  \/ SchedulerStep
  \/ \E o \in Others : OtherStart(o) \/ OtherEnd(o)
  \/ \E p \in Procs : Minute(p)
  \/ TermNext \/ CleanNext \/ AdmNext

Spec == Init /\ [][Next]_vars

\* The tickers go on and the calls return; nvidia-smi, kill and SREM may fail,
\* but not every time.
Fairness ==
  /\ WF_vars(TermNext) /\ SF_vars(TermDurations) /\ \A o \in Others : SF_vars(TermKill(o))
  /\ WF_vars(CleanNext) /\ \A p \in Procs : SF_vars(clean.dead = p /\ CleanRemove)

FairSpec == Spec /\ Fairness

-----------------------------------------------------------------------------
(* Properties *)

\* The collector's state holds what the code can put there.
TypeOK ==
  /\ task \in [Pids -> Stages] /\ cache \subseteq Pids
  /\ other \in [Others -> {"free", "live", "gone"}]
  /\ age \in [Procs -> 0 .. MaxAge]
  /\ retained \subseteq Procs
  /\ config \in [on : BOOLEAN, limit : 1 .. MaxLimit]
  /\ term \in [pc : {"off", "durations", "system", "retained", "kill"}, limit : 1 .. MaxLimit,
               due : SUBSET Procs, blind : BOOLEAN]
  /\ clean \in [todo : SUBSET Procs, dead : Procs \cup {NoPid}, blind : BOOLEAN]
  /\ adm \in [op : {"none", "terminate", "retain", "cancel"}, pid : Procs \cup {NoPid}]

\* checkAndTerminate never goes on to kill the process of a job that the
\* scheduler watches, although it reads the process list before the hash
\* job:pid and kills after both; unless GetAllPid failed, when it spares none.
WatchedSpared ==
  term.pc \in {"retained", "kill"} /\ ~term.blind =>
    \A p \in term.due \cap Pids : task[p] # "live"

\* A running process loses its retention only by the administrator's request,
\* or when isProcessRunning failed for that very process: the answer that
\* cleanupRetainedTasks acts on is never out of date.
RetentionKept ==
  [][\A p \in Procs : p \in retained /\ Running(p) /\ p \notin retained' =>
       adm = [op |-> "cancel", pid |-> p] \/ (clean.dead = p /\ clean.blind)]_vars

\* The retention of a process that ended does not stay in Redis for ever.
StaleRetentionCleaned == \A p \in Procs : p \in retained /\ ~Running(p) ~> p \notin retained

\* A process started by hand that exceeds the limit does not run on although
\* rounds and kills may fail, unless it is retained, or the limit is raised or
\* auto-termination turned off.
Overdue(p) == /\ config.on /\ Running(p) /\ age[p] >= config.limit
              /\ p \notin retained
OverdueEnds == \A p \in Others : Overdue(p) ~> ~Overdue(p)

=============================================================================
