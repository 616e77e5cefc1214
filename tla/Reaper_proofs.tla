----------------------------- MODULE Reaper_proofs -----------------------------
(***************************************************************************)
(* The auto-terminator spares the scheduler's processes and the cleaner    *)
(* spares the retentions of running ones, for any number of processes and  *)
(* any limit.  Both act on a check made some steps earlier, so the         *)
(* invariant says what that check still implies when it is used: a process *)
(* only goes from "starting" to "live", "stray" and "gone", never back.    *)
(***************************************************************************)
EXTENDS Reaper, TLAPS

\* Every process the scheduler watches is in job:pid.
WatchedListed == \A p \in Pids : task[p] = "live" => p \in cache

\* A process whose start is not over is too young to be due.
YoungAge == \A p \in Pids : task[p] \in {"free", "starting"} => age[p] = 0

\* The process list was made of processes that had been started, and what the
\* hash did not spare is not watched and never will be.
DueStarted == term.pc = "system" => \A p \in term.due \cap Pids : task[p] \notin {"free", "starting"}
DueUnwatched ==
  term.pc \in {"retained", "kill"} /\ ~term.blind =>
    \A p \in term.due \cap Pids : task[p] \in {"stray", "gone"}

SpareInv == WatchedListed /\ YoungAge /\ DueStarted /\ DueUnwatched

Started(p) == IF p \in Pids THEN task[p] # "free" ELSE other[p] # "free"

\* Only processes that were started are ever retained.
RetainedStarted ==
  /\ \A p \in retained \cup clean.todo : Started(p)
  /\ adm.op # "none" => adm.pid \in Procs /\ Started(adm.pid)

\* A process the cleaner found ended has ended for good.
DeadStays == clean.dead # NoPid /\ ~clean.blind => Started(clean.dead) /\ ~Running(clean.dead)

RetentionInv == RetainedStarted /\ DeadStays

ReaperInv == TypeOK /\ SpareInv /\ RetentionInv

-----------------------------------------------------------------------------
(* The processes of Tasks and of others *)

\* What a step may do to the processes: the hash keeps listing the watched
\* ones, none goes back to an earlier stage, and one that ended stays so.
Onward ==
  /\ task' \in [Pids -> Stages] /\ cache' \subseteq Pids
  /\ other' \in [Others -> {"free", "live", "gone"}]
  /\ \A p \in Pids :
       /\ task'[p] = "live" => p \in cache'
       /\ task[p] \notin {"free", "starting"} => task'[p] \notin {"free", "starting"}
       /\ task'[p] = "free" => task[p] = "free"
       /\ task[p] \in {"stray", "gone"} => task'[p] \in {"stray", "gone"}
       /\ task[p] = "gone" => task'[p] = "gone"
  /\ \A o \in Others : /\ other'[o] = "free" => other[o] = "free"
                       /\ other[o] = "gone" => other'[o] = "gone"

LEMMA SameOnward ==
  ASSUME TypeOK, WatchedListed, UNCHANGED <<task, cache, other>>
  PROVE  Onward
BY DEF TypeOK, WatchedListed, Onward

LEMMA TaskOnward ==
  ASSUME TypeOK, WatchedListed, TaskNext, UNCHANGED other
  PROVE  Onward
<1>1. PICK p \in Pids : Launch(p) \/ Enter(p) \/ Abandon(p) \/ End(p) \/ Forget(p)
  BY DEF TaskNext
<1>t. task \in [Pids -> Stages] /\ cache \subseteq Pids /\ other \in [Others -> {"free", "live", "gone"}]
  BY DEF TypeOK
<1>2. CASE Launch(p)
  BY <1>2, <1>t DEF Launch, Onward, WatchedListed, Stages
<1>3. CASE Enter(p)
  BY <1>3, <1>t DEF Enter, Onward, WatchedListed, Stages
<1>4. CASE Abandon(p)
  BY <1>4, <1>t DEF Abandon, Onward, WatchedListed, Stages
<1>5. CASE End(p)
  BY <1>5, <1>t DEF End, Onward, WatchedListed, Stages
<1>6. CASE Forget(p)
  BY <1>6, <1>t DEF Forget, Onward, WatchedListed, Stages
<1> QED  BY <1>1, <1>2, <1>3, <1>4, <1>5, <1>6

LEMMA KilledOnward ==
  ASSUME TypeOK, WatchedListed, NEW p \in Procs, Killed(p)
  PROVE  Onward
<1>t. task \in [Pids -> Stages] /\ cache \subseteq Pids /\ other \in [Others -> {"free", "live", "gone"}]
  BY DEF TypeOK
<1>1. CASE /\ Running(p) /\ p \in Pids
           /\ End(p) /\ age' = [age EXCEPT ![p] = 0] /\ UNCHANGED other
  BY <1>1, <1>t DEF End, Onward, WatchedListed, Stages
<1>2. CASE /\ Running(p) /\ p \in Others
           /\ other' = [other EXCEPT ![p] = "gone"] /\ age' = [age EXCEPT ![p] = 0] /\ UNCHANGED taskVars
  BY <1>2, <1>t DEF Onward, WatchedListed, Stages, taskVars
<1>3. CASE ~Running(p) /\ UNCHANGED <<taskVars, other, age>>
  BY <1>3, SameOnward DEF taskVars
<1> QED  BY <1>1, <1>2, <1>3 DEF Killed

\* A step that ends processes only ever forgets how long they ran.
Aged == age' \in [Procs -> 0 .. MaxAge] /\ \A p \in Procs : age'[p] \in {age[p], 0}

LEMMA KilledAged ==
  ASSUME TypeOK, NEW p, Killed(p)
  PROVE  Aged
<1>t. age \in [Procs -> 0 .. MaxAge] /\ 0 \in 0 .. MaxAge
  BY ReaperAssumption DEF TypeOK
<1>1. age' = [age EXCEPT ![p] = 0] \/ age' = age
  BY DEF Killed
<1> QED  BY <1>t, <1>1 DEF Aged

LEMMA SchedulerAged ==
  ASSUME TypeOK, SchedulerStep
  PROVE  Aged
<1>t. age \in [Procs -> 0 .. MaxAge] /\ 0 \in 0 .. MaxAge
  BY ReaperAssumption DEF TypeOK
<1> QED  BY <1>t DEF Aged, SchedulerStep

LEMMA OtherOnward ==
  ASSUME TypeOK, WatchedListed, NEW o \in Others, OtherStart(o)
  PROVE  Onward
BY DEF TypeOK, WatchedListed, Onward, OtherStart, taskVars

\* Processes only move onward, in every step.
LEMMA StepOnward ==
  ASSUME TypeOK, WatchedListed, [Next]_vars
  PROVE  Onward
<1>1. CASE UNCHANGED <<task, cache, other>>
  BY <1>1, SameOnward
<1>2. CASE SchedulerStep
  BY <1>2, TaskOnward DEF SchedulerStep
<1>3. CASE \E o \in Others : OtherStart(o) \/ OtherEnd(o)
  BY <1>3, OtherOnward, KilledOnward DEF OtherEnd, Procs
<1>4. CASE \E p \in Procs : TermKill(p)
  BY <1>4, KilledOnward DEF TermKill
<1>5. CASE TerminateProcess
  <2>1. adm.op = "terminate" /\ Killed(adm.pid)
    BY <1>5 DEF TerminateProcess
  <2>2. CASE adm.pid \in Procs
    BY <2>1, <2>2, KilledOnward
  <2>3. CASE adm.pid \notin Procs
    <3>1. adm.pid \notin Pids /\ adm.pid \notin Others
      BY <2>3 DEF Procs
    <3>2. UNCHANGED <<taskVars, other>>
      BY <3>1, <2>1 DEF Killed
    <3> QED  BY <3>2, SameOnward DEF taskVars
  <2> QED  BY <2>2, <2>3
<1>6. CASE vars' = vars
  BY <1>6, SameOnward DEF vars
<1> QED
  BY <1>1, <1>2, <1>3, <1>4, <1>5, <1>6
  DEF Next, TermNext, CleanNext, AdmNext, AdmContinue, Minute, TermConfig, TermDurations,
      TermDurationsFail, TermSystem, TermRetained, TermKillFail, TermDone, CleanList, CleanCheck, CleanRemove,
      CleanRemoveFail, AdmCheckGpu, RetainProcess, AdmCheckRetained, CancelRetain, AdmFail,
      UpdateConfig, taskVars

-----------------------------------------------------------------------------
(* Types *)

TermState == [pc : {"off", "durations", "system", "retained", "kill"}, limit : 1 .. MaxLimit,
              due : SUBSET Procs, blind : BOOLEAN]

CleanState == [todo : SUBSET Procs, dead : Procs \cup {NoPid}, blind : BOOLEAN]

LEMMA TermOffTyped == TermOff \in TermState
BY ReaperAssumption DEF TermOff, TermState

LEMMA TermOnTyped ==
  ASSUME NEW t \in TermState, NEW pc \in {"retained", "kill"}, NEW due \in SUBSET Procs
  PROVE  [t EXCEPT !.pc = pc, !.due = due] \in TermState
BY DEF TermState

\* The parts of the state that are not about processes keep their types.
LEMMA TypeStep ==
  ASSUME TypeOK, RetainedStarted, Onward, [Next]_vars
  PROVE  TypeOK'
<1> USE DEF TypeOK
<1>o. /\ task' \in [Pids -> Stages] /\ cache' \subseteq Pids
      /\ other' \in [Others -> {"free", "live", "gone"}]
  BY DEF Onward
<1>1. CASE Aged /\ UNCHANGED <<retained, config, term, clean, adm>>
  BY <1>o, <1>1 DEF Aged
<1>2. CASE \E p \in Procs : Minute(p)
  <2>1. PICK p \in Procs : Minute(p)  BY <1>2
  <2>2. age[p] + 1 \in 0 .. MaxAge
    BY <2>1, ReaperAssumption DEF Minute
  <2>3. age' \in [Procs -> 0 .. MaxAge]
    BY <2>1, <2>2 DEF Minute
  <2> QED  BY <1>o, <2>1, <2>3 DEF Minute
<1>3. CASE TermNext
  <2>1. term' \in TermState
    <3>t. term \in TermState  BY DEF TermState
    <3>1. CASE TermConfig
      BY <3>1, TermOffTyped DEF TermConfig, TermState
    <3>2. CASE TermDurations
      BY <3>2, TermOffTyped DEF TermDurations, TermState
    <3>3. CASE TermDurationsFail \/ TermDone
      BY <3>3, TermOffTyped DEF TermDurationsFail, TermDone
    <3>4. CASE TermSystem
      <4>1. term.due \ cache \in SUBSET Procs  BY <3>t DEF TermState
      <4>2. CASE term' = [term EXCEPT !.pc = "retained", !.due = @ \ cache]
        BY <4>1, <4>2, <3>t, TermOnTyped
      <4>3. CASE term' = [term EXCEPT !.pc = "retained", !.blind = TRUE]
        BY <4>3, <3>t DEF TermState
      <4> QED  BY <3>4, <4>2, <4>3 DEF TermSystem
    <3>5. CASE TermRetained
      <4>1. PICK spare \in {retained, {}} : term' = [term EXCEPT !.pc = "kill", !.due = @ \ spare]
        BY <3>5 DEF TermRetained
      <4>2. term.due \ spare \in SUBSET Procs  BY <3>t DEF TermState
      <4> QED  BY <4>1, <4>2, <3>t, TermOnTyped
    <3>6. CASE \E p \in Procs : TermKill(p) \/ TermKillFail(p)
      BY <3>6, <3>t DEF TermKill, TermKillFail, TermState
    <3> QED  BY <1>3, <3>1, <3>2, <3>3, <3>4, <3>5, <3>6 DEF TermNext
  <2>2. UNCHANGED <<retained, config, clean, adm>>
    BY <1>3 DEF TermNext, TermConfig, TermDurations, TermDurationsFail, TermSystem, TermRetained,
                TermKill, TermKillFail, TermDone
  <2>3. age' = age \/ Aged
    BY <1>3, KilledAged
    DEF TermNext, TermConfig, TermDurations, TermDurationsFail, TermSystem, TermRetained,
        TermKill, TermKillFail, TermDone
  <2> QED  BY <1>o, <2>1, <2>2, <2>3 DEF TermState, Aged
<1>4. CASE CleanNext
  <2>1. clean' \in CleanState /\ retained' \subseteq Procs
    <3>1. CASE CleanList
      BY <3>1 DEF CleanList, CleanState
    <3>2. CASE \E p \in Procs : CleanCheck(p)
      <4>1. PICK p \in Procs : CleanCheck(p)  BY <3>2
      <4>2. /\ \/ clean' = [clean EXCEPT !.todo = @ \ {p}]
               \/ clean' = [clean EXCEPT !.todo = @ \ {p}, !.dead = p]
               \/ clean' = [clean EXCEPT !.todo = @ \ {p}, !.dead = p, !.blind = TRUE]
            /\ retained' = retained
        BY <4>1 DEF CleanCheck
      <4>3. clean \in CleanState /\ p \in Procs \cup {NoPid}  BY DEF CleanState
      <4>4. clean' \in CleanState
        <5>1. CASE clean' = [clean EXCEPT !.todo = @ \ {p}]
          BY <5>1, <4>3 DEF CleanState
        <5>2. CASE clean' = [clean EXCEPT !.todo = @ \ {p}, !.dead = p]
          BY <5>2, <4>3 DEF CleanState
        <5>3. CASE clean' = [clean EXCEPT !.todo = @ \ {p}, !.dead = p, !.blind = TRUE]
          BY <5>3, <4>3 DEF CleanState
        <5> QED  BY <4>2, <5>1, <5>2, <5>3
      <4> QED  BY <4>2, <4>4
    <3>3. CASE CleanRemove \/ CleanRemoveFail
      BY <3>3 DEF CleanRemove, CleanRemoveFail, CleanState
    <3> QED  BY <1>4, <3>1, <3>2, <3>3 DEF CleanNext
  <2>2. UNCHANGED <<age, config, term, adm>>
    BY <1>4 DEF CleanNext, CleanList, CleanCheck, CleanRemove, CleanRemoveFail
  <2> QED  BY <1>o, <2>1, <2>2 DEF CleanState
<1>5. CASE AdmContinue
  <2>1. retained' \subseteq Procs
    BY <1>5 DEF AdmContinue, TerminateProcess, RetainProcess, CancelRetain, AdmFail, RetainedStarted
  <2>2. adm' = AdmIdle /\ UNCHANGED <<config, term, clean>>
    BY <1>5 DEF AdmContinue, TerminateProcess, RetainProcess, CancelRetain, AdmFail
  <2>3. age' = age \/ Aged
    BY <1>5, KilledAged DEF AdmContinue, TerminateProcess, RetainProcess, CancelRetain, AdmFail
  <2> QED  BY <1>o, <2>1, <2>2, <2>3 DEF AdmIdle, Aged
<1>6. CASE \E p \in Procs : AdmCheckRetained(p) \/ \E op \in {"terminate", "retain"} : AdmCheckGpu(op, p)
  BY <1>o, <1>6 DEF AdmCheckRetained, AdmCheckGpu
<1>7. CASE \E on \in BOOLEAN, limit \in 1 .. MaxLimit : UpdateConfig(on, limit)
  BY <1>o, <1>7 DEF UpdateConfig
<1>8. CASE SchedulerStep
  BY <1>8, <1>1, SchedulerAged DEF SchedulerStep
<1>9. CASE \E o \in Others : OtherStart(o) \/ OtherEnd(o)
  <2>1. CASE \E o \in Others : OtherStart(o)
    BY <1>o, <2>1 DEF OtherStart
  <2>2. CASE \E o \in Others : OtherEnd(o)
    BY <1>1, <2>2, KilledAged DEF OtherEnd
  <2> QED  BY <1>9, <2>1, <2>2
<1>10. CASE vars' = vars
  BY <1>o, <1>10 DEF vars
<1> QED
  BY <1>2, <1>3, <1>4, <1>5, <1>6, <1>7, <1>8, <1>9, <1>10 DEF Next, AdmNext

-----------------------------------------------------------------------------
(* The scheduler's processes are spared *)

LEMMA SpareStep ==
  ASSUME TypeOK, SpareInv, Onward, [Next]_vars
  PROVE  SpareInv'
<1> USE DEF SpareInv
<1>1. WatchedListed'
  BY DEF Onward, WatchedListed
<1>2. YoungAge'
  <2>t. age \in [Procs -> 0 .. MaxAge] /\ Pids \subseteq Procs
    BY DEF TypeOK, Procs
  <2>1. CASE \E p \in Procs : Minute(p)
    <3>1. PICK p \in Procs : Minute(p)  BY <2>1
    <3>2. p \in Pids => task[p] \notin {"free", "starting"}
      BY <3>1 DEF Minute, Running
    <3>3. \A q \in Pids : task'[q] = task[q] /\ (q # p => age'[q] = age[q])
      BY <3>1, <2>t DEF Minute, taskVars
    <3> QED  BY <3>2, <3>3 DEF YoungAge
  <2>2. CASE UNCHANGED age
    BY <2>2 DEF YoungAge, Onward
  <2>3. CASE Aged
    BY <2>3, <2>t DEF YoungAge, Onward, Aged
  <2> QED
    BY <2>1, <2>2, <2>3, SchedulerAged, KilledAged
    DEF Next, vars, OtherStart, OtherEnd, TermNext, CleanNext, AdmNext, AdmContinue, TermConfig,
        TermDurations, TermDurationsFail, TermSystem, TermRetained, TermKill, TermKillFail, TermDone,
        CleanList, CleanCheck, CleanRemove, CleanRemoveFail, AdmCheckGpu, TerminateProcess,
        RetainProcess, AdmCheckRetained, CancelRetain, AdmFail, UpdateConfig
<1>3. DueStarted' /\ DueUnwatched'
  <2>t. term \in TermState  BY DEF TypeOK, TermState
  <2>1. CASE TermConfig \/ TermDurationsFail \/ TermDone
    <3>1. CASE TermConfig
      BY <3>1 DEF TermConfig, TermOff, DueStarted, DueUnwatched
    <3>2. CASE TermDurationsFail \/ TermDone
      BY <3>2 DEF TermDurationsFail, TermDone, TermOff, DueStarted, DueUnwatched
    <3> QED  BY <2>1, <3>1, <3>2
  <2>2. CASE TermDurations
    <3>1. term'.pc = "system" /\ term'.due = {p \in Procs : Running(p) /\ age[p] >= term.limit}
      BY <2>2 DEF TermDurations, TermOff
    <3>2. \A p \in Pids : p \in term'.due => task[p] \notin {"free", "starting"}
      BY <3>1, <2>t DEF YoungAge, Running, TermState
    <3> QED  BY <3>1, <3>2, <2>2 DEF DueStarted, DueUnwatched, TermDurations, taskVars
  <2>3. CASE TermSystem
    <3>1. term.pc = "system" /\ task' = task  BY <2>3 DEF TermSystem, taskVars
    <3>2. CASE term' = [term EXCEPT !.pc = "retained", !.due = @ \ cache]
      <4>1. term'.pc = "retained" /\ term'.due = term.due \ cache
        BY <3>2, <2>t DEF TermState
      <4>2. \A p \in Pids : p \in term'.due => task[p] \in {"stray", "gone"}
        BY <4>1, <3>1 DEF DueStarted, WatchedListed, TypeOK, Stages
      <4> QED  BY <4>1, <4>2, <3>1 DEF DueStarted, DueUnwatched
    <3>3. CASE term' = [term EXCEPT !.pc = "retained", !.blind = TRUE]
      <4>1. term'.pc = "retained" /\ term'.blind
        BY <3>3, <2>t DEF TermState
      <4> QED  BY <4>1 DEF DueStarted, DueUnwatched
    <3> QED  BY <2>3, <3>2, <3>3 DEF TermSystem
  <2>4. CASE TermRetained \/ \E p \in Procs : TermKill(p) \/ TermKillFail(p)
    <3>1. /\ term.pc \in {"retained", "kill"} /\ term'.pc = "kill"
          /\ term'.due \subseteq term.due /\ term'.blind = term.blind
      BY <2>4, <2>t DEF TermRetained, TermKill, TermKillFail, TermState
    <3> QED  BY <3>1 DEF DueStarted, DueUnwatched, Onward
  <2>5. CASE UNCHANGED term
    BY <2>5 DEF DueStarted, DueUnwatched, Onward
  <2> QED
    BY <2>1, <2>2, <2>3, <2>4, <2>5
    DEF Next, vars, SchedulerStep, OtherStart, OtherEnd, Minute, TermNext, CleanNext, AdmNext,
        AdmContinue, CleanList, CleanCheck, CleanRemove, CleanRemoveFail, AdmCheckGpu,
        TerminateProcess, RetainProcess, AdmCheckRetained, CancelRetain, AdmFail, UpdateConfig
<1> QED  BY <1>1, <1>2, <1>3

-----------------------------------------------------------------------------
(* Retentions *)

LEMMA RetentionStep ==
  ASSUME TypeOK, RetentionInv, Onward, [Next]_vars
  PROVE  RetentionInv'
<1> USE DEF RetentionInv
<1>s. \A p \in Procs : Started(p) => Started(p)'
  BY DEF Started, Onward, Procs
<1>d. \A p \in Procs : Started(p) /\ ~Running(p) => ~Running(p)'
  BY DEF Started, Running, Onward, Procs, TypeOK, Stages
<1>t. /\ retained \subseteq Procs /\ clean.todo \subseteq Procs /\ clean.dead \in Procs \cup {NoPid}
      /\ clean \in CleanState
  BY DEF TypeOK, CleanState
<1>1. CASE UNCHANGED <<retained, clean, adm>>
  BY <1>1, <1>s, <1>d, <1>t DEF RetainedStarted, DeadStays
<1>2. CASE CleanNext
  <2>1. CASE CleanList \/ CleanRemove \/ CleanRemoveFail
    <3>1. /\ retained' \subseteq retained /\ clean'.todo \subseteq retained \cup clean.todo
          /\ clean'.dead = NoPid /\ adm' = adm
      <4>1. CASE CleanList
        BY <4>1 DEF CleanList, CleanOff
      <4>2. CASE CleanRemove \/ CleanRemoveFail
        BY <4>2, <1>t DEF CleanRemove, CleanRemoveFail, CleanState
      <4> QED  BY <2>1, <4>1, <4>2
    <3> QED  BY <3>1, <1>s, <1>t DEF RetainedStarted, DeadStays
  <2>2. CASE \E p \in Procs : CleanCheck(p)
    <3>1. PICK p \in Procs : CleanCheck(p)  BY <2>2
    <3>2. /\ retained' = retained /\ clean'.todo \subseteq clean.todo /\ adm' = adm
          /\ p \in clean.todo
          /\ clean'.blind \/ clean'.dead = NoPid \/ (clean'.dead = p /\ ~Running(p))
      BY <3>1, <1>t DEF CleanCheck, CleanState
    <3>3. Started(p)  BY <3>2 DEF RetainedStarted
    <3> QED  BY <3>2, <3>3, <1>s, <1>d, <1>t DEF RetainedStarted, DeadStays
  <2> QED  BY <1>2, <2>1, <2>2 DEF CleanNext
<1>3. CASE AdmContinue
  <2>1. adm' = AdmIdle /\ retained' \subseteq retained \cup (IF adm.op = "retain" THEN {adm.pid} ELSE {}) /\ clean' = clean
    BY <1>3 DEF AdmContinue, TerminateProcess, RetainProcess, CancelRetain, AdmFail
  <2>2. \A p \in retained' : p \in Procs /\ Started(p)
    BY <2>1, <1>t DEF RetainedStarted
  <2> QED  BY <2>1, <2>2, <1>s, <1>d, <1>t DEF RetainedStarted, DeadStays, AdmIdle
<1>4. CASE \E p \in Procs : AdmCheckRetained(p) \/ \E op \in {"terminate", "retain"} : AdmCheckGpu(op, p)
  <2>1. PICK p \in Procs : AdmCheckRetained(p) \/ \E op \in {"terminate", "retain"} : AdmCheckGpu(op, p)
    BY <1>4
  <2>2. adm'.pid = p /\ UNCHANGED <<retained, clean>> /\ (p \in retained \/ Running(p))
    BY <2>1 DEF AdmCheckRetained, AdmCheckGpu
  <2>3. Started(p)
    BY <2>2 DEF RetainedStarted, Started, Running
  <2> QED  BY <2>2, <2>3, <1>s, <1>d, <1>t DEF RetainedStarted, DeadStays
<1> QED
  BY <1>1, <1>2, <1>3, <1>4
  DEF Next, vars, SchedulerStep, OtherStart, OtherEnd, Minute, TermNext, TermConfig, TermDurations,
      TermDurationsFail, TermSystem, TermRetained, TermKill, TermKillFail, TermDone, AdmNext, UpdateConfig

\* Only CancelRetain, or a check that failed, takes a retention from a running
\* process.
LEMMA DropStep ==
  ASSUME TypeOK, RetentionInv, [Next]_vars,
         NEW p \in Procs, p \in retained, Running(p), p \notin retained'
  PROVE  adm = [op |-> "cancel", pid |-> p] \/ (clean.dead = p /\ clean.blind)
<1>1. CASE CleanRemove
  BY <1>1 DEF CleanRemove, RetentionInv, DeadStays
<1>2. CASE CancelRetain
  BY <1>2 DEF CancelRetain, TypeOK
<1>3. CASE retained \subseteq retained'
  BY <1>3
<1> QED
  BY <1>1, <1>2, <1>3
  DEF Next, vars, SchedulerStep, OtherStart, OtherEnd, Minute, TermNext, TermConfig, TermDurations,
      TermDurationsFail, TermSystem, TermRetained, TermKill, TermKillFail, TermDone, CleanNext, CleanList, CleanCheck,
      CleanRemoveFail, AdmNext, AdmContinue, AdmCheckGpu, TerminateProcess, RetainProcess,
      AdmCheckRetained, AdmFail, UpdateConfig

-----------------------------------------------------------------------------
(* The theorems *)

LEMMA InitInv == Init => ReaperInv
<1> SUFFICES ASSUME Init  PROVE ReaperInv
  OBVIOUS
<1>1. TypeOK
  <2>1. config \in [on : BOOLEAN, limit : 1 .. MaxLimit]
    BY DEF Init
  <2>2. QED
    BY <2>1, ReaperAssumption, TermOffTyped DEF Init, TaskInit, TypeOK, TermState, CleanOff, AdmIdle, Stages
<1>2. SpareInv
  BY DEF Init, TaskInit, SpareInv, WatchedListed, YoungAge, DueStarted, DueUnwatched, TermOff, Procs
<1>3. RetentionInv
  BY DEF Init, RetentionInv, RetainedStarted, DeadStays, CleanOff, AdmIdle
<1> QED  BY <1>1, <1>2, <1>3 DEF ReaperInv

\* The inductive invariant behind the theorems below.
THEOREM ReaperInvariant == Spec => []ReaperInv
<1>1. ReaperInv /\ [Next]_vars => ReaperInv'
  BY StepOnward, TypeStep, SpareStep, RetentionStep DEF ReaperInv, SpareInv, RetentionInv
<1> QED  BY <1>1, InitInv, PTL DEF Spec

\* The monitor's state keeps its types.
THEOREM ReaperTyped == Spec => []TypeOK
<1>1. ReaperInv => TypeOK  BY DEF ReaperInv
<1> QED  BY <1>1, ReaperInvariant, PTL

\* checkAndTerminate never kills a process that the scheduler watches unless
\* GetAllPid failed, however the scheduler starts, lists and forgets processes
\* while the check runs.
THEOREM SchedulerTasksSpared == Spec => []WatchedSpared
<1>1. ReaperInv => WatchedSpared
  BY DEF ReaperInv, SpareInv, DueUnwatched, WatchedSpared
<1> QED  BY <1>1, ReaperInvariant, PTL

\* cleanupRetainedTasks drops the retention of a running process only when
\* isProcessRunning failed for it: an answer it gave is still right when used.
THEOREM CleanerKeepsRetention == Spec => RetentionKept
<1>1. ReaperInv /\ [Next]_vars =>
        [\A p \in Procs : p \in retained /\ Running(p) /\ p \notin retained' =>
           adm = [op |-> "cancel", pid |-> p] \/ (clean.dead = p /\ clean.blind)]_vars
  BY DropStep DEF ReaperInv
<1> QED  BY <1>1, ReaperInvariant, PTL DEF Spec, RetentionKept
=============================================================================
