------------------------------ MODULE JobMonitor ------------------------------
(***************************************************************************)
(* What watches a started process: monitorJob with its deferred clean-up,  *)
(* recoverRunningJobs at Start, the hourly auditRunningJobs, and           *)
(* handleMissingProcess, which the last two share.                         *)
(***************************************************************************)
EXTENDS JobStores

\* monitorJob goroutines are named by (pid, card): executeJob starts one per
\* process, recoverRunningJobs one per active record of a live process.
JobOf(k) == proc[k[1]].job

-----------------------------------------------------------------------------
(* Processes of the GPU server *)

\* A training script ends by itself, well or badly.
ProcExit(p) ==
  /\ proc[p].st = "alive"
  /\ \E st \in {"ok", "bad"} : proc' = [proc EXCEPT ![p].st = st]
  /\ UNCHANGED <<mysql, redis, memory, api>>

-----------------------------------------------------------------------------
(* monitorJob *)

MonGoto(n, k, pc) == mon' = [mon EXCEPT ![n][k] = [pc |-> pc, fails |-> 0]]

\* Mutant: the exit code is not looked at.
VerdictsBlind(p) == {"Completed"}

\* job_<id>.exitcode: each process of a job leaves its code in the same file.
ExitCodes(j) == {proc[q].st : q \in {r \in Pids : proc[r].job = j /\ ~PidExists(r)}}

\* Exit code 0 means Completed, another one Failed, an unreadable one Completed.
Verdicts(p) ==
  LET codes == ExitCodes(proc[p].job) IN
  {IF x = "bad" THEN "Failed" ELSE "Completed" :
     x \in codes \cup (IF codes = {} \/ Fails("GetJobExitCode") THEN {"none"} ELSE {})}

\* Mutant: the verdict does not wait for the process to be gone.
MonExitEarly(n, k) ==
  /\ mon[n][k].pc = "watch"
  /\ \E s \in Verdicts(k[1]) : UpdateStatus(JobOf(k), s)
  /\ MonGoto(n, k, "untrack")
  /\ UNCHANGED <<owner, records, redis, proc, node, tracked, loop, scan, api>>

\* PidExists says no: the verdict is written whatever the status is by now.
MonExit(n, k) ==
  /\ mon[n][k].pc = "watch"
  /\ ~PidExists(k[1])
  /\ \E s \in Verdicts(k[1]) : UpdateStatus(JobOf(k), s)
  /\ MonGoto(n, k, "untrack")
  /\ UNCHANGED <<owner, records, redis, proc, node, tracked, loop, scan, api>>

\* PidExists itself fails; FailLimit times in a row condemn the job.
MonError(n, k) ==
  /\ mon[n][k].pc = "watch" /\ Fails("PidExists")
  /\ \/ /\ mon[n][k].fails + 1 < FailLimit
        /\ mon' = [mon EXCEPT ![n][k].fails = @ + 1] /\ UNCHANGED status
     \/ /\ mon[n][k].fails + 1 >= FailLimit
        /\ UpdateStatus(JobOf(k), "Failed")
        /\ MonGoto(n, k, "untrack")
  /\ UNCHANGED <<owner, records, redis, proc, node, tracked, loop, scan, api>>

\* A successful look at a live process resets the count.
MonAlive(n, k) ==
  /\ mon[n][k].pc = "watch" /\ mon[n][k].fails > 0
  /\ PidExists(k[1])
  /\ MonGoto(n, k, "watch")
  /\ UNCHANGED <<mysql, redis, proc, node, tracked, loop, scan, api>>

\* ctx.Done: the goroutine returns, and its deferred clean-up runs.
MonStopped(n, k) ==
  /\ mon[n][k].pc = "watch" /\ ~CtxLive(n)
  /\ MonGoto(n, k, "untrack")
  /\ UNCHANGED <<mysql, redis, proc, node, tracked, loop, scan, api>>

\* The deferred clean-up, on context.Background: forget the pid in memory and
\* in the process cache, end the job's records, release the job's cards.
MonUntrack(n, k) ==
  /\ mon[n][k].pc = "untrack"
  /\ tracked' = [tracked EXCEPT ![n] = @ \ {k[1]}]
  /\ DelPid({k[1]})
  /\ MonGoto(n, k, "end")
  /\ UNCHANGED <<mysql, queue, lock, proc, node, loop, scan, api>>

\* Mutant: the clean-up leaves the processes rows active.
MonEndSkipped(n, k) ==
  /\ mon[n][k].pc = "end"
  /\ MonGoto(n, k, "release")
  /\ UNCHANGED <<mysql, redis, proc, node, tracked, loop, scan, api>>

MonEnd(n, k) ==
  /\ mon[n][k].pc = "end"
  /\ EndRecords(FindActiveByJobID(JobOf(k)))
  /\ MonGoto(n, k, "release")
  /\ UNCHANGED <<status, owner, redis, proc, node, tracked, loop, scan, api>>

\* Mutant: the clean-up forgets the cards.
MonReleaseSkipped(n, k) ==
  /\ mon[n][k].pc = "release"
  /\ MonGoto(n, k, "off")
  /\ UNCHANGED <<mysql, redis, proc, node, tracked, loop, scan, api>>

MonRelease(n, k) ==
  /\ mon[n][k].pc = "release"
  /\ ReleaseCards(JobOf(k))
  /\ MonGoto(n, k, "off")
  /\ UNCHANGED <<status, records, redis, proc, node, tracked, loop, scan, api>>

MonNext(n, k) ==
  \/ MonExit(n, k) \/ MonError(n, k) \/ MonAlive(n, k) \/ MonStopped(n, k)
  \/ MonUntrack(n, k) \/ MonEnd(n, k) \/ MonRelease(n, k)

-----------------------------------------------------------------------------
(* recoverRunningJobs and auditRunningJobs *)

AuditStart(n) ==
  /\ "audit" \in Ops /\ node[n] = "up" /\ scan[n].pc = "off"
  /\ scan' = [scan EXCEPT ![n] = [ScanOff EXCEPT !.pc = "list"]]
  /\ UNCHANGED <<mysql, redis, proc, node, tracked, loop, mon, api>>

\* Recovery is part of Start: the loop and the server begin when it is over.
ScanDone(n) ==
  /\ scan' = [scan EXCEPT ![n] = ScanOff]
  /\ node' = IF scan[n].mode = "recover" THEN [node EXCEPT ![n] = "up"] ELSE node

ScanList(n) ==
  /\ scan[n].pc = "list"
  /\ \/ /\ scan' = [scan EXCEPT ![n].pc = "next", ![n].jobs = {j \in Jobs : status[j] = "Running"}]
        /\ UNCHANGED node
     \/ Fails("GetRunningJobs") /\ ScanDone(n)
  /\ UNCHANGED <<mysql, redis, proc, tracked, loop, mon, api>>

\* The job taken up next, with its active records; one without is missing.
TakeUp(n, j, rs) ==
  [scan[n] EXCEPT !.pc = IF rs = {} THEN "failed" ELSE "each",
                  !.jobs = @ \ {j}, !.job = j, !.recs = rs, !.rec = NoRec]

\* FindActiveByJobID for the next job of the snapshot.
ScanJob(n) ==
  /\ scan[n].pc = "next"
  /\ \/ scan[n].jobs = {} /\ ScanDone(n)
     \/ \E j \in scan[n].jobs :
          /\ \/ scan' = [scan EXCEPT ![n] = TakeUp(n, j, FindActiveByJobID(j))]
             \/ Fails("FindActive") /\ scan' = [scan EXCEPT ![n].jobs = @ \ {j}]
          /\ UNCHANGED node
  /\ UNCHANGED <<mysql, redis, proc, tracked, loop, mon, api>>

ScanSkip(n, r) == scan' = [scan EXCEPT ![n].recs = @ \ {r}]

\* Mutant: a live process is put in runningJobs but gets no monitor.
AdoptUnwatched(n, r) ==
  /\ tracked' = [tracked EXCEPT ![n] = @ \cup {r.pid}]
  /\ procCache' = procCache \cup {r.pid}
  /\ UNCHANGED mon

\* A live process is taken over again: tracked, monitored, cached.
Adopt(n, r) ==
  /\ tracked' = [tracked EXCEPT ![n] = @ \cup {r.pid}]
  /\ mon' = [mon EXCEPT ![n][<<r.pid, r.card>>] = [MonOff EXCEPT !.pc = "watch"]]
  /\ \/ procCache' = procCache \cup {r.pid}
     \/ Fails("CreatePid") /\ UNCHANGED procCache

ScanEach(n) ==
  /\ scan[n].pc = "each"
  /\ \/ /\ scan[n].recs = {}
        /\ scan' = [scan EXCEPT ![n].pc = "next", ![n].job = NoJob, ![n].rec = NoRec]
        /\ UNCHANGED <<tracked, mon, procCache>>
     \/ \E r \in scan[n].recs :
          \/ scan[n].mode = "recover" /\ PidExists(r.pid) /\ Adopt(n, r) /\ ScanSkip(n, r)
          \/ /\ scan[n].mode = "audit" /\ (r.pid \in tracked[n] \/ PidExists(r.pid))
             /\ ScanSkip(n, r) /\ UNCHANGED <<tracked, mon, procCache>>
          \/ Fails("PidExists") /\ ScanSkip(n, r) /\ UNCHANGED <<tracked, mon, procCache>>
          \/ /\ ~PidExists(r.pid) /\ (scan[n].mode = "audit" => r.pid \notin tracked[n])
             /\ scan' = [scan EXCEPT ![n].pc = "failed", ![n].recs = @ \ {r}, ![n].rec = r]
             /\ UNCHANGED <<tracked, mon, procCache>>
  /\ UNCHANGED <<mysql, queue, lock, proc, node, loop, api>>

\* handleMissingProcess: Failed; end the record and forget its pid; release.
ScanFailed(n) ==
  /\ scan[n].pc = "failed"
  /\ UpdateStatus(scan[n].job, "Failed")
  /\ scan' = [scan EXCEPT ![n].pc = "end"]
  /\ UNCHANGED <<owner, records, redis, proc, node, tracked, loop, mon, api>>

ScanEnd(n) ==
  /\ scan[n].pc = "end"
  /\ EndRecords({scan[n].rec} \ {NoRec})
  /\ DelPid({r.pid : r \in {scan[n].rec} \ {NoRec}})
  /\ scan' = [scan EXCEPT ![n].pc = "release"]
  /\ UNCHANGED <<status, owner, queue, lock, proc, node, tracked, loop, mon, api>>

ScanRelease(n) ==
  /\ scan[n].pc = "release"
  /\ ReleaseCards(scan[n].job)
  /\ scan' = [scan EXCEPT ![n].pc = "each"]
  /\ UNCHANGED <<status, records, redis, proc, node, tracked, loop, mon, api>>

ScanNext(n) ==
  \/ ScanList(n) \/ ScanJob(n) \/ ScanEach(n)
  \/ ScanFailed(n) \/ ScanEnd(n) \/ ScanRelease(n)
=============================================================================
