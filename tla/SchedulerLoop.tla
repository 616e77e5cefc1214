---------------------------- MODULE SchedulerLoop ----------------------------
(***************************************************************************)
(* scheduler.run: one pass of processQueue per tick, and executeJob inside *)
(* it.  loop[n].pc names the call the goroutine is about to make.  The     *)
(* calls that carry s.ctx fail once Stop has cancelled it; UpdateStatus,   *)
(* the process table and the remote start do not carry it.                 *)
(***************************************************************************)
EXTENDS JobStores

others == <<node, scan, api>>

Cur(n)      == loop[n].job
At(n, pc)   == loop[n].pc = pc
Goto(n, pc) == loop' = [loop EXCEPT ![n].pc = pc]
Leave(n)    == loop' = [loop EXCEPT ![n] = [LoopIdle EXCEPT !.pc = "unlock"]]

-----------------------------------------------------------------------------
(* processQueue *)

\* SETNX lock:queue_process token EX 30; a tick that does not get it ends.
LoopLock(n) ==
  /\ At(n, "idle") /\ node[n] = "up"
  /\ lock = NoNode
  /\ lock' = n /\ Goto(n, "peek")
  /\ UNCHANGED <<mysql, queue, procCache, proc, tracked, mon, others>>

\* Lua: delete the key if it still holds this token; the call carries s.ctx.
LoopUnlock(n) ==
  /\ At(n, "unlock")
  /\ loop' = [loop EXCEPT ![n] = LoopIdle]
  /\ \/ CtxLive(n) /\ lock' = IF lock = n THEN NoNode ELSE lock
     \/ CtxFails(n, "Eval") /\ UNCHANGED lock
  /\ UNCHANGED <<mysql, queue, procCache, proc, tracked, mon, others>>

\* The key's TTL.  A live holder's watchdog renews it every ttl/3, so it lapses
\* once nobody renews it -- or, under "TTL", when the renewals do not get through.
LockExpire ==
  /\ lock \in Nodes
  /\ loop[lock].pc = "idle" \/ ~CtxLive(lock) \/ Fails("TTL")
  /\ lock' = NoNode
  /\ UNCHANGED <<mysql, queue, procCache, proc, memory, api>>

LoopPeek(n) ==
  /\ At(n, "peek")
  /\ \/ /\ CtxLive(n) /\ queue # <<>>
        /\ loop' = [loop EXCEPT ![n].pc = "load", ![n].job = Head(queue)]
     \/ (queue = <<>> \/ CtxFails(n, "Peek")) /\ Leave(n)
  /\ UNCHANGED <<mysql, redis, proc, tracked, mon, others>>

\* Mutant: any existing row is taken for a waiting job.
LoopLoadAnyStatus(n) ==
  /\ At(n, "load")
  /\ IF status[Cur(n)] \in NoRow THEN Leave(n)
     ELSE loop' = [loop EXCEPT ![n].pc = "check", ![n].seen = status[Cur(n)]]
  /\ UNCHANGED <<mysql, redis, proc, tracked, mon, others>>

\* GetByID reports a missing row as an error, so the pass ends there.
LoopLoad(n) ==
  /\ At(n, "load")
  /\ LET s == status[Cur(n)] IN
     \/ /\ s \in Waiting /\ GpuIDs[Cur(n)] # <<>>
        /\ loop' = [loop EXCEPT ![n].pc = "check", ![n].seen = s]
     \/ /\ s \notin NoRow
        /\ s \notin Waiting \/ GpuIDs[Cur(n)] = <<>>
        /\ Goto(n, "dequeue")
     \/ (s \in NoRow \/ Fails("GetByID")) /\ Leave(n)
  /\ UNCHANGED <<mysql, redis, proc, tracked, mon, others>>

\* gpuService.CheckAvailable: a cache entry that says busy is believed
\* ("StaleCache": also when MySQL disagrees), everything else asks MySQL.
LoopCheck(n) ==
  /\ At(n, "check")
  /\ LET busy == ~CheckAvailable(Cur(n)) \/ Fails("StaleCache") IN
     \/ CtxLive(n) /\ CheckAvailable(Cur(n)) /\ Goto(n, "acquire")
     \/ CtxLive(n) /\ busy /\ loop[n].seen = "WaitingGpu" /\ Leave(n)
     \/ CtxLive(n) /\ busy /\ loop[n].seen # "WaitingGpu" /\ Goto(n, "wait")
     \/ CtxFails(n, "CheckAvailable") /\ Leave(n)
  /\ UNCHANGED <<mysql, redis, proc, tracked, mon, others>>

\* Mutant: a job whose cards are busy is taken off the queue.
LoopWaitDequeues(n) ==
  /\ At(n, "wait")
  /\ UpdateStatus(Cur(n), "WaitingGpu")
  /\ Goto(n, "dequeue")
  /\ UNCHANGED <<owner, records, redis, proc, tracked, mon, others>>

LoopWait(n) ==
  /\ At(n, "wait")
  /\ UpdateStatus(Cur(n), "WaitingGpu")
  /\ Leave(n)
  /\ UNCHANGED <<owner, records, redis, proc, tracked, mon, others>>

\* Mutant: the pass ends without the ZREM.
LoopDequeueForgets(n) ==
  /\ At(n, "dequeue") /\ Leave(n)
  /\ UNCHANGED <<mysql, redis, proc, tracked, mon, others>>

\* Remove(s.ctx): its error is logged and the pass ends either way.  The failure
\* branches of executeJob that remove the job themselves lead here too.
LoopDequeue(n) ==
  /\ At(n, "dequeue")
  /\ \/ CtxLive(n) /\ queue' = Dequeued(Cur(n))
     \/ CtxFails(n, "ZRem") /\ UNCHANGED queue
  /\ Leave(n)
  /\ UNCHANGED <<mysql, procCache, lock, proc, tracked, mon, others>>

-----------------------------------------------------------------------------
(* executeJob *)

\* One transaction: SELECT count FOR UPDATE, compare, UPDATE.
ExecAcquire(n) ==
  /\ At(n, "acquire")
  /\ \/ /\ CtxLive(n) /\ CheckAvailable(Cur(n))
        /\ owner' = Acquired(Cur(n)) /\ Goto(n, "running")
     \/ /\ ~CheckAvailable(Cur(n)) \/ CtxFails(n, "Acquire")
        /\ UNCHANGED owner /\ Goto(n, "dequeue")
  /\ UNCHANGED <<status, records, redis, proc, tracked, mon, others>>

ExecRunning(n) ==
  /\ At(n, "running")
  /\ \/ status' = Updated(Cur(n), "Running") /\ Goto(n, "cards")
     \/ Fails("UpdateStatus") /\ UNCHANGED status /\ Goto(n, "undo")
  /\ UNCHANGED <<owner, records, redis, proc, tracked, mon, others>>

\* GetGpuCardsByIDs: on an error executeJob returns and undoes nothing.
ExecCards(n) ==
  /\ At(n, "cards")
  /\ \/ CtxLive(n) /\ Goto(n, "exec")
     \/ CtxFails(n, "GetByIDs") /\ Goto(n, "dequeue")
  /\ UNCHANGED <<mysql, redis, proc, tracked, mon, others>>

\* ExecuteCommandRemote starts a process and waits 15 s for its pid.
Spawn(p, j) == /\ proc[p].st = "free"
               /\ proc' = [proc EXCEPT ![p] = [job |-> j, st |-> "alive"]]

ExecStart(n) ==
  /\ At(n, "exec")
  /\ \E p \in Pids :
       /\ Spawn(p, Cur(n))
       /\ tracked' = [tracked EXCEPT ![n] = @ \cup {p}]
       /\ loop' = [loop EXCEPT ![n].pc = "record", ![n].pid = p, ![n].todo = Need(Cur(n))]
  /\ UNCHANGED <<mysql, redis, mon, others>>

\* Mutant: a failed start marks the job Failed without releasing its cards.
ExecStartFailsKeeps(n) ==
  /\ At(n, "exec")
  /\ Fails("Exec") /\ Goto(n, "failed")
  /\ UNCHANGED <<mysql, redis, proc, tracked, mon, others>>

\* HasSystemAccess or the start fails; under "PidTimeout" the process runs but
\* its pid did not arrive in time.
ExecStartFails(n) ==
  /\ At(n, "exec")
  /\ \/ Fails("Exec") /\ UNCHANGED proc
     \/ Fails("PidTimeout") /\ \E p \in Pids : Spawn(p, Cur(n))
  /\ Goto(n, "fail")
  /\ UNCHANGED <<mysql, redis, tracked, mon, others>>

\* ReleaseCards(s.ctx) after a failed UpdateStatus ("undo", status untouched) or
\* after a failed start ("fail", UpdateStatus(Failed) follows).
ExecRelease(n) ==
  /\ At(n, "undo") \/ At(n, "fail")
  /\ \/ CtxLive(n) /\ owner' = Released(Cur(n))
     \/ CtxFails(n, "Release") /\ UNCHANGED owner
  /\ Goto(n, IF At(n, "undo") THEN "dequeue" ELSE "failed")
  /\ UNCHANGED <<status, records, redis, proc, tracked, mon, others>>

ExecFailed(n) ==
  /\ At(n, "failed")
  /\ UpdateStatus(Cur(n), "Failed")
  /\ Goto(n, "dequeue")
  /\ UNCHANGED <<owner, records, redis, proc, tracked, mon, others>>

\* Mutant: without a processes row the start is undone while the process runs.
ExecRecordUndoes(n) ==
  /\ At(n, "record")
  /\ Fails("CreateRecord") /\ Goto(n, "fail")
  /\ UNCHANGED <<mysql, redis, proc, tracked, mon, others>>

\* One processes row per card; on an error executeJob returns.
ExecRecord(n) ==
  /\ At(n, "record")
  /\ \/ \E c \in loop[n].todo :
          /\ records' = records \cup {[pid |-> loop[n].pid, card |-> c, job |-> Cur(n)]}
          /\ loop' = [loop EXCEPT ![n].todo = @ \ {c},
                                  ![n].pc = IF loop[n].todo = {c} THEN "cachePid" ELSE "record"]
     \/ Fails("CreateRecord") /\ UNCHANGED records /\ Goto(n, "dequeue")
  /\ UNCHANGED <<status, owner, redis, proc, tracked, mon, others>>

\* CreatePid(s.ctx), then go monitorJob(jp); on an error no monitor is started.
ExecMonitor(n) ==
  /\ At(n, "cachePid")
  /\ \/ /\ CtxLive(n)
        /\ procCache' = procCache \cup {loop[n].pid}
        /\ mon' = [mon EXCEPT ![n][<<loop[n].pid, GpuIDs[Cur(n)][1]>>] = [MonOff EXCEPT !.pc = "watch"]]
     \/ CtxFails(n, "CreatePid") /\ UNCHANGED <<procCache, mon>>
  /\ Goto(n, "dequeue")
  /\ UNCHANGED <<mysql, queue, lock, proc, tracked, others>>

LoopNext(n) ==
  \/ LoopLock(n) \/ LoopPeek(n) \/ LoopLoad(n) \/ LoopCheck(n) \/ LoopWait(n)
  \/ LoopDequeue(n) \/ LoopUnlock(n)
  \/ ExecAcquire(n) \/ ExecRunning(n) \/ ExecCards(n) \/ ExecStart(n)
  \/ ExecStartFails(n) \/ ExecRelease(n) \/ ExecFailed(n) \/ ExecRecord(n)
  \/ ExecMonitor(n)
=============================================================================
