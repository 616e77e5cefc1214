-------------------------------- MODULE JobApi --------------------------------
(***************************************************************************)
(* The HTTP handlers that change jobs and the queue: SubmitJob, CancelJob, *)
(* the administrator's RemoveJob and ReorderQueue/MoveBefore.  A handler   *)
(* runs in its own goroutine; every MySQL or Redis call is a step, and     *)
(* what it read before a call is a local it keeps using afterwards.        *)
(***************************************************************************)
EXTENDS JobStores

otherThanApi == <<owner, records, procCache, lock, proc, memory>>

\* The server listens from the end of Start to server.Shutdown, and that comes
\* after scheduler.Stop.
Serving(n) == node[n] \in {"up", "stopping", "stopped"}

Call(c, n, pc, j, old) ==
  /\ api[c].pc = "idle" /\ Serving(n)
  /\ api' = [api EXCEPT ![c] = [ApiIdle EXCEPT !.pc = pc, !.at = n, !.job = j, !.old = old]]
Step(c, from, to) == /\ api[c].pc = from
                     /\ api' = [api EXCEPT ![c].pc = to]
Reply(c, from)    == /\ api[c].pc = from
                     /\ api' = [api EXCEPT ![c] = ApiIdle]

-----------------------------------------------------------------------------
(* jobService.SubmitJob: insert the row, then ZADD; delete the row on error *)

SubmitCreate(c, n, j) ==
  /\ status[j] = "Unborn"
  /\ Call(c, n, "enqueue", j, "Unborn")
  /\ status' = [status EXCEPT ![j] = "Queued"]
  /\ UNCHANGED <<queue, otherThanApi>>

SubmitEnqueue(c) ==
  LET j == api[c].job IN
  /\ \/ Reply(c, "enqueue") /\ queue' \in Enqueued(j)
     \* an error reply: the ZADD may or may not have been applied
     \/ /\ Fails("ZAdd") /\ Step(c, "enqueue", "delete")
        /\ queue' \in {queue} \cup Enqueued(j)
  /\ UNCHANGED <<status, otherThanApi>>

SubmitRollback(c) ==
  /\ Reply(c, "delete")
  /\ \/ status' = [status EXCEPT ![api[c].job] = "Deleted"]
     \/ Fails("Delete") /\ UNCHANGED status
  /\ UNCHANGED <<queue, otherThanApi>>

-----------------------------------------------------------------------------
(* jobService.CancelJob *)

CancelRead(c, n, j) ==
  /\ "cancel" \in Ops
  /\ status[j] \in Waiting
  /\ Call(c, n, "cancel", j, status[j])
  /\ UNCHANGED <<status, queue, otherThanApi>>

CancelWrite(c) ==
  /\ \/ Step(c, "cancel", "zrem") /\ status' = Updated(api[c].job, "Cancelled")
     \/ Fails("UpdateStatus") /\ Reply(c, "cancel") /\ UNCHANGED status
  /\ UNCHANGED <<queue, otherThanApi>>

CancelDequeue(c) ==
  /\ \/ Reply(c, "zrem") /\ queue' = Dequeued(api[c].job)
     \/ Fails("Remove") /\ Step(c, "zrem", "restore") /\ UNCHANGED queue
  /\ UNCHANGED <<status, otherThanApi>>

\* The rollback writes back the status read at the start of the request.
CancelRollback(c) ==
  /\ Reply(c, "restore")
  /\ UpdateStatus(api[c].job, api[c].old)
  /\ UNCHANGED <<queue, otherThanApi>>

-----------------------------------------------------------------------------
(* queue controller RemoveJob: ZREM first, then the status it read earlier  *)

RemoveRead(c, n, j) ==
  /\ "remove" \in Ops
  /\ status[j] \notin NoRow
  /\ Call(c, n, "remove", j, status[j])
  /\ UNCHANGED <<status, queue, otherThanApi>>

RemoveDequeue(c) ==
  /\ \/ /\ queue' = Dequeued(api[c].job)
        /\ \/ api[c].old \in Waiting /\ Step(c, "remove", "mark")
           \/ api[c].old \notin Waiting /\ Reply(c, "remove")
     \/ Fails("Remove") /\ Reply(c, "remove") /\ UNCHANGED queue
  /\ UNCHANGED <<status, otherThanApi>>

RemoveMark(c) ==
  /\ Reply(c, "mark")
  /\ UpdateStatus(api[c].job, "Cancelled")
  /\ UNCHANGED <<queue, otherThanApi>>

-----------------------------------------------------------------------------
(* queue controller ReorderQueue and queueService.MoveBefore                *)

\* Both jobs exist and are not Running, the target is in the queue (Rank and
\* Score succeed), and the head of the queue is noted before the move.
ReorderRead(c, n, j, target) ==
  /\ "reorder" \in Ops
  /\ \A i \in {j, target} : status[i] \notin NoRow \cup {"Running"}
  /\ target \in Range(queue)
  /\ api[c].pc = "idle" /\ Serving(n)
  /\ api' = [api EXCEPT ![c] = [ApiIdle EXCEPT !.pc = "move", !.at = n, !.job = j, !.head = Head(queue)]]
  /\ UNCHANGED <<status, queue, otherThanApi>>

\* ZADD with the computed score, whether or not the job is queued by now; then
\* UpdateSug, which touches no column the model keeps but may fail.
ReorderMove(c) ==
  /\ \/ Step(c, "move", "rankHead") /\ queue' \in Enqueued(api[c].job)
     \/ Fails("UpdateSug") /\ Reply(c, "move") /\ queue' \in Enqueued(api[c].job)
     \/ Fails("ZAdd") /\ Reply(c, "move") /\ UNCHANGED queue
  /\ UNCHANGED <<status, otherThanApi>>

\* fixJobStatusIfMovedFromHead: ask for the rank, load the job, write the status,
\* each in its turn; the last is unconditional.
Finish(c, from, to) == IF to = "idle" THEN Reply(c, from) ELSE Step(c, from, to)

FixRank(c, j, from, load, skip) ==
  /\ LET behind == j \in Range(queue) /\ j # Head(queue) IN
     \/ behind /\ Step(c, from, load)
     \/ (~behind \/ Fails("Rank")) /\ Finish(c, from, skip)
  /\ UNCHANGED <<status, queue, otherThanApi>>

FixLoad(c, j, from, write, skip) ==
  /\ api[c].pc = from
  /\ \/ status[j] = "WaitingGpu" /\ Step(c, from, write)
     \/ (status[j] # "WaitingGpu" \/ Fails("GetByID")) /\ Finish(c, from, skip)
  /\ UNCHANGED <<status, queue, otherThanApi>>

FixWrite(c, j, from, next) ==
  /\ Finish(c, from, next)
  /\ UpdateStatus(j, "Queued")
  /\ UNCHANGED <<queue, otherThanApi>>

\* First the former head, then the moved job.
ReorderFixHead(c) ==
  LET j == api[c].head IN
  \/ FixRank(c, j, "rankHead", "loadHead", "rankMoved")
  \/ FixLoad(c, j, "loadHead", "resetHead", "rankMoved")
  \/ FixWrite(c, j, "resetHead", "rankMoved")

ReorderFixMoved(c) ==
  LET j == api[c].job IN
  \/ FixRank(c, j, "rankMoved", "loadMoved", "idle")
  \/ FixLoad(c, j, "loadMoved", "resetMoved", "idle")
  \/ FixWrite(c, j, "resetMoved", "idle")

\* The steps a handler that has begun still owes.
ApiContinue(c) ==
  \/ SubmitEnqueue(c) \/ SubmitRollback(c)
  \/ CancelWrite(c) \/ CancelDequeue(c) \/ CancelRollback(c)
  \/ RemoveDequeue(c) \/ RemoveMark(c)
  \/ ReorderMove(c) \/ ReorderFixHead(c) \/ ReorderFixMoved(c)

ApiNext(c) ==
  \/ \E n \in Nodes, j \in Jobs :
       \/ SubmitCreate(c, n, j) \/ CancelRead(c, n, j) \/ RemoveRead(c, n, j)
       \/ \E target \in Jobs : ReorderRead(c, n, j, target)
  \/ ApiContinue(c)
=============================================================================
