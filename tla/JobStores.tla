------------------------------ MODULE JobStores ------------------------------
(***************************************************************************)
(* The state the scheduler, its monitors and the request handlers share:   *)
(* MySQL rows (jobs, gpu_cards, processes), Redis keys (queue:jobs, the    *)
(* process cache, lock:queue_process), the processes of the GPU server,    *)
(* and the memory of each instance of the application.  The repositories   *)
(* are thin wrappers of one SQL statement or one Redis command each; they  *)
(* appear here as operators on these variables, and one call of theirs is  *)
(* one step of the actor that makes it.                                    *)
(***************************************************************************)
EXTENDS Integers, Sequences, FiniteSets, SequencesExt

CONSTANTS
  Nodes,      \* instances of the application sharing one MySQL and one Redis
  Booted,     \* the instances that run from the beginning; the others start later
  Clients,    \* concurrent HTTP requests
  Jobs,       \* job ids (auto-increment: never reused)
  Cards,      \* rows of gpu_cards
  CardIDs,    \* ids a request may name; Cards is a subset
  GpuIDs,     \* GpuIDs[j]: the gpu_ids list of job j, as submitted
  Pids,       \* bound: one pid per started process, never reused
  FailLimit,  \* consecutive PidExists errors before a job is given up (10)
  Faults,     \* names of the calls that may fail in this configuration
  Ops,        \* what users, operators and the auditor do in it
  NoJob, NoNode, NoRec, NoPid

Statuses == {"Queued", "Running", "Completed", "Failed", "Cancelled", "WaitingGpu"}
NoRow    == {"Unborn", "Deleted"}        \* no row with this id in the jobs table
Waiting  == {"Queued", "WaitingGpu"}
Terminal == {"Completed", "Failed", "Cancelled"}

\* parseGpuIDs: the cards a job asks for.
Need(j) == Range(GpuIDs[j])

ASSUME StoresAssumption ==
  /\ Cards \subseteq CardIDs /\ IsFiniteSet(Cards)
  /\ GpuIDs \in [Jobs -> Seq(CardIDs)]
  /\ NoJob \notin Jobs /\ NoNode \notin Nodes /\ Booted \subseteq Nodes
  /\ NoPid \notin Pids
  /\ FailLimit \in Nat \ {0}
  /\ NoRec \notin [pid : Pids, card : Cards, job : Jobs]

VARIABLES
  status,     \* MySQL jobs.status
  owner,      \* MySQL gpu_cards: current_job_id, NoJob when the card is idle
  records,    \* MySQL processes with ended_at IS NULL
  queue,      \* Redis ZSET queue:jobs in score order
  procCache,  \* Redis HASH of the pids the scheduler started
  lock,       \* Redis lock:queue_process: the instance whose token it holds
  proc,       \* the GPU server: which job a pid belongs to and how it stands
  node,       \* life of each instance
  tracked,    \* memory: keys of scheduler.runningJobs
  loop,       \* memory: the run() goroutine inside processQueue/executeJob
  mon,        \* memory: the monitorJob goroutines
  scan,       \* memory: recoverRunningJobs / auditRunningJobs
  api         \* memory: request handlers in flight

mysql  == <<status, owner, records>>
redis  == <<queue, procCache, lock>>
memory == <<node, tracked, loop, mon, scan>>
vars   == <<mysql, redis, proc, memory, api>>

Rec      == [pid : Pids, card : Cards, job : Jobs]
MonKey   == Pids \X Cards
LoopIdle == [pc |-> "idle", job |-> NoJob, seen |-> "Unborn", pid |-> NoPid, todo |-> {}]
ScanOff  == [pc |-> "off", mode |-> "audit", jobs |-> {}, job |-> NoJob, recs |-> {}, rec |-> NoRec]
ApiIdle  == [pc |-> "idle", at |-> NoNode, job |-> NoJob, old |-> "Unborn", head |-> NoJob]
MonOff   == [pc |-> "off", fails |-> 0]

-----------------------------------------------------------------------------
(* Calls that can fail, and what a cancelled scheduler context does to them *)

Fails(call) == call \in Faults

\* s.ctx is cancelled by Stop: every call that carries it fails from then on.
CtxLive(n)        == node[n] \in {"recovering", "up"}
CtxFails(n, call) == Fails(call) \/ ~CtxLive(n)

-----------------------------------------------------------------------------
(* jobRepository *)

\* UPDATE jobs SET status WHERE id: unconditional, and no error for no row.
Updated(j, s) == [status EXCEPT ![j] = IF @ \in NoRow THEN @ ELSE s]

\* An UpdateStatus whose error the caller only logs.
UpdateStatus(j, s) ==
  \/ status' = Updated(j, s)
  \/ Fails("UpdateStatus") /\ UNCHANGED status

-----------------------------------------------------------------------------
(* gpuRepository: CheckAvailable, Acquire and Release *)

Idle(j) == {c \in Cards : c \in Need(j) /\ owner[c] = NoJob}

\* Mutant: the count is not compared.
CheckAvailableUncounted(j) == GpuIDs[j] # <<>>

\* SELECT count(*) WHERE id IN ? AND status = idle, compared with len(cardIDs).
CheckAvailable(j) == Cardinality(Idle(j)) = Len(GpuIDs[j])

\* Mutant: current_job_id receives the card's own id.
AcquiredCardId(j) == [c \in Cards |-> IF c \in Need(j) THEN c ELSE owner[c]]

Acquired(j) == [c \in Cards |-> IF c \in Need(j) THEN j ELSE owner[c]]

\* UPDATE ... SET status = idle, current_job_id = NULL WHERE id IN cardIDs.
Released(j) == [c \in Cards |-> IF c \in Need(j) THEN NoJob ELSE owner[c]]

\* A ReleaseCards(Background) whose error the caller only logs.
ReleaseCards(j) ==
  \/ owner' = Released(j)
  \/ Fails("Release") /\ UNCHANGED owner

-----------------------------------------------------------------------------
(* queueRepository, processRepository, processes *)

Position(j) == CHOOSE i \in DOMAIN queue : queue[i] = j

\* ZREM queue:jobs; a member occurs once.
Dequeued(j) == IF j \in Range(queue) THEN RemoveAt(queue, Position(j)) ELSE queue

\* ZADD queue:jobs: the position is the score's business (module JobQueue).
Enqueued(j) ==
  LET q == Dequeued(j) IN {InsertAt(q, i, j) : i \in 1..(Len(q) + 1)}

\* Writing ended_at, and HDEL of the process cache: errors are only logged.
EndRecords(rs) ==
  \E done \in SUBSET rs :
    /\ done = rs \/ Fails("EndRecord")
    /\ records' = records \ done

DelPid(ps) ==
  \/ procCache' = procCache \ ps
  \/ Fails("DelPid") /\ UNCHANGED procCache

FindActiveByJobID(j) == {r \in records : r.job = j}

\* gopsutil PidExists on the GPU server.
PidExists(p) == proc[p].st = "alive"
=============================================================================
