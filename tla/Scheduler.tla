------------------------------ MODULE Scheduler ------------------------------
(***************************************************************************)
(* CloudQue's job scheduling as a whole: request handlers, scheduler loop, *)
(* monitors, recovery and audit of every instance over the shared stores,  *)
(* with graceful stop, crash and restart of an instance.                   *)
(***************************************************************************)
EXTENDS JobApi, SchedulerLoop, JobMonitor

\* A new deployment: empty tables, idle cards (SyncGpuCards), and the
\* first instances past an empty recovery.
Init ==
  /\ status = [j \in Jobs |-> "Unborn"]
  /\ owner = [c \in Cards |-> NoJob]
  /\ records = {} /\ queue = <<>> /\ procCache = {} /\ lock = NoNode
  /\ proc = [p \in Pids |-> [job |-> NoJob, st |-> "free"]]
  /\ node = [n \in Nodes |-> IF n \in Booted THEN "up" ELSE "down"]
  /\ tracked = [n \in Nodes |-> {}]
  /\ loop = [n \in Nodes |-> LoopIdle]
  /\ mon = [n \in Nodes |-> [k \in MonKey |-> MonOff]]
  /\ scan = [n \in Nodes |-> ScanOff]
  /\ api = [c \in Clients |-> ApiIdle]

-----------------------------------------------------------------------------
(* Life of an instance: Start, Stop, gracefulShutdown, crash *)

\* Stop cancels the context and waits for run, auditor and monitors.
Stop(n) ==
  /\ "stop" \in Ops /\ node[n] = "up"
  /\ node' = [node EXCEPT ![n] = "stopping"]
  /\ UNCHANGED <<mysql, redis, proc, tracked, loop, mon, scan, api>>

StopWaited(n) ==
  /\ node[n] = "stopping"
  /\ loop[n].pc = "idle" /\ scan[n].pc = "off"
  /\ \A k \in MonKey : mon[n][k].pc = "off"
  /\ node' = [node EXCEPT ![n] = "stopped"]
  /\ UNCHANGED <<mysql, redis, proc, tracked, loop, mon, scan, api>>

\* Memory is lost: goroutines, runningJobs and the handlers in flight.
Lose(n) ==
  /\ node' = [node EXCEPT ![n] = "down"]
  /\ tracked' = [tracked EXCEPT ![n] = {}]
  /\ loop' = [loop EXCEPT ![n] = LoopIdle]
  /\ mon' = [mon EXCEPT ![n] = [k \in MonKey |-> MonOff]]
  /\ scan' = [scan EXCEPT ![n] = ScanOff]
  /\ api' = [c \in Clients |-> IF api[c].at = n THEN ApiIdle ELSE api[c]]
  /\ UNCHANGED <<mysql, redis, proc>>

\* server.Shutdown gives the handlers in flight 5 s; the process exits.
Exit(n) == node[n] = "stopped" /\ Lose(n)

Crash(n) == "crash" \in Ops /\ node[n] # "down" /\ Lose(n)

\* Start: recoverRunningJobs runs to its end before run and the server.
Start(n) ==
  /\ node[n] = "down"
  /\ node' = [node EXCEPT ![n] = "recovering"]
  /\ scan' = [scan EXCEPT ![n] = [ScanOff EXCEPT !.pc = "list", !.mode = "recover"]]
  /\ UNCHANGED <<mysql, redis, proc, tracked, loop, mon, api>>

LifeNext(n) == Stop(n) \/ StopWaited(n) \/ Exit(n) \/ Crash(n) \/ Start(n)

Next ==
  \/ \E c \in Clients : ApiNext(c)
  \/ \E n \in Nodes :
       \/ LoopNext(n) \/ AuditStart(n) \/ ScanNext(n) \/ LifeNext(n)
       \/ \E k \in MonKey : MonNext(n, k)
  \/ \E p \in Pids : ProcExit(p)
  \/ LockExpire

Spec == Init /\ [][Next]_vars

\* Goroutines that can run do run, handlers that began go on, an abandoned lock
\* lapses, a stopped instance is started again, and training scripts end.  What
\* users do, faults, Stop and Crash is never owed.
Fairness ==
  /\ \A n \in Nodes :
       /\ WF_vars(LoopNext(n)) /\ WF_vars(ScanNext(n)) /\ WF_vars(StopWaited(n) \/ Exit(n) \/ Start(n))
       /\ \A k \in MonKey : WF_vars(MonNext(n, k))
  /\ \A c \in Clients : WF_vars(ApiContinue(c))
  /\ \A p \in Pids : WF_vars(ProcExit(p))
  /\ WF_vars(LockExpire)

FairSpec == Spec /\ Fairness

-----------------------------------------------------------------------------
(* Properties *)

AnyStatus == Statuses \cup NoRow
LoopPCs   == {"idle", "peek", "load", "check", "wait", "acquire", "running", "cards", "exec",
              "undo", "fail", "failed", "record", "cachePid", "dequeue", "unlock"}
ApiPCs    == {"idle", "enqueue", "delete", "cancel", "zrem", "restore", "remove", "mark",
              "move", "rankHead", "loadHead", "resetHead", "rankMoved", "loadMoved", "resetMoved"}
LoopState == [pc : LoopPCs, job : Jobs \cup {NoJob}, seen : AnyStatus,
              pid : Pids \cup {NoPid}, todo : SUBSET CardIDs]
MonState  == [pc : {"off", "watch", "untrack", "end", "release"}, fails : Nat]
ScanState == [pc : {"off", "list", "next", "each", "failed", "end", "release"},
              mode : {"recover", "audit"}, jobs : SUBSET Jobs, job : Jobs \cup {NoJob},
              recs : SUBSET Rec, rec : Rec \cup {NoRec}]
ApiState  == [pc : ApiPCs, at : Nodes \cup {NoNode}, job : Jobs \cup {NoJob},
              old : AnyStatus, head : Jobs \cup {NoJob}]

\* The stores and the memory of every instance hold what the code can put there:
\* ids that exist, statuses of the enum, goroutines at a call they can make.
TypeOK ==
  /\ status \in [Jobs -> AnyStatus]
  /\ owner \in [Cards -> Jobs \cup {NoJob}]
  /\ records \subseteq Rec
  /\ queue \in Seq(Jobs)
  /\ procCache \subseteq Pids
  /\ lock \in Nodes \cup {NoNode}
  /\ proc \in [Pids -> [job : Jobs \cup {NoJob}, st : {"free", "alive", "ok", "bad"}]]
  /\ node \in [Nodes -> {"down", "recovering", "up", "stopping", "stopped"}]
  /\ tracked \in [Nodes -> SUBSET Pids]
  /\ loop \in [Nodes -> LoopState]
  /\ mon \in [Nodes -> [MonKey -> MonState]]
  /\ scan \in [Nodes -> ScanState]
  /\ api \in [Clients -> ApiState]

\* Two live processes that the scheduler started never share a GPU card
\* (executeJob exports CUDA_VISIBLE_DEVICES from the job's cards).
CardExclusive ==
  \A p, q \in Pids :
    p # q /\ PidExists(p) /\ PidExists(q) => Need(proc[p].job) \cap Need(proc[q].job) = {}

\* A live process sits on cards that gpu_cards records as its job's: nothing
\* releases or hands out a card under a process that still uses it.
LiveHoldsCards ==
  \A p \in Pids : PidExists(p) => \A c \in Need(proc[p].job) : owner[c] = proc[p].job

\* A job the monitor has declared Completed or Failed has no process left.
SettledMeansDead ==
  \A p \in Pids : PidExists(p) => status[proc[p].job] \notin {"Completed", "Failed"}

\* Completed is never invented: some process of the job ran to a clean end.
CompletedMeansExited ==
  \A j \in Jobs : status[j] = "Completed" => \E p \in Pids : proc[p].job = j /\ proc[p].st = "ok"

\* executeJob holds the cards it acquired and has not handed them to a monitor.
Holding == {"running", "cards", "exec", "undo", "fail", "record", "cachePid"}

\* The goroutine that will release the cards of job j.
Starting(n, j) == loop[n].job = j /\ loop[n].pc \in Holding
Watching(n, j) == \E k \in MonKey : mon[n][k].pc # "off" /\ JobOf(k) = j

\* No card leaks: a card marked busy belongs to a job that executeJob is
\* starting or a monitor is watching, so somebody still has to release it.
HeldHasKeeper ==
  \A c \in Cards : owner[c] # NoJob =>
    \E n \in Nodes : Starting(n, owner[c]) \/ Watching(n, owner[c])

\* No job is stranded: one that waits is in the queue, or its submission is
\* still in progress (SubmitJob inserts the row before the ZADD).
WaitingIsQueued ==
  \A j \in Jobs : status[j] \in Waiting =>
    \/ j \in Range(queue)
    \/ \E c \in Clients : api[c].job = j /\ api[c].pc \in {"enqueue", "delete"}

\* No instance stops, crashes or starts late, no audit runs, and the GPU server
\* answers.  Everything else may fail.
Calm == /\ Booted = Nodes
        /\ Ops \cap {"stop", "crash", "audit"} = {}
        /\ Faults \cap {"PidExists", "PidTimeout"} = {}

\* What keeps the cards safe in calm times: whoever will release a job's cards
\* holds them, is the only one, and does so when no process of the job is left.
Holds(j) == Need(j) \subseteq Cards /\ \A c \in Need(j) : owner[c] = j

KeepersHold ==
  /\ \A n \in Nodes : loop[n].pc \in Holding => Holds(loop[n].job)
  /\ \A n \in Nodes, k \in MonKey : mon[n][k].pc # "off" => Holds(JobOf(k))

SoleKeeper ==
  /\ \A n, m \in Nodes : loop[n].pc \in Holding /\ Starting(m, loop[n].job) => m = n
  /\ \A n, m \in Nodes, k \in MonKey :
       loop[n].pc \in Holding /\ mon[m][k].pc # "off" => JobOf(k) # loop[n].job
  /\ \A n, m \in Nodes, k, l \in MonKey :
       mon[n][k].pc # "off" /\ mon[m][l].pc # "off" /\ JobOf(k) = JobOf(l) => n = m /\ k = l

\* The live processes a keeper answers for: none, or the one it started.
KeeperKnows ==
  /\ \A n \in Nodes, p \in Pids : PidExists(p) /\ Starting(n, proc[p].job) =>
       loop[n].pc \in {"record", "cachePid"} /\ loop[n].pid = p
  /\ \A n \in Nodes, k \in MonKey, p \in Pids :
       PidExists(p) /\ mon[n][k].pc # "off" /\ JobOf(k) = proc[p].job =>
         mon[n][k].pc = "watch" /\ k[1] = p

LiveOnce ==
  \A p, q \in Pids : PidExists(p) /\ PidExists(q) /\ proc[p].job = proc[q].job => p = q

\* Together: the cards of every job that executeJob is starting or a monitor is
\* watching are in one pair of hands, which lets go when the process is gone.
Custody == KeepersHold /\ SoleKeeper /\ KeeperKnows /\ LiveOnce

\* A process with an active record keeps its cards, through crashes too.
RecordedHoldsCards ==
  \A r \in records : PidExists(r.pid) => owner[r.card] = r.job

\* Once an instance is past recovery, every recorded live process of a Running
\* job is watched by a monitor or still being started by the loop.
RunningIsWatched ==
  \A n \in Nodes, r \in records :
    node[n] = "up" /\ PidExists(r.pid) /\ status[r.job] = "Running" =>
      Watching(n, r.job) \/ Starting(n, r.job)

\* A job that ended stays ended, unless SubmitJob's rollback deletes its row.
TerminalIsFinal ==
  [][\A j \in Jobs : status[j] \in Terminal => status'[j] \in {status[j], "Deleted"}]_status

\* What Tasks says of a pid, in terms of the scheduler's state.
TaskOf(p) ==
  CASE proc[p].st = "free" -> "free"
    [] proc[p].st \in {"ok", "bad"} -> "gone"
    [] PidExists(p) /\ p \in procCache -> "live"
    [] PidExists(p) /\ p \notin procCache ->
         IF \E n \in Nodes : loop[n].pid = p /\ loop[n].pc \in {"record", "cachePid"}
         THEN "starting" ELSE "stray"

Listed == INSTANCE Tasks WITH task <- [p \in Pids |-> TaskOf(p)], cache <- procCache

\* The hash job:pid can be trusted: as long as no instance stops or crashes, the
\* process of every job that was started is listed there until it is gone.
ListsTasks == Listed!TaskSpec

\* Every submitted job is eventually Completed or Failed, or its submission was
\* rolled back.
JobsSettle == \A j \in Jobs : status[j] = "Queued" ~> status[j] \in Terminal \cup NoRow

\* Every busy card is eventually released.
CardsReleased == \A c \in Cards : owner[c] # NoJob ~> owner[c] = NoJob

=============================================================================
