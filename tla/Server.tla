------------------------------- MODULE Server -------------------------------
(***************************************************************************)
(* One server process: the WebSocket pool with its two pumps per client,   *)
(* the two pushers that broadcast into it every 2 s, the operation log's   *)
(* queue and writer, the daily disk usage task, the goroutines of the      *)
(* scheduler and of the resource collector, and gracefulShutdown, which    *)
(* stops them one after the other and waits for each.  A send on a closed  *)
(* channel panics: in a goroutine of its own that ends the process, in a   *)
(* handler gin's Recovery catches it.  What the scheduler and the reaper   *)
(* do is in modules Scheduler and Reaper; here their goroutines end, or    *)
(* stay in a command that has no timeout.                                  *)
(***************************************************************************)
EXTENDS Naturals, FiniteSets

CONSTANTS
  Clients,    \* WebSocket clients of administrators, each connects once
  Kind,       \* [Clients -> Kinds]
  Reqs,       \* handlers of requests that are logged
  LogCap      \* capacity of logChan (2000 in the code)

Kinds == {"systemInfo", "homeOverview"}
Tasks == {"first", "daily"}   \* the run at the start, the one at 3 o'clock
Workers   == {"run", "auditor", "monitor", "terminator", "cleaner"}
Context(w) == IF w \in {"terminator", "cleaner"} THEN "systemInfo" ELSE "scheduler"
Commands  == {"run", "monitor", "terminator"}   \* run ssh or nvidia-smi, without a timeout

ASSUME ServerAssumption ==
  /\ Kind \in [Clients -> Kinds] /\ IsFiniteSet(Clients)
  /\ LogCap \in Nat \ {0}

VARIABLES
  main,       \* gracefulShutdown: pc, and the clients CloseAll has collected
  client,     \* "new" | "open" | "closed"
  pumps,      \* which of its goroutines run
  count,      \* systemInfoCount
  pusher,     \* the pushers: pc, and the clients still to send to
  cancelled,  \* contexts that were cancelled
  worker,     \* the goroutines of scheduler and collector: "on" | "hung" | "off"
  disk,       \* the disk usage goroutines: "wait" | "run" | "hung" | "off"
  req,        \* "idle" | "run"
  logq,       \* entries in logChan
  logger      \* the writer: "on" | "closed" (logChan is) | "off"

pool == <<client, pumps, count>>
logs == <<logq, logger>>
vars == <<main, pool, pusher, cancelled, worker, disk, req, logs>>

Waiting    == [pc |-> "wait", todo |-> {}]
Stopped    == [pc |-> "off", todo |-> {}]

Init ==
  /\ main = [pc |-> "up", todo |-> {}]
  /\ client = [c \in Clients |-> "new"]
  /\ pumps = [c \in Clients |-> {}] /\ count = 0
  /\ pusher = [k \in Kinds |-> Waiting] /\ cancelled = {}
  /\ worker = [w \in Workers |-> "on"] /\ disk = [t \in Tasks |-> "wait"]
  /\ req = [r \in Reqs |-> "idle"]
  /\ logq = 0 /\ logger = "on"

Alive     == main.pc \notin {"exited", "crashed"}
Accepting == main.pc \notin {"http", "ssh", "exited", "crashed"}

-----------------------------------------------------------------------------
(* The WebSocket pool *)

\* HandleSyMessage, HandleHomeMessage: a handler may get here while the server
\* is being shut down.
Add(c) ==
  /\ Alive /\ client[c] = "new"
  /\ client' = [client EXCEPT ![c] = "open"]
  /\ pumps' = [pumps EXCEPT ![c] = {"read", "write"}]
  /\ count' = IF Kind[c] = "systemInfo" THEN count + 1 ELSE count
  /\ UNCHANGED <<main, pusher, cancelled, worker, disk, req, logs>>

\* Mutant: without sync.Once every caller counts down.
CloseTwice(c) ==
  /\ client' = [client EXCEPT ![c] = "closed"]
  /\ count' = IF Kind[c] = "systemInfo" /\ count > 0 THEN count - 1 ELSE count

\* Client.Close, under the pool's lock and once: out of the pool, both
\* channels and the connection closed.
Close(c) ==
  /\ client' = [client EXCEPT ![c] = "closed"]
  /\ count' = IF client[c] = "open" /\ Kind[c] = "systemInfo" /\ count > 0 THEN count - 1 ELSE count

\* Mutant: the read pump returns without its deferred Close.
ReadPumpLeaves(c) ==
  /\ Alive /\ "read" \in pumps[c]
  /\ pumps' = [pumps EXCEPT ![c] = @ \ {"read"}]
  /\ UNCHANGED <<main, client, count, pusher, cancelled, worker, disk, req, logs>>

\* A read fails: the peer left, no pong for 60 s, or the connection is closed.
ReadPumpEnds(c) ==
  /\ Alive /\ "read" \in pumps[c]
  /\ pumps' = [pumps EXCEPT ![c] = @ \ {"read"}] /\ Close(c)
  /\ UNCHANGED <<main, pusher, cancelled, worker, disk, req, logs>>

\* A write or a ping fails, or Send is closed.
WritePumpEnds(c) ==
  /\ Alive /\ "write" \in pumps[c]
  /\ pumps' = [pumps EXCEPT ![c] = @ \ {"write"}] /\ Close(c)
  /\ UNCHANGED <<main, pusher, cancelled, worker, disk, req, logs>>

-----------------------------------------------------------------------------
(* startInfoPusher and HomeOverviewCollector, every 2 s *)

InPool(k) == {c \in Clients : client[c] = "open" /\ Kind[c] = k}
IsHavingConnection(k) == IF k = "systemInfo" THEN count > 0 ELSE InPool(k) # {}

PushTick(k) ==
  /\ Alive /\ pusher[k].pc = "wait" /\ IsHavingConnection(k)
  /\ pusher' = [pusher EXCEPT ![k].pc = "collect"]
  /\ UNCHANGED <<main, pool, cancelled, worker, disk, req, logs>>

\* The data may fail to be collected; Broadcast gathers clients under the lock.
PushGather(k) ==
  /\ Alive /\ pusher[k].pc = "collect"
  /\ \/ pusher' = [pusher EXCEPT ![k] = [pc |-> "send", todo |-> InPool(k)]]
     \/ pusher' = [pusher EXCEPT ![k] = Waiting]
  /\ UNCHANGED <<main, pool, cancelled, worker, disk, req, logs>>

\* Outside the lock: the message goes into the client's channel, or is dropped
\* when that is full; a channel closed since panics.
BroadcastToAdminsByType(k, c) ==
  /\ Alive /\ c \in pusher[k].todo
  /\ \/ /\ client[c] = "open"
        /\ pusher' = [pusher EXCEPT ![k].todo = @ \ {c}]
        /\ UNCHANGED <<main, pumps>>
     \/ /\ client[c] = "closed"
        /\ main' = [pc |-> "crashed", todo |-> {}]
        /\ pumps' = [d \in Clients |-> {}] /\ UNCHANGED pusher
  /\ UNCHANGED <<client, count, cancelled, worker, disk, req, logs>>

PushDone(k) ==
  /\ Alive /\ pusher[k] = [pc |-> "send", todo |-> {}]
  /\ pusher' = [pusher EXCEPT ![k] = Waiting]
  /\ UNCHANGED <<main, pool, cancelled, worker, disk, req, logs>>

PushStop(k) ==
  /\ Alive /\ pusher[k].pc = "wait" /\ k \in cancelled
  /\ pusher' = [pusher EXCEPT ![k] = Stopped]
  /\ UNCHANGED <<main, pool, cancelled, worker, disk, req, logs>>

-----------------------------------------------------------------------------
(* The operation log *)

ReqStart(r) ==
  /\ Accepting /\ req[r] = "idle"
  /\ req' = [req EXCEPT ![r] = "run"]
  /\ UNCHANGED <<main, pool, pusher, cancelled, worker, disk, logs>>

\* UserOperationLogs after the handler: a request without a user or a type is
\* not logged, a full queue drops the entry, a closed one panics (recovered).
ReqEnd(r) ==
  /\ Alive /\ req[r] = "run"
  /\ req' = [req EXCEPT ![r] = "idle"]
  /\ \/ UNCHANGED logq
     \/ logger = "on" /\ logq < LogCap /\ logq' = logq + 1
  /\ UNCHANGED <<main, pool, pusher, cancelled, worker, disk, logger>>

\* CreateLog may fail: the entry is then dropped, with an error in the log file.
LogWrite ==
  /\ Alive /\ logger # "off" /\ logq > 0
  /\ logq' = logq - 1
  /\ UNCHANGED <<main, pool, pusher, cancelled, worker, disk, req, logger>>

LogWriterEnds ==
  /\ Alive /\ logger = "closed" /\ logq = 0
  /\ logger' = "off"
  /\ UNCHANGED <<main, pool, pusher, cancelled, worker, disk, req, logq>>

-----------------------------------------------------------------------------
(* DiskUsageScheduler *)

AfterTask(t) == IF t = "first" THEN "off" ELSE "wait"

\* executeTask: TryLock, or the run is skipped.
DiskBegin(t) ==
  /\ Alive /\ disk[t] = "wait"
  /\ disk' = [disk EXCEPT ![t] = IF \E s \in Tasks : disk[s] \in {"run", "hung"} THEN AfterTask(t) ELSE "run"]
  /\ UNCHANGED <<main, pool, pusher, cancelled, worker, req, logs>>

\* CalculateAllUsersDiskUsage has measured the directories, or failed to list
\* the users; an error with one of them skips it.
DiskEnd(t) ==
  /\ Alive /\ disk[t] = "run"
  /\ disk' = [disk EXCEPT ![t] = AfterTask(t)]
  /\ UNCHANGED <<main, pool, pusher, cancelled, worker, req, logs>>

\* A du over ssh that never comes back; before the shutdown nobody waits for it.
DiskHangs(t) ==
  /\ Alive /\ disk[t] = "run" /\ "disk" \in cancelled
  /\ disk' = [disk EXCEPT ![t] = "hung"]
  /\ UNCHANGED <<main, pool, pusher, cancelled, worker, req, logs>>

DiskStop ==
  /\ Alive /\ disk["daily"] = "wait" /\ "disk" \in cancelled
  /\ disk' = [disk EXCEPT !["daily"] = "off"]
  /\ UNCHANGED <<main, pool, pusher, cancelled, worker, req, logs>>

-----------------------------------------------------------------------------
(* The goroutines of the scheduler and of the resource collector *)

\* The round it is in ends, and select takes the cancelled context.
WorkerStops(w) ==
  /\ Alive /\ worker[w] = "on" /\ Context(w) \in cancelled
  /\ worker' = [worker EXCEPT ![w] = "off"]
  /\ UNCHANGED <<main, pool, pusher, cancelled, disk, req, logs>>

\* The command of its round never returns; before the shutdown nobody waits for it.
WorkerHangs(w) ==
  /\ Alive /\ worker[w] = "on" /\ w \in Commands /\ Context(w) \in cancelled
  /\ worker' = [worker EXCEPT ![w] = "hung"]
  /\ UNCHANGED <<main, pool, pusher, cancelled, disk, req, logs>>

\* The round that was going on when Stop cancelled the context starts a job:
\* one more goroutine for Stop to wait for.
StartMonitor ==
  /\ Alive /\ worker["run"] = "on" /\ worker["monitor"] = "off"
  /\ worker' = [worker EXCEPT !["monitor"] = "on"]
  /\ UNCHANGED <<main, pool, pusher, cancelled, disk, req, logs>>

-----------------------------------------------------------------------------
(* gracefulShutdown *)

\* A signal; CloseAll collects the clients under the lock.
Quit ==
  /\ main.pc = "up"
  /\ main' = [pc |-> "pool", todo |-> {c \in Clients : client[c] = "open"}]
  /\ UNCHANGED <<pool, pusher, cancelled, worker, disk, req, logs>>

CloseAll(c) ==
  /\ main.pc = "pool" /\ c \in main.todo
  /\ main' = [main EXCEPT !.todo = @ \ {c}] /\ Close(c)
  /\ UNCHANGED <<pumps, pusher, cancelled, worker, disk, req, logs>>

MainGoto(from, to) == main.pc = from /\ main' = [pc |-> to, todo |-> {}]

\* Stop of each service: cancel its context, wait for its goroutines.
\* CloseAllTerminals, before the first, waits for nobody.
StopScheduler ==
  /\ MainGoto("pool", "sched") /\ main.todo = {}
  /\ cancelled' = cancelled \cup {"scheduler"}
  /\ UNCHANGED <<pool, pusher, worker, disk, req, logs>>

Ended(ctx) == \A w \in Workers : Context(w) = ctx => worker[w] = "off"

StopDisk ==
  /\ MainGoto("sched", "disk") /\ Ended("scheduler")
  /\ cancelled' = cancelled \cup {"disk"}
  /\ UNCHANGED <<pool, pusher, worker, disk, req, logs>>


StopInfo ==
  /\ MainGoto("disk", "info") /\ \A t \in Tasks : disk[t] = "off"
  /\ cancelled' = cancelled \cup {"systemInfo"}
  /\ UNCHANGED <<pool, pusher, worker, disk, req, logs>>

StopHome ==
  /\ MainGoto("info", "home") /\ pusher["systemInfo"].pc = "off" /\ Ended("systemInfo")
  /\ cancelled' = cancelled \cup {"homeOverview"}
  /\ UNCHANGED <<pool, pusher, worker, disk, req, logs>>

CloseLogs ==
  /\ MainGoto("home", "logs") /\ pusher["homeOverview"].pc = "off"
  /\ logger' = "closed"
  /\ UNCHANGED <<pool, pusher, cancelled, worker, disk, req, logq>>

\* Mutant: Close does not wait for the writer.
ShutdownHttpEarly ==
  /\ MainGoto("logs", "http")
  /\ UNCHANGED <<pool, pusher, cancelled, worker, disk, req, logs>>

ShutdownHttp ==
  /\ MainGoto("logs", "http") /\ logger = "off"
  /\ UNCHANGED <<pool, pusher, cancelled, worker, disk, req, logs>>

\* server.Shutdown returns when the handlers are done, or after 5 s.
CloseSessions ==
  /\ MainGoto("http", "ssh")
  /\ UNCHANGED <<pool, pusher, cancelled, worker, disk, req, logs>>

Exit ==
  /\ MainGoto("ssh", "exited")
  /\ pumps' = [c \in Clients |-> {}]
  /\ UNCHANGED <<client, count, pusher, cancelled, worker, disk, req, logs>>

-----------------------------------------------------------------------------
PoolNext(c) == Add(c) \/ ReadPumpEnds(c) \/ WritePumpEnds(c)
PushStep(k) == PushGather(k) \/ (\E c \in Clients : BroadcastToAdminsByType(k, c)) \/ PushDone(k) \/ PushStop(k)
LogNext     == LogWrite \/ LogWriterEnds
DiskNext    == DiskStop \/ \E t \in Tasks : DiskBegin(t) \/ DiskEnd(t) \/ DiskHangs(t)
WorkerNext  == StartMonitor \/ \E w \in Workers : WorkerStops(w) \/ WorkerHangs(w)
MainStep    == \/ (\E c \in Clients : CloseAll(c)) \/ StopScheduler \/ StopDisk \/ StopInfo \/ StopHome
               \/ CloseLogs \/ ShutdownHttp \/ CloseSessions \/ Exit

Next ==
  \/ \E c \in Clients : PoolNext(c)
  \/ \E k \in Kinds : PushTick(k) \/ PushStep(k)
  \/ \E r \in Reqs : ReqStart(r) \/ ReqEnd(r)
  \/ LogNext \/ DiskNext \/ WorkerNext
  \/ Quit \/ MainStep

Spec == Init /\ [][Next]_vars

\* Goroutines go on; nobody has to send the signal, open a connection or make
\* one fail.  select takes a cancelled context in the end, although the ticker
\* may come first a few times.
Fairness ==
  /\ \A c \in Clients : /\ WF_vars(client[c] = "closed" /\ ReadPumpEnds(c))
                        /\ WF_vars(client[c] = "closed" /\ WritePumpEnds(c))
  /\ \A k \in Kinds : WF_vars(PushStep(k)) /\ SF_vars(PushStop(k))
  /\ WF_vars(LogNext)
  /\ WF_vars(DiskBegin("first")) /\ SF_vars(DiskStop)
  /\ \A t \in Tasks : WF_vars(DiskEnd(t))
  /\ \A w \in Workers : WF_vars(WorkerStops(w))
  /\ WF_vars(MainStep)

FairSpec == Spec /\ Fairness

-----------------------------------------------------------------------------
(* Properties *)

\* The state holds what the code can put there.
TypeOK ==
  /\ main \in [pc : {"up", "pool", "sched", "disk", "info", "home", "logs", "http", "ssh", "exited", "crashed"},
               todo : SUBSET Clients]
  /\ client \in [Clients -> {"new", "open", "closed"}]
  /\ pumps \in [Clients -> SUBSET {"read", "write"}] /\ count \in Nat
  /\ pusher \in [Kinds -> [pc : {"wait", "collect", "send", "off"}, todo : SUBSET Clients]]
  /\ cancelled \subseteq Kinds \cup {"scheduler", "disk"}
  /\ worker \in [Workers -> {"on", "hung", "off"}] /\ disk \in [Tasks -> {"wait", "run", "hung", "off"}]
  /\ req \in [Reqs -> {"idle", "run"}]
  /\ logq \in 0 .. LogCap /\ logger \in {"on", "closed", "off"}

\* systemInfoCount, which decides whether anything is collected at all, counts
\* the open clients although both pumps and CloseAll close the same one.
CountRight == count = Cardinality(InPool("systemInfo"))

\* Every entry that entered logChan is handed to the database before its
\* connection is closed: Close waits for the writer, and what comes later is
\* not queued.  (Whether the INSERT succeeds is not promised: see LogWrite.)
LogsWritten == main.pc \in {"http", "ssh", "exited"} => logq = 0

\* One goroutine of a client that ends takes the other with it, and the client
\* out of the pool: whichever notices first that the peer is gone, no pump
\* stays behind and no broadcast goes on to a client nobody serves.
PumpsFollow ==
  \A c \in Clients :
    client[c] # "new" /\ pumps[c] # {"read", "write"} ~> (client[c] = "closed" /\ pumps[c] = {}) \/ ~Alive

\* A goroutine that a Stop waits for is in a command that never returns.
Stuck == (\E w \in Workers : worker[w] = "hung") \/ (\E t \in Tasks : disk[t] = "hung")

=============================================================================
