----------------------------- MODULE Server_proofs -----------------------------
(***************************************************************************)
(* The pool's counter is right and no queued log entry is lost, for any    *)
(* finite set of clients, any requests and any queue size.                 *)
(***************************************************************************)
EXTENDS Server, FiniteSetTheorems, TLAPS

\* The writer ends only with an empty queue, and the steps of the shutdown
\* that follow logManager.Close come after its end.
WriterDone ==
  /\ logger = "off" => logq = 0
  /\ main.pc \in {"http", "ssh", "exited"} => logger = "off"

ServerInv == TypeOK /\ CountRight /\ WriterDone

-----------------------------------------------------------------------------
(* Types *)

MainState == [pc : {"up", "pool", "sched", "disk", "info", "home", "logs", "http", "ssh", "exited", "crashed"},
              todo : SUBSET Clients]
PushState == [pc : {"wait", "collect", "send", "off"}, todo : SUBSET Clients]

LEMMA CloseTyped ==
  ASSUME TypeOK, NEW c \in Clients, Close(c)
  PROVE  client' \in [Clients -> {"new", "open", "closed"}] /\ count' \in Nat
BY DEF TypeOK, Close

LEMMA PoolTyped ==
  ASSUME TypeOK, NEW c \in Clients, PoolNext(c)
  PROVE  TypeOK'
<1>1. CASE Add(c)
  BY <1>1 DEF TypeOK, Add, logs
<1>2. CASE ReadPumpEnds(c) \/ WritePumpEnds(c)
  <2>1. client' \in [Clients -> {"new", "open", "closed"}] /\ count' \in Nat
    BY <1>2, CloseTyped DEF ReadPumpEnds, WritePumpEnds
  <2>2. /\ pumps' \in [Clients -> SUBSET {"read", "write"}]
        /\ UNCHANGED <<main, pusher, cancelled, worker, disk, req, logs>>
    BY <1>2 DEF TypeOK, ReadPumpEnds, WritePumpEnds
  <2> QED  BY <2>1, <2>2 DEF TypeOK, logs
<1> QED  BY <1>1, <1>2 DEF PoolNext

LEMMA PushTyped ==
  ASSUME TypeOK, NEW k \in Kinds, PushTick(k) \/ PushStep(k)
  PROVE  TypeOK'
<1>t. pusher \in [Kinds -> PushState] /\ pusher[k] \in PushState
  BY DEF TypeOK, PushState
<1>s. Waiting \in PushState /\ Stopped \in PushState /\ InPool(k) \in SUBSET Clients
  BY DEF Waiting, Stopped, PushState, InPool
<1>1. CASE \E c \in Clients : BroadcastToAdminsByType(k, c)
  <2>1. PICK c \in Clients : BroadcastToAdminsByType(k, c)  BY <1>1
  <2>2. CASE client[c] = "open" /\ pusher' = [pusher EXCEPT ![k].todo = @ \ {c}] /\ UNCHANGED <<main, pumps>>
    <3>1. [pusher[k] EXCEPT !.todo = @ \ {c}] \in PushState
      BY <1>t DEF PushState
    <3>2. pusher' \in [Kinds -> PushState]
      BY <2>2, <3>1, <1>t
    <3> QED  BY <2>1, <2>2, <3>2 DEF TypeOK, BroadcastToAdminsByType, logs, PushState
  <2>3. CASE /\ main' = [pc |-> "crashed", todo |-> {}]
             /\ pumps' = [d \in Clients |-> {}] /\ UNCHANGED pusher
    BY <2>1, <2>3 DEF TypeOK, BroadcastToAdminsByType, logs
  <2> QED  BY <2>1, <2>2, <2>3 DEF BroadcastToAdminsByType
<1>2. CASE PushTick(k)
  <2>1. [pusher[k] EXCEPT !.pc = "collect"] \in PushState
    BY <1>t DEF PushState
  <2>2. pusher' \in [Kinds -> PushState]
    BY <1>2, <2>1, <1>t DEF PushTick
  <2> QED  BY <1>2, <2>2 DEF TypeOK, PushTick, pool, logs, PushState
<1>3. CASE PushGather(k)
  <2>1. [pc |-> "send", todo |-> InPool(k)] \in PushState
    BY <1>s DEF PushState
  <2>2. pusher' \in [Kinds -> PushState]
    BY <1>3, <2>1, <1>s, <1>t DEF PushGather
  <2> QED  BY <1>3, <2>2 DEF TypeOK, PushGather, pool, logs, PushState
<1>4. CASE PushDone(k) \/ PushStop(k)
  <2>1. pusher' \in [Kinds -> PushState]
    BY <1>4, <1>s, <1>t DEF PushDone, PushStop
  <2> QED  BY <1>4, <2>1 DEF TypeOK, PushDone, PushStop, pool, logs, PushState
<1> QED  BY <1>1, <1>2, <1>3, <1>4 DEF PushStep

LEMMA LogTyped ==
  ASSUME TypeOK, (\E r \in Reqs : ReqStart(r) \/ ReqEnd(r)) \/ LogNext
  PROVE  TypeOK'
<1>t. logq \in 0 .. LogCap /\ LogCap \in Nat
  BY ServerAssumption DEF TypeOK
<1>1. CASE \E r \in Reqs : ReqStart(r)
  BY <1>1 DEF TypeOK, ReqStart, pool, logs
<1>2. CASE \E r \in Reqs : ReqEnd(r)
  <2>1. PICK r \in Reqs : ReqEnd(r)  BY <1>2
  <2>2. logq' \in 0 .. LogCap  BY <2>1, <1>t DEF ReqEnd
  <2>3. req' \in [Reqs -> {"idle", "run"}]  BY <2>1 DEF ReqEnd, TypeOK
  <2> QED  BY <2>1, <2>2, <2>3 DEF TypeOK, ReqEnd, pool, logs
<1>3. CASE LogWrite
  <2>1. logq' \in 0 .. LogCap  BY <1>3, <1>t DEF LogWrite
  <2> QED  BY <1>3, <2>1 DEF TypeOK, LogWrite, pool
<1>4. CASE LogWriterEnds
  BY <1>4 DEF TypeOK, LogWriterEnds, pool
<1> QED  BY <1>1, <1>2, <1>3, <1>4 DEF LogNext

LEMMA DiskTyped ==
  ASSUME TypeOK, DiskNext
  PROVE  TypeOK'
<1>1. \A t \in Tasks : AfterTask(t) \in {"wait", "off"}  BY DEF AfterTask
<1>2. disk' \in [Tasks -> {"wait", "run", "hung", "off"}]
  BY <1>1 DEF TypeOK, DiskNext, DiskBegin, DiskEnd, DiskHangs, DiskStop
<1> QED  BY <1>2 DEF TypeOK, DiskNext, DiskBegin, DiskEnd, DiskHangs, DiskStop, pool, logs

LEMMA WorkerTyped ==
  ASSUME TypeOK, WorkerNext
  PROVE  TypeOK'
BY DEF TypeOK, WorkerNext, WorkerStops, WorkerHangs, StartMonitor, pool, logs

LEMMA MainTyped ==
  ASSUME TypeOK, Quit \/ MainStep
  PROVE  TypeOK'
<1>1. CASE Quit
  BY <1>1 DEF TypeOK, Quit, pool, logs
<1>2. CASE \E c \in Clients : CloseAll(c)
  <2>1. PICK c \in Clients : CloseAll(c)  BY <1>2
  <2>2. client' \in [Clients -> {"new", "open", "closed"}] /\ count' \in Nat
    BY <2>1, CloseTyped DEF CloseAll
  <2>3. main' \in MainState
    BY <2>1 DEF TypeOK, CloseAll, MainState
  <2> QED  BY <2>1, <2>2, <2>3 DEF TypeOK, CloseAll, logs, MainState
<1>3. CASE StopScheduler \/ StopDisk \/ StopInfo \/ StopHome
  <2>1. main' \in MainState
    BY <1>3 DEF StopScheduler, StopDisk, StopInfo, StopHome, MainGoto, MainState
  <2>2. cancelled' \subseteq Kinds \cup {"scheduler", "disk"}
    BY <1>3 DEF TypeOK, StopScheduler, StopDisk, StopInfo, StopHome, Kinds
  <2> QED  BY <1>3, <2>1, <2>2 DEF TypeOK, StopScheduler, StopDisk, StopInfo, StopHome, pool, logs, MainState
<1>4. CASE CloseLogs \/ ShutdownHttp \/ CloseSessions \/ Exit
  <2>1. main' \in MainState
    BY <1>4 DEF CloseLogs, ShutdownHttp, CloseSessions, Exit, MainGoto, MainState
  <2>2. logger' \in {"on", "closed", "off"} /\ pumps' \in [Clients -> SUBSET {"read", "write"}]
    BY <1>4 DEF TypeOK, CloseLogs, ShutdownHttp, CloseSessions, Exit, pool, logs
  <2> QED  BY <1>4, <2>1, <2>2 DEF TypeOK, CloseLogs, ShutdownHttp, CloseSessions, Exit, pool, logs, MainState
<1> QED  BY <1>1, <1>2, <1>3, <1>4 DEF MainStep

LEMMA TypeStep ==
  ASSUME TypeOK, [Next]_vars
  PROVE  TypeOK'
<1>1. CASE Next
  BY <1>1, PoolTyped, PushTyped, LogTyped, DiskTyped, WorkerTyped, MainTyped DEF Next
<1>2. CASE UNCHANGED vars
  BY <1>2 DEF TypeOK, vars, pool, logs
<1> QED  BY <1>1, <1>2

-----------------------------------------------------------------------------
(* systemInfoCount *)

Counted == {c \in Clients : client[c] = "open" /\ Kind[c] = "systemInfo"}

LEMMA CountedFinite ==
  /\ IsFiniteSet(Counted) /\ Cardinality(Counted) \in Nat
  /\ CountRight <=> count = Cardinality(Counted)
  /\ CountRight' <=> count' = Cardinality(Counted')
<1>1. Counted \subseteq Clients  BY DEF Counted
<1>2. IsFiniteSet(Counted)  BY <1>1, ServerAssumption, FS_Subset
<1> QED  BY <1>2, FS_CardinalityType DEF CountRight, InPool, Counted

LEMMA AddCounts ==
  ASSUME TypeOK, CountRight, NEW c \in Clients, Add(c)
  PROVE  CountRight'
<1>t. client \in [Clients -> {"new", "open", "closed"}]  BY DEF TypeOK
<1>1. CASE Kind[c] = "systemInfo"
  <2>1. c \notin Counted /\ Counted' = Counted \cup {c}
    BY <1>1, <1>t DEF Add, Counted
  <2>2. Cardinality(Counted') = Cardinality(Counted) + 1
    BY <2>1, CountedFinite, FS_AddElement
  <2>3. count' = count + 1  BY <1>1 DEF Add
  <2> QED  BY <2>2, <2>3, CountedFinite
<1>2. CASE Kind[c] # "systemInfo"
  <2>1. Counted' = Counted /\ count' = count
    BY <1>2, <1>t DEF Add, Counted
  <2> QED  BY <2>1, CountedFinite
<1> QED  BY <1>1, <1>2

\* The once of Client.Close: only the first close of a client counts.
LEMMA CloseCounts ==
  ASSUME TypeOK, CountRight, NEW c \in Clients, Close(c)
  PROVE  CountRight'
<1>t. client \in [Clients -> {"new", "open", "closed"}]  BY DEF TypeOK
<1>1. CASE c \in Counted
  <2>1. Counted' = Counted \ {c}
    BY <1>1, <1>t DEF Close, Counted
  <2>2. Cardinality(Counted') = Cardinality(Counted) - 1
    BY <1>1, <2>1, CountedFinite, FS_RemoveElement
  <2>3. Cardinality(Counted) > 0
    BY <1>1, CountedFinite, FS_EmptySet
  <2>4. count' = count - 1
    BY <1>1, <2>3, CountedFinite DEF Close, Counted
  <2> QED  BY <2>2, <2>4, CountedFinite
<1>2. CASE c \notin Counted
  <2>1. Counted' = Counted /\ count' = count
    BY <1>2, <1>t DEF Close, Counted
  <2> QED  BY <2>1, CountedFinite
<1> QED  BY <1>1, <1>2

LEMMA CountStep ==
  ASSUME TypeOK, CountRight, [Next]_vars
  PROVE  CountRight'
<1>1. CASE \E c \in Clients : Add(c)
  BY <1>1, AddCounts
<1>2. CASE \E c \in Clients : ReadPumpEnds(c) \/ WritePumpEnds(c) \/ CloseAll(c)
  BY <1>2, CloseCounts DEF ReadPumpEnds, WritePumpEnds, CloseAll
<1>3. CASE UNCHANGED <<client, count>>
  BY <1>3 DEF CountRight, InPool
<1> QED
  BY <1>1, <1>2, <1>3
  DEF Next, vars, pool, PoolNext, PushTick, PushStep, PushGather, BroadcastToAdminsByType, PushDone,
      PushStop, ReqStart, ReqEnd, LogNext, LogWrite, LogWriterEnds, DiskNext, DiskBegin, DiskHangs,
      DiskEnd, DiskStop, WorkerNext, WorkerStops, WorkerHangs, StartMonitor, Quit, MainStep, StopScheduler, StopDisk, StopInfo, StopHome, CloseLogs, ShutdownHttp,
      CloseSessions, Exit

-----------------------------------------------------------------------------
(* The operation log *)

LEMMA WriterStep ==
  ASSUME TypeOK, WriterDone, [Next]_vars
  PROVE  WriterDone'
<1> USE DEF WriterDone
<1>1. CASE (\E r \in Reqs : ReqEnd(r)) \/ LogNext
  BY <1>1 DEF ReqEnd, LogNext, LogWrite, LogWriterEnds, TypeOK
<1>2. CASE CloseLogs \/ ShutdownHttp \/ CloseSessions \/ Exit
  BY <1>2 DEF CloseLogs, ShutdownHttp, CloseSessions, Exit, MainGoto, logs
<1>3. CASE UNCHANGED logs /\ main'.pc \in {main.pc, "pool", "sched", "disk", "info", "home", "crashed"}
  BY <1>3 DEF logs
<1>4. CASE Quit \/ (\E c \in Clients : CloseAll(c)) \/ StopScheduler \/ StopDisk \/ StopInfo \/ StopHome
  <2>1. main'.pc \in {main.pc, "pool", "sched", "disk", "info", "home", "crashed"}
    BY <1>4 DEF Quit, CloseAll, StopScheduler, StopDisk, StopInfo, StopHome, MainGoto, TypeOK
  <2>2. UNCHANGED logs
    BY <1>4 DEF Quit, CloseAll, StopScheduler, StopDisk, StopInfo, StopHome
  <2> QED  BY <2>1, <2>2, <1>3
<1>5. CASE \E k \in Kinds : PushTick(k) \/ PushStep(k)
  <2>1. UNCHANGED logs /\ main'.pc \in {main.pc, "crashed"}
    BY <1>5 DEF PushTick, PushStep, PushGather, BroadcastToAdminsByType, PushDone, PushStop
  <2> QED  BY <2>1, <1>3
<1>6. CASE \/ \E c \in Clients : PoolNext(c)
           \/ \E r \in Reqs : ReqStart(r)
           \/ DiskNext \/ WorkerNext \/ UNCHANGED vars
  <2>1. UNCHANGED <<logs, main>>
    BY <1>6 DEF PoolNext, Add, ReadPumpEnds, WritePumpEnds, ReqStart, DiskNext, DiskBegin, DiskEnd,
                DiskHangs, DiskStop, WorkerNext, WorkerStops, WorkerHangs, StartMonitor, vars
  <2> QED  BY <2>1, <1>3
<1> QED  BY <1>1, <1>2, <1>4, <1>5, <1>6 DEF Next, MainStep

-----------------------------------------------------------------------------
(* The theorems *)

LEMMA InitInv == Init => ServerInv
<1> SUFFICES ASSUME Init  PROVE ServerInv
  OBVIOUS
<1>1. TypeOK
  BY ServerAssumption DEF Init, TypeOK, Waiting
<1>2. Counted = {} /\ count = 0  BY DEF Init, Counted
<1>3. CountRight  BY <1>2, CountedFinite, FS_EmptySet
<1>4. WriterDone  BY DEF Init, WriterDone
<1> QED  BY <1>1, <1>3, <1>4 DEF ServerInv

\* The inductive invariant behind the theorems below.
THEOREM ServerInvariant == Spec => []ServerInv
<1>1. ServerInv /\ [Next]_vars => ServerInv'
  BY TypeStep, CountStep, WriterStep DEF ServerInv
<1> QED  BY <1>1, InitInv, PTL DEF Spec

\* Pool, pushers, log queue, disk task and shutdown keep their types; in
\* particular the queue never exceeds its capacity.
THEOREM ServerTyped == Spec => []TypeOK
<1>1. ServerInv => TypeOK  BY DEF ServerInv
<1> QED  BY <1>1, ServerInvariant, PTL

\* systemInfoCount is the number of open system-information clients, however
\* read pump, write pump and CloseAll race to close them.
THEOREM PoolCounts == Spec => []CountRight
<1>1. ServerInv => CountRight  BY DEF ServerInv
<1> QED  BY <1>1, ServerInvariant, PTL

\* A graceful shutdown leaves no entry in the queue: each was handed to the
\* database, although requests end and log while it proceeds.
THEOREM NoLogLost == Spec => []LogsWritten
<1>1. ServerInv => LogsWritten  BY DEF ServerInv, WriterDone, LogsWritten
<1> QED  BY <1>1, ServerInvariant, PTL
=============================================================================
