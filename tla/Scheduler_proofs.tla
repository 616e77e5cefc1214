--------------------------- MODULE Scheduler_proofs ---------------------------
(***************************************************************************)
(* Theorems about module Scheduler, for every number of instances, jobs,   *)
(* cards and processes.                                                    *)
(***************************************************************************)
EXTENDS Scheduler, FiniteSetTheorems, SequenceTheorems, TLAPS

-----------------------------------------------------------------------------
(* Lemmas about the stores *)

\* The list of a job has at most as many cards as entries, so a count that
\* matches its length means that every card named is there and idle: the one
\* comparison in CheckAvailable and Acquire rules out unknown, busy and
\* repeated ids at once.
LEMMA CountMeansAll ==
  ASSUME NEW j \in Jobs, CheckAvailable(j)
  PROVE  Need(j) \subseteq Cards /\ \A c \in Need(j) : owner[c] = NoJob
<1> DEFINE n == Len(GpuIDs[j])
<1>1. n \in Nat /\ GpuIDs[j] \in [1..n -> CardIDs]
  <2>1. GpuIDs[j] \in Seq(CardIDs)
    BY StoresAssumption
  <2> QED
    BY <2>1, LenProperties
<1>n. n = Len(GpuIDs[j])
  OBVIOUS
<1> HIDE DEF n
<1>2. IsFiniteSet(1..n) /\ Cardinality(1..n) = n
  <2>1. 1 \in Int /\ n \in Int /\ n >= 0
    BY <1>1
  <2> QED
    BY <2>1, FS_Interval
<1>3. IsFiniteSet(Need(j)) /\ Cardinality(Need(j)) <= n
  <2>1. GpuIDs[j] \in Surjection(1..n, Need(j))
    BY <1>1 DEF Need, Range, Surjection
  <2> QED
    BY <2>1, <1>2, FS_Surjection
<1>4. Idle(j) \subseteq Need(j) /\ Cardinality(Idle(j)) = n
  BY <1>n DEF Idle, CheckAvailable
<1>5. Idle(j) = Need(j)
  BY <1>3, <1>4, <1>1, FS_Subset, FS_CardinalityType
<1> QED
  BY <1>5 DEF Idle

\* The queue stays a sequence of jobs.
LEMMA DequeuedType ==
  ASSUME queue \in Seq(Jobs), NEW j
  PROVE  Dequeued(j) \in Seq(Jobs)
<1>1. CASE j \in Range(queue)
  <2>1. Position(j) \in 1..Len(queue)
    BY <1>1 DEF Position, Range
  <2> QED
    BY <1>1, <2>1 DEF Dequeued, RemoveAt
<1>2. CASE j \notin Range(queue)
  BY <1>2 DEF Dequeued
<1> QED
  BY <1>1, <1>2

LEMMA EnqueuedType ==
  ASSUME queue \in Seq(Jobs), NEW j \in Jobs, NEW q \in Enqueued(j)
  PROVE  q \in Seq(Jobs)
<1> DEFINE d == Dequeued(j)
<1>1. d \in Seq(Jobs)
  BY DequeuedType
<1>2. PICK i \in 1..(Len(d) + 1) : q = InsertAt(d, i, j)
  BY DEF Enqueued
<1> HIDE DEF d
<1> QED
  BY <1>1, <1>2 DEF InsertAt

-----------------------------------------------------------------------------
(* Type correctness *)

\* What a goroutine has read is there at the steps that use it.
LoopGood(l) ==
  /\ l.pc \notin {"idle", "peek", "unlock"} => l.job \in Jobs
  /\ l.pc \in Holding => Need(l.job) \subseteq Cards
  /\ l.pc \in {"record", "cachePid"} => l.pid \in Pids
  /\ l.pc = "record" => l.todo \subseteq Cards

LoopTyped == \A n \in Nodes : LoopGood(loop[n])

ApiTyped == \A c \in Clients : api[c].pc \in {"enqueue", "move"} => api[c].job \in Jobs

TypeInv == TypeOK /\ LoopTyped /\ ApiTyped

\* UpdateStatus keeps the status column well typed, whatever id it is given.
LEMMA UpdateStatusType ==
  ASSUME TypeOK, NEW j, NEW s \in AnyStatus
  PROVE  /\ Updated(j, s) \in [Jobs -> AnyStatus]
         /\ UpdateStatus(j, s) => status' \in [Jobs -> AnyStatus]
  BY DEF TypeOK, Updated, UpdateStatus

\* The moves of a handler keep its locals well typed.
LEMMA ApiMoves ==
  ASSUME TypeInv, NEW c \in Clients, NEW from
  PROVE  /\ Reply(c, from) => api' \in [Clients -> ApiState] /\ ApiTyped'
         /\ \A to \in ApiPCs \ {"enqueue", "move"} :
              Step(c, from, to) => api' \in [Clients -> ApiState] /\ ApiTyped'
         /\ \A n \in Nodes, pc \in ApiPCs, j \in Jobs, old \in AnyStatus :
              Call(c, n, pc, j, old) => api' \in [Clients -> ApiState] /\ ApiTyped'
<1>0. api \in [Clients -> ApiState] /\ ApiTyped
  BY DEF TypeInv, TypeOK
<1> DEFINE Good(a) == a \in ApiState /\ (a.pc \in {"enqueue", "move"} => a.job \in Jobs)
<1>a. ASSUME NEW a, Good(a), api' = [api EXCEPT ![c] = a]
      PROVE  api' \in [Clients -> ApiState] /\ ApiTyped'
  BY <1>0, <1>a DEF ApiTyped
<1>1. Good(ApiIdle)
  BY DEF ApiIdle, ApiState, ApiPCs, AnyStatus, NoRow
<1>2. ASSUME NEW to \in ApiPCs, to \notin {"enqueue", "move"}
      PROVE  Good([api[c] EXCEPT !.pc = to])
  BY <1>0, <1>2 DEF ApiState
<1>3. ASSUME NEW n \in Nodes, NEW pc \in ApiPCs, NEW j \in Jobs, NEW old \in AnyStatus
      PROVE  Good([ApiIdle EXCEPT !.pc = pc, !.at = n, !.job = j, !.old = old])
  BY DEF ApiIdle, ApiState
<1> HIDE DEF Good
<1> QED
  BY <1>a, <1>1, <1>2, <1>3 DEF Reply, Step, Call

\* Every step of a handler keeps the types.
LEMMA ApiTypes ==
  ASSUME TypeInv, NEW c \in Clients, ApiNext(c)
  PROVE  TypeInv'
<1> DEFINE Goal == /\ status' \in [Jobs -> AnyStatus] /\ queue' \in Seq(Jobs)
                   /\ api' \in [Clients -> ApiState] /\ ApiTyped'
<1>0. ASSUME Goal, UNCHANGED otherThanApi PROVE TypeInv'
  BY <1>0 DEF TypeInv, TypeOK, LoopTyped, otherThanApi, memory
<1>t. status \in [Jobs -> AnyStatus] /\ queue \in Seq(Jobs) /\ api \in [Clients -> ApiState]
  BY DEF TypeInv, TypeOK
<1>p. ApiPCs \ {"enqueue", "move"} = {"idle", "delete", "cancel", "zrem", "restore", "remove", "mark",
                                      "rankHead", "loadHead", "resetHead",
                                      "rankMoved", "loadMoved", "resetMoved"}
  BY DEF ApiPCs
<1>s. Waiting \subseteq AnyStatus /\ {"Queued", "Cancelled", "Unborn", "Deleted"} \subseteq AnyStatus
  BY DEF Waiting, AnyStatus, Statuses, NoRow
<1> USE <1>0, <1>t
<1>1. ASSUME NEW n \in Nodes, NEW j \in Jobs, SubmitCreate(c, n, j) PROVE TypeInv'
  BY <1>1, <1>s, ApiMoves DEF SubmitCreate, ApiPCs
<1>2. CASE SubmitEnqueue(c)
  <2>1. api[c].pc = "enqueue" => api[c].job \in Jobs
    BY DEF TypeInv, ApiTyped
  <2> QED
    BY <1>2, <1>p, <2>1, ApiMoves, EnqueuedType DEF SubmitEnqueue, Step, Reply
<1>3. CASE SubmitRollback(c)
  BY <1>3, <1>s, ApiMoves DEF SubmitRollback
<1>4. ASSUME NEW n \in Nodes, NEW j \in Jobs, CancelRead(c, n, j) PROVE TypeInv'
  BY <1>4, ApiMoves DEF CancelRead, ApiPCs
<1>5. CASE CancelWrite(c)
  <2>1. Updated(api[c].job, "Cancelled") \in [Jobs -> AnyStatus]
    BY <1>s, UpdateStatusType DEF TypeInv
  <2> QED
    BY <1>5, <1>p, <2>1, ApiMoves DEF CancelWrite
<1>6. CASE CancelDequeue(c)
  BY <1>6, <1>p, ApiMoves, DequeuedType DEF CancelDequeue
<1>7. CASE CancelRollback(c)
  <2>1. api[c].old \in AnyStatus
    BY DEF ApiState
  <2> QED
    BY <1>7, <2>1, ApiMoves, UpdateStatusType DEF CancelRollback, TypeInv
<1>8. ASSUME NEW n \in Nodes, NEW j \in Jobs, RemoveRead(c, n, j) PROVE TypeInv'
  BY <1>8, ApiMoves DEF RemoveRead, ApiPCs
<1>9. CASE RemoveDequeue(c)
  BY <1>9, <1>p, ApiMoves, DequeuedType DEF RemoveDequeue
<1>10. CASE RemoveMark(c)
  BY <1>10, <1>s, ApiMoves, UpdateStatusType DEF RemoveMark, TypeInv
<1>11. ASSUME NEW n \in Nodes, NEW j \in Jobs, NEW target \in Jobs, ReorderRead(c, n, j, target)
       PROVE  TypeInv'
  <2> DEFINE a == [ApiIdle EXCEPT !.pc = "move", !.at = n, !.job = j, !.head = Head(queue)]
  <2>1. Head(queue) \in Jobs
    BY <1>11 DEF ReorderRead, Range
  <2>2. a \in ApiState /\ a.job \in Jobs
    BY <2>1 DEF ApiIdle, ApiState, ApiPCs, AnyStatus, NoRow
  <2>3. api' = [api EXCEPT ![c] = a] /\ UNCHANGED <<status, queue, otherThanApi>>
    BY <1>11 DEF ReorderRead
  <2> HIDE DEF a
  <2>4. ApiTyped'
    BY <2>2, <2>3 DEF ApiTyped, TypeInv
  <2> QED
    BY <2>2, <2>3, <2>4
<1>12. CASE ReorderMove(c)
  <2>1. api[c].pc = "move" => api[c].job \in Jobs
    BY DEF TypeInv, ApiTyped
  <2>2. queue' \in Seq(Jobs)
    BY <1>12, <2>1, EnqueuedType DEF ReorderMove, Step, Reply
  <2> QED
    BY <1>12, <1>p, <2>2, ApiMoves DEF ReorderMove
<1>13. CASE ReorderFixHead(c)
  BY <1>13, <1>p, <1>s, ApiMoves, UpdateStatusType
     DEF ReorderFixHead, FixRank, FixLoad, FixWrite, Finish, TypeInv
<1>14. CASE ReorderFixMoved(c)
  BY <1>14, <1>p, <1>s, ApiMoves, UpdateStatusType
     DEF ReorderFixMoved, FixRank, FixLoad, FixWrite, Finish, TypeInv
<1> QED
  BY <1>1, <1>2, <1>3, <1>4, <1>5, <1>6, <1>7, <1>8, <1>9, <1>10, <1>11, <1>12, <1>13, <1>14
     DEF ApiNext, ApiContinue

\* A move of the scheduler goroutine keeps its locals well typed when the new
\* record is.
LEMMA LoopMoves ==
  ASSUME TypeInv, NEW n \in Nodes, NEW l \in LoopState, LoopGood(l), loop' = [loop EXCEPT ![n] = l]
  PROVE  loop' \in [Nodes -> LoopState] /\ LoopTyped'
  BY DEF TypeInv, TypeOK, LoopTyped

\* Ending a pass, and passing from one call to the next with the same locals.
LEMMA LoopGotos ==
  ASSUME TypeInv, NEW n \in Nodes
  PROVE  /\ Leave(n) => loop' \in [Nodes -> LoopState] /\ LoopTyped'
         /\ \A pc \in LoopPCs :
              /\ Goto(n, pc)
              /\ pc = "peek" \/ loop[n].job \in Jobs
              /\ pc \in Holding => loop[n].pc \in Holding \/ Need(loop[n].job) \subseteq Cards
              /\ pc \notin {"record", "cachePid"}
              => loop' \in [Nodes -> LoopState] /\ LoopTyped'
<1>0. loop \in [Nodes -> LoopState] /\ LoopTyped
  BY DEF TypeInv, TypeOK
<1>1. [LoopIdle EXCEPT !.pc = "unlock"] \in LoopState /\ LoopGood([LoopIdle EXCEPT !.pc = "unlock"])
  BY DEF LoopIdle, LoopState, LoopPCs, LoopGood, Holding, AnyStatus, NoRow
<1>2. ASSUME Leave(n) PROVE loop' \in [Nodes -> LoopState] /\ LoopTyped'
  BY <1>1, <1>2, LoopMoves DEF Leave
<1>3. ASSUME NEW pc \in LoopPCs, Goto(n, pc), pc = "peek" \/ loop[n].job \in Jobs,
             pc \in Holding => loop[n].pc \in Holding \/ Need(loop[n].job) \subseteq Cards,
             pc \notin {"record", "cachePid"}
      PROVE  loop' \in [Nodes -> LoopState] /\ LoopTyped'
  <2> DEFINE l == [loop[n] EXCEPT !.pc = pc]
  <2>1. l \in LoopState /\ l.pc = pc /\ l.job = loop[n].job
    BY <1>0 DEF LoopState
  <2>2. LoopGood(loop[n])
    BY <1>0 DEF LoopTyped
  <2>3. loop' = [loop EXCEPT ![n] = l]
    BY <1>3 DEF Goto
  <2> HIDE DEF l
  <2>4. LoopGood(l)
    BY <1>3, <2>1, <2>2 DEF LoopGood, Holding
  <2> QED
    BY <2>1, <2>3, <2>4, LoopMoves
<1> QED
  BY <1>2, <1>3

\* Every step of the scheduler goroutine keeps the types.
LEMMA LoopTypes ==
  ASSUME TypeInv, NEW n \in Nodes, LoopNext(n)
  PROVE  TypeInv'
<1> DEFINE Shared == /\ status' \in [Jobs -> AnyStatus] /\ owner' \in [Cards -> Jobs \cup {NoJob}]
                     /\ records' \subseteq Rec /\ queue' \in Seq(Jobs) /\ procCache' \subseteq Pids
                     /\ lock' \in Nodes \cup {NoNode}
           Server == proc' \in [Pids -> [job : Jobs \cup {NoJob}, st : {"free", "alive", "ok", "bad"}]]
           Memory == tracked' \in [Nodes -> SUBSET Pids] /\ mon' \in [Nodes -> [MonKey -> MonState]]
           Loop   == loop' \in [Nodes -> LoopState] /\ LoopTyped'
<1>0. ASSUME Shared, Server, Memory, Loop, UNCHANGED others PROVE TypeInv'
  BY <1>0 DEF TypeInv, TypeOK, ApiTyped, others
<1>h. UNCHANGED <<mysql, redis>> => Shared
  BY DEF TypeInv, TypeOK, mysql, redis
<1>m. UNCHANGED <<tracked, mon>> => Memory
  BY DEF TypeInv, TypeOK
<1>p. UNCHANGED proc => Server
  BY DEF TypeInv, TypeOK
<1>l. LoopGood(loop[n]) /\ loop[n] \in LoopState
  BY DEF TypeInv, TypeOK, LoopTyped
<1>s. Waiting \subseteq AnyStatus /\ {"WaitingGpu", "Running", "Failed"} \subseteq AnyStatus
  BY DEF Waiting, AnyStatus, Statuses
<1>q. queue \in Seq(Jobs) /\ TypeOK
  BY DEF TypeInv, TypeOK
<1>1. CASE LoopLock(n)
  <2>1. Loop
    BY <1>1, LoopGotos DEF LoopLock, LoopPCs, Holding
  <2>2. Shared
    BY <1>1 DEF LoopLock, TypeInv, TypeOK, mysql
  <2> QED
    BY <1>0, <1>m, <1>p, <1>1, <2>1, <2>2 DEF LoopLock
<1>2. CASE LoopUnlock(n)
  <2>1. LoopIdle \in LoopState /\ LoopGood(LoopIdle)
    BY DEF LoopIdle, LoopState, LoopPCs, LoopGood, Holding, AnyStatus, NoRow
  <2>2. Loop
    BY <1>2, <2>1, LoopMoves DEF LoopUnlock
  <2>3. Shared
    BY <1>2 DEF LoopUnlock, TypeInv, TypeOK, mysql
  <2> QED
    BY <1>0, <1>m, <1>p, <1>2, <2>2, <2>3 DEF LoopUnlock
<1>3. CASE LoopPeek(n)
  <2>1. ASSUME queue # <<>>, loop' = [loop EXCEPT ![n].pc = "load", ![n].job = Head(queue)] PROVE Loop
    <3> DEFINE l == [loop[n] EXCEPT !.pc = "load", !.job = Head(queue)]
    <3>1. Head(queue) \in Jobs
      BY <2>1, <1>q
    <3>2. l \in LoopState /\ LoopGood(l)
      BY <3>1, <1>l DEF LoopState, LoopPCs, LoopGood, Holding
    <3>3. loop' = [loop EXCEPT ![n] = l]
      BY <2>1, <1>q DEF TypeOK
    <3> QED
      BY <3>2, <3>3, LoopMoves
  <2>2. Loop
    BY <1>3, <2>1, LoopGotos DEF LoopPeek
  <2> QED
    BY <1>0, <1>h, <1>m, <1>p, <1>3, <2>2 DEF LoopPeek
<1>4. CASE LoopLoad(n)
  <2>1. loop[n].job \in Jobs
    BY <1>4, <1>l DEF LoopLoad, At, LoopGood
  <2>2. ASSUME NEW s \in Waiting, loop' = [loop EXCEPT ![n].pc = "check", ![n].seen = s] PROVE Loop
    <3> DEFINE l == [loop[n] EXCEPT !.pc = "check", !.seen = s]
    <3>2. l \in LoopState /\ LoopGood(l)
      BY <2>1, <1>l, <1>s DEF LoopState, LoopPCs, LoopGood, Holding
    <3>3. loop' = [loop EXCEPT ![n] = l]
      BY <2>2, <1>q DEF TypeOK
    <3> QED
      BY <3>2, <3>3, LoopMoves
  <2>3. Loop
    BY <1>4, <2>1, <2>2, LoopGotos DEF LoopLoad, LoopPCs, Holding
  <2> QED
    BY <1>0, <1>h, <1>m, <1>p, <1>4, <2>3 DEF LoopLoad
<1>5. CASE LoopCheck(n)
  <2>1. loop[n].job \in Jobs
    BY <1>5, <1>l DEF LoopCheck, At, LoopGood
  <2>3. Loop
    BY <1>5, <2>1, LoopGotos DEF LoopCheck, LoopPCs, Holding
  <2> QED
    BY <1>0, <1>h, <1>m, <1>p, <1>5, <2>3 DEF LoopCheck
<1>6. CASE LoopWait(n)
  <2>1. Loop
    BY <1>6, LoopGotos DEF LoopWait
  <2>2. Shared
    BY <1>6, <1>s, <1>q, UpdateStatusType DEF LoopWait, TypeOK, redis
  <2> QED
    BY <1>0, <1>m, <1>p, <1>6, <2>1, <2>2 DEF LoopWait
<1>7. CASE LoopDequeue(n)
  <2>1. Loop
    BY <1>7, LoopGotos DEF LoopDequeue
  <2>2. Shared
    BY <1>7, <1>q, DequeuedType DEF LoopDequeue, TypeOK, mysql
  <2> QED
    BY <1>0, <1>m, <1>p, <1>7, <2>1, <2>2 DEF LoopDequeue
<1>8. CASE ExecAcquire(n)
  <2>1. loop[n].job \in Jobs
    BY <1>8, <1>l DEF ExecAcquire, At, LoopGood
  <2>2. Shared
    BY <1>8, <1>q, <2>1 DEF ExecAcquire, Cur, Acquired, TypeOK, redis
  <2>3. Loop
    BY <1>8, <2>1, CountMeansAll, LoopGotos DEF ExecAcquire, Cur, LoopPCs, Holding
  <2> QED
    BY <1>0, <1>m, <1>p, <1>8, <2>2, <2>3 DEF ExecAcquire
<1>9. CASE ExecRunning(n)
  <2>1. loop[n].job \in Jobs /\ loop[n].pc \in Holding
    BY <1>9, <1>l DEF ExecRunning, At, LoopGood, Holding
  <2>2. Updated(Cur(n), "Running") \in [Jobs -> AnyStatus]
    BY <1>s, <1>q, UpdateStatusType
  <2>3. Shared
    BY <1>9, <1>q, <2>2 DEF ExecRunning, TypeOK, redis
  <2>4. Loop
    BY <1>9, <2>1, LoopGotos DEF ExecRunning, LoopPCs
  <2> QED
    BY <1>0, <1>m, <1>p, <1>9, <2>3, <2>4 DEF ExecRunning
<1>10. CASE ExecCards(n)
  <2>1. loop[n].job \in Jobs /\ loop[n].pc \in Holding
    BY <1>10, <1>l DEF ExecCards, At, LoopGood, Holding
  <2>2. Loop
    BY <1>10, <2>1, LoopGotos DEF ExecCards, LoopPCs
  <2> QED
    BY <1>0, <1>h, <1>m, <1>p, <1>10, <2>2 DEF ExecCards
<1>11. CASE ExecStart(n)
  <2>1. PICK p \in Pids :
          /\ Spawn(p, Cur(n))
          /\ tracked' = [tracked EXCEPT ![n] = @ \cup {p}]
          /\ loop' = [loop EXCEPT ![n].pc = "record", ![n].pid = p, ![n].todo = Need(Cur(n))]
    BY <1>11 DEF ExecStart
  <2>2. loop[n].job \in Jobs /\ Need(loop[n].job) \subseteq Cards
    BY <1>11, <1>l DEF ExecStart, At, LoopGood, Holding
  <2> DEFINE l == [loop[n] EXCEPT !.pc = "record", !.pid = p, !.todo = Need(Cur(n))]
  <2>3. l \in LoopState
    BY <2>2, <1>l, StoresAssumption DEF LoopState, LoopPCs, Cur
  <2>4. LoopGood(l)
    BY <2>2, <1>l DEF LoopState, LoopGood, Cur
  <2>5. loop' = [loop EXCEPT ![n] = l]
    BY <2>1, <1>q DEF TypeOK
  <2>6. Loop
    BY <2>3, <2>4, <2>5, LoopMoves
  <2>7. Server
    BY <2>1, <2>2, <1>q DEF Spawn, Cur, TypeOK
  <2>8. Memory
    BY <2>1, <1>11, <1>q DEF ExecStart, TypeOK
  <2> QED
    BY <1>0, <1>h, <1>11, <2>6, <2>7, <2>8 DEF ExecStart
<1>12. CASE ExecStartFails(n)
  <2>1. loop[n].job \in Jobs /\ loop[n].pc \in Holding
    BY <1>12, <1>l DEF ExecStartFails, At, LoopGood, Holding
  <2>2. Loop
    BY <1>12, <2>1, LoopGotos DEF ExecStartFails, LoopPCs
  <2>3. Server
    BY <1>12, <2>1, <1>q DEF ExecStartFails, Spawn, Cur, TypeOK
  <2> QED
    BY <1>0, <1>h, <1>m, <1>12, <2>2, <2>3 DEF ExecStartFails
<1>13. CASE ExecRelease(n)
  <2>1. loop[n].job \in Jobs
    BY <1>13, <1>l DEF ExecRelease, At, LoopGood
  <2>2. Loop
    BY <1>13, <2>1, LoopGotos DEF ExecRelease, LoopPCs, Holding
  <2>3. Shared
    BY <1>13, <1>q DEF ExecRelease, Released, TypeOK, redis
  <2> QED
    BY <1>0, <1>m, <1>p, <1>13, <2>2, <2>3 DEF ExecRelease
<1>14. CASE ExecFailed(n)
  <2>1. loop[n].job \in Jobs
    BY <1>14, <1>l DEF ExecFailed, At, LoopGood
  <2>2. Loop
    BY <1>14, <2>1, LoopGotos DEF ExecFailed, LoopPCs, Holding
  <2>3. Shared
    BY <1>14, <1>s, <1>q, UpdateStatusType DEF ExecFailed, TypeOK, redis
  <2> QED
    BY <1>0, <1>m, <1>p, <1>14, <2>2, <2>3 DEF ExecFailed
<1>15. CASE ExecRecord(n)
  <2>1. /\ loop[n].job \in Jobs /\ loop[n].pid \in Pids /\ loop[n].todo \subseteq Cards
        /\ Need(loop[n].job) \subseteq Cards
    BY <1>15, <1>l DEF ExecRecord, At, LoopGood, Holding
  <2>2. Shared
    <3>1. \A c \in loop[n].todo : [pid |-> loop[n].pid, card |-> c, job |-> Cur(n)] \in Rec
      BY <2>1 DEF Rec, Cur
    <3>2. records' \subseteq Rec
      <4>1. records \subseteq Rec
        BY <1>q DEF TypeOK
      <4>2. \/ \E c \in loop[n].todo :
                 records' = records \cup {[pid |-> loop[n].pid, card |-> c, job |-> Cur(n)]}
            \/ UNCHANGED records
        BY <1>15 DEF ExecRecord
      <4> QED
        BY <3>1, <4>1, <4>2
    <3> QED
      BY <1>15, <3>2, <1>q DEF ExecRecord, TypeOK, redis
  <2>3. ASSUME NEW c \in loop[n].todo,
               loop' = [loop EXCEPT ![n].todo = @ \ {c},
                                    ![n].pc = IF loop[n].todo = {c} THEN "cachePid" ELSE "record"]
        PROVE  Loop
    <3> DEFINE l == [loop[n] EXCEPT !.todo = @ \ {c},
                                    !.pc = IF loop[n].todo = {c} THEN "cachePid" ELSE "record"]
    <3>1. l \in LoopState
      BY <1>l DEF LoopState, LoopPCs
    <3>2. LoopGood(l)
      BY <2>1, <1>l DEF LoopState, LoopGood
    <3>3. loop' = [loop EXCEPT ![n] = l]
      BY <2>3, <1>q DEF TypeOK
    <3> QED
      BY <3>1, <3>2, <3>3, LoopMoves
  <2>4. Loop
    BY <1>15, <2>1, <2>3, LoopGotos DEF ExecRecord, LoopPCs, Holding
  <2> QED
    BY <1>0, <1>m, <1>p, <1>15, <2>2, <2>4 DEF ExecRecord
<1>16. CASE ExecMonitor(n)
  <2>1. loop[n].job \in Jobs /\ loop[n].pid \in Pids
    BY <1>16, <1>l DEF ExecMonitor, At, LoopGood
  <2>2. Loop
    BY <1>16, <2>1, LoopGotos DEF ExecMonitor, LoopPCs, Holding
  <2>3. Shared
    BY <1>16, <2>1, <1>q DEF ExecMonitor, TypeOK, mysql
  <2>4. [MonOff EXCEPT !.pc = "watch"] \in MonState
    BY DEF MonOff, MonState
  <2>5. Memory
    <3>1. tracked' \in [Nodes -> SUBSET Pids] /\ mon \in [Nodes -> [MonKey -> MonState]]
      BY <1>16, <1>q DEF ExecMonitor, TypeOK
    <3>2. ASSUME NEW k, NEW w \in MonState, mon' = [mon EXCEPT ![n][k] = w] PROVE Memory
      BY <3>1, <3>2
    <3> QED
      BY <1>16, <2>4, <3>1, <3>2 DEF ExecMonitor
  <2> QED
    BY <1>0, <1>p, <1>16, <2>2, <2>3, <2>5 DEF ExecMonitor
<1> QED
  BY <1>1, <1>2, <1>3, <1>4, <1>5, <1>6, <1>7, <1>8, <1>9, <1>10, <1>11, <1>12, <1>13, <1>14,
     <1>15, <1>16 DEF LoopNext

\* The monitors: every step keeps the types.
LEMMA MonTypes ==
  ASSUME TypeInv, NEW n \in Nodes, NEW k \in MonKey, MonNext(n, k)
  PROVE  TypeInv'
<1> DEFINE Mon == mon' \in [Nodes -> [MonKey -> MonState]]
<1>q. TypeOK /\ mon \in [Nodes -> [MonKey -> MonState]]
  BY DEF TypeInv, TypeOK
<1>g. ASSUME NEW pc \in {"off", "watch", "untrack", "end", "release"}, MonGoto(n, k, pc) PROVE Mon
  <2>1. [pc |-> pc, fails |-> 0] \in MonState
    BY DEF MonState
  <2> QED
    BY <1>g, <1>q, <2>1 DEF MonGoto
<1>s. {"Completed", "Failed"} \subseteq AnyStatus
  BY DEF AnyStatus, Statuses
<1>0. ASSUME status' \in [Jobs -> AnyStatus], owner' \in [Cards -> Jobs \cup {NoJob}],
             records' \subseteq Rec, procCache' \subseteq Pids, tracked' \in [Nodes -> SUBSET Pids],
             Mon, UNCHANGED <<queue, lock, proc, node, loop, scan, api>>
      PROVE  TypeInv'
  BY <1>0 DEF TypeInv, TypeOK, LoopTyped, ApiTyped
<1>1. CASE MonExit(n, k)
  <2>1. \A s \in Verdicts(k[1]) : s \in AnyStatus
    BY <1>s DEF Verdicts
  <2>2. status' \in [Jobs -> AnyStatus]
    BY <1>1, <1>q, <2>1, UpdateStatusType DEF MonExit
  <2> QED
    BY <1>0, <1>1, <1>g, <2>2, <1>q DEF MonExit, TypeOK, redis
<1>2. CASE MonError(n, k)
  <2>1. mon[n][k] \in MonState
    BY <1>q
  <2>2. [mon[n][k] EXCEPT !.fails = @ + 1] \in MonState
    BY <2>1 DEF MonState
  <2>3. mon' = [mon EXCEPT ![n][k].fails = @ + 1] => Mon
    BY <1>q, <2>2
  <2>4. Mon
    BY <1>2, <1>g, <2>3 DEF MonError
  <2>5. status' \in [Jobs -> AnyStatus]
    BY <1>2, <1>q, <1>s, UpdateStatusType DEF MonError, TypeOK
  <2> QED
    BY <1>0, <1>2, <2>4, <2>5, <1>q DEF MonError, TypeOK, redis
<1>3. CASE MonAlive(n, k)
  BY <1>0, <1>3, <1>g, <1>q DEF MonAlive, TypeOK, redis, mysql
<1>4. CASE MonStopped(n, k)
  BY <1>0, <1>4, <1>g, <1>q DEF MonStopped, TypeOK, redis, mysql
<1>5. CASE MonUntrack(n, k)
  BY <1>0, <1>5, <1>g, <1>q DEF MonUntrack, DelPid, TypeOK, mysql
<1>6. CASE MonEnd(n, k)
  BY <1>0, <1>6, <1>g, <1>q DEF MonEnd, EndRecords, TypeOK, redis
<1>7. CASE MonRelease(n, k)
  <2>1. owner' \in [Cards -> Jobs \cup {NoJob}]
    BY <1>7, <1>q DEF MonRelease, ReleaseCards, Released, TypeOK
  <2> QED
    BY <1>0, <1>7, <1>g, <1>q, <2>1 DEF MonRelease, TypeOK, redis
<1> QED
  BY <1>1, <1>2, <1>3, <1>4, <1>5, <1>6, <1>7 DEF MonNext

\* Recovery and audit: every step keeps the types.
LEMMA ScanTypes ==
  ASSUME TypeInv, NEW n \in Nodes, AuditStart(n) \/ ScanNext(n)
  PROVE  TypeInv'
<1> DEFINE Scan == scan' \in [Nodes -> ScanState]
           Node == node' \in [Nodes -> {"down", "recovering", "up", "stopping", "stopped"}]
<1>q. TypeOK /\ scan \in [Nodes -> ScanState] /\ scan[n] \in ScanState
  BY DEF TypeInv, TypeOK
<1>a. ASSUME NEW x \in ScanState, scan' = [scan EXCEPT ![n] = x] PROVE Scan
  BY <1>a, <1>q
<1>o. ScanOff \in ScanState
  BY DEF ScanOff, ScanState
<1>g. ASSUME NEW pc \in {"off", "list", "next", "each", "failed", "end", "release"},
             scan' = [scan EXCEPT ![n].pc = pc]
      PROVE  Scan
  <2>1. [scan[n] EXCEPT !.pc = pc] \in ScanState
    BY <1>q DEF ScanState
  <2> QED
    BY <1>g, <1>q, <2>1
<1>s. "Failed" \in AnyStatus
  BY DEF AnyStatus, Statuses
<1>0. ASSUME status' \in [Jobs -> AnyStatus], owner' \in [Cards -> Jobs \cup {NoJob}],
             records' \subseteq Rec, procCache' \subseteq Pids, tracked' \in [Nodes -> SUBSET Pids],
             mon' \in [Nodes -> [MonKey -> MonState]], Node, Scan,
             UNCHANGED <<queue, lock, proc, loop, api>>
      PROVE  TypeInv'
  BY <1>0 DEF TypeInv, TypeOK, LoopTyped, ApiTyped
<1>d. ScanDone(n) => Scan /\ Node
  BY <1>a, <1>o, <1>q DEF ScanDone, TypeOK
<1>1. CASE AuditStart(n)
  <2>1. [ScanOff EXCEPT !.pc = "list"] \in ScanState
    BY DEF ScanOff, ScanState
  <2> QED
    BY <1>0, <1>1, <1>a, <2>1, <1>q DEF AuditStart, TypeOK, mysql, redis
<1>2. CASE ScanList(n)
  <2> DEFINE S == {j \in Jobs : status[j] = "Running"}
  <2>1. [scan[n] EXCEPT !.pc = "next", !.jobs = S] \in ScanState
    BY <1>q DEF ScanState
  <2>2. scan' = [scan EXCEPT ![n].pc = "next", ![n].jobs = S] => Scan
    BY <2>1, <1>q
  <2>3. Scan /\ Node
    BY <1>2, <1>d, <1>q, <2>2 DEF ScanList, TypeOK
  <2> QED
    BY <1>0, <1>2, <2>3, <1>q DEF ScanList, TypeOK, mysql, redis
<1>3. CASE ScanJob(n)
  <2>1. ASSUME NEW j \in scan[n].jobs
        PROVE  /\ TakeUp(n, j, FindActiveByJobID(j)) \in ScanState
               /\ scan' = [scan EXCEPT ![n].jobs = @ \ {j}] => Scan
    <3>1. FindActiveByJobID(j) \in SUBSET Rec /\ j \in Jobs /\ scan[n].jobs \ {j} \in SUBSET Jobs
      BY <1>q DEF FindActiveByJobID, TypeOK, ScanState
    <3>2. TakeUp(n, j, FindActiveByJobID(j)) \in ScanState
      BY <3>1, <1>q DEF TakeUp, ScanState
    <3>3. [scan[n] EXCEPT !.jobs = @ \ {j}] \in ScanState
      BY <3>1, <1>q DEF ScanState
    <3> QED
      BY <3>2, <3>3, <1>q
  <2>2. Scan /\ Node
    BY <1>3, <1>a, <1>d, <2>1, <1>q DEF ScanJob, TypeOK
  <2> QED
    BY <1>0, <1>3, <2>2, <1>q DEF ScanJob, TypeOK, mysql, redis
<1>4. CASE ScanEach(n)
  <2> DEFINE Mem == /\ procCache' \subseteq Pids /\ tracked' \in [Nodes -> SUBSET Pids]
                    /\ mon' \in [Nodes -> [MonKey -> MonState]]
  <2>0. UNCHANGED <<tracked, mon, procCache>> => Mem
    BY <1>q DEF TypeOK
  <2>1. ASSUME NEW r \in scan[n].recs
        PROVE  /\ r \in Rec
               /\ ScanSkip(n, r) => Scan
               /\ scan' = [scan EXCEPT ![n].pc = "failed", ![n].recs = @ \ {r}, ![n].rec = r] => Scan
    <3>1. r \in Rec
      BY <2>1, <1>q DEF ScanState
    <3>2. /\ [scan[n] EXCEPT !.recs = @ \ {r}] \in ScanState
          /\ [scan[n] EXCEPT !.pc = "failed", !.recs = @ \ {r}, !.rec = r] \in ScanState
      BY <3>1, <1>q DEF ScanState
    <3> QED
      BY <3>1, <3>2, <1>q DEF ScanSkip
  <2>2. ASSUME NEW r \in Rec, Adopt(n, r) PROVE Mem
    <3>1. r.pid \in Pids
      BY <2>2 DEF Rec
    <3>2. [MonOff EXCEPT !.pc = "watch"] \in MonState
      BY DEF MonOff, MonState
    <3>3. ASSUME NEW k, NEW w \in MonState, mon' = [mon EXCEPT ![n][k] = w]
          PROVE  mon' \in [Nodes -> [MonKey -> MonState]]
      BY <3>3, <1>q DEF TypeOK
    <3>4. mon' \in [Nodes -> [MonKey -> MonState]]
      BY <2>2, <3>2, <3>3 DEF Adopt
    <3> QED
      BY <2>2, <3>1, <3>4, <1>q DEF Adopt, TypeOK
  <2>3. scan' = [scan EXCEPT ![n].pc = "next", ![n].job = NoJob, ![n].rec = NoRec] => Scan
    <3>1. [scan[n] EXCEPT !.pc = "next", !.job = NoJob, !.rec = NoRec] \in ScanState
      BY <1>q DEF ScanState
    <3> QED
      BY <3>1, <1>q
  <2>4. Scan /\ Mem
    BY <1>4, <2>0, <2>1, <2>2, <2>3 DEF ScanEach
  <2> QED
    BY <1>0, <1>4, <2>4, <1>q DEF ScanEach, TypeOK, mysql
<1>5. CASE ScanFailed(n)
  <2>1. status' \in [Jobs -> AnyStatus]
    BY <1>5, <1>q, <1>s, UpdateStatusType DEF ScanFailed
  <2> QED
    BY <1>0, <1>5, <1>g, <2>1, <1>q DEF ScanFailed, TypeOK, redis
<1>6. CASE ScanEnd(n)
  <2>1. records' \subseteq Rec /\ procCache' \subseteq Pids
    BY <1>6, <1>q DEF ScanEnd, EndRecords, DelPid, TypeOK
  <2> QED
    BY <1>0, <1>6, <1>g, <2>1, <1>q DEF ScanEnd, TypeOK
<1>7. CASE ScanRelease(n)
  <2>1. owner' \in [Cards -> Jobs \cup {NoJob}]
    BY <1>7, <1>q DEF ScanRelease, ReleaseCards, Released, TypeOK
  <2> QED
    BY <1>0, <1>7, <1>g, <2>1, <1>q DEF ScanRelease, TypeOK, redis
<1> QED
  BY <1>1, <1>2, <1>3, <1>4, <1>5, <1>6, <1>7 DEF ScanNext

\* Start, Stop, exit and crash of an instance keep the types.
LEMMA LifeTypes ==
  ASSUME TypeInv, NEW n \in Nodes, LifeNext(n)
  PROVE  TypeInv'
<1>q. TypeOK /\ LoopTyped /\ ApiTyped
  BY DEF TypeInv
<1>1. ASSUME NEW s \in {"recovering", "stopping", "stopped"}, node' = [node EXCEPT ![n] = s],
             scan' \in [Nodes -> ScanState],
             UNCHANGED <<mysql, redis, proc, tracked, loop, mon, api>>
      PROVE  TypeInv'
  BY <1>1, <1>q DEF TypeInv, TypeOK, LoopTyped, ApiTyped, mysql, redis
<1>2. CASE Stop(n) \/ StopWaited(n)
  BY <1>1, <1>2, <1>q DEF Stop, StopWaited, TypeOK
<1>3. CASE Start(n)
  <2>1. [ScanOff EXCEPT !.pc = "list", !.mode = "recover"] \in ScanState
    BY DEF ScanOff, ScanState
  <2>2. scan' \in [Nodes -> ScanState]
    BY <1>3, <2>1, <1>q DEF Start, TypeOK
  <2> QED
    BY <1>1, <1>3, <2>2 DEF Start
<1>4. ASSUME Lose(n) PROVE TypeInv'
  <2>1. node' \in [Nodes -> {"down", "recovering", "up", "stopping", "stopped"}]
    BY <1>4, <1>q DEF Lose, TypeOK
  <2>2. tracked' \in [Nodes -> SUBSET Pids]
    BY <1>4, <1>q DEF Lose, TypeOK
  <2>3. loop' \in [Nodes -> LoopState] /\ LoopTyped'
    <3>1. LoopIdle \in LoopState /\ LoopGood(LoopIdle)
      BY DEF LoopIdle, LoopState, LoopPCs, LoopGood, Holding, AnyStatus, NoRow
    <3> QED
      BY <1>4, <3>1, LoopMoves DEF Lose
  <2>4. mon' \in [Nodes -> [MonKey -> MonState]]
    <3>1. [k \in MonKey |-> MonOff] \in [MonKey -> MonState]
      BY DEF MonOff, MonState
    <3> QED
      BY <1>4, <3>1, <1>q DEF Lose, TypeOK
  <2>5. scan' \in [Nodes -> ScanState]
    <3>1. ScanOff \in ScanState
      BY DEF ScanOff, ScanState
    <3> QED
      BY <1>4, <3>1, <1>q DEF Lose, TypeOK
  <2>6. api' \in [Clients -> ApiState] /\ ApiTyped'
    <3>1. ApiIdle \in ApiState /\ ApiIdle.pc = "idle"
      BY DEF ApiIdle, ApiState, ApiPCs, AnyStatus, NoRow
    <3> QED
      BY <1>4, <3>1, <1>q DEF Lose, TypeOK, ApiTyped
  <2> QED
    BY <1>4, <2>1, <2>2, <2>3, <2>4, <2>5, <2>6, <1>q DEF Lose, TypeInv, TypeOK, mysql, redis
<1> QED
  BY <1>2, <1>3, <1>4 DEF LifeNext, Exit, Crash

LEMMA TypeInit == Init => TypeInv
<1> SUFFICES ASSUME Init PROVE TypeInv
  OBVIOUS
<1>1. LoopIdle \in LoopState /\ LoopGood(LoopIdle)
  BY DEF LoopIdle, LoopState, LoopPCs, LoopGood, Holding, AnyStatus, NoRow
<1>2. ApiIdle \in ApiState /\ ApiIdle.pc = "idle"
  BY DEF ApiIdle, ApiState, ApiPCs, AnyStatus, NoRow
<1>3. ScanOff \in ScanState /\ MonOff \in MonState /\ "Unborn" \in AnyStatus
  BY DEF ScanOff, ScanState, MonOff, MonState, AnyStatus, NoRow
<1>4. /\ status \in [Jobs -> AnyStatus]
      /\ owner \in [Cards -> Jobs \cup {NoJob}] /\ records \subseteq Rec /\ queue \in Seq(Jobs)
      /\ procCache \subseteq Pids /\ lock \in Nodes \cup {NoNode}
  BY <1>3 DEF Init
<1>5. /\ proc \in [Pids -> [job : Jobs \cup {NoJob}, st : {"free", "alive", "ok", "bad"}]]
      /\ node \in [Nodes -> {"down", "recovering", "up", "stopping", "stopped"}]
      /\ tracked \in [Nodes -> SUBSET Pids]
  BY DEF Init
<1>6. /\ loop \in [Nodes -> LoopState] /\ LoopTyped
      /\ mon \in [Nodes -> [MonKey -> MonState]]
      /\ scan \in [Nodes -> ScanState]
      /\ api \in [Clients -> ApiState] /\ ApiTyped
  BY <1>1, <1>2, <1>3 DEF Init, LoopTyped, ApiTyped
<1> QED
  BY <1>4, <1>5, <1>6 DEF TypeInv, TypeOK

LEMMA TypeStep == TypeInv /\ [Next]_vars => TypeInv'
<1> SUFFICES ASSUME TypeInv, [Next]_vars PROVE TypeInv'
  OBVIOUS
<1>1. ASSUME NEW p \in Pids, ProcExit(p) PROVE TypeInv'
  <2>1. proc' \in [Pids -> [job : Jobs \cup {NoJob}, st : {"free", "alive", "ok", "bad"}]]
    BY <1>1 DEF ProcExit, TypeInv, TypeOK
  <2> QED
    BY <1>1, <2>1 DEF ProcExit, TypeInv, TypeOK, LoopTyped, ApiTyped, mysql, redis, memory
<1>2. CASE LockExpire
  BY <1>2 DEF LockExpire, TypeInv, TypeOK, LoopTyped, ApiTyped, mysql, memory
<1>3. CASE UNCHANGED vars
  BY <1>3 DEF TypeInv, TypeOK, LoopTyped, ApiTyped, vars, mysql, redis, memory
<1> QED
  BY <1>1, <1>2, <1>3, ApiTypes, LoopTypes, MonTypes, ScanTypes, LifeTypes DEF Next

\* The stores and the goroutines' locals stay well typed: no handler, crash or
\* fault writes a value of the wrong kind, and every id that processQueue,
\* executeJob or MoveBefore uses is the one of a job.
THEOREM TypeCorrect == Spec => []TypeOK
<1>1. TypeInv => TypeOK
  BY DEF TypeInv
<1> QED
  BY <1>1, TypeInit, TypeStep, PTL DEF Spec

-----------------------------------------------------------------------------
(* The cards are safe in calm times *)

Quiet == \A n \in Nodes : node[n] = "up" /\ scan[n].pc = "off"

\* A job about to acquire asks for a card, and a pid about to be recorded
\* is that of a process of the job.
LoopReady ==
  \A n \in Nodes :
    /\ loop[n].pc \in {"check", "acquire"} => GpuIDs[loop[n].job] # <<>>
    /\ loop[n].pc \in {"record", "cachePid"} =>
         proc[loop[n].pid].job = loop[n].job /\ proc[loop[n].pid].st # "free"

\* A process that was started belongs to a job, and monitors watch such ones.
Born ==
  /\ \A p \in Pids : proc[p].st # "free" => proc[p].job \in Jobs
  /\ \A n \in Nodes, k \in MonKey : mon[n][k].pc # "off" => proc[k[1]].st # "free"

LiveHolds == \A p \in Pids : PidExists(p) => Holds(proc[p].job)

Kept    == LoopReady /\ Born /\ LiveHolds /\ Custody
SafeInv == TypeInv /\ Quiet /\ Kept

\* The scheduler goroutine moves to, or stays at, a step where it keeps no cards.
LEMMA LoopOutside ==
  ASSUME SafeInv, NEW n \in Nodes, NEW l \in LoopState, l.pc \notin Holding,
         l.pc \in {"check", "acquire"} => GpuIDs[l.job] # <<>>,
         loop' = [loop EXCEPT ![n] = l], UNCHANGED <<owner, proc, mon>>
  PROVE  Kept'
<1>1. loop \in [Nodes -> LoopState] /\ loop' \in [Nodes -> LoopState]
  BY DEF SafeInv, TypeInv, TypeOK
<1>2. \A m \in Nodes : loop'[m] = loop[m] \/ (m = n /\ loop'[m] = l)
  BY <1>1
<1>3. LoopReady'
  BY <1>2 DEF SafeInv, Kept, LoopReady, Holding
<1>4. Born' /\ LiveHolds' /\ LiveOnce'
  BY DEF SafeInv, Kept, Custody, Born, LiveHolds, LiveOnce, PidExists, Holds
<1>5. KeepersHold'
  BY <1>2 DEF SafeInv, Kept, Custody, KeepersHold, Holds, JobOf
<1>6. SoleKeeper'
  BY <1>2 DEF SafeInv, Kept, Custody, SoleKeeper, Starting, JobOf
<1>7. KeeperKnows'
  BY <1>2 DEF SafeInv, Kept, Custody, KeeperKnows, Starting, JobOf, PidExists
<1> QED
  BY <1>3, <1>4, <1>5, <1>6, <1>7 DEF Kept, Custody

\* It goes on inside executeJob with the same job and process.
LEMMA LoopInside ==
  ASSUME SafeInv, NEW n \in Nodes, NEW l \in LoopState,
         loop[n].pc \in Holding, l.pc \in Holding, l.job = loop[n].job, l.pid = loop[n].pid,
         l.pc \in {"record", "cachePid"} <=> loop[n].pc \in {"record", "cachePid"},
         loop' = [loop EXCEPT ![n] = l], UNCHANGED <<owner, proc, mon>>
  PROVE  Kept'
<1>1. loop \in [Nodes -> LoopState] /\ loop' \in [Nodes -> LoopState]
  BY DEF SafeInv, TypeInv, TypeOK
<1>2. \A m \in Nodes : loop'[m] = loop[m] \/ (m = n /\ loop'[m] = l)
  BY <1>1
<1>3. LoopReady'
  BY <1>2 DEF SafeInv, Kept, LoopReady, Holding
<1>4. Born' /\ LiveHolds' /\ LiveOnce'
  BY DEF SafeInv, Kept, Custody, Born, LiveHolds, LiveOnce, PidExists, Holds
<1>5. KeepersHold'
  BY <1>2 DEF SafeInv, Kept, Custody, KeepersHold, Holds, JobOf
<1>6. SoleKeeper'
  BY <1>2 DEF SafeInv, Kept, Custody, SoleKeeper, Starting, JobOf
<1>7. KeeperKnows'
  BY <1>2 DEF SafeInv, Kept, Custody, KeeperKnows, Starting, JobOf, PidExists
<1> QED
  BY <1>3, <1>4, <1>5, <1>6, <1>7 DEF Kept, Custody

\* A count that matches shows that nobody keeps the job, so the acquisition
\* makes this goroutine its only keeper.
LEMMA AcquireKept ==
  ASSUME SafeInv, NEW n \in Nodes, At(n, "acquire"), CheckAvailable(Cur(n)),
         owner' = Acquired(Cur(n)), Goto(n, "running"), UNCHANGED <<proc, mon>>
  PROVE  Kept'
<1> DEFINE HeldNext(i) == Need(i) \subseteq Cards /\ \A c \in Need(i) : owner'[c] = i
<1>0. PICK j : j = loop[n].job
  OBVIOUS
<1> USE <1>0
<1>1. loop \in [Nodes -> LoopState] /\ LoopTyped /\ owner \in [Cards -> Jobs \cup {NoJob}]
  BY DEF SafeInv, TypeInv, TypeOK
<1>2. j \in Jobs /\ GpuIDs[j] # <<>>
  BY <1>1 DEF LoopTyped, LoopGood, At, SafeInv, Kept, LoopReady
<1>3. Need(j) \subseteq Cards /\ \A c \in Need(j) : owner[c] = NoJob
  BY <1>2, CountMeansAll DEF Cur
<1>4. Need(j) # {}
  <2>1. GpuIDs[j] \in Seq(CardIDs)
    BY <1>2, StoresAssumption
  <2>2. 1 \in DOMAIN GpuIDs[j]
    BY <1>2, <2>1
  <2> QED
    BY <2>2 DEF Need, Range
<1>5. NoJob \notin Jobs
  BY StoresAssumption
<1>6. ~Holds(j)
  BY <1>2, <1>3, <1>4, <1>5 DEF Holds
<1>7. ASSUME NEW i \in Jobs, Holds(i) PROVE HeldNext(i)
  <2>1. ASSUME NEW c \in Need(i) PROVE owner'[c] = i
    <3>1. owner[c] = i /\ c \in Cards
      BY <1>7, <2>1 DEF Holds
    <3>2. c \notin Need(j)
      BY <3>1, <1>3, <1>5
    <3> QED
      BY <3>1, <3>2 DEF Acquired, Cur
  <2> QED
    BY <1>7, <2>1 DEF Holds
<1>8. HeldNext(j)
  BY <1>3 DEF Acquired, Cur
<1>9. \A m \in Nodes : loop'[m] = IF m = n THEN [loop[n] EXCEPT !.pc = "running"] ELSE loop[m]
  BY <1>1 DEF Goto
<1>10. loop'[n].pc = "running" /\ loop'[n].job = j
  BY <1>9, <1>1 DEF LoopState
<1>11. \A m \in Nodes : loop[m].pc \in Holding => loop[m].job # j /\ loop[m].job \in Jobs
  BY <1>1, <1>6 DEF LoopTyped, LoopGood, Holding, SafeInv, Kept, Custody, KeepersHold
<1>12. \A m \in Nodes, k \in MonKey : mon[m][k].pc # "off" => JobOf(k) # j /\ JobOf(k) \in Jobs
  BY <1>6 DEF SafeInv, Kept, Custody, KeepersHold, Born, JobOf, MonKey
<1>13. \A p \in Pids : PidExists(p) => proc[p].job # j /\ proc[p].job \in Jobs
  BY <1>6 DEF SafeInv, Kept, LiveHolds, Born, PidExists
<1> HIDE <1>0
<1>14. LoopReady'
  BY <1>9, <1>10 DEF SafeInv, Kept, LoopReady
<1>15. Born' /\ LiveOnce'
  BY DEF SafeInv, Kept, Custody, Born, LiveOnce, PidExists
<1>16. LiveHolds'
  BY <1>7, <1>13 DEF SafeInv, Kept, LiveHolds, PidExists, Holds
<1>17. KeepersHold'
  <2>1. ASSUME NEW m \in Nodes, loop'[m].pc \in Holding PROVE HeldNext(loop'[m].job)
    <3>1. CASE m = n
      BY <3>1, <1>8, <1>10
    <3>2. CASE m # n
      <4>1. loop'[m] = loop[m]
        BY <3>2, <1>9
      <4>2. loop[m].job \in Jobs /\ Holds(loop[m].job)
        BY <2>1, <4>1, <1>11 DEF SafeInv, Kept, Custody, KeepersHold
      <4> QED
        BY <4>1, <4>2, <1>7
    <3> QED
      BY <3>1, <3>2
  <2>2. ASSUME NEW m \in Nodes, NEW k \in MonKey, mon'[m][k].pc # "off" PROVE HeldNext(JobOf(k)')
    <3>1. JobOf(k)' = JobOf(k) /\ JobOf(k) \in Jobs /\ Holds(JobOf(k))
      BY <2>2, <1>12 DEF SafeInv, Kept, Custody, KeepersHold, JobOf
    <3> QED
      BY <3>1, <1>7
  <2> QED
    BY <2>1, <2>2 DEF KeepersHold, Holds
<1>18. SoleKeeper'
  BY <1>9, <1>10, <1>11, <1>12 DEF SafeInv, Kept, Custody, SoleKeeper, Starting, JobOf
<1>19. KeeperKnows'
  BY <1>9, <1>10, <1>13 DEF SafeInv, Kept, Custody, KeeperKnows, Starting, JobOf, PidExists
<1> QED
  BY <1>14, <1>15, <1>16, <1>17, <1>18, <1>19 DEF Kept, Custody

\* The keeper of a job starts its only process.
LEMMA StartKept ==
  ASSUME SafeInv, NEW n \in Nodes, ExecStart(n)
  PROVE  Kept'
<1> DEFINE j == loop[n].job
<1>1. /\ loop \in [Nodes -> LoopState] /\ LoopTyped
      /\ proc \in [Pids -> [job : Jobs \cup {NoJob}, st : {"free", "alive", "ok", "bad"}]]
  BY DEF SafeInv, TypeInv, TypeOK
<1>2. PICK p \in Pids :
        /\ proc[p].st = "free"
        /\ proc' = [proc EXCEPT ![p] = [job |-> j, st |-> "alive"]]
        /\ loop' = [loop EXCEPT ![n].pc = "record", ![n].pid = p, ![n].todo = Need(Cur(n))]
  BY DEF ExecStart, Spawn, Cur
<1>3. loop[n].pc = "exec" /\ loop[n].pc \in Holding /\ UNCHANGED <<owner, mon>>
  BY DEF ExecStart, At, Holding, mysql
<1>4. j \in Jobs /\ Holds(j)
  BY <1>1, <1>3 DEF LoopTyped, LoopGood, SafeInv, Kept, Custody, KeepersHold
<1>5. /\ loop'[n].pc = "record" /\ loop'[n].pid = p /\ loop'[n].job = j
      /\ \A m \in Nodes : m # n => loop'[m] = loop[m]
  BY <1>1, <1>2 DEF LoopState
<1>6. /\ proc'[p].job = j /\ proc'[p].st = "alive"
      /\ \A q \in Pids : q # p => proc'[q] = proc[q]
  BY <1>1, <1>2
<1>7. \A q \in Pids : PidExists(q) => proc[q].job # j
  BY <1>3 DEF SafeInv, Kept, Custody, KeeperKnows, Starting
<1>8. \A m \in Nodes, k \in MonKey : mon[m][k].pc # "off" => k[1] # p /\ JobOf(k) # j
  BY <1>2, <1>3 DEF SafeInv, Kept, Born, Custody, SoleKeeper, MonKey
<1>9. \A m \in Nodes, k \in MonKey : mon[m][k].pc # "off" => JobOf(k)' = JobOf(k)
  BY <1>6, <1>8 DEF JobOf, MonKey
<1>10. \A m \in Nodes : m # n /\ loop[m].pc \in Holding => loop[m].job # j
  BY <1>3 DEF SafeInv, Kept, Custody, SoleKeeper, Starting
<1>11. \A m \in Nodes : loop[m].pc \in {"record", "cachePid"} => loop[m].pid \in Pids /\ loop[m].pid # p
  BY <1>1, <1>2 DEF LoopTyped, LoopGood, SafeInv, Kept, LoopReady
<1>12. \A i : Holds(i)' <=> Holds(i)
  BY <1>3 DEF Holds
<1> HIDE DEF j
<1>13. LoopReady'
  BY <1>5, <1>6, <1>11 DEF SafeInv, Kept, LoopReady
<1>14. Born'
  <2>1. \A q \in Pids : proc'[q].st # "free" => proc'[q].job \in Jobs
    BY <1>4, <1>6 DEF SafeInv, Kept, Born
  <2>2. \A m \in Nodes, k \in MonKey : mon'[m][k].pc # "off" => proc'[k[1]].st # "free"
    BY <1>3, <1>6, <1>8 DEF SafeInv, Kept, Born, MonKey
  <2> QED
    BY <2>1, <2>2 DEF Born
<1>15. LiveHolds'
  BY <1>4, <1>6, <1>12 DEF SafeInv, Kept, LiveHolds, PidExists
<1>16. LiveOnce'
  BY <1>6, <1>7 DEF SafeInv, Kept, Custody, LiveOnce, PidExists
<1>17. KeepersHold'
  BY <1>3, <1>4, <1>5, <1>9, <1>12 DEF SafeInv, Kept, Custody, KeepersHold, Holding
<1>18. SoleKeeper'
  <2>1. \A m \in Nodes : loop'[m].job = loop[m].job /\ (loop'[m].pc \in Holding <=> loop[m].pc \in Holding)
    BY <1>3, <1>5 DEF j, Holding
  <2> QED
    BY <1>3, <1>9, <2>1 DEF SafeInv, Kept, Custody, SoleKeeper, Starting
<1>19. KeeperKnows'
  <2>1. ASSUME NEW m \in Nodes, NEW q \in Pids, PidExists(q)', Starting(m, proc[q].job)'
        PROVE  loop'[m].pc \in {"record", "cachePid"} /\ loop'[m].pid = q
    <3>1. CASE q = p
      BY <1>5, <1>6, <1>10, <2>1, <3>1 DEF Starting
    <3>2. CASE q # p
      BY <1>5, <1>6, <1>7, <2>1, <3>2 DEF SafeInv, Kept, Custody, KeeperKnows, Starting, PidExists
    <3> QED
      BY <3>1, <3>2
  <2>2. ASSUME NEW m \in Nodes, NEW k \in MonKey, NEW q \in Pids,
               PidExists(q)', mon'[m][k].pc # "off", JobOf(k)' = proc'[q].job
        PROVE  mon'[m][k].pc = "watch" /\ k[1] = q
    <3>1. q # p /\ JobOf(k) = proc[q].job /\ PidExists(q)
      BY <1>3, <1>6, <1>8, <1>9, <2>2 DEF PidExists
    <3> QED
      BY <1>3, <2>2, <3>1 DEF SafeInv, Kept, Custody, KeeperKnows
  <2> QED
    BY <2>1, <2>2 DEF KeeperKnows
<1> QED
  BY <1>13, <1>14, <1>15, <1>16, <1>17, <1>18, <1>19 DEF Kept, Custody

\* The cards of a job held by one job belong to no other: releasing them leaves
\* every other job's cards alone.
LEMMA ReleaseSpares ==
  ASSUME TypeOK, NEW j, Holds(j), NEW i, i # j, Holds(i),
         owner' = Released(j) \/ UNCHANGED owner
  PROVE  Need(i) \subseteq Cards /\ \A c \in Need(i) : owner'[c] = i
<1>1. ASSUME NEW c \in Need(i) PROVE owner'[c] = i
  <2>1. c \in Cards /\ owner[c] = i /\ c \notin Need(j)
    BY <1>1 DEF Holds
  <2> QED
    BY <2>1 DEF Released
<1> QED
  BY <1>1 DEF Holds

\* The sole keeper of a job without processes gives its cards back and is gone.
LEMMA LoopReleaseKept ==
  ASSUME SafeInv, NEW n \in Nodes, ExecRelease(n)
  PROVE  Kept'
<1> DEFINE HeldNext(i) == Need(i) \subseteq Cards /\ \A c \in Need(i) : owner'[c] = i
<1>0. PICK j : j = loop[n].job
  OBVIOUS
<1>1. loop \in [Nodes -> LoopState] /\ TypeOK
  BY DEF SafeInv, TypeInv, TypeOK
<1>2. /\ loop[n].pc \in {"undo", "fail"} /\ loop[n].pc \in Holding
      /\ owner' = Released(j) \/ UNCHANGED owner
      /\ UNCHANGED <<proc, mon>>
  BY <1>0 DEF ExecRelease, At, Cur, Holding
<1>3. Holds(j)
  BY <1>0, <1>2 DEF SafeInv, Kept, Custody, KeepersHold
<1>4. /\ loop'[n].pc \in {"dequeue", "failed"}
      /\ \A m \in Nodes : m # n => loop'[m] = loop[m]
  BY <1>1 DEF ExecRelease, Goto, LoopState
<1>5. ASSUME NEW i, i # j, Holds(i) PROVE HeldNext(i)
  BY <1>1, <1>2, <1>3, <1>5, ReleaseSpares
<1>6. \A p \in Pids : PidExists(p) => proc[p].job # j
  BY <1>0, <1>2 DEF SafeInv, Kept, Custody, KeeperKnows, Starting
<1>7. \A m \in Nodes, k \in MonKey : mon[m][k].pc # "off" => JobOf(k) # j
  BY <1>0, <1>2 DEF SafeInv, Kept, Custody, SoleKeeper
<1>8. \A m \in Nodes : m # n /\ loop[m].pc \in Holding => loop[m].job # j
  BY <1>0, <1>2 DEF SafeInv, Kept, Custody, SoleKeeper, Starting
<1>9. LoopReady'
  BY <1>2, <1>4 DEF SafeInv, Kept, LoopReady
<1>10. Born' /\ LiveOnce'
  BY <1>2 DEF SafeInv, Kept, Custody, Born, LiveOnce, PidExists
<1>11. LiveHolds'
  BY <1>2, <1>5, <1>6 DEF SafeInv, Kept, LiveHolds, PidExists, Holds
<1>12. KeepersHold'
  <2>1. ASSUME NEW m \in Nodes, loop'[m].pc \in Holding PROVE HeldNext(loop'[m].job)
    BY <2>1, <1>4, <1>5, <1>8 DEF SafeInv, Kept, Custody, KeepersHold, Holding
  <2>2. ASSUME NEW m \in Nodes, NEW k \in MonKey, mon'[m][k].pc # "off" PROVE HeldNext(JobOf(k)')
    BY <2>2, <1>2, <1>5, <1>7 DEF SafeInv, Kept, Custody, KeepersHold, JobOf
  <2> QED
    BY <2>1, <2>2 DEF KeepersHold, Holds
<1>13. SoleKeeper'
  BY <1>2, <1>4 DEF SafeInv, Kept, Custody, SoleKeeper, Starting, JobOf, Holding
<1>14. KeeperKnows'
  BY <1>2, <1>4 DEF SafeInv, Kept, Custody, KeeperKnows, Starting, JobOf, PidExists, Holding
<1> QED
  BY <1>9, <1>10, <1>11, <1>12, <1>13, <1>14 DEF Kept, Custody

\* A monitor moves on without touching cards or processes.  It may leave "watch"
\* only when its process is gone.
LEMMA MonMoves ==
  ASSUME SafeInv, NEW n \in Nodes, NEW k \in MonKey, NEW w \in MonState,
         mon[n][k].pc # "off", w.pc = "watch" => mon[n][k].pc = "watch",
         w.pc # "watch" => ~PidExists(k[1]) \/ mon[n][k].pc # "watch",
         mon' = [mon EXCEPT ![n][k] = w], UNCHANGED <<owner, proc, loop>>
  PROVE  Kept'
<1>1. mon \in [Nodes -> [MonKey -> MonState]]
  BY DEF SafeInv, TypeInv, TypeOK
<1>2. \A m \in Nodes, l \in MonKey : mon'[m][l] = IF m = n /\ l = k THEN w ELSE mon[m][l]
  BY <1>1
<1>3. LoopReady' /\ LiveHolds' /\ LiveOnce'
  BY DEF SafeInv, Kept, Custody, LoopReady, LiveHolds, LiveOnce, PidExists, Holds
<1>4. Born'
  BY <1>2 DEF SafeInv, Kept, Born
<1>5. KeepersHold'
  BY <1>2 DEF SafeInv, Kept, Custody, KeepersHold, Holds, JobOf
<1>6. SoleKeeper'
  BY <1>2 DEF SafeInv, Kept, Custody, SoleKeeper, Starting, JobOf
<1>7. KeeperKnows'
  BY <1>2 DEF SafeInv, Kept, Custody, KeeperKnows, Starting, JobOf, PidExists
<1> QED
  BY <1>3, <1>4, <1>5, <1>6, <1>7 DEF Kept, Custody

\* The end of a monitor's clean-up.
LEMMA MonReleaseKept ==
  ASSUME SafeInv, NEW n \in Nodes, NEW k \in MonKey, MonRelease(n, k)
  PROVE  Kept'
<1> DEFINE HeldNext(i) == Need(i) \subseteq Cards /\ \A c \in Need(i) : owner'[c] = i
<1>0. PICK j : j = JobOf(k)
  OBVIOUS
<1>1. mon \in [Nodes -> [MonKey -> MonState]] /\ TypeOK
  BY DEF SafeInv, TypeInv, TypeOK
<1>2. /\ mon[n][k].pc = "release" /\ UNCHANGED <<proc, loop>>
      /\ owner' = Released(j) \/ UNCHANGED owner
  BY <1>0 DEF MonRelease, ReleaseCards
<1>3. \A m \in Nodes, l \in MonKey :
        /\ m = n /\ l = k => mon'[m][l].pc = "off"
        /\ ~(m = n /\ l = k) => mon'[m][l] = mon[m][l]
  BY <1>1 DEF MonRelease, MonGoto
<1>4. Holds(j)
  BY <1>0, <1>2 DEF SafeInv, Kept, Custody, KeepersHold
<1>5. ASSUME NEW i, i # j, Holds(i) PROVE HeldNext(i)
  BY <1>1, <1>2, <1>4, <1>5, ReleaseSpares
<1>6. \A p \in Pids : PidExists(p) => proc[p].job # j
  BY <1>0, <1>2 DEF SafeInv, Kept, Custody, KeeperKnows
<1>7. \A m \in Nodes : loop[m].pc \in Holding => loop[m].job # j
  BY <1>0, <1>2 DEF SafeInv, Kept, Custody, SoleKeeper
<1>8. \A m \in Nodes, l \in MonKey : mon'[m][l].pc # "off" => JobOf(l) # j /\ mon'[m][l] = mon[m][l]
  BY <1>0, <1>2, <1>3 DEF SafeInv, Kept, Custody, SoleKeeper
<1>9. LoopReady' /\ LiveOnce'
  BY <1>2 DEF SafeInv, Kept, Custody, LoopReady, LiveOnce, PidExists
<1>10. Born'
  BY <1>2, <1>8 DEF SafeInv, Kept, Born
<1>11. LiveHolds'
  BY <1>2, <1>5, <1>6 DEF SafeInv, Kept, LiveHolds, PidExists, Holds
<1>12. KeepersHold'
  <2>1. ASSUME NEW m \in Nodes, loop'[m].pc \in Holding PROVE HeldNext(loop'[m].job)
    BY <2>1, <1>2, <1>5, <1>7 DEF SafeInv, Kept, Custody, KeepersHold
  <2>2. ASSUME NEW m \in Nodes, NEW l \in MonKey, mon'[m][l].pc # "off" PROVE HeldNext(JobOf(l)')
    BY <2>2, <1>2, <1>5, <1>8 DEF SafeInv, Kept, Custody, KeepersHold, JobOf
  <2> QED
    BY <2>1, <2>2 DEF KeepersHold, Holds
<1>13. SoleKeeper'
  BY <1>2, <1>8 DEF SafeInv, Kept, Custody, SoleKeeper, Starting, JobOf
<1>14. KeeperKnows'
  BY <1>2, <1>8 DEF SafeInv, Kept, Custody, KeeperKnows, Starting, JobOf, PidExists
<1> QED
  BY <1>9, <1>10, <1>11, <1>12, <1>13, <1>14 DEF Kept, Custody

\* executeJob hands the job over to a monitor, or leaves it without a keeper.
LEMMA HandOverKept ==
  ASSUME SafeInv, NEW n \in Nodes, ExecMonitor(n)
  PROVE  Kept'
<1>0. PICK j, p, x : j = loop[n].job /\ p = loop[n].pid /\ x = <<p, GpuIDs[j][1]>>
  OBVIOUS
<1>1. /\ loop \in [Nodes -> LoopState] /\ mon \in [Nodes -> [MonKey -> MonState]]
      /\ LoopTyped
  BY DEF SafeInv, TypeInv, TypeOK
<1>2. loop[n].pc = "cachePid" /\ loop[n].pc \in Holding /\ UNCHANGED <<owner, proc>>
  BY DEF ExecMonitor, At, Holding, mysql
<1>3. p \in Pids /\ proc[p].job = j /\ proc[p].st # "free"
  BY <1>0, <1>1, <1>2 DEF LoopTyped, LoopGood, SafeInv, Kept, LoopReady
<1>4. /\ loop'[n].pc = "dequeue"
      /\ \A m \in Nodes : m # n => loop'[m] = loop[m]
  BY <1>1 DEF ExecMonitor, Goto, LoopState
<1>5. \A m \in Nodes, k \in MonKey :
        \/ mon'[m][k] = mon[m][k]
        \/ m = n /\ k = x /\ mon'[m][k].pc = "watch"
  <2>1. UNCHANGED mon \/ mon' = [mon EXCEPT ![n][x] = [MonOff EXCEPT !.pc = "watch"]]
    BY <1>0 DEF ExecMonitor, Cur
  <2>2. [MonOff EXCEPT !.pc = "watch"].pc = "watch"
    BY DEF MonOff
  <2>3. ASSUME NEW w, w.pc = "watch", mon' = [mon EXCEPT ![n][x] = w],
               NEW m \in Nodes, NEW k \in MonKey
        PROVE  mon'[m][k] = mon[m][k] \/ (m = n /\ k = x /\ mon'[m][k].pc = "watch")
    BY <1>1, <2>3
  <2> QED
    BY <2>1, <2>2, <2>3
<1>6. Holds(j)
  BY <1>0, <1>2 DEF SafeInv, Kept, Custody, KeepersHold
<1>7. \A m \in Nodes, k \in MonKey : mon[m][k].pc # "off" => JobOf(k) # j
  BY <1>0, <1>2 DEF SafeInv, Kept, Custody, SoleKeeper
<1>8. \A m \in Nodes : m # n /\ loop[m].pc \in Holding => loop[m].job # j
  BY <1>0, <1>2 DEF SafeInv, Kept, Custody, SoleKeeper, Starting
<1>9. \A q \in Pids : PidExists(q) /\ proc[q].job = j => q = p
  BY <1>0, <1>2 DEF SafeInv, Kept, Custody, KeeperKnows, Starting
<1>10. JobOf(x) = j /\ x[1] = p
  BY <1>0, <1>3 DEF JobOf
<1>11. LoopReady'
  BY <1>2, <1>4 DEF SafeInv, Kept, LoopReady
<1>12. LiveHolds' /\ LiveOnce'
  BY <1>2 DEF SafeInv, Kept, Custody, LiveHolds, LiveOnce, PidExists, Holds
<1>13. Born'
  BY <1>2, <1>3, <1>5, <1>10 DEF SafeInv, Kept, Born
<1>14. KeepersHold'
  BY <1>2, <1>4, <1>5, <1>6, <1>10 DEF SafeInv, Kept, Custody, KeepersHold, Holds, JobOf, Holding
<1>15. SoleKeeper'
  <2>1. \A m \in Nodes : loop'[m].pc \in Holding => m # n /\ loop'[m] = loop[m]
    BY <1>4 DEF Holding
  <2>2. \A k \in MonKey : JobOf(k)' = JobOf(k)
    BY <1>2 DEF JobOf
  <2> QED
    BY <2>1, <2>2, <1>5, <1>7, <1>8, <1>10 DEF SafeInv, Kept, Custody, SoleKeeper, Starting
<1>16. KeeperKnows'
  <2>1. \A m \in Nodes : loop'[m].pc \in Holding => loop'[m] = loop[m]
    BY <1>4 DEF Holding
  <2>2. \A k \in MonKey : JobOf(k)' = JobOf(k)
    BY <1>2 DEF JobOf
  <2> QED
    BY <2>1, <2>2, <1>2, <1>5, <1>9, <1>10 DEF SafeInv, Kept, Custody, KeeperKnows, Starting, PidExists
<1> QED
  BY <1>11, <1>12, <1>13, <1>14, <1>15, <1>16 DEF Kept, Custody

\* A process that ends leaves everything else as it was.
LEMMA ExitKept ==
  ASSUME SafeInv, NEW p \in Pids, ProcExit(p)
  PROVE  Kept'
<1>1. proc \in [Pids -> [job : Jobs \cup {NoJob}, st : {"free", "alive", "ok", "bad"}]] /\ LoopTyped
  BY DEF SafeInv, TypeInv, TypeOK
<1>2. UNCHANGED <<owner, loop, mon>>
  BY DEF ProcExit, mysql, memory
<1>3. /\ \A q \in Pids : proc'[q].job = proc[q].job
      /\ \A q \in Pids : proc'[q].st = "free" <=> proc[q].st = "free"
      /\ \A q \in Pids : PidExists(q)' => PidExists(q)
  BY <1>1 DEF ProcExit, PidExists
<1>4. \A k \in MonKey : JobOf(k)' = JobOf(k)
  BY <1>3 DEF JobOf, MonKey
<1>5. \A n \in Nodes : loop[n].pc \in {"record", "cachePid"} => loop[n].pid \in Pids
  BY <1>1 DEF LoopTyped, LoopGood
<1>6. LoopReady'
  BY <1>2, <1>3, <1>5 DEF SafeInv, Kept, LoopReady
<1>7. Born'
  BY <1>2, <1>3 DEF SafeInv, Kept, Born, MonKey
<1>8. LiveHolds' /\ LiveOnce'
  BY <1>2, <1>3 DEF SafeInv, Kept, Custody, LiveHolds, LiveOnce, Holds
<1>9. KeepersHold' /\ SoleKeeper'
  BY <1>2, <1>4 DEF SafeInv, Kept, Custody, KeepersHold, SoleKeeper, Starting, Holds
<1>10. KeeperKnows'
  BY <1>2, <1>3, <1>4 DEF SafeInv, Kept, Custody, KeeperKnows, Starting
<1> QED
  BY <1>6, <1>7, <1>8, <1>9, <1>10 DEF Kept, Custody

\* In calm times every step of the scheduler goroutine is one of those above.
LEMMA LoopKept ==
  ASSUME Calm, SafeInv, NEW n \in Nodes, LoopNext(n)
  PROVE  Kept'
<1>1. loop \in [Nodes -> LoopState] /\ loop[n] \in LoopState
  BY DEF SafeInv, TypeInv, TypeOK
<1>2. ASSUME NEW pc \in LoopPCs \ Holding, Goto(n, pc), UNCHANGED <<owner, proc, mon>>,
             pc \in {"check", "acquire"} => GpuIDs[loop[n].job] # <<>>
      PROVE  Kept'
  <2> DEFINE l == [loop[n] EXCEPT !.pc = pc]
  <2>1. l \in LoopState /\ l.pc = pc /\ l.job = loop[n].job
    BY <1>1, <1>2 DEF LoopState
  <2>2. loop' = [loop EXCEPT ![n] = l]
    BY <1>1, <1>2 DEF Goto
  <2> HIDE DEF l
  <2> QED
    BY <1>2, <2>1, <2>2, LoopOutside
<1>3. ASSUME Leave(n), UNCHANGED <<owner, proc, mon>> PROVE Kept'
  <2> DEFINE l == [LoopIdle EXCEPT !.pc = "unlock"]
  <2>1. l \in LoopState /\ l.pc = "unlock" /\ l.pc \notin Holding
    BY DEF LoopIdle, LoopState, LoopPCs, Holding, AnyStatus, NoRow
  <2>2. loop' = [loop EXCEPT ![n] = l]
    BY <1>3 DEF Leave
  <2> HIDE DEF l
  <2> QED
    BY <1>3, <2>1, <2>2, LoopOutside
<1>4. ASSUME NEW pc \in Holding \ {"record", "cachePid"}, Goto(n, pc), UNCHANGED <<owner, proc, mon>>,
             loop[n].pc \in Holding \ {"record", "cachePid"}
      PROVE  Kept'
  <2> DEFINE l == [loop[n] EXCEPT !.pc = pc]
  <2>1. l \in LoopState /\ l.pc = pc /\ l.job = loop[n].job /\ l.pid = loop[n].pid
    BY <1>1, <1>4 DEF LoopState, LoopPCs, Holding
  <2>2. loop' = [loop EXCEPT ![n] = l]
    BY <1>1, <1>4 DEF Goto
  <2> HIDE DEF l
  <2> QED
    BY <1>4, <2>1, <2>2, LoopInside
<1>p. /\ LoopPCs \ Holding = {"idle", "peek", "load", "check", "wait", "acquire", "failed", "dequeue", "unlock"}
      /\ Holding \ {"record", "cachePid"} = {"running", "cards", "exec", "undo", "fail"}
  BY DEF LoopPCs, Holding
<1>5. CASE LoopLock(n)
  BY <1>2, <1>5, <1>p DEF LoopLock, mysql
<1>6. CASE LoopUnlock(n)
  <2>1. LoopIdle \in LoopState /\ LoopIdle.pc = "idle" /\ "idle" \notin Holding
    BY DEF LoopIdle, LoopState, LoopPCs, Holding, AnyStatus, NoRow
  <2> QED
    BY <1>6, <2>1, LoopOutside DEF LoopUnlock, mysql
<1>7. CASE LoopPeek(n)
  <2>1. ASSUME queue # <<>>, loop' = [loop EXCEPT ![n].pc = "load", ![n].job = Head(queue)] PROVE Kept'
    <3> DEFINE l == [loop[n] EXCEPT !.pc = "load", !.job = Head(queue)]
    <3>1. Head(queue) \in Jobs
      BY <2>1 DEF SafeInv, TypeInv, TypeOK
    <3>2. l \in LoopState /\ l.pc = "load" /\ l.pc \notin Holding
      BY <3>1, <1>1 DEF LoopState, LoopPCs, Holding
    <3>3. loop' = [loop EXCEPT ![n] = l]
      BY <2>1, <1>1
    <3> HIDE DEF l
    <3> QED
      BY <1>7, <3>2, <3>3, LoopOutside DEF LoopPeek, mysql
  <2> QED
    BY <1>3, <1>7, <2>1 DEF LoopPeek, mysql
<1>8. CASE LoopLoad(n)
  <2>0. UNCHANGED <<owner, proc, mon>>
    BY <1>8 DEF LoopLoad, mysql
  <2>1. ASSUME NEW s \in AnyStatus, GpuIDs[loop[n].job] # <<>>,
               loop' = [loop EXCEPT ![n].pc = "check", ![n].seen = s]
        PROVE  Kept'
    <3> DEFINE l == [loop[n] EXCEPT !.pc = "check", !.seen = s]
    <3>1. l \in LoopState /\ l.pc = "check" /\ l.pc \notin Holding /\ l.job = loop[n].job
      BY <1>1 DEF LoopState, LoopPCs, Holding
    <3>2. loop' = [loop EXCEPT ![n] = l]
      BY <2>1, <1>1
    <3> HIDE DEF l
    <3> QED
      BY <2>0, <2>1, <3>1, <3>2, LoopOutside
  <2>2. Waiting \subseteq AnyStatus
    BY DEF Waiting, AnyStatus, Statuses
  <2> QED
    BY <1>2, <1>3, <1>8, <1>p, <2>0, <2>1, <2>2 DEF LoopLoad, Cur
<1>9. CASE LoopCheck(n)
  <2>1. UNCHANGED <<owner, proc, mon>> /\ GpuIDs[loop[n].job] # <<>>
    BY <1>9 DEF LoopCheck, At, mysql, SafeInv, Kept, LoopReady
  <2> QED
    BY <1>2, <1>3, <1>9, <1>p, <2>1 DEF LoopCheck
<1>10. CASE LoopWait(n)
  BY <1>3, <1>10 DEF LoopWait
<1>11. CASE LoopDequeue(n)
  BY <1>3, <1>11 DEF LoopDequeue, mysql
<1>12. CASE ExecAcquire(n)
  BY <1>2, <1>12, <1>p, AcquireKept DEF ExecAcquire
<1>13. CASE ExecRunning(n)
  BY <1>4, <1>13, <1>p DEF ExecRunning, At
<1>14. CASE ExecCards(n)
  BY <1>2, <1>4, <1>14, <1>p DEF ExecCards, At, mysql
<1>15. CASE ExecStart(n)
  BY <1>15, StartKept
<1>16. CASE ExecStartFails(n)
  BY <1>4, <1>16, <1>p DEF ExecStartFails, At, mysql, Calm, Fails
<1>17. CASE ExecRelease(n)
  BY <1>17, LoopReleaseKept
<1>18. CASE ExecFailed(n)
  BY <1>2, <1>18, <1>p DEF ExecFailed
<1>19. CASE ExecRecord(n)
  <2>0. loop[n].pc = "record" /\ loop[n].pc \in Holding /\ UNCHANGED <<owner, proc, mon>>
    BY <1>19 DEF ExecRecord, At, Holding
  <2>1. ASSUME NEW c \in loop[n].todo,
               loop' = [loop EXCEPT ![n].todo = @ \ {c},
                                    ![n].pc = IF loop[n].todo = {c} THEN "cachePid" ELSE "record"]
        PROVE  Kept'
    <3> DEFINE l == [loop[n] EXCEPT !.todo = @ \ {c},
                                    !.pc = IF loop[n].todo = {c} THEN "cachePid" ELSE "record"]
    <3>1. l \in LoopState
      BY <1>1 DEF LoopState, LoopPCs
    <3>2. l.pc \in {"record", "cachePid"} /\ l.pc \in Holding /\ l.job = loop[n].job /\ l.pid = loop[n].pid
      BY <1>1 DEF LoopState, Holding
    <3>3. loop' = [loop EXCEPT ![n] = l]
      BY <2>1, <1>1
    <3> HIDE DEF l
    <3> QED
      BY <2>0, <3>1, <3>2, <3>3, LoopInside
  <2> QED
    BY <1>2, <1>19, <1>p, <2>0, <2>1 DEF ExecRecord
<1>20. CASE ExecMonitor(n)
  BY <1>20, HandOverKept
<1> QED
  BY <1>5, <1>6, <1>7, <1>8, <1>9, <1>10, <1>11, <1>12, <1>13, <1>14, <1>15, <1>16, <1>17, <1>18,
     <1>19, <1>20 DEF LoopNext

\* The same for the monitors: the GPU server answers and nobody stops, so a
\* monitor leaves "watch" only when the process is gone.
LEMMA MonKept ==
  ASSUME Calm, SafeInv, NEW n \in Nodes, NEW k \in MonKey, MonNext(n, k)
  PROVE  Kept'
<1>1. ASSUME NEW pc \in {"watch", "untrack", "end", "release"}, MonGoto(n, k, pc),
             mon[n][k].pc # "off", UNCHANGED <<owner, proc, loop>>,
             pc = "watch" => mon[n][k].pc = "watch",
             pc # "watch" => ~PidExists(k[1]) \/ mon[n][k].pc # "watch"
      PROVE  Kept'
  <2> DEFINE w == [pc |-> pc, fails |-> 0]
  <2>1. w \in MonState /\ w.pc = pc
    BY DEF MonState
  <2>2. mon' = [mon EXCEPT ![n][k] = w]
    BY <1>1 DEF MonGoto
  <2> HIDE DEF w
  <2> QED
    BY <1>1, <2>1, <2>2, MonMoves
<1>2. CASE MonExit(n, k)
  BY <1>1, <1>2 DEF MonExit
<1>3. CASE MonError(n, k)
  BY <1>3 DEF MonError, Calm, Fails
<1>4. CASE MonAlive(n, k)
  BY <1>1, <1>4 DEF MonAlive, mysql
<1>5. CASE MonStopped(n, k)
  BY <1>5 DEF MonStopped, CtxLive, SafeInv, Quiet
<1>6. CASE MonUntrack(n, k)
  BY <1>1, <1>6 DEF MonUntrack, mysql
<1>7. CASE MonEnd(n, k)
  BY <1>1, <1>7 DEF MonEnd
<1>8. CASE MonRelease(n, k)
  BY <1>8, MonReleaseKept
<1> QED
  BY <1>2, <1>3, <1>4, <1>5, <1>6, <1>7, <1>8 DEF MonNext

LEMMA SafeInit == ASSUME Calm, Init PROVE SafeInv
<1>1. TypeInv
  BY TypeInit
<1>2. Quiet
  BY DEF Init, Quiet, Calm, ScanOff
<1>3. \A n \in Nodes : loop[n].pc = "idle"
  BY DEF Init, LoopIdle
<1>4. \A n \in Nodes, k \in MonKey : mon[n][k].pc = "off"
  BY DEF Init, MonOff
<1>5. \A p \in Pids : proc[p].st = "free"
  BY DEF Init
<1> QED
  BY <1>1, <1>2, <1>3, <1>4, <1>5
     DEF SafeInv, Kept, LoopReady, Born, LiveHolds, Custody, KeepersHold, SoleKeeper, KeeperKnows,
         LiveOnce, Starting, Holding, PidExists

LEMMA SafeStep ==
  ASSUME Calm, SafeInv, [Next]_vars
  PROVE  SafeInv'
<1>1. TypeInv'
  BY TypeStep DEF SafeInv
<1>2. ASSUME NEW n \in Nodes PROVE ~AuditStart(n) /\ ~ScanNext(n) /\ ~LifeNext(n)
  <2>1. node[n] = "up" /\ scan[n].pc = "off"
    BY DEF SafeInv, Quiet
  <2>2. ~AuditStart(n)
    BY DEF AuditStart, Calm
  <2>3. ~ScanNext(n)
    BY <2>1 DEF ScanNext, ScanList, ScanJob, ScanEach, ScanFailed, ScanEnd, ScanRelease
  <2>4. ~LifeNext(n)
    BY <2>1 DEF LifeNext, Stop, StopWaited, Exit, Crash, Start, Calm
  <2> QED
    BY <2>2, <2>3, <2>4
<1>3. ASSUME UNCHANGED <<owner, proc, loop, mon, node, scan>> PROVE Quiet' /\ Kept'
  BY <1>3 DEF SafeInv, Quiet, Kept, LoopReady, Born, LiveHolds, Custody, KeepersHold, SoleKeeper,
              KeeperKnows, LiveOnce, Starting, Holds, PidExists, JobOf
<1>q. UNCHANGED <<node, scan>> => Quiet'
  BY DEF SafeInv, Quiet
<1>4. ASSUME NEW c \in Clients, ApiNext(c) PROVE Quiet' /\ Kept'
  <2>1. UNCHANGED otherThanApi
    BY <1>4 DEF ApiNext, ApiContinue, SubmitCreate, SubmitEnqueue, SubmitRollback, CancelRead, CancelWrite,
                CancelDequeue, CancelRollback, RemoveRead, RemoveDequeue, RemoveMark, ReorderRead,
                ReorderMove, ReorderFixHead, ReorderFixMoved, FixRank, FixLoad, FixWrite
  <2> QED
    BY <1>3, <2>1 DEF otherThanApi, memory
<1>5. ASSUME NEW n \in Nodes, LoopNext(n) PROVE Quiet' /\ Kept'
  <2>1. UNCHANGED others
    BY <1>5 DEF LoopNext, LoopLock, LoopPeek, LoopLoad, LoopCheck, LoopWait, LoopDequeue, LoopUnlock,
                ExecAcquire, ExecRunning, ExecCards, ExecStart, ExecStartFails, ExecRelease, ExecFailed,
                ExecRecord, ExecMonitor
  <2> QED
    BY <1>5, <1>q, <2>1, LoopKept DEF others
<1>6. ASSUME NEW n \in Nodes, NEW k \in MonKey, MonNext(n, k) PROVE Quiet' /\ Kept'
  <2>1. UNCHANGED <<node, scan>>
    BY <1>6 DEF MonNext, MonExit, MonError, MonAlive, MonStopped, MonUntrack, MonEnd, MonRelease
  <2> QED
    BY <1>6, <1>q, <2>1, MonKept
<1>7. ASSUME NEW p \in Pids, ProcExit(p) PROVE Quiet' /\ Kept'
  BY <1>7, <1>q, ExitKept DEF ProcExit, memory
<1>8. CASE LockExpire
  BY <1>1, <1>3, <1>8 DEF LockExpire, mysql, memory, SafeInv
<1>9. CASE UNCHANGED vars
  BY <1>1, <1>3, <1>9 DEF vars, mysql, memory, SafeInv
<1> QED
  BY <1>1, <1>2, <1>4, <1>5, <1>6, <1>7, <1>8, <1>9 DEF Next, SafeInv

\* In calm times whoever will release a job's cards holds them all, is the only
\* one, and no process of the job outlives the release -- for any number of
\* instances, even when lock:queue_process expires under its holder and every
\* call to MySQL, Redis or the job start may fail.
THEOREM CustodyKept == ASSUME Calm PROVE Spec => []Custody
<1>1. SafeInv => Custody
  BY DEF SafeInv, Kept
<1>2. Init => SafeInv
  BY SafeInit
<1>3. SafeInv /\ [Next]_vars => SafeInv'
  BY SafeStep
<1> QED
  BY <1>1, <1>2, <1>3, PTL DEF Spec

\* In calm times gpu_cards never gives away, or marks idle, a card that a live
\* process of another or the same job still uses.
THEOREM LiveProcessesHoldCards == ASSUME Calm PROVE Spec => []LiveHoldsCards
<1>1. SafeInv => LiveHoldsCards
  BY DEF SafeInv, Kept, LiveHolds, Holds, LiveHoldsCards
<1>2. Init => SafeInv
  BY SafeInit
<1>3. SafeInv /\ [Next]_vars => SafeInv'
  BY SafeStep
<1> QED
  BY <1>1, <1>2, <1>3, PTL DEF Spec

\* In calm times two live processes never share a GPU card.
THEOREM CardsExclusive == ASSUME Calm PROVE Spec => []CardExclusive
<1>1. SafeInv => CardExclusive
  BY DEF SafeInv, Kept, LiveHolds, Holds, Custody, LiveOnce, CardExclusive
<1>2. Init => SafeInv
  BY SafeInit
<1>3. SafeInv /\ [Next]_vars => SafeInv'
  BY SafeStep
<1> QED
  BY <1>1, <1>2, <1>3, PTL DEF Spec

-----------------------------------------------------------------------------
(* What each actor leaves alone *)

\* A handler touches the job table, the queue and its own locals.
LEMMA ApiFrame ==
  ASSUME TypeOK, NEW c \in Clients, ApiNext(c)
  PROVE  UNCHANGED otherThanApi /\ \A d \in Clients \ {c} : api'[d] = api[d]
<1>1. UNCHANGED otherThanApi
  BY DEF ApiNext, ApiContinue, SubmitCreate, SubmitEnqueue, SubmitRollback, CancelRead, CancelWrite,
         CancelDequeue, CancelRollback, RemoveRead, RemoveDequeue, RemoveMark, ReorderRead,
         ReorderMove, ReorderFixHead, ReorderFixMoved, FixRank, FixLoad, FixWrite
<1>2. \E a : api' = [api EXCEPT ![c] = a]
  <2>1. ASSUME NEW from, NEW to PROVE Step(c, from, to) \/ Reply(c, from) => \E a : api' = [api EXCEPT ![c] = a]
    BY DEF Step, Reply
  <2>2. ASSUME NEW n, NEW pc, NEW j, NEW old PROVE Call(c, n, pc, j, old) => \E a : api' = [api EXCEPT ![c] = a]
    BY DEF Call
  <2>3. ASSUME NEW from, NEW to PROVE Finish(c, from, to) => \E a : api' = [api EXCEPT ![c] = a]
    BY <2>1 DEF Finish
  <2> QED
    BY <2>1, <2>2, <2>3
       DEF ApiNext, ApiContinue, SubmitCreate, SubmitEnqueue, SubmitRollback, CancelRead, CancelWrite,
           CancelDequeue, CancelRollback, RemoveRead, RemoveDequeue, RemoveMark, ReorderRead,
           ReorderMove, ReorderFixHead, ReorderFixMoved, FixRank, FixLoad, FixWrite
<1> QED
  BY <1>1, <1>2 DEF TypeOK

\* The scheduler goroutine of an instance touches no other goroutine, and of the
\* monitors it only starts the one of the process it recorded.
LEMMA LoopFrame ==
  ASSUME TypeOK, NEW n \in Nodes, LoopNext(n)
  PROVE  UNCHANGED others /\ \A m \in Nodes \ {n} : loop'[m] = loop[m]
<1>1. UNCHANGED others
  BY DEF LoopNext, LoopLock, LoopPeek, LoopLoad, LoopCheck, LoopWait, LoopDequeue, LoopUnlock,
         ExecAcquire, ExecRunning, ExecCards, ExecStart, ExecStartFails, ExecRelease, ExecFailed,
         ExecRecord, ExecMonitor
<1>2. \E l : loop' = [loop EXCEPT ![n] = l]
  BY DEF LoopNext, LoopLock, LoopPeek, LoopLoad, LoopCheck, LoopWait, LoopDequeue, LoopUnlock,
         ExecAcquire, ExecRunning, ExecCards, ExecStart, ExecStartFails, ExecRelease, ExecFailed,
         ExecRecord, ExecMonitor, Goto, Leave
<1> QED
  BY <1>1, <1>2 DEF TypeOK

\* A monitor touches neither queue nor processes nor another goroutine.
LEMMA MonFrame ==
  ASSUME TypeOK, NEW n \in Nodes, NEW k \in MonKey, MonNext(n, k)
  PROVE  /\ UNCHANGED <<queue, lock, proc, node, loop, scan, api>>
         /\ \A m \in Nodes, l \in MonKey : <<m, l>> # <<n, k>> => mon'[m][l] = mon[m][l]
<1>1. UNCHANGED <<queue, lock, proc, node, loop, scan, api>>
  BY DEF MonNext, MonExit, MonError, MonAlive, MonStopped, MonUntrack, MonEnd, MonRelease, redis
<1>2. \E w : mon' = [mon EXCEPT ![n][k] = w]
  BY DEF MonNext, MonExit, MonError, MonAlive, MonStopped, MonUntrack, MonEnd, MonRelease, MonGoto
<1> QED
  BY <1>1, <1>2 DEF TypeOK

-----------------------------------------------------------------------------
(* Completed is never invented *)

\* A process has a job from its start on, and what handles a pid handles one that
\* was started.
Started ==
  /\ \A p \in Pids : proc[p].st = "free" => proc[p].job = NoJob
  /\ \A p \in Pids : proc[p].st # "free" => proc[p].job \in Jobs
  /\ \A n \in Nodes : loop[n].pc \in {"record", "cachePid"} => proc[loop[n].pid].st # "free"
  /\ \A n \in Nodes, k \in MonKey : mon[n][k].pc # "off" => proc[k[1]].st # "free"

\* CancelJob's rollback writes the status it checked.
CancelsWaiting == \A c \in Clients : api[c].pc \in {"cancel", "zrem", "restore"} => api[c].old \in Waiting

DoneInv == TypeInv /\ Started /\ CancelsWaiting /\ CompletedMeansExited

\* No job becomes Completed in the step.
NoneCompletes == \A j \in Jobs : status'[j] = "Completed" => status[j] = "Completed"

\* No job ends well or badly in the step.
NoVerdict == \A j \in Jobs : status'[j] \in {"Completed", "Failed"} => status'[j] = status[j]

\* Processes are started and end; they change in no other way.
ProcsGrow ==
  \A p \in Pids :
    \/ proc'[p] = proc[p]
    \/ proc[p].st = "free" /\ proc'[p].st = "alive" /\ proc'[p].job \in Jobs
    \/ proc[p].st = "alive" /\ proc'[p].st \in {"ok", "bad"} /\ proc'[p].job = proc[p].job

LEMMA OthersWrite ==
  ASSUME TypeOK, NEW j, NEW s, status' = Updated(j, s) \/ UpdateStatus(j, s)
  PROVE  /\ s # "Completed" => NoneCompletes
         /\ s \notin {"Completed", "Failed"} => NoVerdict
  BY DEF TypeOK, Updated, UpdateStatus, NoneCompletes, NoVerdict

\* A handler gives no verdict, and keeps what it checked.
LEMMA ApiDone ==
  ASSUME TypeInv, CancelsWaiting, NEW c \in Clients, ApiNext(c)
  PROVE  NoVerdict /\ CancelsWaiting'
<1>t. TypeOK /\ api \in [Clients -> ApiState] /\ status \in [Jobs -> AnyStatus]
  BY DEF TypeInv, TypeOK
<1>f. \A d \in Clients \ {c} : api'[d] = api[d]
  BY <1>t, ApiFrame
<1> DEFINE Fine(a) == a.pc \in {"cancel", "zrem", "restore"} => a.old \in Waiting
<1>0. ASSUME Fine(api'[c]) PROVE CancelsWaiting'
  BY <1>0, <1>f DEF CancelsWaiting
<1>c. Fine(api[c])
  BY DEF CancelsWaiting
<1>r. ASSUME NEW from, Reply(c, from) PROVE Fine(api'[c])
  BY <1>r, <1>t DEF Reply, ApiIdle
<1>s. ASSUME NEW from, NEW to, Step(c, from, to),
             to \in {"cancel", "zrem", "restore"} => from \in {"cancel", "zrem", "restore"}
      PROVE  Fine(api'[c])
  BY <1>s, <1>t, <1>c DEF Step, ApiState
<1>n. ASSUME NEW from, NEW to, Finish(c, from, to), to \notin {"cancel", "zrem", "restore"}
      PROVE  Fine(api'[c])
  BY <1>n, <1>r, <1>s DEF Finish
<1>l. ASSUME NEW n, NEW pc, NEW j, NEW old, Call(c, n, pc, j, old),
             pc \in {"cancel", "zrem", "restore"} => old \in Waiting
      PROVE  Fine(api'[c])
  BY <1>l, <1>t DEF Call, ApiIdle
<1>u. UNCHANGED status => NoVerdict
  BY DEF NoVerdict
<1> HIDE DEF Fine
<1> USE <1>0
<1>1. ASSUME NEW n \in Nodes, NEW j \in Jobs,
             SubmitCreate(c, n, j) \/ CancelRead(c, n, j) \/ RemoveRead(c, n, j)
      PROVE  NoVerdict /\ Fine(api'[c])
  <2>1. Fine(api'[c])
    BY <1>1, <1>l DEF SubmitCreate, CancelRead, RemoveRead
  <2> QED
    BY <1>1, <1>t, <1>u, <2>1 DEF NoVerdict, SubmitCreate, CancelRead, RemoveRead
<1>2. ASSUME NEW n \in Nodes, NEW j \in Jobs, NEW target \in Jobs, ReorderRead(c, n, j, target)
      PROVE  NoVerdict /\ Fine(api'[c])
  BY <1>2, <1>t DEF NoVerdict, ReorderRead, Fine, ApiIdle
<1>3. CASE SubmitEnqueue(c)
  BY <1>3, <1>r, <1>s DEF NoVerdict, SubmitEnqueue
<1>4. CASE SubmitRollback(c)
  BY <1>4, <1>r, <1>t DEF NoVerdict, SubmitRollback
<1>5. CASE CancelWrite(c)
  BY <1>5, <1>r, <1>s, <1>t, <1>u, OthersWrite DEF CancelWrite
<1>6. CASE CancelDequeue(c)
  BY <1>6, <1>r, <1>s DEF NoVerdict, CancelDequeue
<1>7. CASE CancelRollback(c)
  <2>1. api[c].old \notin {"Completed", "Failed"}
    BY <1>7 DEF CancelRollback, Reply, CancelsWaiting, Waiting
  <2> QED
    BY <1>7, <1>r, <1>t, <2>1, OthersWrite DEF CancelRollback
<1>8. CASE RemoveDequeue(c)
  BY <1>8, <1>r, <1>s DEF NoVerdict, RemoveDequeue
<1>9. CASE RemoveMark(c)
  BY <1>9, <1>r, <1>t, <1>u, OthersWrite DEF RemoveMark
<1>10. CASE ReorderMove(c)
  BY <1>10, <1>r, <1>s DEF NoVerdict, ReorderMove
<1>11. CASE ReorderFixHead(c)
  BY <1>11, <1>r, <1>s, <1>n, <1>t, <1>u, OthersWrite DEF ReorderFixHead, FixRank, FixLoad, FixWrite
<1>12. CASE ReorderFixMoved(c)
  BY <1>12, <1>r, <1>s, <1>n, <1>t, <1>u, OthersWrite DEF ReorderFixMoved, FixRank, FixLoad, FixWrite
<1> QED
  BY <1>0, <1>1, <1>2, <1>3, <1>4, <1>5, <1>6, <1>7, <1>8, <1>9, <1>10, <1>11, <1>12
     DEF ApiNext, ApiContinue

\* The scheduler goroutine completes no job, and records the pid it was given.
LEMMA LoopDone ==
  ASSUME TypeInv, Started, NEW n \in Nodes, LoopNext(n)
  PROVE  NoneCompletes /\ ProcsGrow /\ Started'
<1>t. /\ TypeOK /\ loop \in [Nodes -> LoopState] /\ loop[n] \in LoopState
      /\ proc \in [Pids -> [job : Jobs \cup {NoJob}, st : {"free", "alive", "ok", "bad"}]]
      /\ mon \in [Nodes -> [MonKey -> MonState]]
  BY DEF TypeInv, TypeOK
<1>f. \A m \in Nodes \ {n} : loop'[m] = loop[m]
  BY <1>t, LoopFrame
<1>g. LoopGood(loop[n]) /\ \A m \in Nodes : loop[m].pc \in {"record", "cachePid"} => loop[m].pid \in Pids
  BY DEF TypeInv, LoopTyped, LoopGood
<1>1. NoneCompletes
  <2>1. UNCHANGED mysql \/ UNCHANGED status => NoneCompletes
    BY DEF mysql, NoneCompletes
  <2>2. LoopWait(n) \/ ExecRunning(n) \/ ExecFailed(n) => NoneCompletes
    BY <1>t, <2>1, OthersWrite DEF LoopWait, ExecRunning, ExecFailed
  <2> QED
    BY <2>1, <2>2
       DEF LoopNext, LoopLock, LoopPeek, LoopLoad, LoopCheck, LoopDequeue, LoopUnlock,
           ExecAcquire, ExecCards, ExecStart, ExecStartFails, ExecRelease, ExecRecord, ExecMonitor
<1>2. ProcsGrow
  <2>1. UNCHANGED proc => ProcsGrow
    BY DEF ProcsGrow
  <2>2. ASSUME NEW p \in Pids, Spawn(p, Cur(n)), Cur(n) \in Jobs PROVE ProcsGrow
    BY <1>t, <2>2 DEF Spawn, ProcsGrow
  <2>3. At(n, "exec") => Cur(n) \in Jobs
    BY <1>g DEF At, Cur, LoopGood
  <2>4. ExecStart(n) \/ ExecStartFails(n) => ProcsGrow
    BY <2>1, <2>2, <2>3 DEF ExecStart, ExecStartFails
  <2> QED
    BY <2>1, <2>4
       DEF LoopNext, LoopLock, LoopPeek, LoopLoad, LoopCheck, LoopWait, LoopDequeue, LoopUnlock,
           ExecAcquire, ExecRunning, ExecCards, ExecRelease, ExecFailed, ExecRecord, ExecMonitor
<1>3. \/ loop'[n].pc \notin {"record", "cachePid"}
      \/ /\ loop'[n].pid = loop[n].pid /\ loop[n].pc \in {"record", "cachePid"}
      \/ loop'[n].pid \in Pids /\ proc'[loop'[n].pid].st = "alive"
  <2>1. ASSUME NEW pc, Goto(n, pc), pc \notin {"record", "cachePid"} PROVE loop'[n].pc \notin {"record", "cachePid"}
    BY <1>t, <2>1 DEF Goto, LoopState
  <2>2. ASSUME Leave(n) PROVE loop'[n].pc \notin {"record", "cachePid"}
    BY <1>t, <2>2 DEF Leave, LoopIdle
  <2>3. CASE ExecStart(n)
    BY <1>t, <2>3 DEF ExecStart, Spawn, LoopState
  <2>4. CASE ExecRecord(n)
    <3>1. ASSUME NEW c \in loop[n].todo,
                 loop' = [loop EXCEPT ![n].todo = @ \ {c},
                                      ![n].pc = IF loop[n].todo = {c} THEN "cachePid" ELSE "record"]
          PROVE  loop'[n].pid = loop[n].pid
      BY <1>t, <3>1 DEF LoopState
    <3> QED
      BY <2>1, <2>4, <3>1 DEF ExecRecord, At
  <2>5. CASE LoopUnlock(n)
    BY <1>t, <2>5 DEF LoopUnlock, LoopIdle
  <2>6. CASE LoopPeek(n)
    BY <1>t, <2>2, <2>6 DEF LoopPeek, LoopState
  <2>7. CASE LoopLoad(n)
    <3>1. ASSUME NEW s, loop' = [loop EXCEPT ![n].pc = "check", ![n].seen = s] PROVE loop'[n].pc = "check"
      BY <1>t, <3>1 DEF LoopState
    <3> QED
      BY <2>1, <2>2, <2>7, <3>1 DEF LoopLoad
  <2> QED
    BY <2>1, <2>2, <2>3, <2>4, <2>5, <2>6, <2>7
       DEF LoopNext, LoopLock, LoopCheck, LoopWait, LoopDequeue,
           ExecAcquire, ExecRunning, ExecCards, ExecStartFails, ExecRelease, ExecFailed, ExecMonitor
<1>4. ASSUME NEW m \in Nodes, NEW k \in MonKey, mon'[m][k].pc # "off"
      PROVE  mon[m][k].pc # "off" \/ (k[1] = loop[n].pid /\ loop[n].pc = "cachePid")
  <2>1. \/ UNCHANGED mon
        \/ /\ loop[n].pc = "cachePid"
           /\ mon' = [mon EXCEPT ![n][<<loop[n].pid, GpuIDs[Cur(n)][1]>>] = [MonOff EXCEPT !.pc = "watch"]]
    BY DEF LoopNext, LoopLock, LoopPeek, LoopLoad, LoopCheck, LoopWait, LoopDequeue, LoopUnlock,
           ExecAcquire, ExecRunning, ExecCards, ExecStart, ExecStartFails, ExecRelease, ExecFailed,
           ExecRecord, ExecMonitor, At
  <2>2. ASSUME NEW p, NEW g, NEW w, mon' = [mon EXCEPT ![n][<<p, g>>] = w]
        PROVE  mon[m][k].pc # "off" \/ k[1] = p
    BY <1>4, <1>t, <2>2 DEF MonKey
  <2> QED
    BY <1>4, <2>1, <2>2
<1>5. \A p \in Pids : proc[p].st # "free" => proc'[p].st # "free" /\ proc'[p].job = proc[p].job
  BY <1>2 DEF ProcsGrow
<1>6. /\ \A p \in Pids : proc'[p].st = "free" => proc'[p].job = NoJob
      /\ \A p \in Pids : proc'[p].st # "free" => proc'[p].job \in Jobs
  BY <1>2 DEF ProcsGrow, Started
<1>7. \A m \in Nodes : loop'[m].pc \in {"record", "cachePid"} => proc'[loop'[m].pid].st # "free"
  BY <1>3, <1>5, <1>f, <1>g DEF Started
<1>8. \A m \in Nodes, k \in MonKey : mon'[m][k].pc # "off" => proc'[k[1]].st # "free"
  BY <1>4, <1>5, <1>g DEF Started, MonKey
<1> QED
  BY <1>1, <1>2, <1>6, <1>7, <1>8 DEF Started
\* The verdict Completed needs an exit code 0, when the code can be read.
LEMMA VerdictEarned ==
  ASSUME TypeInv, Started, "GetJobExitCode" \notin Faults, NEW p \in Pids, proc[p].st # "free",
         ~PidExists(p), "Completed" \in Verdicts(p)
  PROVE  \E q \in Pids : proc[q].job = proc[p].job /\ proc[q].st = "ok"
<1> DEFINE codes == ExitCodes(proc[p].job)
<1>1. proc \in [Pids -> [job : Jobs \cup {NoJob}, st : {"free", "alive", "ok", "bad"}]]
  BY DEF TypeInv, TypeOK
<1>2. proc[p].st \in codes
  BY DEF ExitCodes
<1>3. ~Fails("GetJobExitCode") /\ codes # {}
  BY <1>2 DEF Fails
<1>4. \E x \in codes : x # "bad"
  BY <1>3 DEF Verdicts
<1>5. PICK q \in Pids : proc[q].job = proc[p].job /\ ~PidExists(q) /\ proc[q].st # "bad"
  BY <1>4 DEF ExitCodes
<1>6. proc[q].st # "free"
  BY <1>5, StoresAssumption DEF Started
<1> QED
  BY <1>1, <1>5, <1>6 DEF PidExists

\* A monitor completes the job of an exited process only.
LEMMA MonDone ==
  ASSUME TypeInv, Started, CompletedMeansExited, "GetJobExitCode" \notin Faults,
         NEW n \in Nodes, NEW k \in MonKey, MonNext(n, k)
  PROVE  CompletedMeansExited' /\ Started'
<1>t. TypeOK /\ status \in [Jobs -> AnyStatus] /\ mon \in [Nodes -> [MonKey -> MonState]] /\ k[1] \in Pids
  BY DEF TypeInv, TypeOK, MonKey
<1>f. /\ UNCHANGED <<proc, loop>>
      /\ \A m \in Nodes, l \in MonKey : <<m, l>> # <<n, k>> => mon'[m][l] = mon[m][l]
  BY <1>t, MonFrame
<1>1. mon[n][k].pc # "off"
  BY DEF MonNext, MonExit, MonError, MonAlive, MonStopped, MonUntrack, MonEnd, MonRelease
<1>2. Started'
  BY <1>f, <1>1 DEF Started
<1>n. NoneCompletes => CompletedMeansExited'
  BY <1>f DEF NoneCompletes, CompletedMeansExited
<1>u. UNCHANGED mysql \/ UNCHANGED status => NoneCompletes
  BY DEF mysql, NoneCompletes
<1> USE <1>2
<1>3. CASE MonExit(n, k)
  <2>1. PICK s \in Verdicts(k[1]) : UpdateStatus(JobOf(k), s)
    BY <1>3 DEF MonExit
  <2>2. CASE s # "Completed"
    BY <1>t, <1>n, <2>1, <2>2, OthersWrite
  <2>3. CASE s = "Completed"
    <3>1. \E q \in Pids : proc[q].job = JobOf(k) /\ proc[q].st = "ok"
      BY <1>t, <1>1, <1>3, <2>3, VerdictEarned DEF MonExit, Started, JobOf
    <3>2. \A j \in Jobs : status'[j] = "Completed" => status[j] = "Completed" \/ j = JobOf(k)
      BY <1>t, <2>1 DEF UpdateStatus, Updated
    <3> QED
      BY <1>f, <3>1, <3>2 DEF CompletedMeansExited
  <2> QED
    BY <2>2, <2>3
<1>4. CASE MonError(n, k)
  BY <1>t, <1>n, <1>u, <1>4, OthersWrite DEF MonError
<1>5. CASE ~MonExit(n, k) /\ ~MonError(n, k)
  BY <1>5, <1>n, <1>u DEF MonNext, MonAlive, MonStopped, MonUntrack, MonEnd, MonRelease
<1> QED
  BY <1>2, <1>3, <1>4, <1>5

\* Recovery and audit complete no job, and adopt live processes only.
LEMMA ScanDoneKeeps ==
  ASSUME TypeInv, Started, NEW n \in Nodes, AuditStart(n) \/ ScanNext(n)
  PROVE  NoneCompletes /\ Started'
<1>t. TypeOK /\ mon \in [Nodes -> [MonKey -> MonState]] /\ scan[n] \in ScanState
  BY DEF TypeInv, TypeOK
<1>1. UNCHANGED <<proc, loop>>
  BY DEF AuditStart, ScanNext, ScanList, ScanJob, ScanEach, ScanFailed, ScanEnd, ScanRelease
<1>2. NoneCompletes
  <2>1. UNCHANGED mysql \/ UNCHANGED status => NoneCompletes
    BY DEF mysql, NoneCompletes
  <2>2. ScanFailed(n) => NoneCompletes
    BY <1>t, OthersWrite DEF ScanFailed
  <2> QED
    BY <2>1, <2>2 DEF AuditStart, ScanNext, ScanList, ScanJob, ScanEach, ScanEnd, ScanRelease
<1>3. \A m \in Nodes, k \in MonKey : mon'[m][k].pc # "off" => mon[m][k].pc # "off" \/ PidExists(k[1])
  <2>1. \/ UNCHANGED mon
        \/ \E r \in scan[n].recs :
             PidExists(r.pid) /\ mon' = [mon EXCEPT ![n][<<r.pid, r.card>>] = [MonOff EXCEPT !.pc = "watch"]]
    BY DEF AuditStart, ScanNext, ScanList, ScanJob, ScanEach, ScanFailed, ScanEnd, ScanRelease, Adopt
  <2>2. ASSUME NEW p, NEW g, NEW w, mon' = [mon EXCEPT ![n][<<p, g>>] = w], PidExists(p),
               NEW m \in Nodes, NEW k \in MonKey, mon'[m][k].pc # "off"
        PROVE  mon[m][k].pc # "off" \/ PidExists(k[1])
    BY <1>t, <2>2 DEF MonKey
  <2> QED
    BY <2>1, <2>2
<1> QED
  BY <1>1, <1>2, <1>3 DEF Started, PidExists

LEMMA DoneStep ==
  ASSUME "GetJobExitCode" \notin Faults, DoneInv, [Next]_vars
  PROVE  DoneInv'
<1>t. TypeInv /\ TypeOK /\ Started /\ CancelsWaiting /\ CompletedMeansExited
  BY DEF DoneInv, TypeInv
<1>1. TypeInv'
  BY <1>t, TypeStep
<1>2. NoneCompletes /\ ProcsGrow => CompletedMeansExited'
  BY <1>t DEF NoneCompletes, ProcsGrow, CompletedMeansExited
<1>p. UNCHANGED proc => ProcsGrow
  BY DEF ProcsGrow
<1>s. UNCHANGED status => NoneCompletes
  BY DEF NoneCompletes
<1>a. UNCHANGED api => CancelsWaiting'
  BY <1>t DEF CancelsWaiting
<1>3. ASSUME NEW c \in Clients, ApiNext(c) PROVE DoneInv'
  <2>1. UNCHANGED <<proc, loop, mon>>
    BY <1>t, <1>3, ApiFrame DEF otherThanApi, memory
  <2>2. Started'
    BY <1>t, <2>1 DEF Started
  <2> QED
    BY <1>t, <1>1, <1>2, <1>3, <1>p, <2>1, <2>2, ApiDone DEF DoneInv, NoVerdict, NoneCompletes
<1>4. ASSUME NEW n \in Nodes, LoopNext(n) PROVE DoneInv'
  BY <1>t, <1>1, <1>2, <1>4, <1>a, LoopFrame, LoopDone DEF DoneInv, others
<1>5. ASSUME NEW n \in Nodes, NEW k \in MonKey, MonNext(n, k) PROVE DoneInv'
  BY <1>t, <1>1, <1>5, <1>a, MonFrame, MonDone DEF DoneInv
<1>6. ASSUME NEW n \in Nodes, AuditStart(n) \/ ScanNext(n) PROVE DoneInv'
  <2>1. UNCHANGED <<proc, api>>
    BY <1>6 DEF AuditStart, ScanNext, ScanList, ScanJob, ScanEach, ScanFailed, ScanEnd, ScanRelease
  <2> QED
    BY <1>t, <1>1, <1>2, <1>6, <1>a, <1>p, <2>1, ScanDoneKeeps DEF DoneInv
<1>7. ASSUME NEW n \in Nodes, LifeNext(n) PROVE DoneInv'
  <2>1. UNCHANGED <<status, proc>>
    BY <1>7 DEF LifeNext, Stop, StopWaited, Exit, Crash, Start, Lose, mysql
  <2>2. Lose(n) => Started' /\ CancelsWaiting'
    BY <1>t, <2>1 DEF Lose, Started, CancelsWaiting, TypeOK, LoopIdle, MonOff, ApiIdle
  <2>3. UNCHANGED <<loop, mon, api>> => Started' /\ CancelsWaiting'
    BY <1>t, <2>1 DEF Started, CancelsWaiting
  <2>4. Started' /\ CancelsWaiting'
    BY <1>7, <2>2, <2>3 DEF LifeNext, Stop, StopWaited, Exit, Crash, Start
  <2> QED
    BY <1>1, <1>2, <1>p, <1>s, <2>1, <2>4 DEF DoneInv
<1>8. ASSUME NEW p \in Pids, ProcExit(p) PROVE DoneInv'
  <2>1. ProcsGrow /\ UNCHANGED <<status, loop, mon, api>>
    BY <1>8, <1>t DEF ProcExit, ProcsGrow, TypeOK, mysql, memory
  <2>2. Started'
    BY <1>t, <2>1 DEF Started, ProcsGrow, TypeInv, LoopTyped, LoopGood, MonKey
  <2> QED
    BY <1>1, <1>2, <1>a, <1>s, <2>1, <2>2 DEF DoneInv
<1>9. CASE LockExpire \/ UNCHANGED vars
  <2>1. UNCHANGED <<status, proc, loop, mon, api>>
    BY <1>9 DEF LockExpire, vars, mysql, memory
  <2>2. Started'
    BY <1>t, <2>1 DEF Started
  <2> QED
    BY <1>1, <1>2, <1>a, <1>p, <1>s, <2>1, <2>2 DEF DoneInv
<1> QED
  BY <1>3, <1>4, <1>5, <1>6, <1>7, <1>8, <1>9 DEF Next

\* No job is Completed unless a process of it ended with exit code 0, whatever
\* crashes, stops, audits, cancellations and failing calls come between --
\* except for an exit code file that cannot be read, which monitorJob takes
\* for success.
THEOREM CompletedIsEarned ==
  ASSUME "GetJobExitCode" \notin Faults PROVE Spec => []CompletedMeansExited
<1>1. Init => DoneInv
  <2> SUFFICES ASSUME Init PROVE DoneInv
    OBVIOUS
  <2>1. TypeInv
    BY TypeInit
  <2> QED
    BY <2>1 DEF Init, DoneInv, Started, CancelsWaiting, CompletedMeansExited, LoopIdle, MonOff, ApiIdle
<1>2. DoneInv /\ [Next]_vars => DoneInv'
  BY DoneStep
<1>3. DoneInv => CompletedMeansExited
  BY DEF DoneInv
<1> QED
  BY <1>1, <1>2, <1>3, PTL DEF Spec

-----------------------------------------------------------------------------
(* The scheduler lists its tasks *)

\* Only started processes have an entry in the hash job:pid.
Cached  == \A p \in procCache : proc[p].st # "free"
ListInv == SafeInv /\ Cached

Coming(p) == \E n \in Nodes : loop[n].pid = p /\ loop[n].pc \in {"record", "cachePid"}

\* The stage of a pid, case by case, before and after a step.
LEMMA TaskIs ==
  ASSUME TypeOK, TypeOK', NEW p \in Pids
  PROVE  /\ proc[p].st = "free" => TaskOf(p) = "free"
         /\ proc[p].st \in {"ok", "bad"} => TaskOf(p) = "gone"
         /\ PidExists(p) /\ p \in procCache => TaskOf(p) = "live"
         /\ PidExists(p) /\ p \notin procCache /\ Coming(p) => TaskOf(p) = "starting"
         /\ PidExists(p) /\ p \notin procCache /\ ~Coming(p) => TaskOf(p) = "stray"
         /\ proc'[p].st \in {"ok", "bad"} => TaskOf(p)' = "gone"
         /\ PidExists(p)' /\ p \in procCache' => TaskOf(p)' = "live"
         /\ PidExists(p)' /\ p \notin procCache' /\ Coming(p)' => TaskOf(p)' = "starting"
         /\ PidExists(p)' /\ p \notin procCache' /\ ~Coming(p)' => TaskOf(p)' = "stray"
  BY DEF TaskOf, PidExists, Coming

LEMMA TaskSame ==
  ASSUME NEW p \in Pids, proc'[p] = proc[p], p \in procCache' <=> p \in procCache,
         PidExists(p) /\ p \notin procCache => (Coming(p)' <=> Coming(p))
  PROVE  TaskOf(p)' = TaskOf(p)
  BY DEF TaskOf, PidExists, Coming

\* The stages of the pids, as Tasks sees them.
Stage == [p \in Pids |-> TaskOf(p)]

LEMMA StageMoves ==
  ASSUME NEW p \in Pids, NEW x, TaskOf(p)' = x, \A q \in Pids \ {p} : TaskOf(q)' = TaskOf(q)
  PROVE  Stage' = [Stage EXCEPT ![p] = x]
  BY DEF Stage

ListStep == Listed!TaskNext \/ UNCHANGED <<Stage, procCache>>

\* A step of the scheduler goroutine that starts, records and caches nothing.
LEMMA LoopLists ==
  ASSUME Calm, ListInv, TypeInv', NEW n \in Nodes, LoopNext(n)
  PROVE  Cached' /\ ListStep
<1>t. /\ TypeOK /\ TypeOK' /\ TypeInv /\ loop \in [Nodes -> LoopState] /\ loop[n] \in LoopState
      /\ proc \in [Pids -> [job : Jobs \cup {NoJob}, st : {"free", "alive", "ok", "bad"}]]
      /\ procCache \subseteq Pids
  BY DEF ListInv, SafeInv, TypeInv, TypeOK
<1>f. \A m \in Nodes \ {n} : loop'[m] = loop[m]
  BY <1>t, LoopFrame
<1>s. SafeInv /\ Cached
  BY DEF ListInv
<1>o. ASSUME loop[n].pc \in {"record", "cachePid"}
      PROVE  /\ loop[n].pid \in Pids /\ proc[loop[n].pid].st # "free"
             /\ \A m \in Nodes \ {n} : loop[m].pc \in {"record", "cachePid"} => loop[m].pid # loop[n].pid
  <2>1. LoopTyped /\ LoopReady /\ SoleKeeper
    BY <1>s DEF SafeInv, TypeInv, Kept, Custody
  <2>2. \A m \in Nodes : loop[m].pc \in {"record", "cachePid"} =>
           loop[m].pc \in Holding /\ proc[loop[m].pid].job = loop[m].job /\ proc[loop[m].pid].st # "free"
    BY <2>1 DEF LoopReady, Holding
  <2> QED
    BY <1>o, <2>1, <2>2 DEF LoopTyped, LoopGood, SoleKeeper, Starting
\* nothing changes for any pid
<1>q. ASSUME UNCHANGED <<proc, procCache>>, loop[n].pc \in {"record", "cachePid"} <=> loop'[n].pc \in {"record", "cachePid"},
             loop[n].pc \in {"record", "cachePid"} => loop'[n].pid = loop[n].pid
      PROVE  Cached' /\ ListStep
  <2>1. \A p \in Pids : Coming(p)' <=> Coming(p)
    BY <1>q, <1>f DEF Coming
  <2>2. \A p \in Pids : TaskOf(p)' = TaskOf(p)
    BY <1>q, <2>1, TaskSame
  <2>3. UNCHANGED Stage
    BY <2>2 DEF Stage
  <2> QED
    BY <1>q, <1>s, <2>3 DEF ListStep, Cached
\* executeJob gives the process up
<1>g. ASSUME UNCHANGED <<proc, procCache>>, loop[n].pc \in {"record", "cachePid"}, loop'[n].pc = "dequeue"
      PROVE  Cached' /\ ListStep
  <2>0. PICK p : p = loop[n].pid
    OBVIOUS
  <2>1. p \in Pids /\ ~Coming(p)' /\ Coming(p) /\ \A q \in Pids \ {p} : Coming(q)' <=> Coming(q)
    BY <1>o, <1>f, <1>g, <2>0 DEF Coming
  <2>2. \A q \in Pids \ {p} : TaskOf(q)' = TaskOf(q)
    BY <1>g, <2>1, TaskSame
  <2>3. CASE PidExists(p) /\ p \notin procCache
    <3>1. TaskOf(p) = "starting" /\ TaskOf(p)' = "stray"
      BY <1>t, <1>g, <2>1, <2>3, TaskIs DEF PidExists
    <3>2. Stage' = [Stage EXCEPT ![p] = "stray"]
      BY <2>1, <2>2, <3>1, StageMoves
    <3>3. Listed!Abandon(p)
      BY <1>g, <2>1, <3>1, <3>2 DEF Listed!Abandon, Stage
    <3> QED
      BY <1>g, <1>s, <2>1, <3>3 DEF ListStep, Listed!TaskNext, Cached
  <2>4. CASE ~(PidExists(p) /\ p \notin procCache)
    <3>1. TaskOf(p)' = TaskOf(p)
      BY <1>g, <2>1, <2>4, TaskSame
    <3>2. UNCHANGED Stage
      BY <2>2, <3>1 DEF Stage
    <3> QED
      BY <1>g, <1>s, <3>2 DEF ListStep, Cached
  <2> QED
    BY <2>3, <2>4
<1>1. CASE ExecStart(n)
  <2>1. PICK p \in Pids :
          /\ proc[p].st = "free"
          /\ proc' = [proc EXCEPT ![p] = [job |-> Cur(n), st |-> "alive"]]
          /\ loop' = [loop EXCEPT ![n].pc = "record", ![n].pid = p, ![n].todo = Need(Cur(n))]
    BY <1>1 DEF ExecStart, Spawn
  <2>2. UNCHANGED procCache /\ loop[n].pc = "exec"
    BY <1>1 DEF ExecStart, At, redis
  <2>3. loop'[n].pc = "record" /\ loop'[n].pid = p /\ proc'[p].st = "alive" /\ p \notin procCache
    BY <1>t, <1>s, <2>1 DEF LoopState, Cached
  <2>4. \A q \in Pids \ {p} : proc'[q] = proc[q] /\ (Coming(q)' <=> Coming(q))
    BY <1>t, <1>f, <2>1, <2>2, <2>3 DEF Coming
  <2>5. TaskOf(p) = "free" /\ TaskOf(p)' = "starting"
    BY <1>t, <2>1, <2>2, <2>3, TaskIs DEF Coming, PidExists
  <2>6. \A q \in Pids \ {p} : TaskOf(q)' = TaskOf(q)
    BY <2>2, <2>4, TaskSame
  <2>7. Stage' = [Stage EXCEPT ![p] = "starting"]
    BY <2>5, <2>6, StageMoves
  <2>8. Listed!Launch(p)
    BY <2>2, <2>5, <2>7 DEF Listed!Launch, Stage
  <2>9. Cached'
    BY <1>s, <1>t, <2>2, <2>3, <2>4 DEF Cached
  <2> QED
    BY <2>8, <2>9 DEF ListStep, Listed!TaskNext
<1>2. CASE ExecMonitor(n)
  <2>1. loop[n].pc = "cachePid" /\ UNCHANGED proc /\ loop'[n].pc = "dequeue"
    BY <1>t, <1>2 DEF ExecMonitor, At, Goto, LoopState
  <2>0. PICK p : p = loop[n].pid
    OBVIOUS
  <2>2. CASE UNCHANGED procCache
    BY <1>g, <2>1, <2>2
  <2>3. CASE procCache' = procCache \cup {p}
    <3>1. p \in Pids /\ proc[p].st # "free" /\ Coming(p) /\ \A q \in Pids \ {p} : Coming(q)' <=> Coming(q)
      BY <1>o, <1>f, <2>0, <2>1 DEF Coming
    <3>2. \A q \in Pids \ {p} : TaskOf(q)' = TaskOf(q)
      BY <2>1, <2>3, <3>1, TaskSame
    <3>3. Cached'
      BY <1>s, <2>1, <2>3, <3>1 DEF Cached
    <3>4. CASE ~PidExists(p)
      <4>1. TaskOf(p) = "gone" /\ TaskOf(p)' = "gone"
        BY <1>t, <2>1, <3>1, <3>4, TaskIs DEF PidExists
      <4>2. Stage' = [Stage EXCEPT ![p] = "gone"]
        BY <3>1, <3>2, <4>1, StageMoves
      <4>3. Listed!Enter(p)
        BY <2>3, <3>1, <4>1, <4>2 DEF Listed!Enter, Stage
      <4> QED
        BY <3>1, <3>3, <4>3 DEF ListStep, Listed!TaskNext
    <3>5. CASE PidExists(p) /\ p \notin procCache
      <4>1. TaskOf(p) = "starting" /\ TaskOf(p)' = "live"
        BY <1>t, <2>1, <2>3, <3>1, <3>5, TaskIs DEF PidExists
      <4>2. Stage' = [Stage EXCEPT ![p] = "live"]
        BY <3>1, <3>2, <4>1, StageMoves
      <4>3. Listed!Enter(p)
        BY <2>3, <3>1, <4>1, <4>2 DEF Listed!Enter, Stage
      <4> QED
        BY <3>1, <3>3, <4>3 DEF ListStep, Listed!TaskNext
    <3>6. CASE PidExists(p) /\ p \in procCache
      <4>1. TaskOf(p)' = TaskOf(p) /\ UNCHANGED procCache
        BY <2>1, <2>3, <3>1, <3>6, TaskSame
      <4>2. UNCHANGED Stage
        BY <3>2, <4>1 DEF Stage
      <4> QED
        BY <3>3, <4>1, <4>2 DEF ListStep
    <3> QED
      BY <3>4, <3>5, <3>6
  <2> QED
    BY <1>2, <2>0, <2>2, <2>3 DEF ExecMonitor
<1>3. CASE ExecRecord(n)
  <2>0. UNCHANGED <<proc, procCache>> /\ loop[n].pc = "record"
    BY <1>3 DEF ExecRecord, redis, At
  <2>1. ASSUME NEW c \in loop[n].todo,
               loop' = [loop EXCEPT ![n].todo = @ \ {c},
                                    ![n].pc = IF loop[n].todo = {c} THEN "cachePid" ELSE "record"]
        PROVE  loop'[n].pid = loop[n].pid /\ loop'[n].pc \in {"record", "cachePid"}
    BY <1>t, <2>1 DEF LoopState
  <2>2. Goto(n, "dequeue") => loop'[n].pc = "dequeue"
    BY <1>t DEF Goto, LoopState
  <2> QED
    BY <1>3, <1>g, <1>q, <2>0, <2>1, <2>2 DEF ExecRecord
<1>4. CASE ~ExecStart(n) /\ ~ExecMonitor(n) /\ ~ExecRecord(n)
  <2>1. UNCHANGED <<proc, procCache>>
    BY <1>4 DEF LoopNext, LoopLock, LoopPeek, LoopLoad, LoopCheck, LoopWait, LoopDequeue, LoopUnlock,
           ExecAcquire, ExecRunning, ExecCards, ExecStartFails, ExecRelease, ExecFailed, redis, Calm, Fails
  <2>2. loop[n].pc \notin {"record", "cachePid"}
    BY <1>4 DEF LoopNext, LoopLock, LoopPeek, LoopLoad, LoopCheck, LoopWait, LoopDequeue, LoopUnlock,
           ExecAcquire, ExecRunning, ExecCards, ExecStartFails, ExecRelease, ExecFailed, At
  <2>3. ASSUME NEW pc, Goto(n, pc), pc \notin {"record", "cachePid"} PROVE loop'[n].pc \notin {"record", "cachePid"}
    BY <1>t, <2>3 DEF Goto, LoopState
  <2>4. ASSUME Leave(n) PROVE loop'[n].pc \notin {"record", "cachePid"}
    BY <1>t, <2>4 DEF Leave, LoopIdle
  <2>5. LoopPeek(n) => loop'[n].pc \notin {"record", "cachePid"}
    BY <1>t, <2>4 DEF LoopPeek, LoopState
  <2>6. LoopLoad(n) => loop'[n].pc \notin {"record", "cachePid"}
    BY <1>t, <2>3, <2>4 DEF LoopLoad, LoopState
  <2>7. LoopUnlock(n) => loop'[n].pc \notin {"record", "cachePid"}
    BY <1>t DEF LoopUnlock, LoopIdle
  <2>8. loop'[n].pc \notin {"record", "cachePid"}
    BY <1>4, <2>3, <2>4, <2>5, <2>6, <2>7
       DEF LoopNext, LoopLock, LoopCheck, LoopWait, LoopDequeue,
           ExecAcquire, ExecRunning, ExecCards, ExecStartFails, ExecRelease, ExecFailed
  <2> QED
    BY <1>q, <2>1, <2>2, <2>8
<1> QED
  BY <1>1, <1>2, <1>3, <1>4

\* A step that touches neither processes nor their entries nor the loop.
LEMMA NothingListed ==
  ASSUME Cached, UNCHANGED <<proc, procCache, loop>>
  PROVE  Cached' /\ ListStep
<1>1. \A p \in Pids : TaskOf(p)' = TaskOf(p)
  BY DEF TaskOf, PidExists
<1> QED
  BY <1>1 DEF Stage, ListStep, Cached

\* A monitor takes an entry away when the process is gone.
LEMMA MonLists ==
  ASSUME ListInv, TypeInv', NEW n \in Nodes, NEW k \in MonKey, MonNext(n, k)
  PROVE  Cached' /\ ListStep
<1>t. TypeOK /\ TypeOK' /\ SafeInv /\ Cached /\ k[1] \in Pids
  BY DEF ListInv, SafeInv, TypeInv, MonKey
<1>f. UNCHANGED <<proc, loop>>
  BY <1>t, MonFrame
<1>1. CASE procCache' = procCache \ {k[1]} /\ mon[n][k].pc = "untrack"
  <2> DEFINE p == k[1]
  <2>1. proc[p].st \in {"ok", "bad"}
    <3>1. Born /\ KeeperKnows /\ proc[p].st \in {"free", "alive", "ok", "bad"}
      BY <1>t DEF SafeInv, Kept, Custody, TypeOK
    <3>2. proc[p].st # "free"
      BY <1>1, <3>1 DEF Born
    <3>3. ~PidExists(p)
      BY <1>t, <1>1, <3>1 DEF KeeperKnows, JobOf
    <3> QED
      BY <3>1, <3>2, <3>3 DEF PidExists
  <2>2. \A q \in Pids : TaskOf(q)' = TaskOf(q)
    BY <1>f, <1>1, <2>1 DEF TaskOf, PidExists
  <2>3. UNCHANGED Stage
    BY <2>2 DEF Stage
  <2>4. TaskOf(p) = "gone"
    BY <1>t, <2>1, TaskIs
  <2> HIDE DEF p
  <2>5. Listed!Forget(p)
    BY <1>t, <1>1, <2>3, <2>4 DEF Listed!Forget, Stage, p
  <2> QED
    BY <1>t, <1>f, <1>1, <2>5 DEF ListStep, Listed!TaskNext, Cached, p
<1>2. CASE UNCHANGED procCache
  BY <1>t, <1>f, <1>2, NothingListed
<1> QED
  BY <1>1, <1>2 DEF MonNext, MonExit, MonError, MonAlive, MonStopped, MonUntrack, MonEnd, MonRelease,
                    DelPid, redis

LEMMA ExitLists ==
  ASSUME ListInv, TypeInv', NEW p \in Pids, ProcExit(p)
  PROVE  Cached' /\ ListStep
<1>t. TypeOK /\ TypeOK' /\ Cached
  BY DEF ListInv, SafeInv, TypeInv
<1>f. UNCHANGED <<procCache, loop>>
  BY DEF ProcExit, redis, memory
<1>1. /\ PidExists(p) /\ proc'[p].st \in {"ok", "bad"}
      /\ \A q \in Pids \ {p} : proc'[q] = proc[q]
  BY <1>t DEF ProcExit, PidExists, TypeOK
<1>2. \A q \in Pids \ {p} : TaskOf(q)' = TaskOf(q)
  BY <1>f, <1>1 DEF TaskOf, PidExists
<1>3. TaskOf(p) \in {"starting", "live", "stray"} /\ TaskOf(p)' = "gone"
  BY <1>t, <1>1, TaskIs
<1>4. Stage' = [Stage EXCEPT ![p] = "gone"]
  BY <1>2, <1>3, StageMoves
<1>5. Listed!End(p)
  BY <1>f, <1>3, <1>4 DEF Listed!End, Stage
<1> QED
  BY <1>t, <1>f, <1>1, <1>5 DEF ListStep, Listed!TaskNext, Cached, TypeOK

\* Nobody stops, crashes, starts or audits when no instance is down and the
\* operations are not there.
NoStops == Booted = Nodes /\ Ops \cap {"stop", "crash", "audit"} = {}

LEMMA NobodyStops ==
  ASSUME NoStops, Quiet, NEW n \in Nodes
  PROVE  ~AuditStart(n) /\ ~ScanNext(n) /\ ~LifeNext(n)
<1>1. node[n] = "up" /\ scan[n].pc = "off"
  BY DEF Quiet
<1>2. ~AuditStart(n)
  BY DEF AuditStart, NoStops
<1>3. ~ScanNext(n)
  BY <1>1 DEF ScanNext, ScanList, ScanJob, ScanEach, ScanFailed, ScanEnd, ScanRelease
<1>4. ~LifeNext(n)
  BY <1>1 DEF LifeNext, Stop, StopWaited, Exit, Crash, Start, NoStops
<1> QED
  BY <1>2, <1>3, <1>4

LEMMA ListNext ==
  ASSUME Calm, ListInv, [Next]_vars
  PROVE  ListInv' /\ ListStep
<1>t. SafeInv /\ Cached /\ TypeOK
  BY DEF ListInv, SafeInv, TypeInv
<1>1. SafeInv' /\ TypeInv'
  BY <1>t, SafeStep DEF SafeInv
<1>2. \A n \in Nodes : ~AuditStart(n) /\ ~ScanNext(n) /\ ~LifeNext(n)
  BY <1>t, NobodyStops DEF SafeInv, Calm, NoStops
<1>3. ASSUME NEW c \in Clients, ApiNext(c) PROVE Cached' /\ ListStep
  BY <1>t, <1>3, ApiFrame, NothingListed DEF otherThanApi, memory
<1>4. ASSUME LockExpire \/ UNCHANGED vars PROVE Cached' /\ ListStep
  <2>1. UNCHANGED <<proc, procCache, loop>>
    BY <1>4 DEF LockExpire, vars, redis, memory
  <2> QED
    BY <1>t, <2>1, NothingListed
<1>5. Cached' /\ ListStep
  BY <1>1, <1>2, <1>3, <1>4, LoopLists, MonLists, ExitLists DEF Next
<1> QED
  BY <1>1, <1>5 DEF ListInv

\* The hash job:pid can be trusted in calm times: an entry is made once the
\* start has succeeded and goes only after the process (what Reaper relies on).
THEOREM SchedulerListsTasks == ASSUME Calm PROVE Spec => ListsTasks
<1>1. Init => ListInv /\ Listed!TaskInit
  <2> SUFFICES ASSUME Init PROVE ListInv /\ Listed!TaskInit
    OBVIOUS
  <2>1. SafeInv /\ Cached
    BY SafeInit DEF Init, Cached
  <2>2. \A p \in Pids : TaskOf(p) = "free"
    <3>1. \A p \in Pids : proc[p].st = "free"
      BY DEF Init
    <3> QED
      BY <3>1 DEF TaskOf, PidExists
  <2> QED
    BY <2>1, <2>2 DEF ListInv, Listed!TaskInit, Init
<1>2. ListInv /\ [Next]_vars => ListInv' /\ [Listed!TaskNext]_<<Stage, procCache>>
  BY ListNext DEF ListStep
<1> QED
  BY <1>1, <1>2, PTL DEF Spec, ListsTasks, Listed!TaskSpec, Stage

-----------------------------------------------------------------------------
(* A settled job has no process *)

\* lock:queue_process is renewed while its holder works, so whoever is inside
\* processQueue holds it.
LockHeld == \A n \in Nodes : loop[n].pc # "idle" => lock = n

\* From UpdateStatus(Running) until the hand-over nobody declares the job ended.
Unsettled ==
  \A n \in Nodes : loop[n].pc \in {"cards", "exec", "record", "cachePid"} =>
    status[loop[n].job] \notin {"Completed", "Failed"}

\* After a failed start, until Failed is written, the job has no process.
FailedDead ==
  \A n \in Nodes, p \in Pids : loop[n].pc = "failed" /\ PidExists(p) => proc[p].job # loop[n].job

NoStartFails == \A n \in Nodes : loop[n].pc \notin {"fail", "failed"}

Settling == Unsettled /\ FailedDead /\ SettledMeansDead

SettledInv ==
  /\ SafeInv /\ CancelsWaiting
  /\ "TTL" \notin Faults => LockHeld
  /\ "Exec" \notin Faults => NoStartFails
  /\ Settling

\* Every step of every actor keeps that.
LEMMA LockStep ==
  ASSUME NoStops, "TTL" \notin Faults, TypeOK, Quiet, LockHeld, [Next]_vars
  PROVE  LockHeld'
<1>1. \A n \in Nodes : CtxLive(n)
  BY DEF Quiet, CtxLive
<1>2. NoNode \notin Nodes
  BY StoresAssumption
<1>3. ASSUME NEW n \in Nodes, LoopNext(n) PROVE LockHeld'
  <2>1. \A m \in Nodes \ {n} : loop'[m] = loop[m]
    BY <1>3, LoopFrame
  <2>2. CASE LoopLock(n)
    BY <2>1, <2>2, <1>2 DEF LoopLock, LockHeld
  <2>3. CASE LoopUnlock(n)
    <3>1. loop'[n].pc = "idle" /\ loop[n].pc # "idle"
      BY <2>3 DEF LoopUnlock, At, TypeOK, LoopIdle
    <3> QED
      BY <2>1, <2>3, <3>1 DEF LoopUnlock, LockHeld
  <2>4. CASE ~LoopLock(n) /\ ~LoopUnlock(n)
    <3>1. UNCHANGED lock /\ loop[n].pc # "idle"
      BY <1>3, <2>4 DEF LoopNext, LoopPeek, LoopLoad, LoopCheck, LoopWait, LoopDequeue,
         ExecAcquire, ExecRunning, ExecCards, ExecStart, ExecStartFails, ExecRelease, ExecFailed,
         ExecRecord, ExecMonitor, At, redis
    <3> QED
      BY <2>1, <3>1 DEF LockHeld
  <2> QED
    BY <2>2, <2>3, <2>4
<1>4. CASE LockExpire
  BY <1>1, <1>2, <1>4 DEF LockExpire, LockHeld, Fails, memory
<1>5. ASSUME UNCHANGED <<lock, loop>> PROVE LockHeld'
  BY <1>5 DEF LockHeld
<1>6. ASSUME NEW c \in Clients, ApiNext(c) PROVE LockHeld'
  BY <1>5, <1>6, ApiFrame DEF otherThanApi, memory
<1>7. ASSUME NEW n \in Nodes, NEW k \in MonKey, MonNext(n, k) PROVE LockHeld'
  BY <1>5, <1>7, MonFrame
<1>8. ASSUME NEW p \in Pids, ProcExit(p) PROVE LockHeld'
  BY <1>5, <1>8 DEF ProcExit, redis, memory
<1>9. CASE UNCHANGED vars
  BY <1>5, <1>9 DEF vars, redis, memory
<1> QED
  BY <1>3, <1>4, <1>6, <1>7, <1>8, <1>9, NobodyStops DEF Next

\* The goroutine writes no verdict, starts no process, and comes to no step
\* where it has to answer for either.
LEMMA LoopSettles ==
  ASSUME Calm, SettledInv, "TTL" \notin Faults \/ "Exec" \notin Faults, TypeInv', NEW n \in Nodes, LoopNext(n)
  PROVE  ("Exec" \notin Faults => NoStartFails') /\ Settling'
<1>t. /\ TypeOK /\ loop \in [Nodes -> LoopState] /\ loop[n] \in LoopState
      /\ status \in [Jobs -> AnyStatus]
      /\ proc \in [Pids -> [job : Jobs \cup {NoJob}, st : {"free", "alive", "ok", "bad"}]]
  BY DEF SettledInv, SafeInv, TypeInv, TypeOK
<1>f. \A m \in Nodes \ {n} : loop'[m] = loop[m]
  BY <1>t, LoopFrame
<1>i. /\ SafeInv /\ Unsettled /\ FailedDead /\ SettledMeansDead
      /\ "TTL" \notin Faults => LockHeld
      /\ "Exec" \notin Faults => NoStartFails
  BY DEF SettledInv, Settling
<1>l. LoopTyped /\ KeeperKnows
  BY <1>i DEF SafeInv, TypeInv, Kept, Custody
\* a move inside or outside executeJob that writes nothing
<1>m. ASSUME NoVerdict, UNCHANGED proc, loop'[n].job = loop[n].job \/ loop'[n].pc \notin {"cards", "exec", "record", "cachePid"},
             loop'[n].pc \in {"cards", "exec", "record", "cachePid"} =>
               loop[n].pc \in {"cards", "exec", "record", "cachePid"},
             loop'[n].pc \notin {"fail", "failed"}
      PROVE  ("Exec" \notin Faults => NoStartFails') /\ Settling'
  <2>1. "Exec" \notin Faults => NoStartFails'
    BY <1>f, <1>i, <1>m DEF NoStartFails
  <2>j. \A m \in Nodes : loop[m].pc \in {"cards", "exec", "record", "cachePid"} => loop[m].job \in Jobs
    BY <1>l DEF LoopTyped, LoopGood
  <2>2. Unsettled'
    BY <1>f, <1>i, <1>m, <2>j DEF Unsettled, NoVerdict
  <2>3. FailedDead'
    BY <1>f, <1>i, <1>m DEF FailedDead, PidExists
  <2>4. SettledMeansDead'
    <3>1. \A p \in Pids : PidExists(p) => proc[p].job \in Jobs
      BY <1>i DEF SafeInv, Kept, Born, PidExists
    <3> QED
      BY <1>i, <1>m, <3>1 DEF SettledMeansDead, NoVerdict, PidExists
  <2> QED
    BY <2>1, <2>2, <2>3, <2>4 DEF Settling
<1>u. UNCHANGED mysql \/ UNCHANGED status => NoVerdict
  BY DEF NoVerdict, mysql
<1>g. ASSUME NEW pc, Goto(n, pc) PROVE loop'[n].pc = pc /\ loop'[n].job = loop[n].job
  BY <1>t, <1>g DEF Goto, LoopState
<1>v. ASSUME Leave(n) PROVE loop'[n].pc = "unlock"
  BY <1>t, <1>v DEF Leave, LoopIdle
<1>1. CASE LoopLock(n) \/ LoopCheck(n) \/ LoopWait(n) \/ LoopDequeue(n)
  BY <1>1, <1>g, <1>m, <1>u, <1>v, <1>t, OthersWrite DEF LoopLock, LoopCheck, LoopWait, LoopDequeue
<1>2. CASE LoopPeek(n) \/ LoopLoad(n) \/ LoopUnlock(n)
  <2>1. loop'[n].pc \in {"load", "check", "dequeue", "unlock", "idle"}
    BY <1>2, <1>t, <1>g, <1>v DEF LoopPeek, LoopLoad, LoopUnlock, LoopState, LoopIdle
  <2> QED
    BY <1>2, <1>m, <1>u, <2>1 DEF LoopPeek, LoopLoad, LoopUnlock
<1>3. CASE ExecAcquire(n) \/ ExecCards(n) \/ ExecMonitor(n)
  <2>1. UNCHANGED <<status, proc>>
    BY <1>3 DEF ExecAcquire, ExecCards, ExecMonitor, mysql
  <2> QED
    BY <1>3, <1>g, <1>m, <1>u, <2>1 DEF ExecAcquire, ExecCards, ExecMonitor, At
<1>4. CASE ExecRunning(n)
  <2>1. CASE UNCHANGED status /\ Goto(n, "undo")
    BY <1>4, <1>g, <1>m, <1>u, <2>1 DEF ExecRunning
  <2>2. CASE status' = Updated(Cur(n), "Running") /\ Goto(n, "cards")
    <3>0. loop[n].job \in Jobs /\ UNCHANGED proc /\ loop'[n].pc = "cards" /\ loop'[n].job = loop[n].job
      BY <1>4, <1>g, <1>l, <2>2 DEF ExecRunning, At, LoopTyped, LoopGood
    <3>1. NoVerdict /\ status'[loop[n].job] \notin {"Completed", "Failed"}
      BY <1>t, <2>2, <3>0, OthersWrite DEF Updated, Cur, NoRow
    <3>j. \A m \in Nodes : loop[m].pc \in {"cards", "exec", "record", "cachePid"} => loop[m].job \in Jobs
      BY <1>l DEF LoopTyped, LoopGood
    <3>2. Unsettled'
      BY <1>f, <1>i, <3>0, <3>1, <3>j DEF Unsettled, NoVerdict
    <3>3. FailedDead' /\ ("Exec" \notin Faults => NoStartFails')
      BY <1>f, <1>i, <3>0 DEF FailedDead, NoStartFails, PidExists
    <3>4. SettledMeansDead'
      <4>1. \A p \in Pids : PidExists(p) => proc[p].job \in Jobs
        BY <1>i DEF SafeInv, Kept, Born, PidExists
      <4> QED
        BY <1>i, <3>0, <3>1, <4>1 DEF SettledMeansDead, NoVerdict, PidExists
    <3> QED
      BY <3>2, <3>3, <3>4 DEF Settling
  <2> QED
    BY <1>4, <2>1, <2>2 DEF ExecRunning
<1>5. CASE ExecStart(n)
  <2>1. PICK p \in Pids :
          /\ proc' = [proc EXCEPT ![p] = [job |-> Cur(n), st |-> "alive"]]
          /\ loop' = [loop EXCEPT ![n].pc = "record", ![n].pid = p, ![n].todo = Need(Cur(n))]
    BY <1>5 DEF ExecStart, Spawn
  <2>2. UNCHANGED status /\ loop[n].pc = "exec"
    BY <1>5 DEF ExecStart, mysql, At
  <2>3. loop'[n].pc = "record" /\ loop'[n].job = loop[n].job
    BY <1>t, <2>1 DEF LoopState
  <2>4. proc'[p].job = loop[n].job /\ \A q \in Pids \ {p} : proc'[q] = proc[q]
    BY <1>t, <2>1 DEF Cur
  <2>5. status[loop[n].job] \notin {"Completed", "Failed"}
    BY <1>i, <2>2 DEF Unsettled
  <2>6. \A m \in Nodes : loop'[m].pc # "failed"
    BY <1>f, <1>i, <2>2, <2>3 DEF LockHeld, NoStartFails
  <2>7. Unsettled' /\ FailedDead' /\ ("Exec" \notin Faults => NoStartFails')
    BY <1>f, <1>i, <2>2, <2>3, <2>6 DEF Unsettled, FailedDead, NoStartFails
  <2>8. SettledMeansDead'
    BY <1>i, <2>2, <2>4, <2>5 DEF SettledMeansDead, PidExists
  <2> QED
    BY <2>7, <2>8 DEF Settling
<1>6. CASE ExecStartFails(n)
  <2>1. "Exec" \in Faults /\ UNCHANGED <<status, proc>> /\ loop'[n].pc = "fail"
    BY <1>6, <1>g DEF ExecStartFails, Calm, Fails, mysql
  <2> QED
    BY <1>f, <1>i, <2>1 DEF Settling, Unsettled, FailedDead, SettledMeansDead, PidExists
<1>7. CASE ExecRelease(n)
  <2>1. UNCHANGED <<status, proc>> /\ loop[n].pc \in {"undo", "fail"} /\ loop'[n].job = loop[n].job
    BY <1>7, <1>g DEF ExecRelease, At
  <2>2. loop'[n].pc = IF loop[n].pc = "undo" THEN "dequeue" ELSE "failed"
    BY <1>7, <1>g DEF ExecRelease, At
  <2>3. \A p \in Pids : PidExists(p) => proc[p].job # loop[n].job
    BY <1>l, <2>1 DEF KeeperKnows, Starting, Holding
  <2>4. "Exec" \notin Faults => NoStartFails'
    BY <1>f, <1>i, <2>1, <2>2 DEF NoStartFails
  <2> QED
    BY <1>f, <1>i, <2>1, <2>2, <2>3, <2>4 DEF Settling, Unsettled, FailedDead, SettledMeansDead, PidExists
<1>8. CASE ExecFailed(n)
  <2>1. loop[n].pc = "failed" /\ UNCHANGED proc /\ loop'[n].pc = "dequeue" /\ UpdateStatus(loop[n].job, "Failed")
    BY <1>8, <1>g DEF ExecFailed, At, Cur
  <2>2. LockHeld
    BY <1>i, <2>1 DEF NoStartFails
  <2>3. \A m \in Nodes : loop'[m].pc \in {"idle", "dequeue"}
    BY <1>f, <2>1, <2>2 DEF LockHeld
  <2>4. \A j \in Jobs : j # loop[n].job => status'[j] = status[j]
    BY <1>t, <2>1 DEF UpdateStatus, Updated
  <2>5. SettledMeansDead'
    <3>1. \A p \in Pids : PidExists(p) => proc[p].job \in Jobs /\ proc[p].job # loop[n].job
      BY <1>i, <2>1 DEF SafeInv, Kept, Born, PidExists, FailedDead
    <3> QED
      BY <1>i, <2>1, <2>4, <3>1 DEF SettledMeansDead, PidExists
  <2> QED
    BY <2>3, <2>5 DEF Settling, Unsettled, FailedDead, NoStartFails
<1>9. CASE ExecRecord(n)
  <2>0. UNCHANGED <<status, proc>> /\ loop[n].pc = "record"
    BY <1>9 DEF ExecRecord, At
  <2>1. ASSUME NEW c \in loop[n].todo,
               loop' = [loop EXCEPT ![n].todo = @ \ {c},
                                    ![n].pc = IF loop[n].todo = {c} THEN "cachePid" ELSE "record"]
        PROVE  loop'[n].job = loop[n].job /\ loop'[n].pc \in {"record", "cachePid"}
    BY <1>t, <2>1 DEF LoopState
  <2>2. loop'[n].job = loop[n].job /\ loop'[n].pc \in {"record", "cachePid", "dequeue"}
    BY <1>9, <1>g, <2>1 DEF ExecRecord
  <2> QED
    BY <1>m, <1>u, <2>0, <2>2
<1> QED
  BY <1>1, <1>2, <1>3, <1>4, <1>5, <1>6, <1>7, <1>8, <1>9 DEF LoopNext

\* The verdict of a monitor comes when no process of its job is left, and no
\* goroutine is starting the job.
LEMMA MonSettles ==
  ASSUME Calm, SettledInv, NEW n \in Nodes, NEW k \in MonKey, MonNext(n, k)
  PROVE  Settling'
<1>t. /\ TypeOK /\ status \in [Jobs -> AnyStatus] /\ UNCHANGED <<proc, loop>>
      /\ SafeInv /\ Unsettled /\ FailedDead /\ SettledMeansDead
  BY MonFrame DEF SettledInv, Settling, SafeInv, TypeInv, TypeOK
<1>1. FailedDead'
  BY <1>t DEF FailedDead, PidExists
<1>2. CASE MonExit(n, k)
  <2>1. PICK s : UpdateStatus(JobOf(k), s)
    BY <1>2 DEF MonExit
  <2>2. mon[n][k].pc = "watch" /\ ~PidExists(k[1])
    BY <1>2 DEF MonExit
  <2>3. \A p \in Pids : PidExists(p) => proc[p].job # JobOf(k)
    BY <1>t, <2>2 DEF SafeInv, Kept, Custody, KeeperKnows
  <2>4. \A m \in Nodes : loop[m].pc \in Holding => loop[m].job # JobOf(k)
    BY <1>t, <2>2 DEF SafeInv, Kept, Custody, SoleKeeper
  <2>5. \A j \in Jobs : j # JobOf(k) => status'[j] = status[j]
    BY <1>t, <2>1 DEF UpdateStatus, Updated
  <2>6. Unsettled'
    <3>1. \A m \in Nodes : loop[m].pc \in Holding => loop[m].job \in Jobs
      BY <1>t DEF SafeInv, TypeInv, LoopTyped, LoopGood, Holding
    <3> QED
      BY <1>t, <2>4, <2>5, <3>1 DEF Unsettled, Holding
  <2>7. SettledMeansDead'
    <3>1. \A p \in Pids : PidExists(p) => proc[p].job \in Jobs
      BY <1>t DEF SafeInv, Kept, Born, PidExists
    <3> QED
      BY <1>t, <2>3, <2>5, <3>1 DEF SettledMeansDead, PidExists
  <2> QED
    BY <1>1, <2>6, <2>7 DEF Settling
<1>3. CASE UNCHANGED status
  BY <1>t, <1>1, <1>3 DEF Settling, Unsettled, SettledMeansDead, PidExists
<1> QED
  BY <1>2, <1>3 DEF MonNext, MonError, MonAlive, MonStopped, MonUntrack, MonEnd, MonRelease, Calm, Fails, mysql

LEMMA SettledStep ==
  ASSUME Calm, "TTL" \notin Faults \/ "Exec" \notin Faults, SettledInv, [Next]_vars
  PROVE  SettledInv'
<1>t. /\ SafeInv /\ TypeInv /\ TypeOK /\ Quiet /\ CancelsWaiting /\ Unsettled /\ FailedDead /\ SettledMeansDead
      /\ "Exec" \notin Faults => NoStartFails
      /\ NoStops
  BY DEF SettledInv, SafeInv, TypeInv, Settling, Calm, NoStops
<1>1. SafeInv' /\ TypeInv'
  BY <1>t, SafeStep DEF SafeInv
<1>2. "TTL" \notin Faults => LockHeld'
  BY <1>t, LockStep DEF SettledInv
<1> DEFINE Rest == CancelsWaiting' /\ ("Exec" \notin Faults => NoStartFails') /\ Settling'
<1>3. ASSUME NEW c \in Clients, ApiNext(c) PROVE Rest
  <2>1. CancelsWaiting' /\ NoVerdict
    BY <1>t, <1>3, ApiDone
  <2>2. UNCHANGED <<proc, loop>>
    BY <1>t, <1>3, ApiFrame DEF otherThanApi, memory
  <2>3. \A p \in Pids : PidExists(p) => proc[p].job \in Jobs
    BY <1>t DEF SafeInv, Kept, Born, PidExists
  <2>4. \A m \in Nodes : loop[m].pc \in {"cards", "exec", "record", "cachePid"} => loop[m].job \in Jobs
    BY <1>t DEF TypeInv, LoopTyped, LoopGood
  <2>5. Unsettled'
    BY <1>t, <2>1, <2>2, <2>4 DEF Unsettled, NoVerdict
  <2>6. SettledMeansDead'
    BY <1>t, <2>1, <2>2, <2>3 DEF SettledMeansDead, NoVerdict, PidExists
  <2>7. FailedDead' /\ ("Exec" \notin Faults => NoStartFails')
    BY <1>t, <2>2 DEF FailedDead, NoStartFails, PidExists
  <2> QED
    BY <2>1, <2>5, <2>6, <2>7 DEF Settling
<1>4. ASSUME NEW n \in Nodes, LoopNext(n) PROVE Rest
  <2>1. CancelsWaiting'
    BY <1>t, <1>4, LoopFrame DEF CancelsWaiting, others
  <2> QED
    BY <1>1, <1>4, <2>1, LoopSettles
<1>5. ASSUME NEW n \in Nodes, NEW k \in MonKey, MonNext(n, k) PROVE Rest
  <2>1. UNCHANGED <<loop, api>>
    BY <1>t, <1>5, MonFrame
  <2>2. CancelsWaiting' /\ ("Exec" \notin Faults => NoStartFails')
    BY <1>t, <2>1 DEF CancelsWaiting, NoStartFails
  <2> QED
    BY <1>5, <2>2, MonSettles
<1>6. ASSUME NEW p \in Pids, ProcExit(p) PROVE Rest
  <2>1. UNCHANGED <<status, loop, api>>
    BY <1>6 DEF ProcExit, mysql, memory
  <2>2. \A q \in Pids : PidExists(q)' => PidExists(q) /\ proc'[q].job = proc[q].job
    BY <1>t, <1>6 DEF ProcExit, PidExists, TypeOK
  <2>3. CancelsWaiting' /\ ("Exec" \notin Faults => NoStartFails') /\ Unsettled'
    BY <1>t, <2>1 DEF CancelsWaiting, NoStartFails, Unsettled
  <2>4. FailedDead' /\ SettledMeansDead'
    BY <1>t, <2>1, <2>2 DEF FailedDead, SettledMeansDead
  <2> QED
    BY <2>3, <2>4 DEF Settling
<1>7. ASSUME LockExpire \/ UNCHANGED vars PROVE Rest
  <2>1. UNCHANGED <<status, proc, loop, api>>
    BY <1>7 DEF LockExpire, vars, mysql, memory
  <2> QED
    BY <1>t, <2>1 DEF CancelsWaiting, NoStartFails, Settling, Unsettled, FailedDead, SettledMeansDead, PidExists
<1>8. Rest
  BY <1>t, <1>3, <1>4, <1>5, <1>6, <1>7, NobodyStops DEF Next
<1> QED
  BY <1>1, <1>2, <1>8 DEF SettledInv

\* In calm times a job declared Completed or Failed has no process left.  One of
\* two things must not fail: the renewal of the queue lock or the start of a
\* process (an instance that takes long to write Failed after a failed start
\* writes it over a job that the next holder of the lock has started).
THEOREM SettledJobsAreDead ==
  ASSUME Calm, "TTL" \notin Faults \/ "Exec" \notin Faults
  PROVE  Spec => []SettledMeansDead
<1>1. Init => SettledInv
  <2> SUFFICES ASSUME Init PROVE SettledInv
    OBVIOUS
  <2>1. SafeInv
    BY SafeInit
  <2>2. \A n \in Nodes : loop[n].pc = "idle"
    BY DEF Init, LoopIdle
  <2>3. \A p \in Pids : ~PidExists(p)
    BY DEF Init, PidExists
  <2>4. \A c \in Clients : api[c].pc = "idle"
    BY DEF Init, ApiIdle
  <2> QED
    BY <2>1, <2>2, <2>3, <2>4
       DEF SettledInv, CancelsWaiting, LockHeld, NoStartFails, Settling, Unsettled, FailedDead, SettledMeansDead
<1>2. SettledInv /\ [Next]_vars => SettledInv'
  BY SettledStep
<1>3. SettledInv => SettledMeansDead
  BY DEF SettledInv, Settling
<1> QED
  BY <1>1, <1>2, <1>3, PTL DEF Spec

-----------------------------------------------------------------------------
(* No card leaks *)

\* No instance stops or crashes, and the four calls succeed whose failure makes
\* executeJob return with the cards still marked, or a release go unnoticed.
NoAbandon ==
  /\ Ops \cap {"stop", "crash"} = {}
  /\ Faults \cap {"GetByIDs", "Release", "CreateRecord", "CreatePid"} = {}

\* The context of a goroutine at work is live.
Steady ==
  \A n \in Nodes : node[n] \in {"down", "recovering", "up"} /\ (loop[n].pc # "idle" => node[n] = "up")

\* A job at work asks for a card, and its pid is that of a process of the job.
LoopAsks ==
  \A n \in Nodes :
    /\ loop[n].pc \in {"check", "acquire"} \cup Holding => GpuIDs[loop[n].job] # <<>>
    /\ loop[n].pc \in {"record", "cachePid"} => proc[loop[n].pid].job = loop[n].job

OwnsNeed == \A c \in Cards : owner[c] # NoJob => c \in Need(owner[c])

HeldInv == TypeInv /\ Started /\ Steady /\ LoopAsks /\ OwnsNeed /\ HeldHasKeeper

Keeper(j) == \E n \in Nodes : Starting(n, j) \/ Watching(n, j)

\* Cards stay covered when they only become idle and keepers stay.
LEMMA HeldStays ==
  ASSUME HeldHasKeeper, OwnsNeed,
         \A c \in Cards : owner'[c] = owner[c] \/ owner'[c] = NoJob,
         \A j \in Jobs : Keeper(j) => Keeper(j)' \/ \A c \in Cards : owner'[c] # j,
         owner \in [Cards -> Jobs \cup {NoJob}]
  PROVE  HeldHasKeeper' /\ OwnsNeed'
<1>1. ASSUME NEW c \in Cards, owner'[c] # NoJob PROVE Keeper(owner[c])'
  <2>1. owner[c] # NoJob /\ owner'[c] = owner[c] /\ owner[c] \in Jobs
    BY <1>1
  <2>2. Keeper(owner[c])
    BY <2>1 DEF HeldHasKeeper, Keeper
  <2>3. PICK j : j = owner[c]
    OBVIOUS
  <2>4. Keeper(j)'
    BY <2>1, <2>2, <2>3
  <2> QED
    BY <2>1, <2>3, <2>4 DEF Keeper, Starting, Watching
<1> QED
  BY <1>1 DEF HeldHasKeeper, Keeper, OwnsNeed

\* A monitor that goes on watches the same job.
LEMMA WatchStays ==
  ASSUME Started, ProcsGrow, NEW n \in Nodes, NEW j,
         \A k \in MonKey : mon[n][k].pc # "off" /\ JobOf(k) = j => mon'[n][k].pc # "off"
  PROVE  Watching(n, j) => Watching(n, j)'
<1>1. \A k \in MonKey : mon[n][k].pc # "off" => JobOf(k)' = JobOf(k)
  BY DEF Started, ProcsGrow, JobOf, MonKey
<1> QED
  BY <1>1 DEF Watching

\* The scheduler goroutine keeps that, whatever fails.
LEMMA LoopAsksKept ==
  ASSUME TypeInv, Started, LoopAsks, NEW n \in Nodes, LoopNext(n)
  PROVE  LoopAsks'
<1>t. /\ TypeOK /\ loop \in [Nodes -> LoopState] /\ loop[n] \in LoopState /\ LoopTyped
      /\ proc \in [Pids -> [job : Jobs \cup {NoJob}, st : {"free", "alive", "ok", "bad"}]]
  BY DEF TypeInv, TypeOK
<1>f. \A m \in Nodes \ {n} : loop'[m] = loop[m]
  BY <1>t, LoopFrame
<1>p. ProcsGrow
  BY LoopDone
<1>g. ASSUME NEW pc, Goto(n, pc) PROVE loop'[n].pc = pc /\ loop'[n].job = loop[n].job
  BY <1>t, <1>g DEF Goto, LoopState
<1>v. ASSUME Leave(n) PROVE loop'[n].pc = "unlock"
  BY <1>t, <1>v DEF Leave, LoopIdle
<1> DEFINE Asks == {"check", "acquire"} \cup Holding
<1>a. Asks = {"check", "acquire", "running", "cards", "exec", "undo", "fail", "record", "cachePid"}
  BY DEF Holding
<1> HIDE DEF Asks
<1>0. /\ \A m \in Nodes : loop[m].pc \in Asks => GpuIDs[loop[m].job] # <<>>
      /\ \A m \in Nodes : loop[m].pc \in {"record", "cachePid"} =>
           loop[m].pid \in Pids /\ proc'[loop[m].pid].job = loop[m].job
  <2>1. \A m \in Nodes : loop[m].pc \in Asks => GpuIDs[loop[m].job] # <<>>
    BY <1>t DEF LoopAsks, Asks
  <2>2. \A m \in Nodes : loop[m].pc \in {"record", "cachePid"} =>
           loop[m].pid \in Pids /\ proc[loop[m].pid].job = loop[m].job /\ proc[loop[m].pid].st # "free"
    BY <1>t DEF LoopAsks, LoopTyped, LoopGood, Started
  <2> QED
    BY <1>p, <2>1, <2>2 DEF ProcsGrow
<1>1. ASSUME loop'[n].pc \in Asks => GpuIDs[loop'[n].job] # <<>>,
             loop'[n].pc \in {"record", "cachePid"} => proc'[loop'[n].pid].job = loop'[n].job
      PROVE  LoopAsks'
  BY <1>f, <1>0, <1>1 DEF LoopAsks, Asks
<1>2. CASE ExecStart(n)
  <2>1. PICK p \in Pids :
          /\ proc' = [proc EXCEPT ![p] = [job |-> Cur(n), st |-> "alive"]]
          /\ loop' = [loop EXCEPT ![n].pc = "record", ![n].pid = p, ![n].todo = Need(Cur(n))]
    BY <1>2 DEF ExecStart, Spawn
  <2>2. loop'[n].pid = p /\ loop'[n].job = loop[n].job /\ proc'[p].job = loop[n].job
    BY <1>t, <2>1 DEF LoopState, Cur
  <2> QED
    BY <1>0, <1>1, <1>2, <1>a, <2>2 DEF ExecStart, At
<1>3. CASE ExecRecord(n)
  <2>1. ASSUME NEW c \in loop[n].todo,
               loop' = [loop EXCEPT ![n].todo = @ \ {c},
                                    ![n].pc = IF loop[n].todo = {c} THEN "cachePid" ELSE "record"]
        PROVE  loop'[n].job = loop[n].job /\ loop'[n].pid = loop[n].pid
    BY <1>t, <2>1 DEF LoopState
  <2>2. /\ loop[n].pc = "record"
        /\ \/ \E c \in loop[n].todo :
                loop' = [loop EXCEPT ![n].todo = @ \ {c},
                                     ![n].pc = IF loop[n].todo = {c} THEN "cachePid" ELSE "record"]
           \/ loop'[n].pc = "dequeue"
    BY <1>3, <1>g DEF ExecRecord, At
  <2> QED
    BY <1>0, <1>1, <1>a, <2>1, <2>2
<1>4. CASE LoopPeek(n) \/ LoopUnlock(n)
  <2>1. loop'[n].pc \in {"load", "unlock", "idle"}
    BY <1>t, <1>v, <1>4 DEF LoopPeek, LoopUnlock, LoopState, LoopIdle
  <2> QED
    BY <1>1, <1>a, <2>1
<1>5. CASE LoopLoad(n)
  <2>1. \/ loop'[n].pc \in {"unlock", "dequeue"}
        \/ loop'[n].pc = "check" /\ loop'[n].job = loop[n].job /\ GpuIDs[loop[n].job] # <<>>
    BY <1>t, <1>g, <1>v, <1>5 DEF LoopLoad, LoopState, Cur
  <2> QED
    BY <1>1, <1>a, <2>1
<1>6. CASE \/ LoopLock(n) \/ LoopCheck(n) \/ LoopWait(n) \/ LoopDequeue(n) \/ ExecAcquire(n) \/ ExecRunning(n)
           \/ ExecCards(n) \/ ExecStartFails(n) \/ ExecRelease(n) \/ ExecFailed(n) \/ ExecMonitor(n)
  <2>1. \/ loop'[n].pc \in {"peek", "unlock", "wait", "dequeue", "failed"}
        \/ /\ loop'[n].pc \in {"acquire", "running", "cards", "exec", "undo", "fail"} /\ loop'[n].job = loop[n].job
           /\ loop[n].pc \in {"check", "acquire", "running", "cards", "exec"}
    BY <1>g, <1>v, <1>6 DEF LoopLock, LoopCheck, LoopWait, LoopDequeue, ExecAcquire, ExecRunning, ExecCards,
       ExecStartFails, ExecRelease, ExecFailed, ExecMonitor, At
  <2> QED
    BY <1>0, <1>1, <1>a, <2>1
<1> QED
  BY <1>2, <1>3, <1>4, <1>5, <1>6 DEF LoopNext

\* The scheduler goroutine lets go of cards by releasing them or by starting
\* a monitor.
LEMMA LoopHeld ==
  ASSUME NoAbandon, HeldInv, NEW n \in Nodes, LoopNext(n)
  PROVE  Steady' /\ LoopAsks' /\ OwnsNeed' /\ HeldHasKeeper'
<1>t. /\ TypeInv /\ TypeOK /\ loop \in [Nodes -> LoopState] /\ loop[n] \in LoopState /\ LoopTyped
      /\ proc \in [Pids -> [job : Jobs \cup {NoJob}, st : {"free", "alive", "ok", "bad"}]]
      /\ owner \in [Cards -> Jobs \cup {NoJob}] /\ mon \in [Nodes -> [MonKey -> MonState]]
      /\ Started /\ Steady /\ LoopAsks /\ OwnsNeed /\ HeldHasKeeper
  BY DEF HeldInv, TypeInv, TypeOK
<1>f. UNCHANGED others /\ \A m \in Nodes \ {n} : loop'[m] = loop[m]
  BY <1>t, LoopFrame
<1>p. ProcsGrow /\ Started'
  BY <1>t, LoopDone
<1>c. loop[n].pc # "idle" => CtxLive(n)
  BY <1>t DEF Steady, CtxLive
<1>g. ASSUME NEW pc, Goto(n, pc) PROVE loop'[n].pc = pc /\ loop'[n].job = loop[n].job
  BY <1>t, <1>g DEF Goto, LoopState
<1>v. ASSUME Leave(n) PROVE loop'[n].pc = "unlock"
  BY <1>t, <1>v DEF Leave, LoopIdle
<1>1. Steady'
  <2>1. loop[n].pc = "idle" => node[n] = "up"
    BY DEF LoopNext, LoopLock, LoopPeek, LoopLoad, LoopCheck, LoopWait, LoopDequeue, LoopUnlock,
           ExecAcquire, ExecRunning, ExecCards, ExecStart, ExecStartFails, ExecRelease, ExecFailed,
           ExecRecord, ExecMonitor, At
  <2> QED
    BY <1>t, <1>f, <2>1 DEF Steady, others
<1>2. LoopAsks'
  BY <1>t, LoopAsksKept
\* the goroutine is where it was, in or outside executeJob
<1>3. ASSUME \A c \in Cards : owner'[c] = owner[c] \/ owner'[c] = NoJob, UNCHANGED mon,
             \/ loop[n].pc \notin Holding
             \/ loop'[n].pc \in Holding /\ loop'[n].job = loop[n].job
             \/ \A c \in Cards : owner'[c] # loop[n].job
      PROVE  OwnsNeed' /\ HeldHasKeeper'
  <2>1. ASSUME NEW j \in Jobs, Keeper(j) PROVE Keeper(j)' \/ \A c \in Cards : owner'[c] # j
    <3>1. PICK m \in Nodes : Starting(m, j) \/ Watching(m, j)
      BY <2>1 DEF Keeper
    <3>2. CASE Watching(m, j)
      BY <1>3, <1>p, <1>t, <3>2, WatchStays DEF Keeper
    <3>3. CASE Starting(m, j)
      BY <1>3, <1>f, <3>3 DEF Keeper, Starting
    <3> QED
      BY <3>1, <3>2, <3>3
  <2> QED
    BY <1>3, <1>t, <2>1, HeldStays
<1>4. CASE \/ LoopLock(n) \/ LoopPeek(n) \/ LoopLoad(n) \/ LoopCheck(n) \/ LoopWait(n)
           \/ LoopDequeue(n) \/ LoopUnlock(n) \/ ExecFailed(n)
  <2>1. UNCHANGED <<owner, mon>> /\ loop[n].pc \notin Holding
    BY <1>4 DEF LoopLock, LoopPeek, LoopLoad, LoopCheck, LoopWait, LoopDequeue, LoopUnlock, ExecFailed,
                mysql, At, Holding
  <2> QED
    BY <1>1, <1>2, <1>3, <2>1
<1>5. CASE ExecAcquire(n)
  <2>1. CASE UNCHANGED owner
    BY <1>1, <1>2, <1>3, <1>5, <2>1 DEF ExecAcquire, At, Holding
  <2>2. CASE CheckAvailable(Cur(n)) /\ owner' = Acquired(Cur(n)) /\ Goto(n, "running")
    <3>0. PICK j : j = loop[n].job
      OBVIOUS
    <3>1. j \in Jobs /\ UNCHANGED mon /\ loop[n].pc = "acquire"
      BY <1>5, <1>t, <3>0 DEF ExecAcquire, At, LoopTyped, LoopGood
    <3>2. \A c \in Cards : owner'[c] = IF c \in Need(j) THEN j ELSE owner[c]
      BY <2>2, <3>0 DEF Acquired, Cur
    <3>3. Starting(n, j)'
      BY <1>g, <2>2, <3>0 DEF Starting, Holding
    <3>4. ASSUME NEW i \in Jobs, Keeper(i) PROVE Keeper(i)'
      <4>1. PICK m \in Nodes : Starting(m, i) \/ Watching(m, i)
        BY <3>4 DEF Keeper
      <4>2. CASE Watching(m, i)
        BY <1>p, <1>t, <3>1, <4>2, WatchStays DEF Keeper
      <4>3. CASE Starting(m, i)
        BY <1>f, <3>1, <4>3 DEF Keeper, Starting, Holding
      <4> QED
        BY <4>1, <4>2, <4>3
    <3>5. ASSUME NEW c \in Cards, owner'[c] # NoJob PROVE Keeper(owner[c])'
      <4>1. PICK i : i = owner'[c]
        OBVIOUS
      <4>2. Keeper(i)'
        BY <1>t, <3>2, <3>3, <3>4, <3>5, <4>1 DEF Keeper, HeldHasKeeper
      <4> QED
        BY <4>1, <4>2 DEF Keeper, Starting, Watching
    <3>6. OwnsNeed'
      BY <1>t, <3>2 DEF OwnsNeed
    <3> QED
      BY <1>1, <1>2, <3>5, <3>6 DEF HeldHasKeeper, Keeper
  <2> QED
    BY <1>5, <2>1, <2>2 DEF ExecAcquire
<1>6. CASE ExecRunning(n) \/ ExecCards(n) \/ ExecStart(n) \/ ExecStartFails(n) \/ ExecRecord(n)
  <2>0. UNCHANGED <<owner, mon>>
    BY <1>6 DEF ExecRunning, ExecCards, ExecStart, ExecStartFails, ExecRecord, mysql
  <2>1. CASE ExecRunning(n) \/ ExecCards(n) \/ ExecStartFails(n)
    <3>1. loop'[n].pc \in {"cards", "undo", "exec", "fail"} /\ loop'[n].job = loop[n].job
      <4>1. CASE ExecCards(n)
        BY <1>c, <1>g, <4>1 DEF ExecCards, At, CtxFails, NoAbandon, Fails
      <4> QED
        BY <1>g, <2>1, <4>1 DEF ExecRunning, ExecStartFails
    <3> QED
      BY <1>1, <1>2, <1>3, <2>0, <3>1 DEF Holding
  <2>2. CASE ExecStart(n)
    <3>1. \E p \in Pids : loop' = [loop EXCEPT ![n].pc = "record", ![n].pid = p, ![n].todo = Need(Cur(n))]
      BY <2>2 DEF ExecStart
    <3>2. loop'[n].pc = "record" /\ loop'[n].job = loop[n].job
      BY <1>t, <3>1 DEF LoopState
    <3> QED
      BY <1>1, <1>2, <1>3, <2>0, <3>2 DEF Holding
  <2>3. CASE ExecRecord(n)
    <3>1. ASSUME NEW c \in loop[n].todo,
                 loop' = [loop EXCEPT ![n].todo = @ \ {c},
                                      ![n].pc = IF loop[n].todo = {c} THEN "cachePid" ELSE "record"]
          PROVE  loop'[n].job = loop[n].job /\ loop'[n].pc \in {"record", "cachePid"}
      BY <1>t, <3>1 DEF LoopState
    <3>2. loop'[n].job = loop[n].job /\ loop'[n].pc \in {"record", "cachePid"}
      BY <2>3, <3>1 DEF ExecRecord, NoAbandon, Fails
    <3> QED
      BY <1>1, <1>2, <1>3, <2>0, <3>2 DEF Holding
  <2> QED
    BY <1>6, <2>1, <2>2, <2>3
<1>7. CASE ExecRelease(n)
  <2>1. owner' = Released(loop[n].job) /\ UNCHANGED mon
    BY <1>7, <1>c DEF ExecRelease, CtxFails, NoAbandon, Fails, Cur, At
  <2>2. /\ \A c \in Cards : owner'[c] = owner[c] \/ owner'[c] = NoJob
        /\ \A c \in Cards : owner'[c] # loop[n].job \/ loop[n].job = NoJob
    BY <1>t, <2>1 DEF Released, OwnsNeed
  <2>3. loop[n].job # NoJob
    BY <1>7, <1>t, StoresAssumption DEF ExecRelease, At, LoopTyped, LoopGood
  <2> QED
    BY <1>1, <1>2, <1>3, <2>1, <2>2, <2>3
<1>8. CASE ExecMonitor(n)
  <2>0. PICK j, x : j = loop[n].job /\ x = <<loop[n].pid, GpuIDs[j][1]>>
    OBVIOUS
  <2>1. /\ loop[n].pc = "cachePid" /\ UNCHANGED <<owner, proc>>
        /\ mon' = [mon EXCEPT ![n][x] = [MonOff EXCEPT !.pc = "watch"]]
    BY <1>8, <1>c, <2>0 DEF ExecMonitor, At, CtxFails, NoAbandon, Fails, Cur, mysql
  <2>2. x \in MonKey /\ JobOf(x) = j
    <3>1. j \in Jobs /\ Need(j) \subseteq Cards /\ loop[n].pid \in Pids /\ GpuIDs[j] # <<>>
          /\ proc[loop[n].pid].job = j
      BY <1>t, <2>0, <2>1 DEF LoopTyped, LoopGood, LoopAsks, Holding
    <3>2. GpuIDs[j] \in Seq(CardIDs)
      BY <3>1, StoresAssumption
    <3>3. GpuIDs[j][1] \in Need(j)
      BY <3>1, <3>2 DEF Need, Range
    <3> QED
      BY <2>0, <3>1, <3>3 DEF MonKey, JobOf
  <2>3. mon'[n][x].pc = "watch" /\ \A m \in Nodes, k \in MonKey : mon[m][k].pc # "off" => mon'[m][k].pc # "off"
    <3>1. [MonOff EXCEPT !.pc = "watch"].pc = "watch"
      BY DEF MonOff
    <3>2. ASSUME NEW w, w.pc = "watch", mon' = [mon EXCEPT ![n][x] = w]
          PROVE  mon'[n][x].pc = "watch" /\ \A m \in Nodes, k \in MonKey : mon[m][k].pc # "off" => mon'[m][k].pc # "off"
      BY <1>t, <2>2, <3>2
    <3> QED
      BY <2>1, <3>1, <3>2
  <2>4. Watching(n, j)'
    BY <2>1, <2>2, <2>3 DEF Watching, JobOf
  <2>5. ASSUME NEW i \in Jobs, Keeper(i) PROVE Keeper(i)'
    <3>1. PICK m \in Nodes : Starting(m, i) \/ Watching(m, i)
      BY <2>5 DEF Keeper
    <3>2. CASE Watching(m, i)
      BY <1>p, <1>t, <2>3, <3>2, WatchStays DEF Keeper
    <3>3. CASE Starting(m, i) /\ m # n
      BY <1>f, <3>3 DEF Keeper, Starting
    <3>4. CASE Starting(m, i) /\ m = n
      BY <2>0, <2>4, <3>4 DEF Keeper, Starting
    <3> QED
      BY <3>1, <3>2, <3>3, <3>4
  <2> QED
    BY <1>1, <1>2, <1>t, <2>1, <2>5, HeldStays
<1> QED
  BY <1>4, <1>5, <1>6, <1>7, <1>8 DEF LoopNext
\* A monitor goes when it has released the cards of its job.
LEMMA MonHeld ==
  ASSUME NoAbandon, HeldInv, NEW n \in Nodes, NEW k \in MonKey, MonNext(n, k)
  PROVE  OwnsNeed' /\ HeldHasKeeper'
<1>t. /\ TypeOK /\ owner \in [Cards -> Jobs \cup {NoJob}] /\ mon \in [Nodes -> [MonKey -> MonState]]
      /\ Started /\ OwnsNeed /\ HeldHasKeeper
  BY DEF HeldInv, TypeInv, TypeOK
<1>f. /\ UNCHANGED <<proc, loop>>
      /\ \A m \in Nodes, l \in MonKey : <<m, l>> # <<n, k>> => mon'[m][l] = mon[m][l]
  BY <1>t, MonFrame
<1>p. ProcsGrow
  BY <1>f DEF ProcsGrow
<1>s. \A m \in Nodes, j \in Jobs : Starting(m, j) => Starting(m, j)'
  BY <1>f DEF Starting
<1>1. CASE MonRelease(n, k)
  <2>0. PICK i : i = JobOf(k)
    OBVIOUS
  <2>1. owner' = Released(i)
    BY <1>1, <2>0 DEF MonRelease, ReleaseCards, NoAbandon, Fails
  <2>2. i \in Jobs /\ i # NoJob
    <3>1. mon[n][k].pc # "off" /\ k[1] \in Pids
      BY <1>1 DEF MonRelease, MonKey
    <3> QED
      BY <1>t, <2>0, <3>1, StoresAssumption DEF Started, JobOf
  <2>3. /\ \A c \in Cards : owner'[c] = owner[c] \/ owner'[c] = NoJob
        /\ \A c \in Cards : owner'[c] # i
    BY <1>t, <2>1, <2>2 DEF Released, OwnsNeed
  <2>4. ASSUME NEW j \in Jobs, Keeper(j) PROVE Keeper(j)' \/ \A c \in Cards : owner'[c] # j
    <3>1. CASE j = i
      BY <2>3, <3>1
    <3>2. CASE j # i
      <4>1. \A m \in Nodes, l \in MonKey : mon[m][l].pc # "off" /\ JobOf(l) = j => mon'[m][l].pc # "off"
        BY <1>f, <2>0, <3>2
      <4> QED
        BY <1>p, <1>s, <1>t, <2>4, <4>1, WatchStays DEF Keeper
    <3> QED
      BY <3>1, <3>2
  <2> QED
    BY <1>t, <2>3, <2>4, HeldStays
<1>2. CASE ~MonRelease(n, k)
  <2>1. UNCHANGED owner /\ mon'[n][k].pc # "off"
    <3>1. ASSUME NEW pc \in {"watch", "untrack", "end", "release"}, MonGoto(n, k, pc) PROVE mon'[n][k].pc # "off"
      BY <1>t, <3>1 DEF MonGoto
    <3>2. mon[n][k].pc = "watch" /\ mon' = [mon EXCEPT ![n][k].fails = @ + 1] => mon'[n][k].pc # "off"
      BY <1>t DEF MonState
    <3> QED
      BY <1>2, <3>1, <3>2 DEF MonNext, MonExit, MonError, MonAlive, MonStopped, MonUntrack, MonEnd, mysql
  <2>2. \A m \in Nodes, l \in MonKey : mon[m][l].pc # "off" => mon'[m][l].pc # "off"
    BY <1>f, <2>1
  <2>3. \A j \in Jobs : Keeper(j) => Keeper(j)'
    BY <1>p, <1>s, <1>t, <2>2, WatchStays DEF Keeper
  <2> QED
    BY <1>t, <2>1, <2>3, HeldStays
<1> QED
  BY <1>1, <1>2

\* Recovery and audit start monitors and release cards, no more.
LEMMA ScanHeld ==
  ASSUME NoAbandon, HeldInv, NEW n \in Nodes, AuditStart(n) \/ ScanNext(n)
  PROVE  Steady' /\ OwnsNeed' /\ HeldHasKeeper'
<1>t. /\ TypeOK /\ owner \in [Cards -> Jobs \cup {NoJob}] /\ mon \in [Nodes -> [MonKey -> MonState]]
      /\ node \in [Nodes -> {"down", "recovering", "up", "stopping", "stopped"}]
      /\ Started /\ Steady /\ OwnsNeed /\ HeldHasKeeper
  BY DEF HeldInv, TypeInv, TypeOK
<1>f. UNCHANGED <<proc, loop>>
  BY DEF AuditStart, ScanNext, ScanList, ScanJob, ScanEach, ScanFailed, ScanEnd, ScanRelease
<1>p. ProcsGrow
  BY <1>f DEF ProcsGrow
<1>1. Steady'
  <2>1. UNCHANGED node \/ node' = [node EXCEPT ![n] = "up"]
    BY DEF AuditStart, ScanNext, ScanList, ScanJob, ScanEach, ScanFailed, ScanEnd, ScanRelease, ScanDone
  <2> QED
    BY <1>t, <1>f, <2>1 DEF Steady
<1>2. \A c \in Cards : owner'[c] = owner[c] \/ owner'[c] = NoJob
  <2>1. UNCHANGED owner \/ owner' = Released(scan[n].job)
    BY DEF AuditStart, ScanNext, ScanList, ScanJob, ScanEach, ScanFailed, ScanEnd, ScanRelease, ReleaseCards, mysql
  <2> QED
    BY <1>t, <2>1 DEF Released
<1>3. \A m \in Nodes, l \in MonKey : mon[m][l].pc # "off" => mon'[m][l].pc # "off"
  <2>1. \/ UNCHANGED mon
        \/ \E r : mon' = [mon EXCEPT ![n][<<r.pid, r.card>>] = [MonOff EXCEPT !.pc = "watch"]]
    BY DEF AuditStart, ScanNext, ScanList, ScanJob, ScanEach, ScanFailed, ScanEnd, ScanRelease, Adopt
  <2>2. [MonOff EXCEPT !.pc = "watch"].pc # "off"
    BY DEF MonOff
  <2>3. ASSUME NEW x, NEW w, w.pc # "off", mon' = [mon EXCEPT ![n][x] = w]
        PROVE  \A m \in Nodes, l \in MonKey : mon[m][l].pc # "off" => mon'[m][l].pc # "off"
    BY <1>t, <2>3
  <2> QED
    BY <2>1, <2>2, <2>3
<1>4. \A j \in Jobs : Keeper(j) => Keeper(j)'
  BY <1>f, <1>p, <1>t, <1>3, WatchStays DEF Keeper, Starting
<1> QED
  BY <1>t, <1>1, <1>2, <1>4, HeldStays

LEMMA HeldStep ==
  ASSUME NoAbandon, HeldInv, [Next]_vars
  PROVE  HeldInv'
<1>t. TypeInv /\ TypeOK /\ LoopTyped /\ Started /\ Steady /\ LoopAsks /\ OwnsNeed /\ HeldHasKeeper
      /\ owner \in [Cards -> Jobs \cup {NoJob}]
  BY DEF HeldInv, TypeInv, TypeOK
<1>1. TypeInv'
  BY <1>t, TypeStep
<1> DEFINE Rest == Started' /\ Steady' /\ LoopAsks' /\ OwnsNeed' /\ HeldHasKeeper'
<1>a. UNCHANGED <<proc, loop>> => LoopAsks'
  BY <1>t DEF LoopAsks
<1>2. ASSUME UNCHANGED <<owner, proc, loop, mon>>, Steady' PROVE Rest
  <2>1. Started'
    BY <1>2, <1>t DEF Started
  <2>2. \A j \in Jobs : Keeper(j) => Keeper(j)'
    BY <1>2 DEF Keeper, Starting, Watching, JobOf
  <2> QED
    BY <1>a, <1>2, <1>t, <2>1, <2>2, HeldStays
<1>3. ASSUME NEW c \in Clients, ApiNext(c) PROVE Rest
  <2>1. UNCHANGED <<owner, proc, loop, mon, node>>
    BY <1>t, <1>3, ApiFrame DEF otherThanApi, memory
  <2> QED
    BY <1>2, <1>t, <2>1 DEF Steady
<1>4. ASSUME NEW n \in Nodes, LoopNext(n) PROVE Rest
  BY <1>4, <1>t, LoopDone, LoopHeld
<1>5. ASSUME NEW n \in Nodes, NEW k \in MonKey, MonNext(n, k) PROVE Rest
  <2>1. /\ UNCHANGED <<proc, node, loop>>
        /\ \A m \in Nodes, l \in MonKey : <<m, l>> # <<n, k>> => mon'[m][l] = mon[m][l]
    BY <1>t, <1>5, MonFrame
  <2>2. mon[n][k].pc # "off"
    BY <1>5 DEF MonNext, MonExit, MonError, MonAlive, MonStopped, MonUntrack, MonEnd, MonRelease
  <2>3. Started' /\ Steady'
    BY <1>t, <2>1, <2>2 DEF Started, Steady
  <2> QED
    BY <1>5, <1>a, <2>1, <2>3, MonHeld
<1>6. ASSUME NEW n \in Nodes, AuditStart(n) \/ ScanNext(n) PROVE Rest
  <2>1. UNCHANGED <<proc, loop>>
    BY <1>6 DEF AuditStart, ScanNext, ScanList, ScanJob, ScanEach, ScanFailed, ScanEnd, ScanRelease
  <2> QED
    BY <1>6, <1>a, <1>t, <2>1, ScanHeld, ScanDoneKeeps
<1>7. ASSUME NEW n \in Nodes, LifeNext(n) PROVE Rest
  <2>1. Start(n)
    BY <1>7, <1>t DEF LifeNext, Stop, StopWaited, Exit, Crash, NoAbandon, Steady
  <2>2. Steady'
    BY <1>t, <2>1 DEF Start, Steady, TypeOK
  <2> QED
    BY <1>2, <2>1, <2>2 DEF Start, mysql
<1>8. ASSUME NEW p \in Pids, ProcExit(p) PROVE Rest
  <2>1. ProcsGrow /\ UNCHANGED <<owner, loop, mon, node>>
    BY <1>8, <1>t DEF ProcExit, ProcsGrow, TypeOK, mysql, memory
  <2>2. Started' /\ Steady'
    BY <1>t, <2>1 DEF Started, ProcsGrow, LoopTyped, LoopGood, MonKey, Steady
  <2>3. LoopAsks'
    BY <1>t, <2>1 DEF LoopAsks, ProcsGrow, LoopTyped, LoopGood, Started
  <2>4. \A j \in Jobs : Keeper(j) => Keeper(j)'
    BY <1>t, <2>1, WatchStays DEF Keeper, Starting
  <2> QED
    BY <1>t, <2>1, <2>2, <2>3, <2>4, HeldStays
<1>9. ASSUME LockExpire \/ UNCHANGED vars PROVE Rest
  <2>1. UNCHANGED <<owner, proc, loop, mon, node>>
    BY <1>9 DEF LockExpire, vars, mysql, memory
  <2> QED
    BY <1>2, <1>t, <2>1 DEF Steady
<1>10. Rest
  BY <1>3, <1>4, <1>5, <1>6, <1>7, <1>8, <1>9 DEF Next
<1> QED
  BY <1>1, <1>10 DEF HeldInv

\* No card leaks: while instances only start, and never stop, every card marked
\* busy has somebody who will release it -- with audits, lost process answers,
\* late pids and a lapsing queue lock.  The four calls excepted in NoAbandon are
\* the ones whose failure leaks a card in the code.
THEOREM NoCardLeaks == ASSUME NoAbandon PROVE Spec => []HeldHasKeeper
<1>1. Init => HeldInv
  <2> SUFFICES ASSUME Init PROVE HeldInv
    OBVIOUS
  <2>1. TypeInv
    BY TypeInit
  <2>2. \A n \in Nodes : loop[n].pc = "idle" /\ node[n] \in {"down", "recovering", "up"}
    BY DEF Init, LoopIdle
  <2>3. \A n \in Nodes, k \in MonKey : mon[n][k].pc = "off"
    BY DEF Init, MonOff
  <2>4. Started
    BY <2>2, <2>3 DEF Init, Started
  <2>5. OwnsNeed /\ HeldHasKeeper
    BY DEF Init, OwnsNeed, HeldHasKeeper
  <2> QED
    BY <2>1, <2>2, <2>4, <2>5 DEF HeldInv, Steady, LoopAsks, Holding
<1>2. HeldInv /\ [Next]_vars => HeldInv'
  BY HeldStep
<1>3. HeldInv => HeldHasKeeper
  BY DEF HeldInv
<1> QED
  BY <1>1, <1>2, <1>3, PTL DEF Spec

-----------------------------------------------------------------------------
(* A job that ended stays ended, and a job that waits is queued *)

\* No instance stops or starts late, no audit runs, requests only submit, and
\* processQueue runs in one instance at a time.
Orderly ==
  /\ NoStops /\ Ops \cap {"cancel", "remove", "reorder"} = {}
  /\ "TTL" \notin Faults \/ \A m, n \in Nodes : m = n

\* In processQueue with a job that waits, and with one that runs.
Early == {"check", "wait", "acquire", "running", "undo"}
Late  == {"cards", "exec", "fail", "failed", "record", "cachePid"}

\* The status of the job at hand is the one the goroutine read or wrote, unless
\* a submission that failed has been rolled back.
Stages ==
  \A n \in Nodes :
    /\ loop[n].pc \in Early => status[loop[n].job] \in Waiting \cup {"Deleted"}
    /\ loop[n].pc \in Late => status[loop[n].job] \in {"Running", "Deleted"}

\* A job under a monitor has begun, and the monitor gives the verdict.
Begun ==
  \A n \in Nodes, k \in MonKey :
    /\ mon[n][k].pc # "off" => status[JobOf(k)] \notin Waiting \cup {"Unborn"}
    /\ mon[n][k].pc = "watch" => status[JobOf(k)] \in {"Running", "Deleted"}

\* A job is in one pair of hands.
Apart ==
  /\ \A n, m \in Nodes, k \in MonKey :
       loop[n].pc \in Early \cup Late /\ mon[m][k].pc # "off" => JobOf(k) # loop[n].job
  /\ \A n, m \in Nodes, k, l \in MonKey :
       mon[n][k].pc # "off" /\ mon[m][l].pc # "off" /\ JobOf(k) = JobOf(l) => n = m /\ k = l

OnlySubmits == \A c \in Clients : api[c].pc \in {"idle", "enqueue", "delete"}

Order == Stages /\ Begun /\ Apart

OrderInv ==
  /\ TypeInv /\ Quiet /\ Started /\ LoopAsks /\ OnlySubmits /\ Order
  /\ "TTL" \notin Faults => LockHeld

\* Nor do the calls fail that leave a waiting job outside the queue, and every
\* job asks for a card.
Reliable ==
  /\ Orderly /\ Faults \cap {"UpdateStatus", "Acquire", "Delete"} = {}
  /\ \A j \in Jobs : GpuIDs[j] # <<>>

\* The cards found idle stay so until they are acquired, and the job that leaves
\* the queue does not wait.
Ready ==
  \A n \in Nodes :
    /\ loop[n].pc # "undo"
    /\ loop[n].pc = "acquire" => CheckAvailable(loop[n].job)
    /\ loop[n].pc = "dequeue" => status[loop[n].job] \notin Waiting \cup {"Unborn"}

QueueInv == OrderInv /\ Ready /\ WaitingIsQueued

\* Processing is exclusive: by the lock, or because there is one instance.
LEMMA Alone ==
  ASSUME Orderly, OrderInv, NEW n \in Nodes, NEW m \in Nodes, loop[n].pc # "idle", loop[m].pc # "idle"
  PROVE  m = n
  BY DEF Orderly, OrderInv, LockHeld

\* No job that ended gets another status.
Final == \A j \in Jobs : status[j] \in Terminal => status'[j] \in {status[j], "Deleted"}

\* Handlers insert and delete rows.
LEMMA ApiOrder ==
  ASSUME Orderly, OrderInv, NEW c \in Clients, ApiNext(c)
  PROVE  /\ OnlySubmits' /\ Order' /\ Final
         /\ SubmitEnqueue(c) \/ SubmitRollback(c) \/ \E n \in Nodes, j \in Jobs : SubmitCreate(c, n, j)
<1>t. /\ TypeInv /\ TypeOK /\ Started /\ LoopTyped /\ Order /\ OnlySubmits
      /\ status \in [Jobs -> AnyStatus] /\ api \in [Clients -> ApiState]
  BY DEF OrderInv, TypeInv, TypeOK
<1>f. UNCHANGED <<proc, loop, mon>> /\ \A d \in Clients \ {c} : api'[d] = api[d]
  BY <1>t, ApiFrame DEF otherThanApi, memory
<1>1. SubmitEnqueue(c) \/ SubmitRollback(c) \/ \E n \in Nodes, j \in Jobs : SubmitCreate(c, n, j)
  <2>1. api[c].pc \in {"idle", "enqueue", "delete"}
    BY <1>t DEF OnlySubmits
  <2>2. ~CancelWrite(c) /\ ~CancelDequeue(c) /\ ~CancelRollback(c) /\ ~RemoveDequeue(c) /\ ~RemoveMark(c)
        /\ ~ReorderMove(c)
    BY <2>1 DEF CancelWrite, CancelDequeue, CancelRollback, RemoveDequeue, RemoveMark, ReorderMove, Step, Reply
  <2>3. ~ReorderFixHead(c) /\ ~ReorderFixMoved(c)
    BY <2>1 DEF ReorderFixHead, ReorderFixMoved, FixRank, FixLoad, FixWrite, Finish, Step, Reply
  <2>0. "cancel" \notin Ops /\ "remove" \notin Ops /\ "reorder" \notin Ops
    BY DEF Orderly
  <2>4. \A n \in Nodes, j \in Jobs : /\ ~CancelRead(c, n, j) /\ ~RemoveRead(c, n, j)
                                     /\ \A i \in Jobs : ~ReorderRead(c, n, j, i)
    BY <2>0 DEF CancelRead, RemoveRead, ReorderRead
  <2> QED
    BY <2>2, <2>3, <2>4 DEF ApiNext, ApiContinue
<1>2. OnlySubmits'
  <2>r. ASSUME NEW from, Reply(c, from) PROVE api'[c].pc = "idle"
    BY <1>t, <2>r DEF Reply, ApiIdle
  <2>s. ASSUME NEW from, NEW to, Step(c, from, to) PROVE api'[c].pc = to
    BY <1>t, <2>s DEF Step, ApiState
  <2>c. ASSUME NEW n, NEW j, Call(c, n, "enqueue", j, "Unborn") PROVE api'[c].pc = "enqueue"
    BY <1>t, <2>c DEF Call, ApiIdle
  <2>1. api'[c].pc \in {"idle", "enqueue", "delete"}
    BY <1>1, <2>r, <2>s, <2>c DEF SubmitEnqueue, SubmitRollback, SubmitCreate
  <2> QED
    BY <1>t, <1>f, <2>1 DEF OnlySubmits
<1>3. \A j \in Jobs : \/ status'[j] = status[j] \/ status'[j] = "Deleted"
                      \/ status[j] = "Unborn" /\ status'[j] = "Queued"
  BY <1>t, <1>1 DEF SubmitEnqueue, SubmitRollback, SubmitCreate
<1>4. Final
  BY <1>3 DEF Final, Terminal
<1>5. Stages'
  <2>1. \A n \in Nodes : loop[n].pc \in Early \cup Late => loop[n].job \in Jobs
    BY <1>t DEF LoopTyped, LoopGood, Early, Late
  <2> QED
    BY <1>f, <1>t, <1>3, <2>1 DEF Order, Stages, Waiting
<1>6. Begun'
  <2>1. \A n \in Nodes, k \in MonKey : mon[n][k].pc # "off" => JobOf(k) \in Jobs
    BY <1>t DEF Started, JobOf, MonKey
  <2>2. \A k : JobOf(k)' = JobOf(k)
    BY <1>f DEF JobOf
  <2> QED
    BY <1>f, <1>t, <1>3, <2>1, <2>2 DEF Order, Begun, Waiting
<1>7. Apart'
  BY <1>f, <1>t DEF Order, Apart, JobOf
<1> QED
  BY <1>1, <1>2, <1>4, <1>5, <1>6, <1>7 DEF Order

\* A monitor writes the verdict of the job that it alone has in hand.
LEMMA MonOrder ==
  ASSUME OrderInv, NEW n \in Nodes, NEW k \in MonKey, MonNext(n, k)
  PROVE  /\ Order' /\ Final
         /\ \A j \in Jobs : status'[j] \in Waiting \cup {"Unborn"} => status'[j] = status[j]
<1>t. /\ TypeInv /\ TypeOK /\ Started /\ LoopTyped /\ Order
      /\ status \in [Jobs -> AnyStatus] /\ mon \in [Nodes -> [MonKey -> MonState]]
  BY DEF OrderInv, TypeInv, TypeOK
<1>f. /\ UNCHANGED <<proc, loop>>
      /\ \A m \in Nodes, l \in MonKey : <<m, l>> # <<n, k>> => mon'[m][l] = mon[m][l]
  BY <1>t, MonFrame
<1>j. \A l : JobOf(l)' = JobOf(l)
  BY <1>f DEF JobOf
<1>p. mon[n][k].pc # "off" /\ (mon'[n][k].pc = "watch" => mon[n][k].pc = "watch" /\ UNCHANGED status)
  <2>1. ASSUME NEW pc, MonGoto(n, k, pc) PROVE mon'[n][k].pc = pc
    BY <1>t, <2>1 DEF MonGoto
  <2>2. mon[n][k].pc = "watch" /\ mon' = [mon EXCEPT ![n][k].fails = @ + 1] => mon'[n][k].pc = "watch"
    BY <1>t DEF MonState
  <2> QED
    BY <2>1, <2>2 DEF MonNext, MonExit, MonError, MonAlive, MonStopped, MonUntrack, MonEnd, MonRelease, mysql
<1>1. \/ UNCHANGED status
      \/ /\ mon[n][k].pc = "watch" /\ \E s \in {"Completed", "Failed"} : UpdateStatus(JobOf(k), s)
  <2>1. \A s \in Verdicts(k[1]) : s \in {"Completed", "Failed"}
    BY DEF Verdicts
  <2> QED
    BY <2>1 DEF MonNext, MonExit, MonError, MonAlive, MonStopped, MonUntrack, MonEnd, MonRelease, mysql
<1>2. \A j \in Jobs : \/ status'[j] = status[j]
                      \/ /\ j = JobOf(k) /\ mon[n][k].pc = "watch"
                         /\ status'[j] \in {"Completed", "Failed"} /\ status[j] \notin NoRow
  BY <1>1, <1>t DEF UpdateStatus, Updated
<1>3. Final
  <2>1. mon[n][k].pc = "watch" => status[JobOf(k)] \in {"Running", "Deleted"}
    BY <1>t DEF Order, Begun
  <2> QED
    BY <1>2, <2>1 DEF Final, Terminal
<1>4. \A j \in Jobs : status'[j] \in Waiting \cup {"Unborn"} => status'[j] = status[j]
  BY <1>2 DEF Waiting
<1>5. Stages'
  <2>1. \A m \in Nodes : loop[m].pc \in Early \cup Late => loop[m].job \in Jobs /\ loop[m].job # JobOf(k)
    BY <1>t, <1>p DEF LoopTyped, LoopGood, Early, Late, Order, Apart
  <2> QED
    BY <1>f, <1>t, <1>2, <2>1 DEF Order, Stages
<1>6. Begun'
  <2>1. \A m \in Nodes, l \in MonKey : mon[m][l].pc # "off" => JobOf(l) \in Jobs
    BY <1>t DEF Started, JobOf, MonKey
  <2>2. \A m \in Nodes, l \in MonKey : mon[m][l].pc # "off" /\ <<m, l>> # <<n, k>> => JobOf(l) # JobOf(k)
    BY <1>t, <1>p DEF Order, Apart
  <2>3. \A m \in Nodes, l \in MonKey : mon'[m][l].pc # "off" => mon[m][l].pc # "off"
    BY <1>f, <1>p
  <2>4. ASSUME NEW m \in Nodes, NEW l \in MonKey, mon'[m][l].pc # "off"
        PROVE  status'[JobOf(l)] \notin Waiting \cup {"Unborn"}
    BY <1>t, <1>4, <2>1, <2>3, <2>4 DEF Order, Begun
  <2>5. ASSUME NEW m \in Nodes, NEW l \in MonKey, mon'[m][l].pc = "watch"
        PROVE  status'[JobOf(l)] \in {"Running", "Deleted"}
    <3>1. CASE m = n /\ l = k
      BY <1>p, <1>t, <2>5, <3>1 DEF Order, Begun
    <3>2. CASE <<m, l>> # <<n, k>>
      BY <1>f, <1>t, <1>2, <2>1, <2>2, <2>5, <3>2 DEF Order, Begun
    <3> QED
      BY <3>1, <3>2
  <2> QED
    BY <1>j, <2>4, <2>5 DEF Begun
<1>7. Apart'
  <2>1. \A m \in Nodes, l \in MonKey : mon'[m][l].pc # "off" => mon[m][l].pc # "off"
    BY <1>f, <1>p
  <2> QED
    BY <1>f, <1>j, <1>t, <2>1 DEF Order, Apart
<1> QED
  BY <1>3, <1>4, <1>5, <1>6, <1>7 DEF Order

\* The goroutine writes the status of the job it has in hand.
LEMMA LoopOrder ==
  ASSUME Orderly, OrderInv, NEW n \in Nodes, LoopNext(n)
  PROVE  Order' /\ Final
<1>t. /\ TypeInv /\ TypeOK /\ Started /\ LoopTyped /\ Order /\ LoopAsks
      /\ status \in [Jobs -> AnyStatus] /\ mon \in [Nodes -> [MonKey -> MonState]]
      /\ loop \in [Nodes -> LoopState] /\ loop[n] \in LoopState
  BY DEF OrderInv, TypeInv, TypeOK
<1>f. \A m \in Nodes \ {n} : loop'[m] = loop[m]
  BY <1>t, LoopFrame
<1>p. ProcsGrow
  BY <1>t, LoopDone
<1>j. \A m \in Nodes, k \in MonKey : mon[m][k].pc # "off" => JobOf(k)' = JobOf(k) /\ JobOf(k) \in Jobs
  BY <1>p, <1>t DEF Started, ProcsGrow, JobOf, MonKey
<1>o. loop[n].pc # "idle" => \A m \in Nodes \ {n} : loop'[m].pc = "idle"
  BY <1>f, Alone
<1>e. /\ \A pc \in Early \cup Late : pc \notin {"idle", "peek", "load", "dequeue", "unlock"}
      /\ loop[n].pc \in Early \cup Late => loop[n].job \in Jobs
  BY <1>t DEF Early, Late, LoopTyped, LoopGood
<1>g. ASSUME NEW pc, Goto(n, pc) PROVE loop'[n].pc = pc /\ loop'[n].job = loop[n].job
  BY <1>t, <1>g DEF Goto, LoopState
<1>v. ASSUME Leave(n) PROVE loop'[n].pc = "unlock"
  BY <1>t, <1>v DEF Leave, LoopIdle
<1>x. PICK j : j = loop[n].job
  OBVIOUS
\* the status of the job at hand, and the place of the goroutine, change
<1>m. ASSUME UNCHANGED mon, loop[n].pc # "idle",
             \A i \in Jobs : i # j \/ loop[n].pc \notin Early \cup Late => status'[i] = status[i],
             loop'[n].pc \in Early \cup Late => loop'[n].job = j /\ loop[n].pc \in Early \cup Late,
             loop'[n].pc \in Early => status'[j] \in Waiting \cup {"Deleted"},
             loop'[n].pc \in Late => status'[j] \in {"Running", "Deleted"}
      PROVE  Order'
  <2>1. Stages'
    BY <1>e, <1>m, <1>o DEF Stages
  <2>2. \A m \in Nodes, k \in MonKey : mon[m][k].pc # "off" =>
          (loop[n].pc \in Early \cup Late => JobOf(k) # j)
    BY <1>t, <1>x DEF Order, Apart
  <2>3. \A m \in Nodes, k \in MonKey : mon[m][k].pc # "off" => status'[JobOf(k)] = status[JobOf(k)]
    BY <1>j, <1>m, <2>2
  <2>4. Begun'
    BY <1>j, <1>m, <1>t, <2>3 DEF Order, Begun
  <2>5. Apart'
    BY <1>e, <1>j, <1>m, <1>o, <1>t, <2>2 DEF Order, Apart
  <2> QED
    BY <2>1, <2>4, <2>5 DEF Order
<1>u. UNCHANGED mysql \/ UNCHANGED status => Final /\ \A i \in Jobs : status'[i] = status[i]
  BY DEF mysql, Final
<1>s. /\ loop[n].pc \in Early => status[j] \in Waiting \cup {"Deleted"}
      /\ loop[n].pc \in Late => status[j] \in {"Running", "Deleted"}
  BY <1>t, <1>x DEF Order, Stages
\* a move that writes nothing, to a place where the status is the same
<1>k. ASSUME UNCHANGED <<status, mon>>, loop[n].pc # "idle",
             \/ loop'[n].pc \notin Early \cup Late
             \/ loop'[n].job = j /\ loop[n].pc \in Early /\ loop'[n].pc \in Early
             \/ loop'[n].job = j /\ loop[n].pc \in Late /\ loop'[n].pc \in Late
      PROVE  Order' /\ Final
  <2>1. Early \cap Late = {}
    BY DEF Early, Late
  <2> QED
    BY <1>k, <1>m, <1>s, <1>u, <2>1
<1>1. CASE LoopLock(n)
  <2>1. loop[n].pc = "idle" /\ loop'[n].pc = "peek" /\ UNCHANGED <<status, mon, proc>>
    BY <1>1, <1>g DEF LoopLock, At, mysql
  <2>2. \A m \in Nodes : loop'[m].pc \in Early \cup Late => loop'[m] = loop[m] /\ m # n
    BY <1>e, <1>f, <2>1
  <2>3. Stages'
    BY <1>t, <2>1, <2>2 DEF Order, Stages
  <2>4. Begun'
    BY <1>t, <2>1 DEF Order, Begun, JobOf
  <2>5. Apart'
    BY <1>t, <2>1, <2>2 DEF Order, Apart, JobOf
  <2> QED
    BY <1>u, <2>1, <2>3, <2>4, <2>5 DEF Order
<1>2. CASE LoopPeek(n) \/ LoopDequeue(n) \/ LoopUnlock(n)
  <2>1. loop'[n].pc \in {"load", "unlock", "idle"} /\ UNCHANGED <<status, mon>> /\ loop[n].pc # "idle"
    BY <1>2, <1>t, <1>v DEF LoopPeek, LoopDequeue, LoopUnlock, LoopState, LoopIdle, mysql, At
  <2> QED
    BY <1>e, <1>k, <2>1
<1>3. CASE LoopLoad(n)
  <2>1. UNCHANGED <<status, mon>> /\ loop[n].pc = "load" /\ loop[n].job \in Jobs
    BY <1>3, <1>t DEF LoopLoad, mysql, At, LoopTyped, LoopGood
  <2>2. CASE loop'[n].pc \in {"unlock", "dequeue"}
    BY <1>e, <1>k, <2>1, <2>2
  <2>3. CASE status[j] \in Waiting /\ loop'[n].pc = "check" /\ loop'[n].job = j
    <3>1. Stages'
      BY <1>e, <1>o, <2>1, <2>3 DEF Stages, Early, Late
    <3>2. \A m \in Nodes, k \in MonKey : mon[m][k].pc # "off" => JobOf(k) # j
      BY <1>t, <2>3 DEF Order, Begun
    <3>3. Apart'
      BY <1>e, <1>j, <1>o, <1>t, <2>1, <2>3, <3>2 DEF Order, Apart
    <3>4. Begun'
      BY <1>j, <1>t, <2>1 DEF Order, Begun
    <3> QED
      BY <1>u, <2>1, <3>1, <3>3, <3>4 DEF Order
  <2>4. loop' = [loop EXCEPT ![n].pc = "check", ![n].seen = status[j]] =>
          loop'[n].pc = "check" /\ loop'[n].job = j
    BY <1>t, <1>x DEF LoopState
  <2> QED
    BY <1>3, <1>g, <1>v, <1>x, <2>2, <2>3, <2>4 DEF LoopLoad, Cur
<1>4. CASE LoopCheck(n) \/ ExecAcquire(n) \/ ExecCards(n) \/ ExecStartFails(n) \/ ExecRelease(n)
  <2>1. UNCHANGED <<status, mon>>
    BY <1>4 DEF LoopCheck, ExecAcquire, ExecCards, ExecStartFails, ExecRelease, mysql
  <2>2. \/ loop[n].pc = "check" /\ loop'[n].pc \in {"acquire", "wait", "unlock"}
        \/ loop[n].pc = "acquire" /\ loop'[n].pc \in {"running", "dequeue"}
        \/ loop[n].pc = "cards" /\ loop'[n].pc \in {"exec", "dequeue"}
        \/ loop[n].pc = "exec" /\ loop'[n].pc = "fail"
        \/ loop[n].pc = "undo" /\ loop'[n].pc = "dequeue"
        \/ loop[n].pc = "fail" /\ loop'[n].pc = "failed"
    BY <1>4, <1>g, <1>v DEF LoopCheck, ExecAcquire, ExecCards, ExecStartFails, ExecRelease, At
  <2>3. loop'[n].pc # "unlock" => loop'[n].job = j
    BY <1>4, <1>g, <1>v, <1>x DEF LoopCheck, ExecAcquire, ExecCards, ExecStartFails, ExecRelease
  <2> QED
    BY <1>k, <2>1, <2>2, <2>3 DEF Early, Late
<1>5. CASE LoopWait(n) \/ ExecRunning(n) \/ ExecFailed(n)
  <2>0. /\ UNCHANGED mon /\ j \in Jobs
        /\ loop[n].pc \in Early \/ loop[n].pc = "failed"
    BY <1>5, <1>e, <1>x DEF LoopWait, ExecRunning, ExecFailed, At, Early, Late
  <2>1. CASE UNCHANGED status
    <3>1. \/ loop'[n].pc \in {"unlock", "dequeue"}
          \/ loop[n].pc = "running" /\ loop'[n].pc = "undo" /\ loop'[n].job = j
          \/ /\ loop[n].pc = "running" /\ loop'[n].pc = "cards" /\ loop'[n].job = j
             /\ status' = Updated(j, "Running")
      BY <1>5, <1>g, <1>v, <1>x DEF LoopWait, ExecRunning, ExecFailed, At, Cur
    <3>2. CASE loop[n].pc = "running" /\ loop'[n].pc = "cards" /\ loop'[n].job = j /\ status' = Updated(j, "Running")
      <4>1. status'[j] \in {"Running", "Deleted"}
        BY <1>s, <1>t, <2>0, <3>2 DEF Updated, Early, Waiting, NoRow
      <4> QED
        BY <1>m, <1>u, <2>0, <2>1, <3>2, <4>1 DEF Early, Late
    <3> QED
      BY <1>e, <1>k, <2>0, <2>1, <3>1, <3>2 DEF Early, Late
  <2>2. CASE \E s \in {"WaitingGpu", "Running", "Failed"} :
               /\ status' = Updated(j, s)
               /\ \/ s \in {"WaitingGpu", "Failed"} /\ loop'[n].pc \in {"unlock", "dequeue"}
                  \/ s = "Running" /\ loop[n].pc = "running" /\ loop'[n].pc = "cards" /\ loop'[n].job = j
    <3>1. PICK s \in {"WaitingGpu", "Running", "Failed"} :
               /\ status' = Updated(j, s)
               /\ \/ s \in {"WaitingGpu", "Failed"} /\ loop'[n].pc \in {"unlock", "dequeue"}
                  \/ s = "Running" /\ loop[n].pc = "running" /\ loop'[n].pc = "cards" /\ loop'[n].job = j
      BY <2>2
    <3>2. /\ \A i \in Jobs : i # j => status'[i] = status[i]
          /\ status'[j] = IF status[j] \in NoRow THEN status[j] ELSE s
      BY <1>t, <2>0, <3>1 DEF Updated
    <3>3. status[j] \in {"Queued", "WaitingGpu", "Running", "Deleted"}
      BY <1>s, <2>0 DEF Early, Late, Waiting
    <3>4. Final
      BY <3>2, <3>3 DEF Final, Terminal
    <3>5. loop[n].pc \in Early \cup Late /\ loop[n].pc # "idle"
      BY <2>0 DEF Early, Late
    <3>6. \/ loop'[n].pc \notin Early \cup Late
          \/ /\ loop'[n].pc = "cards" /\ loop'[n].job = j
             /\ status'[j] \in {"Running", "Deleted"}
      BY <3>1, <3>2, <3>3, <1>e DEF NoRow
    <3>7. "cards" \notin Early
      BY DEF Early
    <3> QED
      BY <1>m, <2>0, <3>2, <3>4, <3>5, <3>6, <3>7
  <2> QED
    BY <1>5, <1>g, <1>v, <1>x, <2>1, <2>2 DEF LoopWait, ExecRunning, ExecFailed, At, Cur, UpdateStatus
<1>6. CASE ExecStart(n) \/ ExecRecord(n)
  <2>1. UNCHANGED <<status, mon>> /\ loop[n].pc \in {"exec", "record"}
    BY <1>6 DEF ExecStart, ExecRecord, mysql, At
  <2>2. ASSUME NEW p \in Pids, loop' = [loop EXCEPT ![n].pc = "record", ![n].pid = p, ![n].todo = Need(Cur(n))]
        PROVE  loop'[n].pc = "record" /\ loop'[n].job = j
    BY <1>t, <1>x, <2>2 DEF LoopState
  <2>3. ASSUME NEW c \in loop[n].todo,
               loop' = [loop EXCEPT ![n].todo = @ \ {c},
                                    ![n].pc = IF loop[n].todo = {c} THEN "cachePid" ELSE "record"]
        PROVE  loop'[n].job = j /\ loop'[n].pc \in {"record", "cachePid"}
    BY <1>t, <1>x, <2>3 DEF LoopState
  <2>4. loop'[n].job = j /\ loop'[n].pc \in {"record", "cachePid", "dequeue"}
    BY <1>6, <1>g, <1>x, <2>2, <2>3 DEF ExecStart, ExecRecord
  <2> QED
    BY <1>k, <2>1, <2>4 DEF Early, Late
<1>7. CASE ExecMonitor(n)
  <2>1. UNCHANGED <<status, proc>> /\ loop[n].pc = "cachePid" /\ loop'[n].pc = "dequeue"
    BY <1>7, <1>g DEF ExecMonitor, mysql, At
  <2>2. CASE UNCHANGED mon
    BY <1>e, <1>k, <2>1, <2>2
  <2>3. CASE mon' = [mon EXCEPT ![n][<<loop[n].pid, GpuIDs[Cur(n)][1]>>] = [MonOff EXCEPT !.pc = "watch"]]
    <3>0. \A l : JobOf(l)' = JobOf(l)
      BY <2>1 DEF JobOf
    <3>1. PICK x, w : x = <<loop[n].pid, GpuIDs[Cur(n)][1]>> /\ w = [MonOff EXCEPT !.pc = "watch"]
      OBVIOUS
    <3>2. JobOf(x) = j /\ status[j] \in {"Running", "Deleted"}
      BY <1>s, <1>t, <1>x, <2>1, <3>1 DEF LoopAsks, JobOf, Late
    <3>3. \A m \in Nodes, k \in MonKey : mon[m][k].pc # "off" => JobOf(k) # j
      BY <1>t, <1>x, <2>1 DEF Order, Apart, Late
    <3>4. \A m \in Nodes, k \in MonKey : mon'[m][k] = IF m = n /\ k = x THEN w ELSE mon[m][k]
      BY <1>t, <2>3, <3>1
    <3>5. Stages'
      BY <1>e, <1>o, <2>1 DEF Stages
    <3>6. Begun'
      BY <1>t, <2>1, <3>0, <3>2, <3>4 DEF Order, Begun, Waiting
    <3>7. Apart'
      BY <1>e, <1>o, <1>t, <2>1, <3>0, <3>2, <3>3, <3>4 DEF Order, Apart
    <3> QED
      BY <1>u, <2>1, <3>5, <3>6, <3>7 DEF Order
  <2> QED
    BY <1>7, <2>2, <2>3 DEF ExecMonitor
<1> QED
  BY <1>1, <1>2, <1>3, <1>4, <1>5, <1>6, <1>7 DEF LoopNext

\* Every step keeps the order, and no step touches a job that ended.
LEMMA OrderStep ==
  ASSUME Orderly, OrderInv, [Next]_vars
  PROVE  OrderInv' /\ Final
<1>t. /\ NoStops /\ TypeInv /\ TypeOK /\ Quiet /\ Started /\ LoopAsks /\ OnlySubmits /\ Order
      /\ "TTL" \notin Faults => LockHeld
      /\ LoopTyped
  BY DEF OrderInv, Orderly, TypeInv
<1>1. TypeInv' /\ ("TTL" \notin Faults => LockHeld')
  BY <1>t, TypeStep, LockStep
<1>n. \A n \in Nodes : ~AuditStart(n) /\ ~ScanNext(n) /\ ~LifeNext(n)
  BY <1>t, NobodyStops
<1> DEFINE Rest == Quiet' /\ Started' /\ LoopAsks' /\ OnlySubmits' /\ Order' /\ Final
<1>2. ASSUME NEW c \in Clients, ApiNext(c) PROVE Rest
  <2>1. UNCHANGED <<proc, loop, mon, node, scan>>
    BY <1>t, <1>2, ApiFrame DEF otherThanApi, memory
  <2>2. Quiet' /\ Started' /\ LoopAsks'
    BY <1>t, <2>1 DEF Quiet, Started, LoopAsks
  <2> QED
    BY <1>2, <2>2, ApiOrder
<1>3. ASSUME NEW n \in Nodes, LoopNext(n) PROVE Rest
  <2>1. UNCHANGED others
    BY <1>t, <1>3, LoopFrame
  <2>2. Quiet' /\ OnlySubmits'
    BY <1>t, <2>1 DEF Quiet, OnlySubmits, others
  <2> QED
    BY <1>3, <1>t, <2>2, LoopDone, LoopAsksKept, LoopOrder
<1>4. ASSUME NEW n \in Nodes, NEW k \in MonKey, MonNext(n, k) PROVE Rest
  <2>1. /\ UNCHANGED <<proc, node, loop, scan, api>>
        /\ \A m \in Nodes, l \in MonKey : <<m, l>> # <<n, k>> => mon'[m][l] = mon[m][l]
    BY <1>t, <1>4, MonFrame
  <2>2. mon[n][k].pc # "off"
    BY <1>4 DEF MonNext, MonExit, MonError, MonAlive, MonStopped, MonUntrack, MonEnd, MonRelease
  <2>3. Quiet' /\ Started' /\ LoopAsks' /\ OnlySubmits'
    BY <1>t, <2>1, <2>2 DEF Quiet, Started, LoopAsks, OnlySubmits
  <2> QED
    BY <1>4, <2>3, MonOrder
<1>5. ASSUME NEW p \in Pids, ProcExit(p) PROVE Rest
  <2>1. ProcsGrow /\ UNCHANGED <<status, loop, mon, node, scan, api>>
    BY <1>5, <1>t DEF ProcExit, ProcsGrow, TypeOK, mysql, memory
  <2>2. Started' /\ Quiet' /\ OnlySubmits' /\ Final
    BY <1>t, <2>1 DEF Started, ProcsGrow, LoopTyped, LoopGood, MonKey, Quiet, OnlySubmits, Final
  <2>3. LoopAsks'
    BY <1>t, <2>1 DEF LoopAsks, ProcsGrow, LoopTyped, LoopGood, Started
  <2>4. \A m \in Nodes, k \in MonKey : mon[m][k].pc # "off" => JobOf(k)' = JobOf(k)
    BY <1>t, <2>1 DEF Started, ProcsGrow, JobOf, MonKey
  <2>5. Stages' /\ Begun' /\ Apart'
    BY <1>t, <2>1, <2>4 DEF Order, Stages, Begun, Apart
  <2> QED
    BY <2>2, <2>3, <2>5 DEF Order
<1>6. ASSUME LockExpire \/ UNCHANGED vars PROVE Rest
  <2>1. UNCHANGED <<status, proc, loop, mon, node, scan, api>>
    BY <1>6 DEF LockExpire, vars, mysql, memory
  <2>2. Quiet' /\ Started' /\ LoopAsks' /\ OnlySubmits' /\ Final
    BY <1>t, <2>1 DEF Quiet, Started, LoopAsks, OnlySubmits, Final
  <2>3. Order'
    BY <1>t, <2>1 DEF Order, Stages, Begun, Apart, JobOf
  <2> QED
    BY <2>2, <2>3
<1>7. Rest
  BY <1>n, <1>2, <1>3, <1>4, <1>5, <1>6 DEF Next
<1> QED
  BY <1>1, <1>7 DEF OrderInv

LEMMA OrderInit == ASSUME Orderly, Init PROVE OrderInv
<1>1. TypeInv
  BY TypeInit
<1>2. \A n \in Nodes : loop[n].pc = "idle" /\ node[n] = "up" /\ scan[n].pc = "off"
  BY DEF Init, LoopIdle, ScanOff, Orderly, NoStops
<1>3. \A n \in Nodes, k \in MonKey : mon[n][k].pc = "off"
  BY DEF Init, MonOff
<1>4. \A c \in Clients : api[c].pc = "idle"
  BY DEF Init, ApiIdle
<1>5. Started
  BY <1>2, <1>3 DEF Init, Started
<1>6. "idle" \notin Early \cup Late \cup Holding
  BY DEF Early, Late, Holding
<1>7. Quiet /\ LoopAsks /\ OnlySubmits /\ LockHeld
  BY <1>2, <1>4, <1>6 DEF Quiet, LoopAsks, OnlySubmits, LockHeld
<1>8. Stages /\ Begun /\ Apart
  BY <1>2, <1>3, <1>6 DEF Stages, Begun, Apart
<1> QED
  BY <1>1, <1>5, <1>7, <1>8 DEF OrderInv, Order

\* A job that ended stays ended, however many calls fail and processes go
\* unanswered, while requests only submit, instances stay up and processQueue is
\* exclusive.  UpdateStatus is unconditional: it is the order of its callers that
\* keeps a verdict.
THEOREM EndedJobsStayEnded == ASSUME Orderly PROVE Spec => TerminalIsFinal
<1>1. Init => OrderInv
  BY OrderInit
<1>2. OrderInv /\ [Next]_vars => OrderInv'
  BY OrderStep
<1>3. OrderInv /\ [Next]_vars =>
        [\A j \in Jobs : status[j] \in Terminal => status'[j] \in {status[j], "Deleted"}]_status
  BY OrderStep DEF Final
<1> QED
  BY <1>1, <1>2, <1>3, PTL DEF Spec, TerminalIsFinal

\* A concatenation has the elements of both parts.
LEMMA ConcatHas ==
  ASSUME NEW s \in Seq(Jobs), NEW t \in Seq(Jobs)
  PROVE  s \o t \in Seq(Jobs) /\ Range(s) \subseteq Range(s \o t) /\ Range(t) \subseteq Range(s \o t)
<1> DEFINE u == s \o t
<1>1. /\ u \in Seq(Jobs) /\ Len(u) = Len(s) + Len(t)
      /\ \A x \in 1..(Len(s) + Len(t)) : u[x] = IF x <= Len(s) THEN s[x] ELSE t[x - Len(s)]
  BY ConcatProperties
<1>2. Len(s) \in Nat /\ Len(t) \in Nat /\ DOMAIN s = 1..Len(s) /\ DOMAIN t = 1..Len(t) /\ DOMAIN u = 1..Len(u)
  BY <1>1
<1> HIDE DEF u
<1>3. ASSUME NEW x \in DOMAIN s PROVE s[x] \in Range(u)
  <2>1. x \in DOMAIN u /\ u[x] = s[x]
    BY <1>1, <1>2, <1>3
  <2> QED
    BY <2>1 DEF Range
<1>4. ASSUME NEW x \in DOMAIN t PROVE t[x] \in Range(u)
  <2>1. x + Len(s) \in DOMAIN u /\ u[x + Len(s)] = t[x]
    BY <1>1, <1>2, <1>4
  <2> QED
    BY <2>1 DEF Range
<1> QED
  BY <1>1, <1>3, <1>4 DEF Range, u

\* A part of a sequence has the elements between its ends.
LEMMA SubSeqHas ==
  ASSUME NEW s \in Seq(Jobs), NEW a \in Int, NEW b \in Int, 1 <= a, b <= Len(s)
  PROVE  /\ SubSeq(s, a, b) \in Seq(Jobs)
         /\ \A x \in 1..Len(s) : a <= x /\ x <= b => s[x] \in Range(SubSeq(s, a, b))
<1> DEFINE u == SubSeq(s, a, b)
<1>1. \A x \in a..b : s[x] \in Jobs
  BY ElementOfSeq
<1>2. /\ u \in Seq(Jobs) /\ Len(u) = (IF a <= b THEN b - a + 1 ELSE 0)
      /\ \A x \in 1..(b - a + 1) : u[x] = s[a + x - 1]
  BY <1>1, SubSeqProperties
<1> HIDE DEF u
<1>3. DOMAIN u = 1..Len(u) /\ Len(s) \in Nat
  BY <1>2
<1>4. ASSUME NEW x \in 1..Len(s), a <= x, x <= b PROVE s[x] \in Range(u)
  <2>1. x - a + 1 \in DOMAIN u /\ u[x - a + 1] = s[x]
    <3>1. x - a + 1 \in 1..(b - a + 1) /\ a <= b /\ a + (x - a + 1) - 1 = x
      BY <1>3, <1>4
    <3> QED
      BY <1>2, <1>3, <3>1
  <2> QED
    BY <2>1 DEF Range
<1> QED
  BY <1>2, <1>4 DEF u

\* ZREM takes out one member, ZADD puts one in; every other stays.
LEMMA DequeuedKeeps ==
  ASSUME queue \in Seq(Jobs), NEW j, NEW i \in Range(queue), i # j
  PROVE  i \in Range(Dequeued(j))
<1>1. CASE j \in Range(queue)
  <2>1. PICK p, n : p = Position(j) /\ n = Len(queue)
    OBVIOUS
  <2>2. p \in 1..n /\ queue[p] = j /\ n \in Nat
    BY <1>1, <2>1 DEF Position, Range
  <2>3. PICK x \in 1..n : queue[x] = i
    BY <2>1 DEF Range
  <2>4. PICK a, b : a = SubSeq(queue, 1, p - 1) /\ b = SubSeq(queue, p + 1, n)
    OBVIOUS
  <2>5. Dequeued(j) = a \o b
    BY <1>1, <2>1, <2>4 DEF Dequeued, RemoveAt
  <2>6. x # p
    BY <2>2, <2>3
  <2>7. /\ a \in Seq(Jobs) /\ b \in Seq(Jobs)
        /\ x <= p - 1 => i \in Range(a)
        /\ x >= p + 1 => i \in Range(b)
    <3>1. 1 \in Int /\ p - 1 \in Int /\ p - 1 <= Len(queue) /\ p + 1 \in Int /\ n \in Int /\ 1 <= p + 1 /\ n <= Len(queue)
      BY <2>1, <2>2
    <3>2. /\ SubSeq(queue, 1, p - 1) \in Seq(Jobs)
          /\ \A y \in 1..Len(queue) : 1 <= y /\ y <= p - 1 => queue[y] \in Range(SubSeq(queue, 1, p - 1))
      <4>1. 1 <= 1
        OBVIOUS
      <4> QED
        BY ONLY queue \in Seq(Jobs), <3>1, <4>1, SubSeqHas
    <3>3. /\ SubSeq(queue, p + 1, n) \in Seq(Jobs)
          /\ \A y \in 1..Len(queue) : p + 1 <= y /\ y <= n => queue[y] \in Range(SubSeq(queue, p + 1, n))
      BY ONLY queue \in Seq(Jobs), <3>1, SubSeqHas
    <3> QED
      BY <2>1, <2>2, <2>3, <2>4, <3>2, <3>3
  <2>8. x <= p - 1 \/ x >= p + 1
    BY <2>2, <2>3, <2>6
  <2> QED
    BY <2>5, <2>7, <2>8, ConcatHas
<1>2. CASE j \notin Range(queue)
  BY <1>2 DEF Dequeued
<1> QED
  BY <1>1, <1>2

LEMMA EnqueuedKeeps ==
  ASSUME queue \in Seq(Jobs), NEW j \in Jobs, NEW q \in Enqueued(j)
  PROVE  j \in Range(q) /\ \A i \in Range(queue) : i \in Range(q)
<1>1. PICK d, n : d = Dequeued(j) /\ n = Len(d)
  OBVIOUS
<1>2. d \in Seq(Jobs) /\ n \in Nat /\ \A i \in Range(queue) : i # j => i \in Range(d)
  BY <1>1, DequeuedType, DequeuedKeeps
<1>3. PICK p \in 1..(n + 1) : q = SubSeq(d, 1, p - 1) \o <<j>> \o SubSeq(d, p, n)
  BY <1>1 DEF Enqueued, InsertAt
<1>4. PICK a, b, e : a = SubSeq(d, 1, p - 1) /\ b = SubSeq(d, p, n) /\ e = <<j>>
  OBVIOUS
<1>5. 1 \in Int /\ p - 1 \in Int /\ p - 1 <= Len(d) /\ p \in Int /\ n \in Int /\ 1 <= p /\ n <= Len(d) /\ 1 <= 1
  BY <1>1, <1>2, <1>3
<1>6. a \in Seq(Jobs) /\ \A x \in 1..n : x <= p - 1 => d[x] \in Range(a)
  <2>1. /\ SubSeq(d, 1, p - 1) \in Seq(Jobs)
        /\ \A x \in 1..Len(d) : 1 <= x /\ x <= p - 1 => d[x] \in Range(SubSeq(d, 1, p - 1))
    BY ONLY <1>2, <1>5, SubSeqHas
  <2> QED
    BY <1>1, <1>2, <1>4, <2>1
<1>7. b \in Seq(Jobs) /\ \A x \in 1..n : p <= x => d[x] \in Range(b)
  <2>1. /\ SubSeq(d, p, n) \in Seq(Jobs)
        /\ \A x \in 1..Len(d) : p <= x /\ x <= n => d[x] \in Range(SubSeq(d, p, n))
    BY ONLY <1>2, <1>5, SubSeqHas
  <2> QED
    BY <1>1, <1>2, <1>4, <2>1
<1>8. e \in Seq(Jobs) /\ j \in Range(e)
  BY <1>4 DEF Range
<1>9. /\ a \o e \in Seq(Jobs) /\ Range(a) \subseteq Range(a \o e) /\ Range(e) \subseteq Range(a \o e)
      /\ Range(a \o e) \subseteq Range((a \o e) \o b) /\ Range(b) \subseteq Range((a \o e) \o b)
  BY <1>6, <1>7, <1>8, ConcatHas
<1>10. q = (a \o e) \o b
  BY <1>3, <1>4
<1>11. ASSUME NEW i \in Range(d) PROVE i \in Range(q)
  <2>1. PICK x \in 1..n : d[x] = i
    BY <1>1, <1>2, <1>11 DEF Range
  <2>2. x <= p - 1 \/ p <= x
    BY <1>2, <1>3, <2>1
  <2> QED
    BY <1>6, <1>7, <1>9, <1>10, <2>1, <2>2
<1>12. j \in Range(q)
  BY <1>8, <1>9, <1>10
<1> QED
  BY <1>2, <1>11, <1>12

\* The cards a job found idle are idle as long as nobody acquires.
LEMMA AvailableStays ==
  ASSUME NEW j \in Jobs, CheckAvailable(j), \A c \in Cards : owner[c] = NoJob => owner'[c] = NoJob
  PROVE  CheckAvailable(j)'
<1>1. Need(j) \subseteq Cards /\ \A c \in Need(j) : owner[c] = NoJob
  BY CountMeansAll
<1>2. Idle(j) = Need(j) /\ Idle(j)' = Need(j)
  BY <1>1 DEF Idle, Need
<1> QED
  BY <1>2 DEF CheckAvailable

\* A handler leaves no waiting job outside the queue.
LEMMA ApiQueue ==
  ASSUME Reliable, QueueInv, NEW c \in Clients, ApiNext(c)
  PROVE  Ready' /\ WaitingIsQueued'
<1>t. /\ Orderly /\ OrderInv /\ Ready /\ WaitingIsQueued /\ TypeOK /\ LoopTyped /\ ApiTyped
      /\ status \in [Jobs -> AnyStatus] /\ api \in [Clients -> ApiState] /\ queue \in Seq(Jobs)
  BY DEF QueueInv, Reliable, OrderInv, TypeInv, TypeOK
<1>f. UNCHANGED <<loop, owner>> /\ \A d \in Clients \ {c} : api'[d] = api[d]
  BY <1>t, ApiFrame DEF otherThanApi, memory
<1>1. SubmitEnqueue(c) \/ SubmitRollback(c) \/ \E n \in Nodes, j \in Jobs : SubmitCreate(c, n, j)
  BY <1>t, ApiOrder
<1>2. \A j \in Jobs : \/ status'[j] = status[j] \/ status'[j] = "Deleted"
                      \/ status[j] = "Unborn" /\ status'[j] = "Queued"
  BY <1>t, <1>1 DEF SubmitEnqueue, SubmitRollback, SubmitCreate
<1>3. Ready'
  <2>1. \A n \in Nodes : loop[n].pc = "dequeue" => loop[n].job \in Jobs
    BY <1>t DEF LoopTyped, LoopGood
  <2>2. \A j : CheckAvailable(j) => CheckAvailable(j)'
    BY <1>f DEF CheckAvailable, Idle
  <2> QED
    BY <1>f, <1>t, <1>2, <2>1, <2>2 DEF Ready, Waiting
\* the other requests vouch for what they vouched for
<1>4. ASSUME NEW j \in Jobs,
             \E d \in Clients \ {c} : api[d].job = j /\ api[d].pc \in {"enqueue", "delete"}
      PROVE  \E d \in Clients : api'[d].job = j /\ api'[d].pc \in {"enqueue", "delete"}
  BY <1>4, <1>f
<1>5. CASE SubmitEnqueue(c)
  <2>0. UNCHANGED status /\ api[c].pc = "enqueue" /\ api[c].job \in Jobs
    BY <1>5, <1>t DEF SubmitEnqueue, Step, Reply, ApiTyped
  <2>1. queue' \in Enqueued(api[c].job) \/ (UNCHANGED queue /\ Step(c, "enqueue", "delete"))
    BY <1>5 DEF SubmitEnqueue
  <2>2. CASE queue' \in Enqueued(api[c].job)
    BY <1>3, <1>4, <1>t, <2>0, <2>2, EnqueuedKeeps DEF WaitingIsQueued
  <2>3. CASE UNCHANGED queue /\ Step(c, "enqueue", "delete")
    <3>1. api'[c].job = api[c].job /\ api'[c].pc = "delete"
      BY <1>t, <2>3 DEF Step, ApiState
    <3> QED
      BY <1>3, <1>4, <1>t, <2>0, <2>3, <3>1 DEF WaitingIsQueued
  <2> QED
    BY <2>1, <2>2, <2>3
<1>6. CASE SubmitRollback(c)
  <2>1. UNCHANGED queue /\ status' = [status EXCEPT ![api[c].job] = "Deleted"]
    BY <1>6 DEF SubmitRollback, Reliable, Fails
  <2>2. \A j \in Jobs : status'[j] \in Waiting => status[j] \in Waiting /\ j # api[c].job
    BY <1>t, <2>1 DEF Waiting
  <2> QED
    BY <1>3, <1>4, <1>t, <2>1, <2>2 DEF WaitingIsQueued
<1>7. ASSUME NEW n \in Nodes, NEW j \in Jobs, SubmitCreate(c, n, j) PROVE WaitingIsQueued'
  <2>1. api[c].pc = "idle" /\ UNCHANGED queue /\ api'[c].job = j /\ api'[c].pc = "enqueue"
    BY <1>7, <1>t DEF SubmitCreate, Call, ApiIdle
  <2>2. \A i \in Jobs : status'[i] \in Waiting => status[i] \in Waiting \/ i = j
    BY <1>7, <1>t DEF SubmitCreate
  <2> QED
    BY <1>4, <1>t, <2>1, <2>2 DEF WaitingIsQueued
<1> QED
  BY <1>1, <1>3, <1>5, <1>6, <1>7

\* A monitor makes no job wait and no card busy.
LEMMA MonQueue ==
  ASSUME QueueInv, NEW n \in Nodes, NEW k \in MonKey, MonNext(n, k)
  PROVE  Ready' /\ WaitingIsQueued'
<1>t. /\ OrderInv /\ Ready /\ WaitingIsQueued /\ TypeOK /\ LoopTyped
      /\ owner \in [Cards -> Jobs \cup {NoJob}]
  BY DEF QueueInv, OrderInv, TypeInv, TypeOK
<1>f. UNCHANGED <<loop, queue, api>>
  BY <1>t, MonFrame
<1>1. \A j \in Jobs : status'[j] \in Waiting \cup {"Unborn"} => status'[j] = status[j]
  BY <1>t, MonOrder
<1>2. \A c \in Cards : owner[c] = NoJob => owner'[c] = NoJob
  <2>1. UNCHANGED owner \/ owner' = Released(JobOf(k))
    BY DEF MonNext, MonExit, MonError, MonAlive, MonStopped, MonUntrack, MonEnd, MonRelease, ReleaseCards, mysql
  <2> QED
    BY <1>t, <2>1 DEF Released
<1>3. \A m \in Nodes : loop[m].pc \in {"acquire", "dequeue"} => loop[m].job \in Jobs
  BY <1>t DEF LoopTyped, LoopGood
<1>4. ASSUME NEW m \in Nodes, loop[m].pc = "acquire" PROVE CheckAvailable(loop[m].job)'
  <2>1. PICK j : j = loop[m].job
    OBVIOUS
  <2>2. CheckAvailable(j)'
    BY <1>t, <1>2, <1>3, <1>4, <2>1, AvailableStays DEF Ready
  <2> QED
    BY <1>f, <2>1, <2>2 DEF CheckAvailable, Idle, Need
<1>5. Ready'
  BY <1>f, <1>t, <1>1, <1>3, <1>4 DEF Ready
<1>6. WaitingIsQueued'
  BY <1>f, <1>t, <1>1 DEF WaitingIsQueued
<1> QED
  BY <1>5, <1>6

\* The goroutine takes a job off the queue once it no longer waits.
LEMMA LoopQueue ==
  ASSUME Reliable, QueueInv, NEW n \in Nodes, LoopNext(n)
  PROVE  Ready' /\ WaitingIsQueued'
<1>t. /\ Orderly /\ OrderInv /\ Ready /\ WaitingIsQueued /\ TypeOK /\ LoopTyped /\ Stages /\ LoopAsks
      /\ status \in [Jobs -> AnyStatus] /\ queue \in Seq(Jobs)
      /\ loop \in [Nodes -> LoopState] /\ loop[n] \in LoopState
      /\ CtxLive(n) /\ ~Fails("UpdateStatus") /\ ~Fails("Acquire")
  BY DEF QueueInv, Reliable, OrderInv, TypeInv, TypeOK, Order, Quiet, CtxLive, Fails
<1>f. UNCHANGED api /\ \A m \in Nodes \ {n} : loop'[m] = loop[m]
  BY <1>t, LoopFrame DEF others
<1>o. loop[n].pc # "idle" => \A m \in Nodes \ {n} : loop'[m].pc = "idle"
  BY <1>f, <1>t, Alone
<1>g. ASSUME NEW pc, Goto(n, pc) PROVE loop'[n].pc = pc /\ loop'[n].job = loop[n].job
  BY <1>t, <1>g DEF Goto, LoopState
<1>v. ASSUME Leave(n) PROVE loop'[n].pc = "unlock"
  BY <1>t, <1>v DEF Leave, LoopIdle
<1>x. PICK j : j = loop[n].job
  OBVIOUS
<1>s. /\ loop[n].pc \in Early => status[j] \in Waiting \cup {"Deleted"}
      /\ loop[n].pc \in Late => status[j] \in {"Running", "Deleted"}
      /\ loop[n].pc \notin {"idle", "peek", "unlock"} => j \in Jobs
  BY <1>t, <1>x DEF Stages, LoopTyped, LoopGood
<1>w. ASSUME UNCHANGED queue, \A i \in Jobs : status'[i] \in Waiting => status[i] \in Waiting PROVE WaitingIsQueued'
  BY <1>f, <1>t, <1>w DEF WaitingIsQueued
<1>u. UNCHANGED mysql \/ UNCHANGED status => \A i \in Jobs : status'[i] \in Waiting => status[i] \in Waiting
  BY DEF mysql
<1>r. ASSUME loop[n].pc # "idle", loop'[n].pc # "undo",
             loop'[n].pc = "acquire" => CheckAvailable(j)' /\ loop'[n].job = j,
             loop'[n].pc = "dequeue" => status'[j] \notin Waiting \cup {"Unborn"} /\ loop'[n].job = j
      PROVE  Ready'
  <2>1. loop'[n].pc = "acquire" => CheckAvailable(loop[n].job)' 
    <3>1. j = loop'[n].job => (CheckAvailable(j)' => CheckAvailable(loop[n].job)')
      BY DEF CheckAvailable, Idle, Need
    <3> QED
      BY <1>r, <3>1
  <2> QED
    BY <1>o, <1>r, <2>1 DEF Ready
<1>1. CASE LoopLock(n)
  <2>1. UNCHANGED <<status, owner, queue>> /\ loop'[n].pc = "peek"
    BY <1>1, <1>g DEF LoopLock, mysql
  <2>2. \A i : CheckAvailable(i)' = CheckAvailable(i)
    BY <2>1 DEF CheckAvailable, Idle
  <2>3. Ready'
    BY <1>f, <1>t, <2>1, <2>2 DEF Ready
  <2> QED
    BY <1>u, <1>w, <2>1, <2>3
<1>2. CASE LoopPeek(n) \/ LoopUnlock(n)
  <2>1. UNCHANGED <<status, queue>> /\ loop'[n].pc \in {"load", "unlock", "idle"} /\ loop[n].pc # "idle"
    BY <1>2, <1>t, <1>v DEF LoopPeek, LoopUnlock, LoopState, LoopIdle, mysql, redis, At
  <2> QED
    BY <1>r, <1>u, <1>w, <2>1
<1>3. CASE LoopDequeue(n)
  <2>1. loop[n].pc = "dequeue" /\ loop'[n].pc = "unlock" /\ UNCHANGED status
        /\ (UNCHANGED queue \/ queue' = Dequeued(j))
    BY <1>3, <1>v, <1>x DEF LoopDequeue, At, Cur, mysql
  <2>2. status[j] \notin Waiting
    BY <1>t, <1>x, <2>1 DEF Ready
  <2>3. CASE queue' = Dequeued(j)
    <3>1. \A i \in Jobs : status'[i] \in Waiting /\ i \in Range(queue) => i \in Range(queue')
      BY <1>t, <2>1, <2>2, <2>3, DequeuedKeeps
    <3>2. WaitingIsQueued'
      BY <1>f, <1>t, <2>1, <3>1 DEF WaitingIsQueued
    <3> QED
      BY <1>r, <2>1, <3>2
  <2> QED
    BY <1>r, <1>u, <1>w, <2>1, <2>3
<1>4. CASE LoopLoad(n)
  <2>1. loop[n].pc = "load" /\ UNCHANGED <<status, queue>>
    BY <1>4 DEF LoopLoad, At, mysql, redis
  <2>2. GpuIDs[j] # <<>>
    BY <1>s, <2>1 DEF Reliable
  <2>3. loop' = [loop EXCEPT ![n].pc = "check", ![n].seen = status[j]] => loop'[n].pc = "check"
    BY <1>t DEF LoopState
  <2>4. \/ loop'[n].pc \in {"check", "unlock"}
        \/ loop'[n].pc = "dequeue" /\ loop'[n].job = j /\ status[j] \notin Waiting \cup NoRow
    BY <1>4, <1>g, <1>v, <1>x, <2>2, <2>3 DEF LoopLoad, Cur
  <2> QED
    BY <1>r, <1>u, <1>w, <2>1, <2>4 DEF NoRow
<1>5. CASE LoopCheck(n)
  <2>1. loop[n].pc = "check" /\ UNCHANGED <<status, owner, queue>>
    BY <1>5 DEF LoopCheck, At, mysql, redis
  <2>2. \/ loop'[n].pc \in {"unlock", "wait"}
        \/ loop'[n].pc = "acquire" /\ loop'[n].job = j /\ CheckAvailable(j)
    BY <1>5, <1>g, <1>v, <1>x DEF LoopCheck, Cur
  <2>3. CheckAvailable(j) => CheckAvailable(j)'
    BY <2>1 DEF CheckAvailable, Idle
  <2> QED
    BY <1>r, <1>u, <1>w, <2>1, <2>2, <2>3
<1>6. CASE LoopWait(n)
  <2>1. loop[n].pc = "wait" /\ loop'[n].pc = "unlock" /\ UNCHANGED queue /\ status' = Updated(j, "WaitingGpu")
    BY <1>6, <1>t, <1>v, <1>x DEF LoopWait, At, redis, UpdateStatus, Cur
  <2>2. status[j] \in Waiting \cup {"Deleted"} /\ j \in Jobs
    BY <1>s, <2>1 DEF Early
  <2>3. \A i \in Jobs : status'[i] \in Waiting => status[i] \in Waiting
    BY <1>t, <2>1, <2>2 DEF Updated, Waiting, NoRow
  <2> QED
    BY <1>r, <1>w, <2>1, <2>3
<1>7. CASE ExecAcquire(n)
  <2>1. loop[n].pc = "acquire" /\ UNCHANGED <<status, queue>>
    BY <1>7 DEF ExecAcquire, At, redis
  <2>2. CheckAvailable(j)
    BY <1>t, <1>x, <2>1 DEF Ready
  <2>3. loop'[n].pc = "running"
    BY <1>7, <1>g, <1>t, <1>x, <2>2 DEF ExecAcquire, Cur, CtxFails
  <2> QED
    BY <1>r, <1>u, <1>w, <2>1, <2>3
<1>8. CASE ExecRunning(n) \/ ExecFailed(n)
  <2>1. /\ UNCHANGED queue
        /\ \/ loop[n].pc = "running" /\ loop'[n].pc = "cards" /\ status' = Updated(j, "Running")
           \/ /\ loop[n].pc = "failed" /\ loop'[n].pc = "dequeue" /\ loop'[n].job = j
              /\ status' = Updated(j, "Failed")
    BY <1>8, <1>g, <1>t, <1>x DEF ExecRunning, ExecFailed, At, redis, UpdateStatus, Cur
  <2>2. j \in Jobs /\ (loop[n].pc = "failed" => status[j] \in {"Running", "Deleted"})
    BY <1>s, <2>1 DEF Early, Late
  <2>3. /\ \A i \in Jobs : status'[i] \in Waiting => status[i] \in Waiting
        /\ loop'[n].pc = "dequeue" => status'[j] \notin Waiting \cup {"Unborn"}
    BY <1>t, <2>1, <2>2 DEF Updated, Waiting, NoRow
  <2> QED
    BY <1>r, <1>w, <2>1, <2>3
<1>9. CASE ExecCards(n) \/ ExecStart(n) \/ ExecStartFails(n) \/ ExecRelease(n) \/ ExecRecord(n) \/ ExecMonitor(n)
  <2>0. UNCHANGED <<status, queue>>
    BY <1>9 DEF ExecCards, ExecStart, ExecStartFails, ExecRelease, ExecRecord, ExecMonitor, mysql, redis
  <2>1. loop[n].pc \in Late
    BY <1>9, <1>t DEF ExecCards, ExecStart, ExecStartFails, ExecRelease, ExecRecord, ExecMonitor, At, Late, Ready
  <2>2. ASSUME NEW p \in Pids, loop' = [loop EXCEPT ![n].pc = "record", ![n].pid = p, ![n].todo = Need(Cur(n))]
        PROVE  loop'[n].pc = "record"
    BY <1>t, <2>2 DEF LoopState
  <2>3. ASSUME NEW c \in loop[n].todo,
               loop' = [loop EXCEPT ![n].todo = @ \ {c},
                                    ![n].pc = IF loop[n].todo = {c} THEN "cachePid" ELSE "record"]
        PROVE  loop'[n].pc \in {"record", "cachePid"}
    BY <1>t, <2>3 DEF LoopState
  <2>4. \/ loop'[n].pc \in {"exec", "fail", "failed", "record", "cachePid"}
        \/ loop'[n].pc = "dequeue" /\ loop'[n].job = j
    BY <1>9, <1>g, <1>x, <2>2, <2>3 DEF ExecCards, ExecStart, ExecStartFails, ExecRelease, ExecRecord, ExecMonitor
  <2>5. status'[j] \notin Waiting \cup {"Unborn"}
    BY <1>s, <2>0, <2>1 DEF Waiting
  <2>6. loop[n].pc # "idle"
    BY <2>1 DEF Late
  <2> QED
    BY <1>r, <1>u, <1>w, <2>0, <2>4, <2>5, <2>6
<1> QED
  BY <1>1, <1>2, <1>3, <1>4, <1>5, <1>6, <1>7, <1>8, <1>9 DEF LoopNext

LEMMA QueueStep ==
  ASSUME Reliable, QueueInv, [Next]_vars
  PROVE  QueueInv'
<1>t. NoStops /\ Orderly /\ OrderInv /\ Ready /\ WaitingIsQueued /\ Quiet /\ LoopTyped
  BY DEF QueueInv, Reliable, Orderly, OrderInv, TypeInv
<1>1. OrderInv'
  BY <1>t, OrderStep
<1>n. \A n \in Nodes : ~AuditStart(n) /\ ~ScanNext(n) /\ ~LifeNext(n)
  BY <1>t, NobodyStops
<1>2. ASSUME UNCHANGED <<status, owner, queue, loop, api>> PROVE Ready' /\ WaitingIsQueued'
  BY <1>t, <1>2 DEF Ready, WaitingIsQueued, CheckAvailable, Idle
<1>3. ASSUME NEW p \in Pids, ProcExit(p) PROVE Ready' /\ WaitingIsQueued'
  BY <1>2, <1>3 DEF ProcExit, mysql, redis, memory
<1>4. ASSUME LockExpire \/ UNCHANGED vars PROVE Ready' /\ WaitingIsQueued'
  BY <1>2, <1>4 DEF LockExpire, vars, mysql, redis, memory
<1>5. Ready' /\ WaitingIsQueued'
  BY <1>n, <1>3, <1>4, ApiQueue, LoopQueue, MonQueue DEF Next
<1> QED
  BY <1>1, <1>5 DEF QueueInv

\* No job is stranded: one that waits is in queue:jobs, or its submission is in
\* progress.  The hypotheses in Reliable are what the code relies on: with any
\* one of the excluded requests or failures a job can end up waiting off the queue.
THEOREM WaitingJobsAreQueued == ASSUME Reliable PROVE Spec => []WaitingIsQueued
<1>1. Init => QueueInv
  <2> SUFFICES ASSUME Init PROVE QueueInv
    OBVIOUS
  <2>1. OrderInv
    BY OrderInit DEF Reliable
  <2>2. \A n \in Nodes : loop[n].pc = "idle"
    BY DEF Init, LoopIdle
  <2>3. WaitingIsQueued
    BY DEF Init, WaitingIsQueued, Waiting
  <2> QED
    BY <2>1, <2>2, <2>3 DEF QueueInv, Ready
<1>2. QueueInv /\ [Next]_vars => QueueInv'
  BY QueueStep
<1>3. QueueInv => WaitingIsQueued
  BY DEF QueueInv
<1> QED
  BY <1>1, <1>2, <1>3, PTL DEF Spec

-----------------------------------------------------------------------------
(* Through crash and restart *)

\* One instance, jobs that ask for one card, no audit, and four calls that do not
\* fail.  The instance may stop, crash and start again at any point, and every
\* other call and request may come and fail.
Recoverable ==
  /\ \A m, n \in Nodes : m = n
  /\ \A j \in Jobs : \A c, d \in Need(j) : c = d
  /\ "audit" \notin Ops
  /\ Faults \cap {"EndRecord", "UpdateStatus", "GetRunningJobs", "FindActive"} = {}

OwnOrIdle(j)  == \A c \in Cards : c \in Need(j) => owner[c] \in {j, NoJob}
Unrecorded(j) == \A r \in records : r.job # j
Unwatched(j)  == \A n \in Nodes, k \in MonKey : mon[n][k].pc # "off" => JobOf(k) # j

\* A record names a card of its job and a process of its job; its job has no
\* other record and owns the card, whether or not the process is alive.
RecordsHold ==
  /\ \A r \in records : r.card \in Need(r.job) /\ owner[r.card] = r.job /\ proc[r.pid].job = r.job
  /\ \A r, s \in records : r.job = s.job => r = s

\* Recovery is over before the loop begins, and begins after the monitors are gone.
Life ==
  \A n \in Nodes :
    /\ node[n] = "recovering" <=> scan[n].pc # "off"
    /\ node[n] = "recovering" => scan[n].mode = "recover"
    /\ node[n] \in {"down", "recovering"} => loop[n].pc = "idle"
    /\ node[n] = "down" \/ scan[n].pc = "list" => \A k \in MonKey : mon[n][k].pc = "off"

\* Whoever will release the cards of a job holds them alone, and has ended the
\* job's record by then.
LoopKeeps ==
  \A n \in Nodes :
    /\ loop[n].pc \in Holding => Holds(loop[n].job) /\ Unwatched(loop[n].job)
    /\ loop[n].pc \in Holding \ {"cachePid"} => Unrecorded(loop[n].job)
    /\ loop[n].pc = "record" => loop[n].todo = Need(loop[n].job)
    /\ loop[n].pc # "undo"
MonKeeps ==
  /\ \A n \in Nodes, k \in MonKey : mon[n][k].pc # "off" => Holds(JobOf(k))
  /\ \A n \in Nodes, k \in MonKey : mon[n][k].pc = "release" => Unrecorded(JobOf(k))
  /\ \A n, m \in Nodes, k, l \in MonKey :
       mon[n][k].pc # "off" /\ mon[m][l].pc # "off" /\ JobOf(k) = JobOf(l) => n = m /\ k = l

\* What recovery has in hand is nobody else's.
ScanKeeps ==
  \A n \in Nodes :
    /\ scan[n].pc \in {"list", "next"} => scan[n].job = NoJob
    /\ scan[n].pc \notin {"off", "list"} =>
         \A j \in scan[n].jobs : OwnOrIdle(j) /\ Unwatched(j) /\ j # scan[n].job
    /\ scan[n].pc \in {"each", "failed", "end", "release"} => scan[n].job \in Jobs
    /\ scan[n].pc = "each" =>
         \A r \in scan[n].recs : r \in records /\ r.job = scan[n].job /\ Unwatched(scan[n].job)
    /\ scan[n].pc \in {"failed", "end", "release"} =>
         /\ scan[n].recs = {} /\ OwnOrIdle(scan[n].job) /\ Unwatched(scan[n].job)
         /\ \A r \in records : r.job = scan[n].job => r = scan[n].rec /\ scan[n].pc # "release"
    /\ scan[n].pc \in {"end", "release"} => status[scan[n].job] # "Running"

\* Cards of a Running job are not given away: it holds them, or recovery has yet
\* to come to it.
RunningKeeps ==
  /\ \A j \in Jobs : status[j] = "Running" =>
       /\ OwnOrIdle(j)
       /\ \A n \in Nodes : node[n] = "up" => Holds(j) \/ (loop[n].pc = "failed" /\ loop[n].job = j)
       /\ \A n \in Nodes : node[n] = "recovering" =>
            Holds(j) \/ scan[n].pc = "list" \/ j \in scan[n].jobs \/ (scan[n].pc = "failed" /\ scan[n].job = j)
  /\ \A n \in Nodes, k \in MonKey : CtxLive(n) /\ mon[n][k].pc \in {"untrack", "end", "release"} =>
       status[JobOf(k)] # "Running"

Recovers   == RecordsHold /\ Life /\ LoopKeeps /\ MonKeeps /\ ScanKeeps /\ RunningKeeps
RecoverInv == TypeInv /\ Started /\ LoopAsks /\ CancelsWaiting /\ Recovers

\* The pid answers and CreatePid succeeds.
Answering == Recoverable /\ Faults \cap {"PidExists", "CreatePid"} = {}

Watched ==
  \A n \in Nodes, r \in records :
    CtxLive(n) /\ PidExists(r.pid) /\ status[r.job] = "Running" =>
      \/ Watching(n, r.job) \/ Starting(n, r.job)
      \/ scan[n].pc = "list" \/ (scan[n].pc # "off" /\ r.job \in scan[n].jobs)
      \/ scan[n].pc = "each" /\ scan[n].job = r.job /\ r \in scan[n].recs

WatchInv == RecoverInv /\ Watched

\* No job becomes Running in the step.
NoneRuns == \A j \in Jobs : status'[j] = "Running" => status[j] = "Running"

\* Cards that are the job's own or idle may be released: nobody else's change hands.
LEMMA Spared ==
  ASSUME TypeOK, NEW j, OwnOrIdle(j), owner' = Released(j) \/ UNCHANGED owner
  PROVE  /\ \A i \in Jobs : i # j /\ Holds(i) => Holds(i)'
         /\ \A i : OwnOrIdle(i) => OwnOrIdle(i)'
         /\ \A c \in Cards, i \in Jobs : i # j /\ owner[c] = i => owner'[c] = i
<1>1. \A c \in Cards : owner'[c] = owner[c] \/ (owner'[c] = NoJob /\ owner[c] \in {j, NoJob})
  BY DEF Released, OwnOrIdle
<1>2. NoJob \notin Jobs
  BY StoresAssumption
<1>3. \A c \in Cards, i \in Jobs : i # j /\ owner[c] = i => owner'[c] = i
  BY <1>1, <1>2
<1>4. \A i \in Jobs : i # j /\ Holds(i) => Holds(i)'
  BY <1>3 DEF Holds
<1>5. \A i : OwnOrIdle(i) => OwnOrIdle(i)'
  BY <1>1 DEF OwnOrIdle
<1> QED
  BY <1>3, <1>4, <1>5

LEMMA HoldsOwn == \A j : Holds(j) => OwnOrIdle(j)
  BY DEF Holds, OwnOrIdle

\* Processes that are recorded or watched keep their job.
LEMMA JobsStay ==
  ASSUME TypeInv, Started, RecordsHold, ProcsGrow
  PROVE  /\ \A m \in Nodes, k \in MonKey : mon[m][k].pc # "off" => JobOf(k)' = JobOf(k) /\ JobOf(k) \in Jobs
         /\ \A r \in records : r.pid \in Pids /\ r.job \in Jobs /\ r.card \in Cards /\ proc'[r.pid].job = r.job
<1>1. \A p \in Pids : proc[p].job \in Jobs => proc'[p].job = proc[p].job
  BY StoresAssumption DEF ProcsGrow, Started
<1>2. \A m \in Nodes, k \in MonKey : mon[m][k].pc # "off" => k[1] \in Pids /\ proc[k[1]].job \in Jobs
  BY DEF Started, MonKey
<1>3. records \subseteq Rec
  BY DEF TypeInv, TypeOK
<1>4. \A r \in records : r.pid \in Pids /\ r.job \in Jobs /\ r.card \in Cards /\ proc[r.pid].job = r.job
  BY <1>3 DEF RecordsHold, Rec
<1> QED
  BY <1>1, <1>2, <1>4 DEF JobOf

\* What a move of the scheduler goroutine that hands over nothing may be.
LoopCalm(m) ==
  /\ loop'[m].pc \in Holding => loop[m].pc \in Holding /\ loop'[m].job = loop[m].job /\ loop'[m].pc # "undo"
  /\ loop'[m].pc \in Holding \ {"cachePid"} => loop[m].pc # "cachePid"
  /\ loop'[m].pc = "record" => loop'[m].todo = Need(loop'[m].job)
  /\ loop[m].pc = "failed" =>
       (loop'[m].pc = "failed" /\ loop'[m].job = loop[m].job) \/ status'[loop[m].job] # "Running"
  /\ loop'[m].pc # "idle" => loop[m].pc # "idle" \/ node[m] = "up"

\* What recovery has in hand stays so when others only let go.
LEMMA ScanStays ==
  ASSUME ScanKeeps, UNCHANGED scan, NoneRuns,
         \A j : OwnOrIdle(j) => OwnOrIdle(j)', \A j : Unwatched(j) => Unwatched(j)',
         records' \subseteq records, \A r \in records : r \in records' \/ ~Unwatched(r.job)
  PROVE  ScanKeeps'
<1>1. ASSUME NEW m \in Nodes, NEW i, i = scan[m].job
      PROVE  /\ scan[m].pc \in {"list", "next"} => i = NoJob
             /\ scan[m].pc \notin {"off", "list"} =>
                  \A j \in scan[m].jobs : OwnOrIdle(j)' /\ Unwatched(j)' /\ j # i
             /\ scan[m].pc \in {"each", "failed", "end", "release"} => i \in Jobs
             /\ scan[m].pc = "each" =>
                  \A r \in scan[m].recs : r \in records' /\ r.job = i /\ Unwatched(i)'
             /\ scan[m].pc \in {"failed", "end", "release"} =>
                  /\ scan[m].recs = {} /\ OwnOrIdle(i)' /\ Unwatched(i)'
                  /\ \A r \in records' : r.job = i => r = scan[m].rec /\ scan[m].pc # "release"
             /\ scan[m].pc \in {"end", "release"} => status'[i] # "Running"
  BY <1>1 DEF ScanKeeps, NoneRuns
<1> QED
  BY <1>1 DEF ScanKeeps, OwnOrIdle, Unwatched

LEMMA CalmStep ==
  ASSUME RecoverInv, ProcsGrow, NoneRuns, UNCHANGED <<owner, records, node, mon, scan>>,
         \A m \in Nodes : LoopCalm(m)
  PROVE  Recovers'
<1>t. /\ TypeInv /\ Started /\ RecordsHold /\ Life /\ LoopKeeps /\ MonKeeps /\ ScanKeeps /\ RunningKeeps
      /\ loop \in [Nodes -> LoopState] /\ LoopTyped /\ scan \in [Nodes -> ScanState]
  BY DEF RecoverInv, Recovers, TypeInv, TypeOK
<1>j. /\ \A m \in Nodes, k \in MonKey : mon[m][k].pc # "off" => JobOf(k)' = JobOf(k) /\ JobOf(k) \in Jobs
      /\ \A r \in records : proc'[r.pid].job = r.job
  BY <1>t, JobsStay
<1>h. \A j : (Holds(j)' <=> Holds(j)) /\ (OwnOrIdle(j)' <=> OwnOrIdle(j)) /\ (Unrecorded(j)' <=> Unrecorded(j))
  BY DEF Holds, OwnOrIdle, Unrecorded
<1>w. \A j : Unwatched(j)' <=> Unwatched(j)
  BY <1>j DEF Unwatched
<1>1. RecordsHold'
  BY <1>t, <1>j DEF RecordsHold
<1>2. Life'
  BY <1>t DEF Life, LoopCalm
<1>3. LoopKeeps'
  <2>1. ASSUME NEW m \in Nodes, NEW j, j = loop'[m].job, loop'[m].pc \in Holding
        PROVE  Holds(j)' /\ Unwatched(j)' /\ (loop'[m].pc # "cachePid" => Unrecorded(j)')
    <3>1. loop[m].pc \in Holding /\ loop[m].job = j /\ (loop'[m].pc # "cachePid" => loop[m].pc # "cachePid")
      BY <2>1 DEF LoopCalm
    <3> QED
      BY <1>t, <1>h, <1>w, <3>1 DEF LoopKeeps
  <2>2. \A m \in Nodes : (loop'[m].pc = "record" => loop'[m].todo = Need(loop'[m].job)) /\ loop'[m].pc # "undo"
    BY DEF LoopCalm, Holding
  <2> QED
    BY <2>1, <2>2 DEF LoopKeeps, Holds, Unwatched, Unrecorded
<1>4. MonKeeps'
  BY <1>t, <1>j, <1>h DEF MonKeeps
<1>5. ScanKeeps'
  BY <1>t, <1>h, <1>w, ScanStays
<1>6. RunningKeeps'
  <2>1. ASSUME NEW j \in Jobs, status'[j] = "Running"
        PROVE  /\ OwnOrIdle(j)'
               /\ \A m \in Nodes : node'[m] = "up" => Holds(j)' \/ (loop'[m].pc = "failed" /\ loop'[m].job = j)
               /\ \A m \in Nodes : node'[m] = "recovering" =>
                    \/ Holds(j)' \/ scan'[m].pc = "list" \/ j \in scan'[m].jobs
                    \/ (scan'[m].pc = "failed" /\ scan'[m].job = j)
    <3>1. status[j] = "Running"
      BY <2>1 DEF NoneRuns
    <3> QED
      BY <1>t, <1>h, <2>1, <3>1 DEF RunningKeeps, LoopCalm
  <2>2. \A m \in Nodes, k \in MonKey : mon[m][k].pc # "off" /\ status[JobOf(k)] # "Running" =>
           status'[JobOf(k)'] # "Running"
    BY <1>j DEF NoneRuns
  <2>3. \A m \in Nodes, k \in MonKey : CtxLive(m)' /\ mon'[m][k].pc \in {"untrack", "end", "release"} =>
           status'[JobOf(k)'] # "Running"
    BY <1>t, <2>2 DEF RunningKeeps, CtxLive
  <2> QED
    BY <2>1, <2>3 DEF RunningKeeps
<1> QED
  BY <1>1, <1>2, <1>3, <1>4, <1>5, <1>6 DEF Recovers

\* A monitor lets go of its own job only: first of the record, then of the cards.
LEMMA MonRecovers ==
  ASSUME Recoverable, RecoverInv, NEW n \in Nodes, NEW k \in MonKey, MonNext(n, k)
  PROVE  Recovers'
<1>t. /\ TypeInv /\ TypeOK /\ Started /\ RecordsHold /\ Life /\ LoopKeeps /\ MonKeeps /\ ScanKeeps /\ RunningKeeps
      /\ status \in [Jobs -> AnyStatus] /\ mon \in [Nodes -> [MonKey -> MonState]]
  BY DEF RecoverInv, Recovers, TypeInv, TypeOK
<1>f. /\ UNCHANGED <<proc, node, loop, scan>>
      /\ \A m \in Nodes, l \in MonKey : <<m, l>> # <<n, k>> => mon'[m][l] = mon[m][l]
  BY <1>t, MonFrame
<1>c. "EndRecord" \notin Faults /\ "UpdateStatus" \notin Faults /\ \A m \in Nodes : m = n
  BY DEF Recoverable
<1>i. PICK i : i = JobOf(k)
  OBVIOUS
<1>on. mon[n][k].pc # "off"
  BY DEF MonNext, MonExit, MonError, MonAlive, MonStopped, MonUntrack, MonEnd, MonRelease
<1>h. i \in Jobs /\ Holds(i) /\ OwnOrIdle(i) /\ ~Unwatched(i)
  <2>1. i \in Jobs
    BY <1>t, <1>i, <1>on DEF Started, JobOf, MonKey
  <2>2. Holds(i)
    BY <1>t, <1>i, <1>on DEF MonKeeps
  <2> QED
    BY <1>i, <1>on, <2>1, <2>2, HoldsOwn DEF Unwatched
<1>g. ASSUME NEW pc, MonGoto(n, k, pc) PROVE mon'[n][k].pc = pc
  BY <1>t, <1>g DEF MonGoto
<1>e. mon[n][k].pc = "watch" /\ mon' = [mon EXCEPT ![n][k].fails = @ + 1] => mon'[n][k].pc = "watch"
  BY <1>t DEF MonState
\* what the step does to status, records and cards
<1>s. /\ NoneRuns
      /\ mon'[n][k].pc \in {"untrack", "end", "release"} /\ CtxLive(n) => status'[i] # "Running"
  <2>u. UNCHANGED status => NoneRuns
    BY DEF NoneRuns
  <2>v. ASSUME NEW s \in {"Completed", "Failed"}, UpdateStatus(i, s) PROVE NoneRuns /\ status'[i] # "Running"
    BY <1>t, <1>c, <1>h, <2>v DEF UpdateStatus, Fails, Updated, NoneRuns, NoRow
  <2>w. Verdicts(k[1]) \subseteq {"Completed", "Failed"}
    BY DEF Verdicts
  <2>1. CASE MonExit(n, k) \/ MonError(n, k)
    BY <1>i, <1>g, <1>e, <2>u, <2>v, <2>w, <2>1 DEF MonExit, MonError
  <2>2. CASE MonStopped(n, k)
    BY <2>u, <2>2 DEF MonStopped, mysql
  <2>3. CASE MonAlive(n, k) \/ MonRelease(n, k)
    BY <1>g, <2>u, <2>3 DEF MonAlive, MonRelease, mysql
  <2>4. CASE MonUntrack(n, k) \/ MonEnd(n, k)
    <3>1. UNCHANGED status /\ mon[n][k].pc \in {"untrack", "end"}
      BY <2>4 DEF MonUntrack, MonEnd, mysql
    <3>2. CtxLive(n) => status[i] # "Running"
      BY <1>t, <1>i, <3>1 DEF RunningKeeps
    <3> QED
      BY <2>u, <3>1, <3>2
  <2> QED
    BY <2>1, <2>2, <2>3, <2>4 DEF MonNext
<1>r. /\ records' \subseteq records /\ \A r \in records : r \in records' \/ r.job = i
      /\ mon'[n][k].pc = "release" => \A r \in records' : r.job # i
  <2>1. CASE MonEnd(n, k)
    BY <1>c, <1>i, <2>1 DEF MonEnd, EndRecords, Fails, FindActiveByJobID
  <2>2. CASE ~MonEnd(n, k)
    BY <1>g, <1>e, <2>2 DEF MonNext, MonExit, MonError, MonAlive, MonStopped, MonUntrack, MonRelease, mysql
  <2> QED
    BY <2>1, <2>2
<1>o. \/ UNCHANGED owner
      \/ /\ owner' = Released(i) /\ mon[n][k].pc = "release" /\ mon'[n][k].pc = "off"
  BY <1>g, <1>i DEF MonNext, MonExit, MonError, MonAlive, MonStopped, MonUntrack, MonEnd, MonRelease, ReleaseCards, mysql
<1>p. /\ \A j \in Jobs : j # i /\ Holds(j) => Holds(j)'
      /\ \A j : OwnOrIdle(j) => OwnOrIdle(j)'
      /\ \A c \in Cards, j \in Jobs : j # i /\ owner[c] = j => owner'[c] = j
  BY <1>t, <1>h, <1>o, Spared
<1>u. UNCHANGED owner => \A j : Holds(j)' <=> Holds(j)
  BY DEF Holds
<1>j. \A l : JobOf(l)' = JobOf(l)
  BY <1>f DEF JobOf
<1>m. \A m \in Nodes, l \in MonKey : mon'[m][l].pc # "off" => mon[m][l].pc # "off"
  BY <1>f, <1>on
<1>w. \A j : Unwatched(j) => Unwatched(j)'
  BY <1>j, <1>m DEF Unwatched
<1>1. RecordsHold'
  <2>1. ASSUME NEW r \in records'
        PROVE  r.card \in Need(r.job) /\ owner'[r.card] = r.job /\ proc'[r.pid].job = r.job
    <3>1. r \in records /\ r.card \in Cards /\ r.job \in Jobs
      BY <1>r, <1>t DEF TypeOK, Rec
    <3>2. mon[n][k].pc = "release" => r.job # i
      BY <1>t, <1>i, <3>1 DEF MonKeeps, Unrecorded
    <3> QED
      BY <1>f, <1>o, <1>p, <1>t, <3>1, <3>2 DEF RecordsHold
  <2> QED
    BY <1>r, <1>t, <2>1 DEF RecordsHold
<1>2. Life'
  BY <1>f, <1>m, <1>t DEF Life
<1>3. LoopKeeps'
  <2>1. ASSUME NEW m \in Nodes, NEW j, j = loop[m].job, loop[m].pc \in Holding
        PROVE  Holds(j)' /\ Unwatched(j)' /\ (loop[m].pc # "cachePid" => Unrecorded(j)')
    <3>1. Holds(j) /\ Unwatched(j) /\ (loop[m].pc # "cachePid" => Unrecorded(j)) /\ j # i
      BY <1>t, <1>h, <2>1 DEF LoopKeeps
    <3>2. j \in Jobs
      BY <1>t, <2>1 DEF TypeInv, LoopTyped, LoopGood, Holding
    <3> QED
      BY <1>p, <1>w, <1>r, <3>1, <3>2 DEF Unrecorded
  <2> QED
    BY <1>f, <1>t, <2>1 DEF LoopKeeps, Holds, Unwatched, Unrecorded
<1>4. MonKeeps'
  <2>1. ASSUME NEW m \in Nodes, NEW l \in MonKey, mon'[m][l].pc # "off", NEW j, j = JobOf(l)
        PROVE  Holds(j)' /\ (mon'[m][l].pc = "release" => Unrecorded(j)')
    <3>0. j \in Jobs /\ Holds(j) /\ mon[m][l].pc # "off"
      BY <1>m, <1>t, <2>1 DEF MonKeeps, Started, JobOf, MonKey
    <3>1. CASE <<m, l>> = <<n, k>>
      <4>1. UNCHANGED owner /\ j = i
        BY <1>i, <1>o, <2>1, <3>1
      <4> QED
        BY <1>r, <1>u, <3>0, <3>1, <4>1 DEF Unrecorded
    <3>2. CASE <<m, l>> # <<n, k>>
      <4>1. j # i
        BY <1>i, <1>on, <1>t, <2>1, <3>0, <3>2 DEF MonKeeps
      <4>2. mon'[m][l].pc = "release" => Unrecorded(j)
        BY <1>f, <1>t, <2>1, <3>2 DEF MonKeeps
      <4> QED
        BY <1>p, <1>r, <3>0, <4>1, <4>2 DEF Unrecorded
    <3> QED
      BY <3>1, <3>2
  <2>2. \A m \in Nodes, l \in MonKey : mon'[m][l].pc # "off" =>
          Holds(JobOf(l))' /\ (mon'[m][l].pc = "release" => Unrecorded(JobOf(l))')
    BY <1>j, <2>1 DEF Holds, Unrecorded
  <2> QED
    BY <1>j, <1>m, <1>t, <2>2 DEF MonKeeps
<1>5. ScanKeeps'
  BY <1>f, <1>h, <1>p, <1>r, <1>s, <1>t, <1>w, ScanStays
<1>6. RunningKeeps'
  <2>1. ASSUME NEW j \in Jobs, status'[j] = "Running"
        PROVE  /\ OwnOrIdle(j)'
               /\ \A m \in Nodes : node[m] = "up" => Holds(j)' \/ (loop[m].pc = "failed" /\ loop[m].job = j)
               /\ \A m \in Nodes : node[m] = "recovering" =>
                    \/ Holds(j)' \/ scan[m].pc = "list" \/ j \in scan[m].jobs
                    \/ (scan[m].pc = "failed" /\ scan[m].job = j)
    <3>1. status[j] = "Running"
      BY <1>s, <2>1 DEF NoneRuns
    <3>2. CtxLive(n) => j # i \/ UNCHANGED owner
      BY <1>i, <1>o, <1>t, <3>1 DEF RunningKeeps
    <3>3. CtxLive(n) /\ Holds(j) => Holds(j)'
      BY <1>p, <1>u, <3>2
    <3> QED
      BY <1>c, <1>p, <1>t, <3>1, <3>3 DEF RunningKeeps, CtxLive
  <2>2. ASSUME NEW m \in Nodes, NEW l \in MonKey, CtxLive(m), mon'[m][l].pc \in {"untrack", "end", "release"}
        PROVE  status'[JobOf(l)] # "Running"
    <3>1. CASE <<m, l>> = <<n, k>>
      BY <1>i, <1>s, <2>2, <3>1
    <3>2. CASE <<m, l>> # <<n, k>>
      <4>1. status[JobOf(l)] # "Running" /\ JobOf(l) \in Jobs
        BY <1>f, <1>t, <2>2, <3>2 DEF RunningKeeps, Started, JobOf, MonKey
      <4> QED
        BY <1>s, <4>1 DEF NoneRuns
    <3> QED
      BY <3>1, <3>2
  <2> QED
    BY <1>f, <1>j, <2>1, <2>2 DEF RunningKeeps, CtxLive
<1> QED
  BY <1>1, <1>2, <1>3, <1>4, <1>5, <1>6 DEF Recovers

\* Recovery hands a job on or lets go of it, one at a time, with the loop at rest.
LEMMA ScanRecovers ==
  ASSUME Recoverable, RecoverInv, NEW n \in Nodes, ScanNext(n)
  PROVE  Recovers'
<1>t. /\ TypeInv /\ TypeOK /\ Started /\ RecordsHold /\ Life /\ LoopKeeps /\ MonKeeps /\ ScanKeeps /\ RunningKeeps
      /\ status \in [Jobs -> AnyStatus] /\ mon \in [Nodes -> [MonKey -> MonState]]
      /\ scan \in [Nodes -> ScanState] /\ scan[n] \in ScanState /\ records \subseteq Rec
      /\ node \in [Nodes -> {"down", "recovering", "up", "stopping", "stopped"}]
  BY DEF RecoverInv, Recovers, TypeInv, TypeOK
<1>c. /\ "EndRecord" \notin Faults /\ "UpdateStatus" \notin Faults /\ "GetRunningJobs" \notin Faults
      /\ "FindActive" \notin Faults /\ \A m \in Nodes : m = n
  BY DEF Recoverable
<1>f. UNCHANGED <<proc, loop>>
  BY DEF ScanNext, ScanList, ScanJob, ScanEach, ScanFailed, ScanEnd, ScanRelease
<1>n. node[n] = "recovering" /\ scan[n].mode = "recover" /\ loop[n].pc = "idle" /\ scan[n].pc # "off"
  <2>1. scan[n].pc # "off"
    BY DEF ScanNext, ScanList, ScanJob, ScanEach, ScanFailed, ScanEnd, ScanRelease
  <2> QED
    BY <1>t, <2>1 DEF Life
<1>j. \A l : JobOf(l)' = JobOf(l)
  BY <1>f DEF JobOf
<1>jo. \A m \in Nodes, l \in MonKey : mon[m][l].pc # "off" => JobOf(l) \in Jobs
  BY <1>t DEF Started, JobOf, MonKey
<1>rec. \A r \in records : /\ r.job \in Jobs /\ r.card \in Cards /\ r.pid \in Pids /\ r.card \in Need(r.job)
                            /\ owner[r.card] = r.job /\ proc[r.pid].job = r.job /\ Holds(r.job)
  <2>1. ASSUME NEW r \in records
        PROVE  /\ r.job \in Jobs /\ r.card \in Cards /\ r.pid \in Pids /\ r.card \in Need(r.job)
               /\ owner[r.card] = r.job /\ proc[r.pid].job = r.job
    BY <1>t, <2>1 DEF RecordsHold, Rec
  <2>2. \A r \in records : \A c \in Need(r.job) : c = r.card
    BY <2>1 DEF Recoverable
  <2> QED
    BY <2>1, <2>2 DEF Holds
<1>i. PICK i : i = scan[n].job
  OBVIOUS
<1>k. /\ scan[n].pc \in {"list", "next"} => i = NoJob
      /\ scan[n].pc # "list" => \A j \in scan[n].jobs : OwnOrIdle(j) /\ Unwatched(j) /\ j # i
      /\ scan[n].pc \in {"each", "failed", "end", "release"} => i \in Jobs
      /\ scan[n].pc = "each" => \A r \in scan[n].recs : r \in records /\ r.job = i /\ Unwatched(i)
      /\ scan[n].pc \in {"failed", "end", "release"} =>
           /\ scan[n].recs = {} /\ OwnOrIdle(i) /\ Unwatched(i)
           /\ \A r \in records : r.job = i => r = scan[n].rec /\ scan[n].pc # "release"
      /\ scan[n].pc \in {"end", "release"} => status[i] # "Running"
  BY <1>i, <1>n, <1>t DEF ScanKeeps
<1>run. \A j \in Jobs : status[j] = "Running" =>
           /\ OwnOrIdle(j)
           /\ Holds(j) \/ scan[n].pc = "list" \/ j \in scan[n].jobs \/ (scan[n].pc = "failed" /\ i = j)
  BY <1>i, <1>n, <1>t DEF RunningKeeps
<1>d. \A m \in Nodes, k \in MonKey : mon[m][k].pc \in {"untrack", "end", "release"} => status[JobOf(k)] # "Running"
  BY <1>c, <1>n, <1>t DEF RunningKeeps, CtxLive
\* the parts of the invariant after the step, for the one instance there is
<1>3. LoopKeeps'
  BY <1>c, <1>f, <1>n DEF LoopKeeps, Holding
<1>sk. ASSUME NEW q, q = scan'[n], NEW h, h = q.job,
              q.pc \in {"list", "next"} => h = NoJob,
              q.pc \notin {"off", "list"} => \A j \in q.jobs : OwnOrIdle(j)' /\ Unwatched(j)' /\ j # h,
              q.pc \in {"each", "failed", "end", "release"} => h \in Jobs,
              q.pc = "each" => \A r \in q.recs : r \in records' /\ r.job = h /\ Unwatched(h)',
              q.pc \in {"failed", "end", "release"} =>
                /\ q.recs = {} /\ OwnOrIdle(h)' /\ Unwatched(h)'
                /\ \A r \in records' : r.job = h => r = q.rec /\ q.pc # "release",
              q.pc \in {"end", "release"} => status'[h] # "Running"
       PROVE  ScanKeeps'
  BY <1>c, <1>sk DEF ScanKeeps, OwnOrIdle, Unwatched
<1>rk. ASSUME \A j \in Jobs : status'[j] = "Running" =>
                /\ OwnOrIdle(j)'
                /\ Holds(j)' \/ (node'[n] = "recovering" /\ (j \in scan'[n].jobs \/ (scan'[n].pc = "failed" /\ scan'[n].job = j))),
              \A k \in MonKey : mon'[n][k].pc \in {"untrack", "end", "release"} => status'[JobOf(k)] # "Running"
       PROVE  RunningKeeps'
  BY <1>c, <1>j, <1>rk DEF RunningKeeps
<1>1. CASE ScanList(n)
  <2>1. /\ scan[n].pc = "list" /\ UNCHANGED <<status, owner, records, node, mon>>
        /\ scan' = [scan EXCEPT ![n].pc = "next", ![n].jobs = {j \in Jobs : status[j] = "Running"}]
    BY <1>1, <1>c DEF ScanList, Fails, mysql
  <2>z2. ASSUME NEW q, q = scan'[n]
        PROVE  /\ q.pc = "next" /\ q.mode = "recover" /\ q.job = NoJob
                 /\ q.jobs = {j \in Jobs : status[j] = "Running"}
    BY <1>i, <1>k, <1>n, <1>t, <2>1, <2>z2 DEF ScanState
  <2>2. PICK q : /\ q = scan'[n] /\ q.pc = "next" /\ q.mode = "recover" /\ q.job = NoJob
                 /\ q.jobs = {j \in Jobs : status[j] = "Running"}
    BY <2>z2
  <2>3. \A j : (Holds(j)' <=> Holds(j)) /\ (OwnOrIdle(j)' <=> OwnOrIdle(j)) /\ (Unrecorded(j)' <=> Unrecorded(j))
    BY <2>1 DEF Holds, OwnOrIdle, Unrecorded
  <2>4. \A j : Unwatched(j)'
    BY <1>c, <1>t, <2>1 DEF Unwatched, Life
  <2>5. ScanKeeps'
    BY <1>run, <1>sk, <2>2, <2>3, <2>4, StoresAssumption
  <2>6. RunningKeeps'
    BY <1>d, <1>n, <1>run, <1>rk, <2>1, <2>2, <2>3
  <2>7. Life'
    BY <1>c, <1>f, <1>n, <1>t, <2>1, <2>2 DEF Life
  <2>8. RecordsHold' /\ MonKeeps'
    BY <1>f, <1>j, <1>t, <2>1, <2>3 DEF RecordsHold, MonKeeps
  <2> QED
    BY <1>3, <2>5, <2>6, <2>7, <2>8 DEF Recovers
<1>2. CASE ScanJob(n)
  <2>0. scan[n].pc = "next" /\ UNCHANGED <<status, owner, records, mon>>
    BY <1>2 DEF ScanJob, mysql
  <2>1. \A j : /\ Holds(j)' <=> Holds(j)
               /\ OwnOrIdle(j)' <=> OwnOrIdle(j)
               /\ Unrecorded(j)' <=> Unrecorded(j)
               /\ Unwatched(j)' <=> Unwatched(j)
    BY <1>j, <2>0 DEF Holds, OwnOrIdle, Unrecorded, Unwatched
  <2>2. RecordsHold' /\ MonKeeps'
    BY <1>f, <1>j, <1>t, <2>0, <2>1 DEF RecordsHold, MonKeeps
  <2>3. CASE scan[n].jobs = {} /\ ScanDone(n)
    <3>1. scan'[n].pc = "off" /\ node'[n] = "up"
      BY <1>n, <1>t, <2>3 DEF ScanDone, ScanOff
    <3>2. PICK q : q = scan'[n] /\ q.pc = "off"
      BY <3>1
    <3>3. ScanKeeps'
      BY <1>c, <3>1 DEF ScanKeeps
    <3>4. RunningKeeps'
      BY <1>d, <1>run, <1>rk, <2>0, <2>1, <2>3
    <3>5. Life'
      BY <1>c, <3>1 DEF Life
    <3> QED
      BY <1>3, <2>2, <3>3, <3>4, <3>5 DEF Recovers
  <2>4. ASSUME NEW j \in scan[n].jobs, scan' = [scan EXCEPT ![n] = TakeUp(n, j, FindActiveByJobID(j))], UNCHANGED node
        PROVE  Recovers'
    <3>1. PICK rs : rs = FindActiveByJobID(j)
      OBVIOUS
    <3>z2. ASSUME NEW q, q = scan'[n]
          PROVE  /\ q.pc = (IF rs = {} THEN "failed" ELSE "each") /\ q.mode = "recover"
                   /\ q.jobs = scan[n].jobs \ {j} /\ q.job = j /\ q.recs = rs
      BY <1>n, <1>t, <2>4, <3>1, <3>z2 DEF ScanState, TakeUp
    <3>2. PICK q : /\ q = scan'[n] /\ q.pc = (IF rs = {} THEN "failed" ELSE "each") /\ q.mode = "recover"
                   /\ q.jobs = scan[n].jobs \ {j} /\ q.job = j /\ q.recs = rs
      BY <3>z2
    <3>3. j \in Jobs /\ OwnOrIdle(j) /\ Unwatched(j)
      BY <1>k, <1>t, <2>0, <2>4 DEF ScanState
    <3>4. rs = {r \in records : r.job = j}
      BY <3>1 DEF FindActiveByJobID
    <3>5. ScanKeeps'
      BY <1>k, <1>sk, <2>0, <2>1, <3>2, <3>3, <3>4
    <3>6. rs # {} => Holds(j)
      BY <1>rec, <3>4
    <3>7. RunningKeeps'
      BY <1>d, <1>n, <1>run, <1>rk, <2>0, <2>1, <2>4, <3>2, <3>6
    <3>8. Life'
      BY <1>c, <1>f, <1>n, <1>t, <2>4, <3>2 DEF Life
    <3> QED
      BY <1>3, <2>2, <3>5, <3>7, <3>8 DEF Recovers
  <2> QED
    BY <1>2, <1>c, <2>3, <2>4 DEF ScanJob, Fails
<1>4. CASE ScanEach(n)
  <2>0. scan[n].pc = "each" /\ UNCHANGED <<status, owner, records, node>>
    BY <1>4 DEF ScanEach, mysql
  <2>1. \A j : /\ Holds(j)' <=> Holds(j)
               /\ OwnOrIdle(j)' <=> OwnOrIdle(j)
               /\ Unrecorded(j)' <=> Unrecorded(j)
    BY <2>0 DEF Holds, OwnOrIdle, Unrecorded
  <2>2. RecordsHold'
    BY <1>f, <1>t, <2>0 DEF RecordsHold
  \* the scan moves and starts no monitor
  <2>3. ASSUME UNCHANGED mon, NEW q, q = scan'[n], q.mode = "recover", q.jobs = scan[n].jobs,
               \/ q.pc = "next" /\ q.job = NoJob
               \/ q.pc = "each" /\ q.job = i /\ q.recs \subseteq scan[n].recs
               \/ /\ q.pc = "failed" /\ q.job = i /\ q.recs = {} /\ q.rec \in records /\ q.rec.job = i
                  /\ Unwatched(i)
        PROVE  Recovers'
    <3>1. \A j : Unwatched(j)' <=> Unwatched(j)
      BY <1>j, <2>3 DEF Unwatched
    <3>2. ScanKeeps'
      <4>0. \A j \in q.jobs : OwnOrIdle(j)' /\ Unwatched(j)' /\ j # i /\ j # NoJob
        BY <1>k, <1>t, <2>0, <2>1, <2>3, <3>1, StoresAssumption DEF ScanState
      <4>1. CASE q.pc = "next" /\ q.job = NoJob
        BY <1>sk, <2>3, <4>0, <4>1
      <4>2. CASE q.pc = "each" /\ q.job = i /\ q.recs \subseteq scan[n].recs
        BY <1>k, <1>sk, <2>0, <2>3, <3>1, <4>0, <4>2
      <4>3. CASE q.pc = "failed" /\ q.job = i /\ q.recs = {} /\ q.rec \in records /\ q.rec.job = i /\ Unwatched(i)
        <5>1. OwnOrIdle(i)' /\ Unwatched(i)' /\ i \in Jobs
          BY <1>rec, <2>1, <3>1, <4>3, HoldsOwn
        <5>2. \A r \in records' : r.job = i => r = q.rec
          BY <1>t, <2>0, <4>3 DEF RecordsHold
        <5> QED
          BY <1>sk, <2>3, <4>0, <4>3, <5>1, <5>2
      <4> QED
        BY <2>3, <4>1, <4>2, <4>3
    <3>3. MonKeeps'
      BY <1>j, <1>t, <2>1, <2>3 DEF MonKeeps
    <3>4. RunningKeeps'
      BY <1>d, <1>n, <1>run, <1>rk, <2>0, <2>1, <2>3
    <3>5. Life'
      BY <1>c, <1>f, <1>n, <1>t, <2>0, <2>3 DEF Life
    <3> QED
      BY <1>3, <2>2, <3>2, <3>3, <3>4, <3>5 DEF Recovers
  <2>4. CASE /\ scan' = [scan EXCEPT ![n].pc = "next", ![n].job = NoJob, ![n].rec = NoRec] /\ UNCHANGED mon
    <3>z1. ASSUME NEW q, q = scan'[n]
          PROVE  /\ q.mode = "recover" /\ q.jobs = scan[n].jobs /\ q.pc = "next" /\ q.job = NoJob
      BY <1>n, <1>t, <2>4, <3>z1 DEF ScanState
    <3>1. PICK q : /\ q = scan'[n] /\ q.mode = "recover" /\ q.jobs = scan[n].jobs /\ q.pc = "next" /\ q.job = NoJob
      BY <3>z1
    <3> QED
      BY <2>3, <2>4, <3>1
  <2>s. ASSUME NEW r \in scan[n].recs, ScanSkip(n, r)
        PROVE  \E q : /\ q = scan'[n] /\ q.mode = "recover" /\ q.jobs = scan[n].jobs /\ q.pc = "each"
                      /\ q.job = i /\ q.recs = scan[n].recs \ {r}
    BY <1>i, <1>n, <1>t, <2>0, <2>s DEF ScanSkip, ScanState
  <2>5. ASSUME NEW r \in scan[n].recs, ScanSkip(n, r), UNCHANGED mon PROVE Recovers'
    BY <2>3, <2>5, <2>s
  <2>r. ASSUME NEW r \in scan[n].recs PROVE r \in records /\ r.job = i /\ Unwatched(i) /\ scan[n].recs \ {r} = {}
    <3>1. \A x \in scan[n].recs : x \in records /\ x.job = i /\ Unwatched(i)
      BY <1>k, <2>0
    <3>2. \A x \in scan[n].recs : x = r
      BY <1>t, <2>r, <3>1 DEF RecordsHold
    <3> QED
      BY <2>r, <3>1, <3>2
  <2>6. ASSUME NEW r \in scan[n].recs, UNCHANGED mon,
               scan' = [scan EXCEPT ![n].pc = "failed", ![n].recs = @ \ {r}, ![n].rec = r]
        PROVE  Recovers'
    <3>1. PICK q : /\ q = scan'[n] /\ q.mode = "recover" /\ q.jobs = scan[n].jobs /\ q.pc = "failed" /\ q.job = i
                   /\ q.recs = scan[n].recs \ {r} /\ q.rec = r
      BY <1>i, <1>n, <1>t, <2>6 DEF ScanState
    <3> QED
      BY <2>3, <2>6, <2>r, <3>1
  <2>7. ASSUME NEW r \in scan[n].recs, ScanSkip(n, r), Adopt(n, r) PROVE Recovers'
    <3>1. r \in records /\ r.job = i /\ Unwatched(i) /\ scan[n].recs \ {r} = {} /\ i \in Jobs
      BY <1>rec, <2>7, <2>r
    <3>2. PICK x : x = <<r.pid, r.card>>
      OBVIOUS
    <3>3. x \in MonKey /\ JobOf(x) = i /\ Holds(i)
      BY <1>rec, <3>1, <3>2 DEF MonKey, JobOf
    <3>4. mon' = [mon EXCEPT ![n][x] = [MonOff EXCEPT !.pc = "watch"]]
      BY <2>7, <3>2 DEF Adopt
    <3>5. mon'[n][x].pc = "watch" /\ \A k \in MonKey : k # x => mon'[n][k] = mon[n][k]
      <4>1. [MonOff EXCEPT !.pc = "watch"].pc = "watch"
        BY DEF MonOff
      <4>2. ASSUME NEW w, w.pc = "watch", mon' = [mon EXCEPT ![n][x] = w]
            PROVE  mon'[n][x].pc = "watch" /\ \A k \in MonKey : k # x => mon'[n][k] = mon[n][k]
        BY <1>t, <3>3, <4>2
      <4> QED
        BY <3>4, <4>1, <4>2
    <3>6. \A j : j # i /\ Unwatched(j) => Unwatched(j)'
      BY <1>c, <1>j, <3>3, <3>5 DEF Unwatched
    <3>7. PICK q : /\ q = scan'[n] /\ q.mode = "recover" /\ q.jobs = scan[n].jobs /\ q.pc = "each" /\ q.job = i
                   /\ q.recs = {}
      BY <2>7, <2>s, <3>1
    <3>8. ScanKeeps'
      <4>1. \A j \in q.jobs : OwnOrIdle(j)' /\ Unwatched(j)' /\ j # i
        BY <1>k, <2>0, <2>1, <3>6, <3>7
      <4> QED
        BY <1>sk, <3>1, <3>7, <4>1
    <3>9. MonKeeps'
      <4>1. ASSUME NEW k \in MonKey, mon'[n][k].pc # "off"
            PROVE  Holds(JobOf(k)) /\ (mon'[n][k].pc = "release" => Unrecorded(JobOf(k)))
        BY <1>t, <3>3, <3>5, <4>1 DEF MonKeeps
      <4>2. \A k \in MonKey : mon'[n][k].pc # "off" => Holds(JobOf(k))' /\ (mon'[n][k].pc = "release" => Unrecorded(JobOf(k))')
        BY <1>j, <2>0, <4>1 DEF Holds, Unrecorded
      <4>3. ASSUME NEW k \in MonKey, NEW l \in MonKey, mon'[n][k].pc # "off", mon'[n][l].pc # "off", JobOf(k) = JobOf(l)
            PROVE  k = l
        BY <1>t, <3>1, <3>3, <3>5, <4>3 DEF MonKeeps, Unwatched
      <4> QED
        BY <1>c, <1>j, <4>2, <4>3 DEF MonKeeps
    <3>10. RunningKeeps'
      BY <1>d, <1>n, <1>run, <1>rk, <2>0, <2>1, <3>5, <3>7
    <3>11. Life'
      BY <1>c, <1>f, <1>n, <1>t, <2>0, <3>7 DEF Life
    <3> QED
      BY <1>3, <2>2, <3>8, <3>9, <3>10, <3>11 DEF Recovers
  <2> QED
    BY <1>4, <1>n, <2>4, <2>5, <2>6, <2>7 DEF ScanEach
<1>5. CASE ScanFailed(n) \/ ScanEnd(n) \/ ScanRelease(n)
  <2>0. UNCHANGED <<node, mon>> /\ scan[n].pc \in {"failed", "end", "release"}
    BY <1>5 DEF ScanFailed, ScanEnd, ScanRelease
  <2>k. i \in Jobs /\ OwnOrIdle(i) /\ Unwatched(i) /\ scan[n].recs = {}
    BY <1>k, <2>0
  <2>w. \A j : Unwatched(j)' <=> Unwatched(j)
    BY <1>j, <2>0 DEF Unwatched
  <2>q. PICK q : /\ q = scan'[n] /\ q.mode = "recover" /\ q.jobs = scan[n].jobs /\ q.job = i
                 /\ q.recs = {} /\ q.rec = scan[n].rec
                 /\ \/ ScanFailed(n) /\ scan[n].pc = "failed" /\ q.pc = "end"
                    \/ ScanEnd(n) /\ scan[n].pc = "end" /\ q.pc = "release"
                    \/ ScanRelease(n) /\ scan[n].pc = "release" /\ q.pc = "each"
    <3>1. ASSUME NEW pc, scan' = [scan EXCEPT ![n].pc = pc], NEW q, q = scan'[n]
          PROVE  /\ q.mode = "recover" /\ q.jobs = scan[n].jobs /\ q.job = i
                 /\ q.recs = {} /\ q.rec = scan[n].rec /\ q.pc = pc
      BY <1>i, <1>n, <1>t, <2>k, <3>1 DEF ScanState
    <3>2. PICK q : q = scan'[n]
      OBVIOUS
    <3> QED
      BY <1>5, <3>1, <3>2 DEF ScanFailed, ScanEnd, ScanRelease
  <2>s. NoneRuns /\ (q.pc = "end" => status'[i] # "Running") /\ (UNCHANGED status \/ q.pc = "end")
    BY <1>c, <1>i, <1>t, <2>k, <2>q DEF ScanFailed, ScanEnd, ScanRelease, UpdateStatus, Updated, Fails, NoneRuns, NoRow
  <2>r. records' \subseteq records /\ (q.pc \in {"release", "each"} => \A r \in records' : r.job # i)
    <3>1. CASE ScanEnd(n) /\ q.pc = "release" /\ scan[n].pc = "end"
      <4>1. records' = records \ ({scan[n].rec} \ {NoRec})
        BY <1>c, <3>1 DEF ScanEnd, EndRecords, Fails
      <4>2. \A r \in records : r # NoRec /\ (r.job = i => r = scan[n].rec)
        BY <1>k, <1>t, <3>1, StoresAssumption DEF Rec
      <4> QED
        BY <4>1, <4>2
    <3>2. CASE ScanFailed(n) /\ q.pc = "end"
      BY <3>2 DEF ScanFailed
    <3>3. CASE ScanRelease(n) /\ scan[n].pc = "release"
      BY <1>k, <3>3 DEF ScanRelease
    <3> QED
      BY <2>q, <3>1, <3>2, <3>3
  <2>o. UNCHANGED owner \/ (owner' = Released(i) /\ scan[n].pc = "release")
    BY <1>i, <2>q DEF ScanFailed, ScanEnd, ScanRelease, ReleaseCards
  <2>p. /\ \A j \in Jobs : j # i /\ Holds(j) => Holds(j)'
        /\ \A j : OwnOrIdle(j) => OwnOrIdle(j)'
        /\ \A c \in Cards, j \in Jobs : j # i /\ owner[c] = j => owner'[c] = j
    BY <1>t, <2>k, <2>o, Spared
  <2>1. RecordsHold'
    <3>1. ASSUME NEW r \in records'
          PROVE  r.card \in Need(r.job) /\ owner'[r.card] = r.job /\ proc'[r.pid].job = r.job
      BY <1>f, <1>k, <1>rec, <2>o, <2>p, <2>r, <3>1
    <3> QED
      BY <1>t, <2>r, <3>1 DEF RecordsHold
  <2>2. Life'
    BY <1>c, <1>f, <1>n, <1>t, <2>0, <2>q DEF Life
  <2>4. MonKeeps'
    <3>1. ASSUME NEW m \in Nodes, NEW l \in MonKey, mon[m][l].pc # "off", NEW j, j = JobOf(l)
          PROVE  Holds(j)' /\ (mon[m][l].pc = "release" => Unrecorded(j)')
      <4>1. j \in Jobs /\ j # i /\ Holds(j) /\ (mon[m][l].pc = "release" => Unrecorded(j))
        BY <1>jo, <1>t, <2>k, <3>1 DEF MonKeeps, Unwatched
      <4> QED
        BY <2>p, <2>r, <4>1 DEF Unrecorded
    <3>2. \A m \in Nodes, l \in MonKey : mon[m][l].pc # "off" =>
            Holds(JobOf(l))' /\ (mon[m][l].pc = "release" => Unrecorded(JobOf(l))')
      BY <1>j, <3>1 DEF Holds, Unrecorded
    <3> QED
      BY <1>j, <1>t, <2>0, <3>2 DEF MonKeeps
  <2>5. ScanKeeps'
    <3>1. \A j \in q.jobs : OwnOrIdle(j)' /\ Unwatched(j)' /\ j # i
      BY <1>k, <2>0, <2>p, <2>q, <2>w
    <3>2. OwnOrIdle(i)' /\ Unwatched(i)'
      BY <2>k, <2>p, <2>w
    <3>3. \A r \in records' : r.job = i => r = q.rec /\ q.pc # "release"
      BY <1>k, <2>0, <2>q, <2>r
    <3>4. q.pc \in {"end", "release"} => status'[i] # "Running"
      BY <1>k, <2>q, <2>s
    <3> QED
      BY <1>sk, <2>k, <2>q, <3>1, <3>2, <3>3, <3>4
  <2>6. RunningKeeps'
    <3>1. ASSUME NEW j \in Jobs, status'[j] = "Running"
          PROVE  OwnOrIdle(j)' /\ (Holds(j)' \/ (node'[n] = "recovering" /\ j \in scan'[n].jobs))
      <4>1. status[j] = "Running" /\ j # i
        BY <1>k, <2>q, <2>s, <3>1 DEF NoneRuns
      <4> QED
        BY <1>n, <1>run, <2>0, <2>p, <2>q, <4>1
    <3>2. \A k \in MonKey : mon'[n][k].pc \in {"untrack", "end", "release"} => status'[JobOf(k)] # "Running"
      BY <1>d, <1>jo, <2>0, <2>s DEF NoneRuns
    <3> QED
      BY <1>rk, <3>1, <3>2
  <2> QED
    BY <1>3, <2>1, <2>2, <2>4, <2>5, <2>6 DEF Recovers
<1> QED
  BY <1>1, <1>2, <1>4, <1>5 DEF ScanNext

\* The scheduler goroutine takes idle cards only, and passes them on to a monitor
\* with a record or releases them.
LEMMA LoopRecovers ==
  ASSUME Recoverable, RecoverInv, NEW n \in Nodes, LoopNext(n)
  PROVE  Recovers'
<1>t. /\ TypeInv /\ TypeOK /\ Started /\ LoopAsks /\ RecordsHold /\ Life /\ LoopKeeps /\ MonKeeps /\ ScanKeeps /\ RunningKeeps
      /\ status \in [Jobs -> AnyStatus] /\ mon \in [Nodes -> [MonKey -> MonState]]
      /\ loop \in [Nodes -> LoopState] /\ loop[n] \in LoopState /\ LoopTyped /\ LoopGood(loop[n])
      /\ records \subseteq Rec
      /\ node \in [Nodes -> {"down", "recovering", "up", "stopping", "stopped"}]
  BY DEF RecoverInv, Recovers, TypeInv, TypeOK, LoopTyped
<1>c. "UpdateStatus" \notin Faults /\ \A m \in Nodes : m = n
  BY DEF Recoverable
<1>f. UNCHANGED <<node, scan>>
  BY <1>t, LoopFrame DEF others
<1>p. ProcsGrow
  BY <1>t, LoopDone
<1>g. ASSUME NEW pc, Goto(n, pc)
      PROVE  loop'[n].pc = pc /\ loop'[n].job = loop[n].job /\ loop'[n].todo = loop[n].todo
  BY <1>t, <1>g DEF Goto, LoopState
<1>v. ASSUME Leave(n) PROVE loop'[n].pc = "unlock"
  BY <1>t, <1>v DEF Leave, LoopIdle
<1>j. PICK j : j = loop[n].job
  OBVIOUS
<1>off. loop[n].pc # "idle" => scan[n].pc = "off" /\ node[n] \notin {"down", "recovering"} /\ (CtxLive(n) => node[n] = "up")
  BY <1>t DEF Life, CtxLive
<1>h. loop[n].pc \in Holding => j \in Jobs /\ Holds(j) /\ OwnOrIdle(j) /\ Unwatched(j)
  BY <1>j, <1>t, HoldsOwn DEF LoopKeeps, LoopGood, Holding
<1>js. /\ \A m \in Nodes, k \in MonKey : mon[m][k].pc # "off" => JobOf(k)' = JobOf(k) /\ JobOf(k) \in Jobs
       /\ \A r \in records : r.pid \in Pids /\ r.job \in Jobs /\ r.card \in Cards /\ proc'[r.pid].job = r.job
  BY <1>p, <1>t, JobsStay
<1>d. \A k \in MonKey : CtxLive(n) /\ mon[n][k].pc \in {"untrack", "end", "release"} => status[JobOf(k)] # "Running"
  BY <1>t DEF RunningKeeps
\* the parts of the invariant after the step, for the one instance there is
<1>lk. ASSUME NEW l, l = loop'[n], NEW i, i = l.job,
              l.pc \in Holding => Holds(i)' /\ Unwatched(i)',
              l.pc \in Holding \ {"cachePid"} => Unrecorded(i)',
              l.pc = "record" => l.todo = Need(i), l.pc # "undo"
       PROVE  LoopKeeps'
  BY <1>c, <1>lk DEF LoopKeeps, Holds, Unwatched, Unrecorded
<1>sk. loop[n].pc # "idle" => ScanKeeps'
  BY <1>c, <1>f, <1>off DEF ScanKeeps
<1>li. loop[n].pc # "idle" => Life'
  BY <1>c, <1>f, <1>off DEF Life
<1>rk. ASSUME loop[n].pc # "idle",
              \A i \in Jobs : status'[i] = "Running" =>
                OwnOrIdle(i)' /\ (node[n] = "up" => Holds(i)' \/ (loop'[n].pc = "failed" /\ loop'[n].job = i)),
              \A k \in MonKey : CtxLive(n) /\ mon'[n][k].pc \in {"untrack", "end", "release"} => status'[JobOf(k)'] # "Running"
       PROVE  RunningKeeps'
  BY <1>c, <1>f, <1>off, <1>rk DEF RunningKeeps, CtxLive
<1>q. ASSUME NoneRuns, UNCHANGED <<owner, records, mon>>, LoopCalm(n) PROVE Recovers'
  BY <1>c, <1>f, <1>p, <1>q, CalmStep
<1>u. UNCHANGED status => NoneRuns
  BY DEF NoneRuns
<1>w. ASSUME NEW s \in {"WaitingGpu", "Failed"}, UpdateStatus(j, s)
      PROVE  NoneRuns /\ (j \in Jobs => status'[j] # "Running")
  BY <1>c, <1>t, <1>w DEF UpdateStatus, Updated, NoneRuns, Fails, NoRow
\* outside executeJob, and its failing branches that touch no card
<1>1. CASE \/ LoopLock(n) \/ LoopPeek(n) \/ LoopLoad(n) \/ LoopCheck(n) \/ LoopWait(n)
           \/ LoopDequeue(n) \/ LoopUnlock(n)
  <2>1. UNCHANGED <<owner, records, mon>> /\ NoneRuns
    BY <1>1, <1>j, <1>u, <1>w DEF LoopLock, LoopPeek, LoopLoad, LoopCheck, LoopWait, LoopDequeue, LoopUnlock, mysql, Cur
  <2>2. loop'[n].pc \in {"peek", "load", "unlock", "check", "dequeue", "acquire", "wait", "idle"}
    <3>1. CASE LoopPeek(n) \/ LoopUnlock(n)
      BY <1>t, <1>v, <3>1 DEF LoopPeek, LoopUnlock, LoopState, LoopIdle
    <3>2. CASE LoopLoad(n)
      BY <1>t, <1>g, <1>v, <3>2 DEF LoopLoad, LoopState, Cur
    <3> QED
      BY <1>1, <1>g, <1>v, <3>1, <3>2 DEF LoopLock, LoopCheck, LoopWait, LoopDequeue
  <2>3. loop[n].pc # "failed" /\ (loop[n].pc = "idle" => node[n] = "up")
    BY <1>1 DEF LoopLock, LoopPeek, LoopLoad, LoopCheck, LoopWait, LoopDequeue, LoopUnlock, At
  <2> QED
    BY <1>q, <2>1, <2>2, <2>3 DEF LoopCalm, Holding
<1>2. CASE ExecCards(n) \/ ExecStartFails(n) \/ ExecStart(n)
  <2>1. UNCHANGED <<owner, records, mon>> /\ NoneRuns /\ loop[n].pc \in {"cards", "exec"}
    BY <1>2, <1>u DEF ExecCards, ExecStartFails, ExecStart, mysql, At
  <2>2. /\ loop'[n].pc \in {"exec", "dequeue", "fail", "record"} /\ loop'[n].job = j
        /\ loop'[n].pc = "record" => loop'[n].todo = Need(j)
    <3>1. CASE ExecStart(n)
      BY <1>j, <1>t, <3>1 DEF ExecStart, LoopState, Cur
    <3> QED
      BY <1>2, <1>g, <1>j, <3>1 DEF ExecCards, ExecStartFails
  <2> QED
    BY <1>j, <1>q, <2>1, <2>2 DEF LoopCalm, Holding
<1>3. CASE ExecFailed(n)
  <2>1. /\ UNCHANGED <<owner, records, mon>> /\ NoneRuns /\ loop[n].pc = "failed" /\ loop'[n].pc = "dequeue"
        /\ status'[j] # "Running"
    <3>1. j \in Jobs
      BY <1>3, <1>j, <1>t DEF ExecFailed, At, LoopGood
    <3> QED
      BY <1>3, <1>g, <1>j, <1>w, <3>1 DEF ExecFailed, At, Cur
  <2> QED
    BY <1>j, <1>q, <2>1 DEF LoopCalm, Holding
<1>4. ASSUME UNCHANGED <<status, owner, records, mon>>, loop[n].pc \in {"acquire", "record", "cachePid"}, Goto(n, "dequeue")
      PROVE  Recovers'
  <2>1. loop'[n].pc = "dequeue"
    BY <1>4, <1>g
  <2> QED
    BY <1>4, <1>q, <1>u, <2>1 DEF LoopCalm, Holding
<1>5. ASSUME loop[n].pc = "acquire", CtxLive(n), CheckAvailable(j), owner' = Acquired(j), Goto(n, "running"),
             UNCHANGED <<status, records, proc, mon>>
      PROVE  Recovers'
  <2>0. loop'[n].pc = "running" /\ loop'[n].job = j /\ node[n] = "up" /\ loop[n].pc # "idle"
    BY <1>5, <1>g, <1>j, <1>off
  <2>1. j \in Jobs /\ GpuIDs[j] # <<>>
    BY <1>5, <1>j, <1>t DEF LoopGood, LoopAsks
  <2>2. Need(j) \subseteq Cards /\ \A c \in Need(j) : owner[c] = NoJob
    BY <1>5, <2>1, CountMeansAll
  <2>3. PICK g \in Need(j) : TRUE
    <3>1. GpuIDs[j] \in Seq(CardIDs)
      BY <2>1, StoresAssumption
    <3>2. GpuIDs[j][1] \in Need(j)
      BY <2>1, <3>1 DEF Need, Range
    <3> QED
      BY <3>2
  <2>4. \A c \in Cards : owner'[c] = IF c \in Need(j) THEN j ELSE owner[c]
    BY <1>5 DEF Acquired
  <2>5. /\ \A c \in Cards, i \in Jobs : owner[c] = i => owner'[c] = i
        /\ \A i \in Jobs : Holds(i) => Holds(i)' /\ OwnOrIdle(i)'
    <3>1. \A c \in Cards, i \in Jobs : owner[c] = i => owner'[c] = i
      BY <2>2, <2>4, StoresAssumption
    <3> QED
      BY <3>1 DEF Holds, OwnOrIdle
  <2>6. Holds(j)' /\ OwnOrIdle(j)'
    BY <2>2, <2>4 DEF Holds, OwnOrIdle
  <2>7. ~Holds(j)
    BY <2>1, <2>2, <2>3, StoresAssumption DEF Holds
  <2>8. Unwatched(j)' /\ Unrecorded(j)'
    <3>1. \A m \in Nodes, k \in MonKey : mon[m][k].pc # "off" => JobOf(k) # j
      BY <1>t, <2>7 DEF MonKeeps
    <3>2. ASSUME NEW r \in records, r.job = j PROVE FALSE
      <4>1. r.card \in Need(j) /\ owner[r.card] = j
        BY <1>t, <3>2 DEF RecordsHold
      <4> QED
        BY <2>1, <2>2, <4>1, StoresAssumption
    <3> QED
      BY <1>5, <3>1, <3>2 DEF Unwatched, Unrecorded, JobOf
  <2>9. LoopKeeps'
    BY <1>lk, <2>0, <2>6, <2>8
  <2>10. RecordsHold'
    BY <1>5, <1>js, <1>t, <2>5 DEF RecordsHold
  <2>11. MonKeeps'
    <3>1. \A m \in Nodes, k \in MonKey : mon[m][k].pc # "off" => Holds(JobOf(k)) /\ JobOf(k) \in Jobs
      BY <1>js, <1>t DEF MonKeeps
    <3>2. ASSUME NEW m \in Nodes, NEW k \in MonKey, mon[m][k].pc # "off", NEW i, i = JobOf(k) PROVE Holds(i)'
      BY <2>5, <3>1, <3>2
    <3>3. \A m \in Nodes, k \in MonKey : mon[m][k].pc # "off" => Holds(JobOf(k))'
      BY <1>5, <3>2 DEF Holds, JobOf
    <3>4. \A k : JobOf(k)' = JobOf(k) /\ (Unrecorded(JobOf(k)) => Unrecorded(JobOf(k))')
      BY <1>5 DEF JobOf, Unrecorded
    <3> QED
      BY <1>5, <1>t, <3>3, <3>4 DEF MonKeeps
  <2>12. RunningKeeps'
    <3>1. ASSUME NEW i \in Jobs, status'[i] = "Running" PROVE OwnOrIdle(i)' /\ Holds(i)'
      <4>1. Holds(i)
        BY <1>5, <1>t, <2>0, <3>1 DEF RunningKeeps
      <4> QED
        BY <2>5, <4>1
    <3>2. \A k : JobOf(k)' = JobOf(k)
      BY <1>5 DEF JobOf
    <3> QED
      BY <1>5, <1>d, <1>rk, <2>0, <3>1, <3>2
  <2> QED
    BY <1>li, <1>sk, <2>0, <2>9, <2>10, <2>11, <2>12 DEF Recovers
<1>6. CASE ExecRunning(n)
  <2>0. /\ loop[n].pc = "running" /\ UNCHANGED <<owner, records, proc, mon>> /\ status' = Updated(j, "Running")
        /\ loop'[n].pc = "cards" /\ loop'[n].job = j
    BY <1>6, <1>c, <1>g, <1>j DEF ExecRunning, At, Fails, Cur
  <2>1. j \in Jobs /\ Holds(j) /\ OwnOrIdle(j) /\ Unwatched(j) /\ Unrecorded(j)
    BY <1>h, <1>j, <1>t, <2>0 DEF LoopKeeps, Holding
  <2>2. \A i : /\ Holds(i)' <=> Holds(i)
               /\ OwnOrIdle(i)' <=> OwnOrIdle(i)
               /\ Unrecorded(i)' <=> Unrecorded(i)
               /\ Unwatched(i)' <=> Unwatched(i)
    BY <2>0 DEF Holds, OwnOrIdle, Unrecorded, Unwatched, JobOf
  <2>3. LoopKeeps'
    BY <1>lk, <2>0, <2>1, <2>2
  <2>4. \A k : JobOf(k)' = JobOf(k)
    BY <2>0 DEF JobOf
  <2>5. RecordsHold' /\ MonKeeps'
    BY <1>t, <2>0, <2>2, <2>4 DEF RecordsHold, MonKeeps
  <2>6. \A i \in Jobs : i # j => status'[i] = status[i]
    BY <1>t, <2>0 DEF Updated
  <2>7. RunningKeeps'
    <3>1. ASSUME NEW i \in Jobs, status'[i] = "Running" PROVE OwnOrIdle(i)' /\ (node[n] = "up" => Holds(i)')
      <4>1. CASE i = j
        BY <2>1, <2>2, <4>1
      <4>2. CASE i # j
        BY <1>t, <2>0, <2>2, <2>6, <3>1, <4>2 DEF RunningKeeps
      <4> QED
        BY <4>1, <4>2
    <3>2. ASSUME NEW k \in MonKey, CtxLive(n), mon[n][k].pc \in {"untrack", "end", "release"}
          PROVE  status'[JobOf(k)] # "Running"
      BY <1>d, <1>js, <2>1, <2>6, <3>2 DEF Unwatched
    <3> QED
      BY <1>rk, <2>0, <2>4, <3>1, <3>2
  <2> QED
    BY <1>li, <1>sk, <2>0, <2>3, <2>5, <2>7 DEF Recovers
<1>7. CASE ExecRelease(n)
  <2>0. /\ loop[n].pc = "fail" /\ UNCHANGED <<status, records, proc, mon>> /\ loop'[n].pc = "failed" /\ loop'[n].job = j
        /\ owner' = Released(j) \/ UNCHANGED owner
    <3>1. loop[n].pc # "undo"
      BY <1>t DEF LoopKeeps
    <3> QED
      BY <1>7, <1>g, <1>j, <3>1 DEF ExecRelease, At, Cur
  <2>1. j \in Jobs /\ Holds(j) /\ OwnOrIdle(j) /\ Unwatched(j) /\ Unrecorded(j)
    BY <1>h, <1>j, <1>t, <2>0 DEF LoopKeeps, Holding
  <2>2. /\ \A i \in Jobs : i # j /\ Holds(i) => Holds(i)'
        /\ \A i : OwnOrIdle(i) => OwnOrIdle(i)'
        /\ \A c \in Cards, i \in Jobs : i # j /\ owner[c] = i => owner'[c] = i
    BY <1>t, <2>0, <2>1, Spared
  <2>3. LoopKeeps'
    BY <1>lk, <2>0 DEF Holding
  <2>4. \A k : JobOf(k)' = JobOf(k) /\ (Unrecorded(JobOf(k)) => Unrecorded(JobOf(k))')
    BY <2>0 DEF JobOf, Unrecorded
  <2>5. RecordsHold'
    BY <1>js, <1>t, <2>0, <2>1, <2>2 DEF RecordsHold, Unrecorded
  <2>6. MonKeeps'
    <3>1. ASSUME NEW m \in Nodes, NEW k \in MonKey, mon[m][k].pc # "off", NEW i, i = JobOf(k) PROVE Holds(i)'
      BY <1>js, <1>t, <2>1, <2>2, <3>1 DEF MonKeeps, Unwatched
    <3>2. \A m \in Nodes, k \in MonKey : mon[m][k].pc # "off" => Holds(JobOf(k))'
      BY <2>4, <3>1 DEF Holds
    <3> QED
      BY <1>t, <2>0, <2>4, <3>2 DEF MonKeeps
  <2>7. RunningKeeps'
    <3>1. ASSUME NEW i \in Jobs, status'[i] = "Running"
          PROVE  OwnOrIdle(i)' /\ (node[n] = "up" => Holds(i)' \/ (loop'[n].pc = "failed" /\ loop'[n].job = i))
      BY <1>t, <2>0, <2>2, <3>1 DEF RunningKeeps
    <3> QED
      BY <1>d, <1>rk, <2>0, <2>4, <3>1
  <2> QED
    BY <1>li, <1>sk, <2>0, <2>3, <2>5, <2>6, <2>7 DEF Recovers
<1>8. ASSUME NEW c \in loop[n].todo, loop[n].pc = "record", UNCHANGED <<status, owner, proc, mon>>,
             records' = records \cup {[pid |-> loop[n].pid, card |-> c, job |-> Cur(n)]},
             loop' = [loop EXCEPT ![n].todo = @ \ {c},
                                  ![n].pc = IF loop[n].todo = {c} THEN "cachePid" ELSE "record"]
      PROVE  Recovers'
  <2>1. /\ j \in Jobs /\ Holds(j) /\ OwnOrIdle(j) /\ Unwatched(j) /\ Unrecorded(j) /\ loop[n].todo = Need(j)
        /\ proc[loop[n].pid].job = j
    BY <1>8, <1>h, <1>j, <1>t DEF LoopKeeps, LoopAsks, Holding
  <2>2. loop[n].todo = {c}
    BY <1>8, <2>1 DEF Recoverable
  <2>3. loop'[n].pc = "cachePid" /\ loop'[n].job = j
    BY <1>8, <1>j, <1>t, <2>2 DEF LoopState
  <2>4. PICK r : r = [pid |-> loop[n].pid, card |-> c, job |-> j]
    OBVIOUS
  <2>5. /\ records' = records \cup {r} /\ r.job = j /\ r.card = c /\ r.pid = loop[n].pid
        /\ c \in Need(j) /\ owner[c] = j
    BY <1>8, <1>j, <2>1, <2>4 DEF Cur, Holds
  <2>6. RecordsHold'
    <3>1. \A x \in records' : x.card \in Need(x.job) /\ owner'[x.card] = x.job /\ proc'[x.pid].job = x.job
      BY <1>8, <1>t, <2>1, <2>5 DEF RecordsHold
    <3>2. \A x, y \in records' : x.job = y.job => x = y
      BY <1>t, <2>1, <2>5 DEF RecordsHold, Unrecorded
    <3> QED
      BY <3>1, <3>2 DEF RecordsHold
  <2>7. \A i : /\ Holds(i)' <=> Holds(i)
               /\ OwnOrIdle(i)' <=> OwnOrIdle(i)
               /\ Unwatched(i)' <=> Unwatched(i)
               /\ i # j /\ Unrecorded(i) => Unrecorded(i)'
    BY <1>8, <2>5 DEF Holds, OwnOrIdle, Unrecorded, Unwatched, JobOf
  <2>8. LoopKeeps'
    BY <1>lk, <2>1, <2>3, <2>7
  <2>9. \A k : JobOf(k)' = JobOf(k)
    BY <1>8 DEF JobOf
  <2>10. MonKeeps'
    <3>1. \A m \in Nodes, k \in MonKey : mon[m][k].pc # "off" => JobOf(k) # j
      BY <2>1 DEF Unwatched
    <3>2. ASSUME NEW m \in Nodes, NEW k \in MonKey, mon[m][k].pc = "release", NEW i, i = JobOf(k) PROVE Unrecorded(i)'
      BY <1>t, <2>7, <3>1, <3>2 DEF MonKeeps
    <3>3. \A m \in Nodes, k \in MonKey : mon[m][k].pc = "release" => Unrecorded(JobOf(k))'
      BY <2>9, <3>2 DEF Unrecorded
    <3> QED
      BY <1>8, <1>t, <2>7, <2>9, <3>3 DEF MonKeeps
  <2>11. RunningKeeps'
    <3>1. ASSUME NEW i \in Jobs, status'[i] = "Running" PROVE OwnOrIdle(i)' /\ (node[n] = "up" => Holds(i)')
      BY <1>8, <1>t, <2>7, <3>1 DEF RunningKeeps
    <3> QED
      BY <1>8, <1>d, <1>rk, <2>9, <3>1
  <2> QED
    BY <1>8, <1>li, <1>sk, <2>6, <2>8, <2>10, <2>11 DEF Recovers
<1>9. ASSUME loop[n].pc = "cachePid", Goto(n, "dequeue"), UNCHANGED <<status, owner, records, proc>>,
             mon' = [mon EXCEPT ![n][<<loop[n].pid, GpuIDs[Cur(n)][1]>>] = [MonOff EXCEPT !.pc = "watch"]]
      PROVE  Recovers'
  <2>0. loop'[n].pc = "dequeue"
    BY <1>9, <1>g
  <2>1. /\ j \in Jobs /\ Holds(j) /\ Unwatched(j) /\ proc[loop[n].pid].job = j /\ loop[n].pid \in Pids
        /\ GpuIDs[j] # <<>> /\ Need(j) \subseteq Cards
    BY <1>9, <1>h, <1>j, <1>t DEF LoopAsks, LoopGood, Holding
  <2>2. PICK x : x = <<loop[n].pid, GpuIDs[j][1]>>
    OBVIOUS
  <2>3. x \in MonKey /\ JobOf(x) = j
    <3>1. GpuIDs[j] \in Seq(CardIDs)
      BY <2>1, StoresAssumption
    <3>2. GpuIDs[j][1] \in Need(j)
      BY <2>1, <3>1 DEF Need, Range
    <3> QED
      BY <2>1, <2>2, <3>2 DEF MonKey, JobOf
  <2>4. mon'[n][x].pc = "watch" /\ \A k \in MonKey : k # x => mon'[n][k] = mon[n][k]
    <3>1. [MonOff EXCEPT !.pc = "watch"].pc = "watch"
      BY DEF MonOff
    <3>2. ASSUME NEW w, w.pc = "watch", mon' = [mon EXCEPT ![n][x] = w]
          PROVE  mon'[n][x].pc = "watch" /\ \A k \in MonKey : k # x => mon'[n][k] = mon[n][k]
      BY <1>t, <2>3, <3>2
    <3> QED
      BY <1>9, <1>j, <2>2, <3>1, <3>2 DEF Cur
  <2>5. LoopKeeps'
    BY <1>lk, <2>0 DEF Holding
  <2>6. /\ \A k : JobOf(k)' = JobOf(k)
        /\ \A i : Holds(i)' <=> Holds(i)
        /\ \A i : OwnOrIdle(i)' <=> OwnOrIdle(i)
        /\ \A i : Unrecorded(i)' <=> Unrecorded(i)
    BY <1>9 DEF JobOf, Holds, OwnOrIdle, Unrecorded
  <2>7. RecordsHold'
    BY <1>9, <1>t DEF RecordsHold
  <2>8. MonKeeps'
    <3>1. ASSUME NEW k \in MonKey, mon'[n][k].pc # "off"
          PROVE  Holds(JobOf(k)) /\ (mon'[n][k].pc = "release" => Unrecorded(JobOf(k)))
      BY <1>t, <2>1, <2>3, <2>4, <3>1 DEF MonKeeps
    <3>2. \A k \in MonKey : mon'[n][k].pc # "off" => Holds(JobOf(k))' /\ (mon'[n][k].pc = "release" => Unrecorded(JobOf(k))')
      BY <1>9, <2>6, <3>1 DEF Holds, Unrecorded
    <3>3. ASSUME NEW k \in MonKey, NEW l \in MonKey, mon'[n][k].pc # "off", mon'[n][l].pc # "off", JobOf(k) = JobOf(l)
          PROVE  k = l
      <4>1. \A y \in MonKey : mon'[n][y].pc # "off" /\ y # x => mon[n][y].pc # "off" /\ JobOf(y) # j
        BY <2>1, <2>4 DEF Unwatched
      <4>2. k # x /\ l # x => k = l
        BY <1>t, <3>3, <4>1 DEF MonKeeps
      <4> QED
        BY <2>3, <3>3, <4>1, <4>2
    <3> QED
      BY <1>c, <2>6, <3>2, <3>3 DEF MonKeeps
  <2>9. RunningKeeps'
    <3>1. ASSUME NEW i \in Jobs, status'[i] = "Running" PROVE OwnOrIdle(i)' /\ (node[n] = "up" => Holds(i)')
      BY <1>9, <1>t, <2>6, <3>1 DEF RunningKeeps
    <3> QED
      BY <1>9, <1>d, <1>rk, <2>4, <2>6, <3>1
  <2> QED
    BY <1>9, <1>li, <1>sk, <2>5, <2>7, <2>8, <2>9 DEF Recovers
<1>10. CASE ExecAcquire(n)
  BY <1>10, <1>4, <1>5, <1>j DEF ExecAcquire, At, Cur
<1>11. CASE ExecRecord(n)
  BY <1>11, <1>4, <1>8 DEF ExecRecord, At
<1>12. CASE ExecMonitor(n)
  BY <1>12, <1>4, <1>9 DEF ExecMonitor, At, mysql
<1> QED
  BY <1>1, <1>2, <1>3, <1>6, <1>7, <1>10, <1>11, <1>12 DEF LoopNext

\* No request makes a job Running.
LEMMA ApiRuns ==
  ASSUME TypeInv, CancelsWaiting, NEW c \in Clients, ApiNext(c)
  PROVE  NoneRuns
<1>t. status \in [Jobs -> AnyStatus]
  BY DEF TypeInv, TypeOK
<1>u. UNCHANGED status => NoneRuns
  BY DEF NoneRuns
<1>w. ASSUME NEW j, NEW s, s # "Running", status' = Updated(j, s) \/ UpdateStatus(j, s) PROVE NoneRuns
  BY <1>t, <1>w DEF NoneRuns, Updated, UpdateStatus
<1>1. ASSUME NEW n \in Nodes, NEW j \in Jobs, SubmitCreate(c, n, j) PROVE NoneRuns
  BY <1>1, <1>t DEF SubmitCreate, NoneRuns
<1>2. CASE SubmitRollback(c)
  BY <1>2, <1>t DEF SubmitRollback, NoneRuns
<1>3. CASE CancelRollback(c)
  <2>1. api[c].old # "Running"
    BY <1>3 DEF CancelRollback, Reply, CancelsWaiting, Waiting
  <2> QED
    BY <1>3, <1>w, <2>1 DEF CancelRollback
<1>4. CASE CancelWrite(c) \/ RemoveMark(c)
  BY <1>4, <1>u, <1>w DEF CancelWrite, RemoveMark
<1>5. CASE ReorderFixHead(c) \/ ReorderFixMoved(c)
  BY <1>5, <1>u, <1>w DEF ReorderFixHead, ReorderFixMoved, FixRank, FixLoad, FixWrite
<1>6. CASE \/ SubmitEnqueue(c) \/ CancelDequeue(c) \/ RemoveDequeue(c) \/ ReorderMove(c)
           \/ \E n \in Nodes, j \in Jobs : \/ CancelRead(c, n, j) \/ RemoveRead(c, n, j)
                                           \/ \E target \in Jobs : ReorderRead(c, n, j, target)
  BY <1>6, <1>u DEF SubmitEnqueue, CancelDequeue, RemoveDequeue, ReorderMove, CancelRead, RemoveRead, ReorderRead
<1> QED
  BY <1>1, <1>2, <1>3, <1>4, <1>5, <1>6 DEF ApiNext, ApiContinue

\* Stop, exit and crash leave the stores as they are, and Start begins with the list.
LEMMA LifeRecovers ==
  ASSUME Recoverable, RecoverInv, NEW n \in Nodes, LifeNext(n)
  PROVE  Recovers'
<1>t. /\ TypeOK /\ RecordsHold /\ Life /\ LoopKeeps /\ MonKeeps /\ ScanKeeps /\ RunningKeeps
      /\ mon \in [Nodes -> [MonKey -> MonState]] /\ scan \in [Nodes -> ScanState] /\ loop \in [Nodes -> LoopState]
      /\ node \in [Nodes -> {"down", "recovering", "up", "stopping", "stopped"}]
  BY DEF RecoverInv, Recovers, TypeInv, TypeOK
<1>c. \A m \in Nodes : m = n
  BY DEF Recoverable
<1>u. UNCHANGED <<status, owner, records, proc>>
  BY DEF LifeNext, Stop, StopWaited, Exit, Crash, Start, Lose, mysql
<1>j. \A l : JobOf(l)' = JobOf(l)
  BY <1>u DEF JobOf
<1>h. \A j : /\ Holds(j)' <=> Holds(j)
             /\ OwnOrIdle(j)' <=> OwnOrIdle(j)
             /\ Unrecorded(j)' <=> Unrecorded(j)
  BY <1>u DEF Holds, OwnOrIdle, Unrecorded
<1>1. RecordsHold'
  BY <1>t, <1>u DEF RecordsHold
<1>2. ASSUME UNCHANGED <<loop, mon, scan>>, node'[n] \in {"stopping", "stopped"}, node[n] \notin {"down", "recovering"}
      PROVE  Recovers'
  <2>1. \A j : Unwatched(j)' <=> Unwatched(j)
    BY <1>2, <1>j DEF Unwatched
  <2>2. scan[n].pc = "off"
    BY <1>2, <1>t DEF Life
  <2>3. Life' /\ ScanKeeps'
    BY <1>2, <1>c, <2>2 DEF Life, ScanKeeps
  <2>4. LoopKeeps'
    BY <1>2, <1>h, <1>t, <2>1, <1>u, <1>j DEF LoopKeeps, Holds, Unwatched, Unrecorded
  <2>5. MonKeeps'
    BY <1>2, <1>h, <1>j, <1>t DEF MonKeeps
  <2>6. RunningKeeps'
    BY <1>2, <1>c, <1>h, <1>t, <1>u DEF RunningKeeps, CtxLive
  <2> QED
    BY <1>1, <2>3, <2>4, <2>5, <2>6 DEF Recovers
<1>3. ASSUME \A k \in MonKey : mon'[n][k].pc = "off", loop'[n].pc = "idle",
             \/ node'[n] = "down" /\ scan'[n].pc = "off"
             \/ node'[n] = "recovering" /\ scan'[n].pc = "list" /\ scan'[n].mode = "recover" /\ scan'[n].job = NoJob
      PROVE  Recovers'
  <2>1. Life' /\ LoopKeeps' /\ MonKeeps' /\ ScanKeeps'
    BY <1>3, <1>c DEF Life, LoopKeeps, MonKeeps, ScanKeeps, Holding
  <2>2. RunningKeeps'
    BY <1>3, <1>c, <1>h, <1>t, <1>u DEF RunningKeeps, CtxLive
  <2> QED
    BY <1>1, <2>1, <2>2 DEF Recovers
<1>4. CASE Stop(n) \/ StopWaited(n)
  BY <1>2, <1>4, <1>t DEF Stop, StopWaited
<1>5. CASE Lose(n)
  BY <1>3, <1>5, <1>t DEF Lose, LoopIdle, MonOff, ScanOff
<1>6. CASE Start(n)
  <2>1. \A k \in MonKey : mon[n][k].pc = "off"
    BY <1>6, <1>t DEF Start, Life
  <2>2. loop[n].pc = "idle"
    BY <1>6, <1>t DEF Start, Life
  <2>3. scan'[n].pc = "list" /\ scan'[n].mode = "recover" /\ scan'[n].job = NoJob /\ node'[n] = "recovering"
    BY <1>6, <1>t DEF Start, ScanOff
  <2> QED
    BY <1>3, <1>6, <2>1, <2>2, <2>3 DEF Start
<1> QED
  BY <1>4, <1>5, <1>6 DEF LifeNext, Exit, Crash

\* Requests, processes that end and a lock that lapses.
LEMMA OthersRecover ==
  ASSUME RecoverInv,
         (\E c \in Clients : ApiNext(c)) \/ (\E p \in Pids : ProcExit(p)) \/ LockExpire \/ UNCHANGED vars
  PROVE  NoneRuns /\ ProcsGrow /\ UNCHANGED <<owner, records, node, loop, mon, scan>>
<1>t. TypeInv /\ TypeOK /\ CancelsWaiting
  BY DEF RecoverInv, TypeInv
<1>p. UNCHANGED proc => ProcsGrow
  BY DEF ProcsGrow
<1>u. UNCHANGED status => NoneRuns
  BY DEF NoneRuns
<1>1. ASSUME NEW c \in Clients, ApiNext(c)
      PROVE  NoneRuns /\ ProcsGrow /\ UNCHANGED <<owner, records, node, loop, mon, scan>>
  BY <1>1, <1>p, <1>t, ApiFrame, ApiRuns DEF otherThanApi, memory
<1>2. ASSUME NEW p \in Pids, ProcExit(p)
      PROVE  NoneRuns /\ ProcsGrow /\ UNCHANGED <<owner, records, node, loop, mon, scan>>
  BY <1>2, <1>t, <1>u DEF ProcExit, ProcsGrow, TypeOK, mysql, memory
<1>3. ASSUME LockExpire \/ UNCHANGED vars
      PROVE  NoneRuns /\ ProcsGrow /\ UNCHANGED <<owner, records, node, loop, mon, scan>>
  BY <1>3, <1>p, <1>u DEF LockExpire, vars, mysql, memory
<1> QED
  BY <1>1, <1>2, <1>3

LEMMA RecoverStep ==
  ASSUME Recoverable, RecoverInv, [Next]_vars
  PROVE  RecoverInv'
<1>t. TypeInv /\ TypeOK /\ LoopTyped /\ Started /\ LoopAsks /\ CancelsWaiting
  BY DEF RecoverInv, TypeInv
<1>1. TypeInv'
  BY <1>t, TypeStep
<1> DEFINE Rest == Started' /\ LoopAsks' /\ CancelsWaiting' /\ Recovers'
<1>a. UNCHANGED api => CancelsWaiting'
  BY <1>t DEF CancelsWaiting
<1>b. UNCHANGED <<proc, loop>> => LoopAsks'
  BY <1>t DEF LoopAsks
<1>2. ASSUME (\E c \in Clients : ApiNext(c)) \/ (\E p \in Pids : ProcExit(p)) \/ LockExpire \/ UNCHANGED vars
      PROVE  Rest
  <2>1. NoneRuns /\ ProcsGrow /\ UNCHANGED <<owner, records, node, loop, mon, scan>>
    BY <1>2, OthersRecover
  <2>2. Started' /\ LoopAsks'
    BY <1>t, <2>1 DEF Started, LoopAsks, ProcsGrow, LoopTyped, LoopGood, MonKey
  <2>3. CancelsWaiting'
    <3>1. CASE \E c \in Clients : ApiNext(c)
      BY <1>t, <3>1, ApiDone
    <3> QED
      BY <1>2, <1>a, <3>1 DEF ProcExit, LockExpire, vars
  <2>4. \A m \in Nodes : LoopCalm(m)
    <3>1. \A m \in Nodes : /\ loop'[m] = loop[m]
                           /\ loop[m].pc = "record" => loop[m].todo = Need(loop[m].job)
                           /\ loop[m].pc # "undo"
      BY <2>1 DEF RecoverInv, Recovers, LoopKeeps
    <3> QED
      BY <3>1 DEF LoopCalm
  <2> QED
    BY <2>1, <2>2, <2>3, <2>4, CalmStep
<1>3. ASSUME NEW n \in Nodes, LoopNext(n) PROVE Rest
  BY <1>3, <1>a, <1>t, LoopAsksKept, LoopDone, LoopFrame, LoopRecovers DEF others
<1>4. ASSUME NEW n \in Nodes, NEW k \in MonKey, MonNext(n, k) PROVE Rest
  <2>1. /\ UNCHANGED <<proc, loop, api>>
        /\ \A m \in Nodes, l \in MonKey : <<m, l>> # <<n, k>> => mon'[m][l] = mon[m][l]
    BY <1>4, <1>t, MonFrame
  <2>2. mon[n][k].pc # "off"
    BY <1>4 DEF MonNext, MonExit, MonError, MonAlive, MonStopped, MonUntrack, MonEnd, MonRelease
  <2>3. Started'
    BY <1>t, <2>1, <2>2 DEF Started
  <2> QED
    BY <1>4, <1>a, <1>b, <2>1, <2>3, MonRecovers
<1>5. ASSUME NEW n \in Nodes, ScanNext(n) PROVE Rest
  <2>1. UNCHANGED <<proc, loop, api>>
    BY <1>5 DEF ScanNext, ScanList, ScanJob, ScanEach, ScanFailed, ScanEnd, ScanRelease
  <2> QED
    BY <1>5, <1>a, <1>b, <1>t, <2>1, ScanDoneKeeps, ScanRecovers
<1>6. ASSUME NEW n \in Nodes, LifeNext(n) PROVE Rest
  <2>1. UNCHANGED proc
    BY <1>6 DEF LifeNext, Stop, StopWaited, Exit, Crash, Start, Lose
  <2>2. Lose(n) => Started' /\ CancelsWaiting' /\ LoopAsks'
    BY <1>t, <2>1 DEF Lose, Started, CancelsWaiting, LoopAsks, TypeOK, LoopIdle, MonOff, ApiIdle, Holding
  <2>3. UNCHANGED <<loop, mon, api>> => Started' /\ CancelsWaiting' /\ LoopAsks'
    BY <1>a, <1>b, <1>t, <2>1 DEF Started
  <2>4. Started' /\ CancelsWaiting' /\ LoopAsks'
    BY <1>6, <2>2, <2>3 DEF LifeNext, Stop, StopWaited, Exit, Crash, Start
  <2> QED
    BY <1>6, <2>4, LifeRecovers
<1>7. \A n \in Nodes : ~AuditStart(n)
  BY DEF AuditStart, Recoverable
<1>8. Rest
  BY <1>2, <1>3, <1>4, <1>5, <1>6, <1>7 DEF Next
<1> QED
  BY <1>1, <1>8 DEF RecoverInv

LEMMA RecoverInit == ASSUME Recoverable, Init PROVE RecoverInv
<1>1. TypeInv
  BY TypeInit
<1>2. \A n \in Nodes : loop[n].pc = "idle" /\ node[n] \in {"up", "down"} /\ scan[n].pc = "off"
  BY DEF Init, LoopIdle, ScanOff
<1>3. \A n \in Nodes, k \in MonKey : mon[n][k].pc = "off"
  BY DEF Init, MonOff
<1>4. Started /\ LoopAsks /\ CancelsWaiting
  BY <1>2, <1>3 DEF Init, Started, LoopAsks, CancelsWaiting, ApiIdle, Holding
<1>5. RecordsHold /\ Life /\ LoopKeeps /\ MonKeeps /\ ScanKeeps
  BY <1>2, <1>3 DEF Init, RecordsHold, Life, LoopKeeps, MonKeeps, ScanKeeps, Holding
<1>6. RunningKeeps
  BY <1>3 DEF Init, RunningKeeps
<1> QED
  BY <1>1, <1>4, <1>5, <1>6 DEF RecoverInv, Recovers

\* A process with an active record keeps its cards when the instance stops,
\* crashes and starts again at any point, however often, and recovery takes the
\* job up in between.  The hypotheses are what the code needs for it: with a
\* second card, an audit, a second instance or one of the four failing calls
\* somebody releases or takes the cards under the record.
THEOREM RecordsKeepCards == ASSUME Recoverable PROVE Spec => []RecordedHoldsCards
<1>1. Init => RecoverInv
  BY RecoverInit
<1>2. RecoverInv /\ [Next]_vars => RecoverInv'
  BY RecoverStep
<1>3. RecoverInv => RecordedHoldsCards
  BY DEF RecoverInv, Recovers, RecordsHold, RecordedHoldsCards
<1> QED
  BY <1>1, <1>2, <1>3, PTL DEF Spec

\* A record of a live process of a Running job in instance n, and who sees to it.
Pending(n, r) ==
  \/ scan[n].pc = "list" \/ (scan[n].pc # "off" /\ r.job \in scan[n].jobs)
  \/ scan[n].pc = "each" /\ scan[n].job = r.job /\ r \in scan[n].recs
Due(n, r) == CtxLive(n) /\ PidExists(r.pid) /\ status[r.job] = "Running"

\* Nobody stops seeing to the job of a record that stays.
LEMMA WatchedStays ==
  ASSUME WatchInv, NEW n \in Nodes, NEW r \in records, ProcsGrow, NoneRuns, UNCHANGED <<node, scan>>,
         Starting(n, r.job) => loop'[n].pc \in Holding /\ loop'[n].job = loop[n].job,
         \A k \in MonKey : mon[n][k].pc # "off" /\ JobOf(k) = r.job => mon'[n][k].pc # "off",
         Due(n, r)'
  PROVE  Watching(n, r.job)' \/ Starting(n, r.job)' \/ Pending(n, r)'
<1>t. TypeInv /\ Started /\ RecordsHold /\ Watched
  BY DEF WatchInv, RecoverInv, Recovers
<1>1. /\ \A m \in Nodes, k \in MonKey : mon[m][k].pc # "off" => JobOf(k)' = JobOf(k) /\ JobOf(k) \in Jobs
      /\ r.pid \in Pids /\ r.job \in Jobs /\ proc[r.pid].job = r.job
  BY <1>t, JobsStay DEF RecordsHold
<1>2. Due(n, r)
  <2>1. proc[r.pid].st # "free"
    BY <1>1, <1>t, StoresAssumption DEF Started
  <2> QED
    BY <1>1, <2>1 DEF Due, CtxLive, PidExists, ProcsGrow, NoneRuns
<1>3. Watching(n, r.job) \/ Starting(n, r.job) \/ Pending(n, r)
  BY <1>2, <1>t DEF Watched, Due, Pending
<1>4. Watching(n, r.job) => Watching(n, r.job)'
  BY <1>1 DEF Watching
<1> QED
  BY <1>3, <1>4 DEF Starting, Pending

\* The goroutine leaves a recorded job only by starting its monitor.
LEMMA LoopWatches ==
  ASSUME Answering, WatchInv, NEW n \in Nodes, LoopNext(n)
  PROVE  Watched'
<1>t. /\ RecoverInv /\ TypeInv /\ TypeOK /\ Started /\ LoopAsks /\ RecordsHold /\ LoopKeeps /\ MonKeeps /\ Watched
      /\ loop \in [Nodes -> LoopState] /\ loop[n] \in LoopState /\ LoopGood(loop[n])
      /\ mon \in [Nodes -> [MonKey -> MonState]] /\ status \in [Jobs -> AnyStatus]
  BY DEF WatchInv, RecoverInv, Recovers, TypeInv, TypeOK, LoopTyped
<1>c. /\ Recoverable /\ "UpdateStatus" \notin Faults /\ "CreatePid" \notin Faults /\ \A m \in Nodes : m = n
  BY DEF Answering, Recoverable
<1>f. UNCHANGED <<node, scan>>
  BY <1>t, LoopFrame DEF others
<1>p. ProcsGrow
  BY <1>t, LoopDone
<1>j. PICK j : j = loop[n].job
  OBVIOUS
<1>g. ASSUME NEW pc, Goto(n, pc) PROVE loop'[n].pc = pc /\ loop'[n].job = j
  BY <1>t, <1>j, <1>g DEF Goto, LoopState
<1>0. ASSUME \A r \in records' : Due(n, r)' => Watching(n, r.job)' \/ Starting(n, r.job)' \/ Pending(n, r)'
      PROVE  Watched'
  BY <1>0, <1>c DEF Watched, Due, Pending
\* no record of the job at hand before its last step
<1>s. \A r \in records : Starting(n, r.job) => loop[n].pc = "cachePid"
  BY <1>t DEF Starting, LoopKeeps, Unrecorded
<1>1. ASSUME NoneRuns, UNCHANGED <<records, mon>>, loop[n].pc # "cachePid" PROVE Watched'
  BY <1>0, <1>1, <1>f, <1>p, <1>s, WatchedStays
<1>2. CASE \/ LoopLock(n) \/ LoopPeek(n) \/ LoopLoad(n) \/ LoopCheck(n) \/ LoopWait(n)
           \/ LoopDequeue(n) \/ LoopUnlock(n) \/ ExecAcquire(n) \/ ExecCards(n) \/ ExecStart(n)
           \/ ExecStartFails(n) \/ ExecRelease(n) \/ ExecFailed(n)
  <2>1. UNCHANGED <<records, mon>> /\ loop[n].pc # "cachePid"
    BY <1>2 DEF LoopLock, LoopPeek, LoopLoad, LoopCheck, LoopWait, LoopDequeue, LoopUnlock, ExecAcquire, ExecCards,
                ExecStart, ExecStartFails, ExecRelease, ExecFailed, mysql, At
  <2>2. UNCHANGED status \/ UpdateStatus(j, "WaitingGpu") \/ UpdateStatus(j, "Failed")
    BY <1>2, <1>j DEF LoopLock, LoopPeek, LoopLoad, LoopCheck, LoopWait, LoopDequeue, LoopUnlock, ExecAcquire, ExecCards,
                ExecStart, ExecStartFails, ExecRelease, ExecFailed, mysql, Cur
  <2>3. NoneRuns
    BY <1>t, <2>2 DEF NoneRuns, UpdateStatus, Updated
  <2> QED
    BY <1>1, <2>1, <2>3
<1>3. CASE ExecRunning(n)
  <2>1. /\ loop[n].pc = "running" /\ UNCHANGED <<records, proc, mon>> /\ status' = Updated(j, "Running")
        /\ loop'[n].pc = "cards" /\ loop'[n].job = j
    BY <1>3, <1>c, <1>g, <1>j DEF ExecRunning, At, Fails, Cur
  <2>2. ASSUME NEW r \in records, Due(n, r)' PROVE Watching(n, r.job)' \/ Pending(n, r)'
    <3>1. r.job # j /\ r.job \in Jobs
      BY <1>j, <1>t, <2>1, <2>2 DEF LoopKeeps, Unrecorded, Holding, TypeOK, Rec
    <3>2. Due(n, r)
      BY <1>f, <1>t, <2>1, <2>2, <3>1 DEF Due, Updated, CtxLive, PidExists
    <3>3. Watching(n, r.job) \/ Pending(n, r)
      BY <1>j, <1>t, <3>1, <3>2 DEF Watched, Due, Pending, Starting
    <3> QED
      BY <1>f, <2>1, <3>3 DEF Watching, Pending, JobOf
  <2> QED
    BY <1>0, <2>1, <2>2
<1>4. CASE ExecRecord(n)
  <2>0. UNCHANGED <<status, proc, mon>> /\ loop[n].pc = "record" /\ NoneRuns
    BY <1>4 DEF ExecRecord, At, NoneRuns
  <2>1. CASE UNCHANGED records
    BY <1>1, <2>0, <2>1
  <2>2. ASSUME NEW c \in loop[n].todo,
               records' = records \cup {[pid |-> loop[n].pid, card |-> c, job |-> Cur(n)]},
               loop' = [loop EXCEPT ![n].todo = @ \ {c},
                                    ![n].pc = IF loop[n].todo = {c} THEN "cachePid" ELSE "record"]
        PROVE  Watched'
    <3>1. loop'[n].pc \in {"record", "cachePid"} /\ loop'[n].job = j
      BY <1>j, <1>t, <2>2 DEF LoopState
    <3>2. Starting(n, j)'
      BY <3>1 DEF Starting, Holding
    <3>3. ASSUME NEW r \in records' PROVE r \in records \/ r.job = j
      BY <1>j, <2>2, <3>3 DEF Cur
    <3>4. ASSUME NEW r \in records, Due(n, r)' PROVE Watching(n, r.job)' \/ Starting(n, r.job)' \/ Pending(n, r)'
      BY <1>f, <1>p, <1>s, <2>0, <3>4, WatchedStays
    <3> QED
      BY <1>0, <3>2, <3>3, <3>4 DEF Starting
  <2> QED
    BY <1>4, <2>1, <2>2 DEF ExecRecord
<1>5. CASE ExecMonitor(n)
  <2>0. loop[n].pc = "cachePid" /\ UNCHANGED <<status, records, proc>> /\ NoneRuns
    BY <1>5 DEF ExecMonitor, At, mysql, NoneRuns
  <2>1. CASE ~CtxLive(n)
    BY <1>0, <1>f, <2>1 DEF Due, CtxLive
  <2>2. CASE CtxLive(n)
    <3>1. PICK x : x = <<loop[n].pid, GpuIDs[j][1]>>
      OBVIOUS
    <3>2. mon' = [mon EXCEPT ![n][x] = [MonOff EXCEPT !.pc = "watch"]]
      BY <1>5, <1>c, <1>j, <2>2, <3>1 DEF ExecMonitor, CtxFails, Fails, Cur
    <3>3. x \in MonKey /\ JobOf(x) = j
      <4>1. j \in Jobs /\ proc[loop[n].pid].job = j /\ loop[n].pid \in Pids /\ GpuIDs[j] # <<>> /\ Need(j) \subseteq Cards
        BY <1>j, <1>t, <2>0 DEF LoopAsks, LoopGood, Holding
      <4>2. GpuIDs[j] \in Seq(CardIDs)
        BY <4>1, StoresAssumption
      <4>3. GpuIDs[j][1] \in Need(j)
        BY <4>1, <4>2 DEF Need, Range
      <4> QED
        BY <3>1, <4>1, <4>3 DEF MonKey, JobOf
    <3>4. mon'[n][x].pc = "watch" /\ \A k \in MonKey : mon[n][k].pc # "off" => mon'[n][k].pc # "off"
      <4>1. [MonOff EXCEPT !.pc = "watch"].pc = "watch"
        BY DEF MonOff
      <4>2. ASSUME NEW w, w.pc = "watch", mon' = [mon EXCEPT ![n][x] = w]
            PROVE  mon'[n][x].pc = "watch" /\ \A k \in MonKey : mon[n][k].pc # "off" => mon'[n][k].pc # "off"
        BY <1>t, <3>3, <4>2
      <4> QED
        BY <3>2, <4>1, <4>2
    <3>5. Watching(n, j)'
      BY <2>0, <3>3, <3>4 DEF Watching, JobOf
    <3>6. ASSUME NEW r \in records, Due(n, r)' PROVE Watching(n, r.job)' \/ Starting(n, r.job)' \/ Pending(n, r)'
      <4>1. CASE r.job = j
        BY <3>5, <4>1 DEF Watching
      <4>2. CASE r.job # j
        BY <1>f, <1>j, <1>p, <2>0, <3>4, <3>6, <4>2, WatchedStays DEF Starting
      <4> QED
        BY <4>1, <4>2
    <3> QED
      BY <1>0, <2>0, <3>6
  <2> QED
    BY <2>1, <2>2
<1> QED
  BY <1>2, <1>3, <1>4, <1>5 DEF LoopNext

\* A monitor goes when the record of its job has ended.
LEMMA MonWatches ==
  ASSUME Answering, WatchInv, NEW n \in Nodes, NEW k \in MonKey, MonNext(n, k)
  PROVE  Watched'
<1>t. TypeOK /\ RecordsHold /\ MonKeeps /\ Started /\ Watched /\ mon \in [Nodes -> [MonKey -> MonState]]
      /\ status \in [Jobs -> AnyStatus]
  BY DEF WatchInv, RecoverInv, Recovers, TypeInv, TypeOK
<1>c. \A m \in Nodes : m = n
  BY DEF Answering, Recoverable
<1>f. /\ UNCHANGED <<proc, node, loop, scan>>
      /\ \A m \in Nodes, l \in MonKey : <<m, l>> # <<n, k>> => mon'[m][l] = mon[m][l]
  BY <1>t, MonFrame
<1>1. records' \subseteq records /\ NoneRuns
  <2>1. records' \subseteq records
    BY DEF MonNext, MonExit, MonError, MonAlive, MonStopped, MonUntrack, MonEnd, MonRelease, EndRecords, mysql
  <2>2. \/ UNCHANGED status
        \/ \E s \in {"Completed", "Failed"} : UpdateStatus(JobOf(k), s)
    <3>1. Verdicts(k[1]) \subseteq {"Completed", "Failed"}
      BY DEF Verdicts
    <3> QED
      BY <3>1 DEF MonNext, MonExit, MonError, MonAlive, MonStopped, MonUntrack, MonEnd, MonRelease, mysql
  <2>3. NoneRuns
    BY <1>t, <2>2 DEF NoneRuns, UpdateStatus, Updated
  <2> QED
    BY <2>1, <2>3
<1>2. mon'[n][k].pc = "off" => mon[n][k].pc = "release"
  <2>1. ASSUME NEW pc, MonGoto(n, k, pc) PROVE mon'[n][k].pc = pc
    BY <1>t, <2>1 DEF MonGoto
  <2>2. mon[n][k].pc = "watch" /\ mon' = [mon EXCEPT ![n][k].fails = @ + 1] => mon'[n][k].pc = "watch"
    BY <1>t DEF MonState
  <2> QED
    BY <2>1, <2>2 DEF MonNext, MonExit, MonError, MonAlive, MonStopped, MonUntrack, MonEnd, MonRelease
<1>3. ASSUME NEW r \in records', Due(n, r)' PROVE Watching(n, r.job)' \/ Starting(n, r.job)' \/ Pending(n, r)'
  <2>1. \A l \in MonKey : mon[n][l].pc # "off" /\ JobOf(l) = r.job => mon'[n][l].pc # "off"
    BY <1>1, <1>2, <1>3, <1>f, <1>t DEF MonKeeps, Unrecorded
  <2>2. ProcsGrow
    BY <1>f DEF ProcsGrow
  <2> QED
    BY <1>1, <1>3, <1>f, <2>1, <2>2, WatchedStays DEF Starting
<1> QED
  BY <1>3, <1>c DEF Watched, Due, Pending

\* Recovery passes over no record of a live process.
LEMMA ScanWatches ==
  ASSUME Answering, WatchInv, NEW n \in Nodes, ScanNext(n)
  PROVE  Watched'
<1>t. /\ TypeOK /\ RecordsHold /\ MonKeeps /\ Started /\ ScanKeeps /\ Life /\ Watched
      /\ mon \in [Nodes -> [MonKey -> MonState]]
      /\ status \in [Jobs -> AnyStatus] /\ scan \in [Nodes -> ScanState] /\ scan[n] \in ScanState
      /\ records \subseteq Rec
  BY DEF WatchInv, RecoverInv, Recovers, TypeInv, TypeOK
<1>c. /\ "PidExists" \notin Faults /\ "GetRunningJobs" \notin Faults /\ "FindActive" \notin Faults
      /\ "UpdateStatus" \notin Faults /\ \A m \in Nodes : m = n
  BY DEF Answering, Recoverable
<1>f. UNCHANGED <<proc, loop>> /\ scan[n].pc # "off"
  BY DEF ScanNext, ScanList, ScanJob, ScanEach, ScanFailed, ScanEnd, ScanRelease
<1>n. CtxLive(n) /\ loop[n].pc = "idle" /\ scan[n].mode = "recover"
  BY <1>f, <1>t DEF Life, CtxLive
<1>j. \A l : JobOf(l)' = JobOf(l)
  BY <1>f DEF JobOf
<1>r. records' \subseteq records /\ NoneRuns
  <2>1. records' \subseteq records
    BY DEF ScanNext, ScanList, ScanJob, ScanEach, ScanFailed, ScanEnd, ScanRelease, EndRecords, mysql
  <2>2. UNCHANGED status \/ UpdateStatus(scan[n].job, "Failed")
    BY DEF ScanNext, ScanList, ScanJob, ScanEach, ScanFailed, ScanEnd, ScanRelease, mysql
  <2> QED
    BY <1>t, <2>1, <2>2 DEF NoneRuns, UpdateStatus, Updated
<1>w. ASSUME NEW r \in records', Due(n, r)'
      PROVE  r \in records /\ r.job \in Jobs /\ r.pid \in Pids /\ PidExists(r.pid) /\ status[r.job] = "Running"
             /\ (Watching(n, r.job) \/ Pending(n, r))
  <2>1. r \in records /\ r.job \in Jobs /\ r.pid \in Pids
    BY <1>r, <1>t, <1>w DEF Rec
  <2>2. PidExists(r.pid) /\ status[r.job] = "Running"
    BY <1>f, <1>r, <1>w, <2>1 DEF Due, PidExists, NoneRuns
  <2>3. ~Starting(n, r.job)
    BY <1>n DEF Starting, Holding
  <2> QED
    BY <1>n, <1>t, <2>1, <2>2, <2>3 DEF Watched, Pending
<1>m. \A k \in MonKey : mon[n][k].pc # "off" => mon'[n][k].pc # "off"
  <2>1. \/ UNCHANGED mon
        \/ \E r : mon' = [mon EXCEPT ![n][<<r.pid, r.card>>] = [MonOff EXCEPT !.pc = "watch"]]
    BY DEF ScanNext, ScanList, ScanJob, ScanEach, ScanFailed, ScanEnd, ScanRelease, Adopt
  <2>2. [MonOff EXCEPT !.pc = "watch"].pc # "off"
    BY DEF MonOff
  <2>3. ASSUME NEW x, NEW w, w.pc # "off", mon' = [mon EXCEPT ![n][x] = w]
        PROVE  \A l \in MonKey : mon[n][l].pc # "off" => mon'[n][l].pc # "off"
    BY <1>t, <2>3
  <2> QED
    BY <2>1, <2>2, <2>3
<1>k. \A i : Watching(n, i) => Watching(n, i)'
  BY <1>j, <1>m DEF Watching
<1>0. ASSUME \A r \in records' : Due(n, r)' => Watching(n, r.job)' \/ Pending(n, r)'
      PROVE  Watched'
  BY <1>0, <1>c DEF Watched, Due, Pending
<1>1. CASE ScanList(n)
  <2>1. scan' = [scan EXCEPT ![n].pc = "next", ![n].jobs = {j \in Jobs : status[j] = "Running"}]
    BY <1>1, <1>c DEF ScanList, Fails
  <2>2. scan'[n].pc = "next" /\ scan'[n].jobs = {j \in Jobs : status[j] = "Running"}
    BY <1>t, <2>1 DEF ScanState
  <2>3. ASSUME NEW r \in records', Due(n, r)' PROVE Pending(n, r)'
    BY <1>w, <2>2, <2>3 DEF Pending
  <2> QED
    BY <1>0, <2>3
<1>2. CASE ScanJob(n)
  <2>0. scan[n].pc = "next"
    BY <1>2 DEF ScanJob
  <2>1. CASE scan[n].jobs = {} /\ ScanDone(n)
    <3>1. ASSUME NEW r \in records', Due(n, r)' PROVE Watching(n, r.job)'
      BY <1>k, <1>w, <2>0, <2>1, <3>1 DEF Pending
    <3> QED
      BY <1>0, <3>1
  <2>2. ASSUME NEW j \in scan[n].jobs, scan' = [scan EXCEPT ![n] = TakeUp(n, j, FindActiveByJobID(j))]
        PROVE  Watched'
    <3>1. PICK rs : rs = FindActiveByJobID(j)
      OBVIOUS
    <3>2. /\ scan'[n].pc = (IF rs = {} THEN "failed" ELSE "each")
          /\ scan'[n].jobs = scan[n].jobs \ {j} /\ scan'[n].job = j /\ scan'[n].recs = rs
      BY <1>t, <2>2, <3>1 DEF ScanState, TakeUp
    <3>3. rs = {r \in records : r.job = j}
      BY <3>1 DEF FindActiveByJobID
    <3>4. ASSUME NEW r \in records', Due(n, r)' PROVE Watching(n, r.job)' \/ Pending(n, r)'
      <4>1. r \in records /\ (Watching(n, r.job) \/ r.job \in scan[n].jobs)
        BY <1>w, <2>0, <3>4 DEF Pending
      <4> QED
        BY <1>k, <3>2, <3>3, <4>1 DEF Pending
    <3> QED
      BY <1>0, <3>4
  <2> QED
    BY <1>2, <1>c, <2>1, <2>2 DEF ScanJob, Fails
<1>3. CASE ScanEach(n)
  <2>0. scan[n].pc = "each" /\ UNCHANGED <<records, status>>
    BY <1>3 DEF ScanEach, mysql
  <2>u. \A x, y \in scan[n].recs : x = y /\ x \in records /\ x.job = scan[n].job
    BY <1>t, <2>0 DEF ScanKeeps, RecordsHold
  \* what is left to do is left: the jobs, and no record that still counts is dropped
  <2>1. ASSUME scan'[n].jobs = scan[n].jobs, scan'[n].pc # "off",
               \A r \in scan[n].recs : Due(n, r)' => Watching(n, r.job)'
        PROVE  Watched'
    <3>1. ASSUME NEW r \in records', Due(n, r)' PROVE Watching(n, r.job)' \/ Pending(n, r)'
      BY <1>k, <1>w, <2>0, <2>1, <3>1 DEF Pending
    <3> QED
      BY <1>0, <3>1
  <2>2. CASE scan[n].recs = {} /\ scan' = [scan EXCEPT ![n].pc = "next", ![n].job = NoJob, ![n].rec = NoRec]
    <3>1. scan'[n].jobs = scan[n].jobs /\ scan'[n].pc = "next"
      BY <1>t, <2>2 DEF ScanState
    <3> QED
      BY <2>1, <2>2, <3>1
  <2>3. ASSUME NEW r \in scan[n].recs, ScanSkip(n, r), Adopt(n, r) PROVE Watched'
    <3>1. scan'[n].jobs = scan[n].jobs /\ scan'[n].pc = "each"
      BY <1>t, <2>0, <2>3 DEF ScanSkip, ScanState
    <3>2. PICK x : x = <<r.pid, r.card>>
      OBVIOUS
    <3>3. x \in MonKey /\ JobOf(x) = r.job
      BY <1>t, <2>3, <2>u, <3>2 DEF MonKey, JobOf, RecordsHold, Rec
    <3>4. mon'[n][x].pc = "watch"
      <4>1. PICK w : w = [MonOff EXCEPT !.pc = "watch"]
        OBVIOUS
      <4>2. w.pc = "watch"
        BY <4>1 DEF MonOff
      <4>3. mon' = [mon EXCEPT ![n][x] = w]
        BY <2>3, <3>2, <4>1 DEF Adopt
      <4> QED
        BY <1>t, <3>3, <4>2, <4>3
    <3>5. Watching(n, r.job)'
      BY <1>j, <3>3, <3>4 DEF Watching
    <3>6. \A y \in scan[n].recs : y = r
      BY <2>3, <2>u
    <3> QED
      BY <2>1, <3>1, <3>5, <3>6
  <2>4. ASSUME NEW r \in scan[n].recs, ~PidExists(r.pid),
               scan' = [scan EXCEPT ![n].pc = "failed", ![n].recs = @ \ {r}, ![n].rec = r]
        PROVE  Watched'
    <3>1. scan'[n].jobs = scan[n].jobs /\ scan'[n].pc = "failed"
      BY <1>t, <2>4 DEF ScanState
    <3>2. \A y \in scan[n].recs : y = r
      BY <2>4, <2>u
    <3>3. ~Due(n, r)'
      BY <1>f, <2>4 DEF Due, PidExists
    <3> QED
      BY <2>1, <3>1, <3>2, <3>3
  <2> QED
    BY <1>3, <1>c, <1>n, <2>2, <2>3, <2>4 DEF ScanEach, Fails
<1>4. CASE ScanFailed(n) \/ ScanEnd(n) \/ ScanRelease(n)
  <2>1. scan[n].pc \in {"failed", "end", "release"} /\ \E pc \in {"end", "release", "each"} : scan' = [scan EXCEPT ![n].pc = pc]
    BY <1>4 DEF ScanFailed, ScanEnd, ScanRelease
  <2>2. scan'[n].jobs = scan[n].jobs /\ scan'[n].pc # "off"
    BY <1>t, <2>1 DEF ScanState
  <2>3. ASSUME NEW r \in records', Due(n, r)' PROVE Watching(n, r.job)' \/ Pending(n, r)'
    BY <1>k, <1>w, <2>1, <2>2, <2>3 DEF Pending
  <2> QED
    BY <1>0, <2>3
<1> QED
  BY <1>1, <1>2, <1>3, <1>4 DEF ScanNext

LEMMA WatchStep ==
  ASSUME Answering, WatchInv, [Next]_vars
  PROVE  WatchInv'
<1>t. RecoverInv /\ Watched /\ TypeOK /\ Life /\ node \in [Nodes -> {"down", "recovering", "up", "stopping", "stopped"}]
      /\ scan \in [Nodes -> ScanState]
  BY DEF WatchInv, RecoverInv, Recovers, TypeInv, TypeOK
<1>1. RecoverInv'
  BY <1>t, RecoverStep DEF Answering
<1>2. ASSUME (\E c \in Clients : ApiNext(c)) \/ (\E p \in Pids : ProcExit(p)) \/ LockExpire \/ UNCHANGED vars
      PROVE  Watched'
  <2>1. NoneRuns /\ ProcsGrow /\ UNCHANGED <<owner, records, node, loop, mon, scan>>
    BY <1>2, <1>t, OthersRecover
  <2>2. ASSUME NEW n \in Nodes, NEW r \in records, Due(n, r)'
        PROVE  Watching(n, r.job)' \/ Starting(n, r.job)' \/ Pending(n, r)'
    BY <2>1, <2>2, WatchedStays DEF Starting
  <2> QED
    BY <2>1, <2>2 DEF Watched, Due, Pending
<1>3. ASSUME NEW n \in Nodes, LifeNext(n) PROVE Watched'
  <2>0. \A m \in Nodes : m = n
    BY DEF Answering, Recoverable
  <2>1. CASE Start(n)
    <3>1. scan'[n].pc = "list"
      BY <1>t, <2>1 DEF Start, ScanOff
    <3> QED
      BY <2>0, <3>1 DEF Watched
  <2>2. CASE ~Start(n)
    <3>1. node'[n] \in {"stopping", "stopped", "down"}
      BY <1>3, <1>t, <2>2 DEF LifeNext, Stop, StopWaited, Exit, Crash, Lose
    <3> QED
      BY <2>0, <3>1 DEF Watched, CtxLive
  <2> QED
    BY <2>1, <2>2
<1>4. \A n \in Nodes : ~AuditStart(n)
  BY DEF AuditStart, Answering, Recoverable
<1>5. Watched'
  BY <1>2, <1>3, <1>4, LoopWatches, MonWatches, ScanWatches DEF Next
<1> QED
  BY <1>1, <1>5 DEF WatchInv

\* Once an instance is past recovery, the recorded live process of every Running
\* job has a monitor, or executeJob is about to start it -- through stop, crash
\* and restart at any point.  Answering is needed: a pid that cannot be looked up
\* while recovery runs, or a CreatePid that fails, leaves the process unwatched.
THEOREM RunningJobsAreWatched == ASSUME Answering PROVE Spec => []RunningIsWatched
<1>1. Init => WatchInv
  <2>1. Init => RecoverInv
    BY RecoverInit DEF Answering
  <2>2. Init => Watched
    BY DEF Init, Watched
  <2> QED
    BY <2>1, <2>2 DEF WatchInv
<1>2. WatchInv /\ [Next]_vars => WatchInv'
  BY WatchStep
<1>3. WatchInv => RunningIsWatched
  <2>1. ASSUME WatchInv, NEW n \in Nodes, node[n] = "up" PROVE scan[n].pc = "off" /\ CtxLive(n)
    BY <2>1 DEF WatchInv, RecoverInv, Recovers, Life, CtxLive
  <2> QED
    BY <2>1 DEF WatchInv, Watched, RunningIsWatched
<1> QED
  BY <1>1, <1>2, <1>3, PTL DEF Spec

=============================================================================
