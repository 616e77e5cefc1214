---------------------------- MODULE JobQueue_proofs ----------------------------
(***************************************************************************)
(* The order of the queue for any number of jobs, administrators, moves    *)
(* and priorities, as long as queue:seq stays below PriorityGap.           *)
(***************************************************************************)
EXTENDS JobQueue, FiniteSetTheorems, TLAPS

LEMMA ScaleMonotone ==
  ASSUME NEW a \in Int, NEW b \in Int, NEW u \in Int, u > 0, a < b
  PROVE  a * u < b * u
<1>1. b - a >= 1 /\ (b - a) * u = b * u - a * u
  OBVIOUS
<1>2. ASSUME NEW d \in Int, d >= 1 PROVE d * u >= u
  BY <1>2
<1> QED
  BY <1>1, <1>2

\* A higher priority beats every number below the gap, and within a priority
\* the earlier number wins.
LEMMA BandsDisjoint ==
  ASSUME NEW j \in Jobs, NEW k \in Jobs,
         ticket[j] \in 0..SeqLimit, ticket[k] \in 0..SeqLimit,
         \/ Priority[j] > Priority[k]
         \/ Priority[j] = Priority[k] /\ ticket[j] < ticket[k]
  PROVE  EnqueueScore(j) < EnqueueScore(k)
<1> DEFINE a == MaxPriority - Priority[j]
           b == MaxPriority - Priority[k]
<1>1. /\ a \in Int /\ b \in Int /\ Gap \in Int /\ Unit \in Int /\ Unit > 0 /\ SeqLimit < Gap
      /\ ticket[j] \in Int /\ ticket[k] \in Int /\ 0 <= ticket[k] /\ ticket[j] < Gap
      /\ a < b \/ (a = b /\ ticket[j] < ticket[k])
  BY QueueAssumption
<1> HIDE DEF a, b
<1>2. a * Gap + ticket[j] < b * Gap + ticket[k]
  <2>1. CASE a < b
    <3>1. b - a >= 1 /\ (b - a) * Gap = b * Gap - a * Gap /\ Gap > 0
      BY <1>1, <2>1
    <3>2. ASSUME NEW d \in Int, d >= 1 PROVE d * Gap >= Gap
      BY <1>1, <3>1, <3>2
    <3>3. b * Gap - a * Gap >= Gap
      BY <1>1, <3>1, <3>2
    <3> QED
      BY <1>1, <3>3
  <2>2. CASE a = b /\ ticket[j] < ticket[k]
    BY <1>1, <2>2
  <2> QED
    BY <1>1, <2>1, <2>2
<1>3. (a * Gap + ticket[j]) * Unit < (b * Gap + ticket[k]) * Unit
  BY <1>1, <1>2, ScaleMonotone
<1> QED
  BY <1>3 DEF EnqueueScore, a, b

-----------------------------------------------------------------------------
(* A job has the score Enqueue gave it until a MoveBefore of it has done its *)
(* ZADD; a MoveBefore that gives up earlier leaves the score as it was.      *)

Numbered ==
  /\ \A j \in Queued \cup pending : ticket[j] > 0
  /\ \A c \in Clients : move[c].pc # "idle" => move[c].job \in Jobs /\ ticket[move[c].job] > 0

Rescored(j) == j \in sug \/ \E c \in Clients : move[c].pc = "sug" /\ move[c].job = j

Placed == \A j \in Queued : ~Rescored(j) => score[j] = EnqueueScore(j)

OrderInv == TypeOK /\ IsFiniteSet(Queued) /\ Numbered /\ Placed

MoveState == [pc : {"idle", "score", "prev", "add", "sug"},
              job : Jobs \cup {NoJob}, target : Jobs \cup {NoJob},
              rank : Nat, before : Int, new : Int]

LEMMA OrderInit == Init => OrderInv
<1> SUFFICES ASSUME Init PROVE OrderInv
  OBVIOUS
<1>1. Queued = {}
  BY DEF Init, Queued
<1>2. TypeOK
  BY <1>1, QueueAssumption DEF Init, TypeOK, MoveIdle
<1>3. Numbered /\ Placed
  BY <1>1 DEF Init, Numbered, Placed, MoveIdle
<1> QED
  BY <1>1, <1>2, <1>3, FS_EmptySet DEF OrderInv

LEMMA OrderFollows == OrderInv => PriorityOrder
<1> SUFFICES ASSUME OrderInv, NEW j \in Queued, NEW k \in Queued,
                    Untouched(j), Untouched(k),
                    \/ Priority[j] > Priority[k]
                    \/ Priority[j] = Priority[k] /\ ticket[j] < ticket[k]
             PROVE  Ahead(j, k)
  BY DEF PriorityOrder
<1>1. j \in Jobs /\ k \in Jobs /\ ticket[j] \in 0..SeqLimit /\ ticket[k] \in 0..SeqLimit
  BY DEF OrderInv, TypeOK
<1>2. ~Rescored(j) /\ ~Rescored(k)
  BY DEF Untouched, Rescored
<1>3. score[j] = EnqueueScore(j) /\ score[k] = EnqueueScore(k)
  BY <1>2 DEF OrderInv, Placed
<1>4. EnqueueScore(j) < EnqueueScore(k)
  BY <1>1, BandsDisjoint
<1> QED
  BY <1>3, <1>4 DEF Ahead

-----------------------------------------------------------------------------

\* What a ZADD leaves alone.
LEMMA ZAddKeeps ==
  ASSUME OrderInv, NEW j \in Jobs, NEW x \in Int, ZAdd(j, x)
  PROVE  /\ Queued' = Queued \cup {j} /\ Queued' \subseteq Jobs
         /\ score' \in [Queued' -> Int] /\ IsFiniteSet(Queued')
         /\ score'[j] = x /\ \A k \in Queued \ {j} : score'[k] = score[k]
<1>1. Queued' = Queued \cup {j}
  BY DEF ZAdd, Queued
<1>2. score \in [Queued -> Int] /\ Queued \subseteq Jobs /\ IsFiniteSet(Queued)
  BY DEF OrderInv, TypeOK
<1>3. score' \in [Queued' -> Int] /\ score'[j] = x /\ \A k \in Queued \ {j} : score'[k] = score[k]
  BY <1>1, <1>2 DEF ZAdd
<1> QED
  BY <1>1, <1>2, <1>3, FS_AddElement

\* Requests that read, or that give up, change no score.
LEMMA MoveOnly ==
  ASSUME OrderInv, NEW c \in Clients, UNCHANGED <<score, seq, ticket, pending, sug>>,
         moves' \in 0..MoveLimit,
         move' \in [Clients -> MoveState],
         \A d \in Clients \ {c} : move'[d] = move[d],
         move[c].pc # "sug", move'[c].pc # "sug",
         move'[c].pc # "idle" => move'[c].job \in Jobs /\ ticket[move'[c].job] > 0
  PROVE  OrderInv'
<1>1. Queued' = Queued
  BY DEF Queued
<1>2. TypeOK'
  BY <1>1 DEF OrderInv, TypeOK, MoveState
<1>3. Numbered'
  BY <1>1 DEF OrderInv, Numbered
<1>4. Placed'
  BY <1>1 DEF OrderInv, Placed, Rescored, EnqueueScore
<1> QED
  BY <1>1, <1>2, <1>3, <1>4 DEF OrderInv

LEMMA EnqueueScoreType ==
  ASSUME NEW j \in Jobs, ticket[j] \in Int
  PROVE  EnqueueScore(j) \in Int
<1>1. MaxPriority \in Int /\ Priority[j] \in Int /\ Gap \in Int /\ Unit \in Int
  BY QueueAssumption
<1>2. (MaxPriority - Priority[j]) * Gap \in Int
  BY <1>1
<1> QED
  BY <1>1, <1>2 DEF EnqueueScore

LEMMA OrderStep == OrderInv /\ [Next]_vars => OrderInv'
<1> SUFFICES ASSUME OrderInv, [Next]_vars PROVE OrderInv'
  OBVIOUS
<1>t. TypeOK /\ move \in [Clients -> MoveState] /\ ticket \in [Jobs -> 0..SeqLimit]
  BY DEF OrderInv, TypeOK, MoveState
<1>q. SeqLimit \in Nat /\ MoveLimit \in Nat /\ NoJob \notin Jobs
  BY QueueAssumption
<1>1. ASSUME NEW j \in Jobs, NextSeq(j) PROVE OrderInv'
  <2>1. Queued' = Queued
    BY <1>1 DEF NextSeq, Queued
  <2>2. /\ ticket' \in [Jobs -> 0..SeqLimit] /\ seq' \in 0..SeqLimit /\ ticket'[j] > 0
        /\ \A k \in Jobs \ {j} : ticket'[k] = ticket[k]
    BY <1>1, <1>t, <1>q DEF NextSeq, TypeOK
  <2>3. j \notin Queued
    BY <1>1 DEF NextSeq, OrderInv, Numbered
  <2>4. TypeOK'
    BY <1>1, <1>t, <2>1, <2>2 DEF NextSeq, TypeOK
  <2>5. Numbered'
    BY <1>1, <2>1, <2>2, <1>t DEF NextSeq, OrderInv, Numbered, TypeOK
  <2>6. Placed'
    <3> SUFFICES ASSUME NEW k \in Queued, ~Rescored(k)' PROVE score'[k] = EnqueueScore(k)'
      BY <2>1 DEF Placed
    <3>1. k \in Jobs /\ k # j
      BY <2>3, <1>t DEF TypeOK
    <3>2. EnqueueScore(k)' = EnqueueScore(k)
      BY <3>1, <2>2 DEF EnqueueScore
    <3>3. ~Rescored(k)
      BY <1>1 DEF NextSeq, Rescored
    <3> QED
      BY <1>1, <3>2, <3>3 DEF NextSeq, OrderInv, Placed
  <2> QED
    BY <2>1, <2>4, <2>5, <2>6 DEF OrderInv
<1>2. ASSUME NEW j \in Jobs, Add(j) PROVE OrderInv'
  <2>1. EnqueueScore(j) \in Int
    BY <1>t, <1>q, EnqueueScoreType
  <2>2. /\ Queued' = Queued \cup {j} /\ Queued' \subseteq Jobs
        /\ score' \in [Queued' -> Int] /\ IsFiniteSet(Queued')
        /\ score'[j] = EnqueueScore(j) /\ \A k \in Queued \ {j} : score'[k] = score[k]
    BY <1>2, <2>1, ZAddKeeps DEF Add
  <2>3. TypeOK'
    BY <1>2, <1>t, <2>2 DEF Add, TypeOK
  <2>4. Numbered'
    BY <1>2, <2>2 DEF Add, OrderInv, Numbered
  <2>5. Placed'
    <3> SUFFICES ASSUME NEW k \in Queued', ~Rescored(k)' PROVE score'[k] = EnqueueScore(k)'
      BY DEF Placed
    <3>1. EnqueueScore(k)' = EnqueueScore(k) /\ ~Rescored(k)
      BY <1>2 DEF Add, EnqueueScore, Rescored
    <3> QED
      BY <3>1, <2>2 DEF OrderInv, Placed
  <2> QED
    BY <2>2, <2>3, <2>4, <2>5 DEF OrderInv
<1>3. ASSUME NEW j \in Jobs, Remove(j) PROVE OrderInv'
  <2>1. Queued' = Queued \ {j} /\ \A k \in Queued' : score'[k] = score[k]
    BY <1>3 DEF Remove, Queued
  <2>2. score' \in [Queued' -> Int] /\ Queued' \subseteq Jobs
    BY <1>3, <1>t, <2>1 DEF Remove, TypeOK
  <2>3. IsFiniteSet(Queued')
    BY <2>1, FS_Subset DEF OrderInv
  <2>4. TypeOK' /\ Numbered'
    BY <1>3, <1>t, <2>1, <2>2 DEF Remove, TypeOK, OrderInv, Numbered
  <2>5. Placed'
    BY <1>3, <2>1 DEF Remove, OrderInv, Placed, Rescored, EnqueueScore
  <2> QED
    BY <2>3, <2>4, <2>5 DEF OrderInv
<1>4. ASSUME NEW c \in Clients, NEW j \in Jobs, NEW t \in Jobs, MoveRank(c, j, t) PROVE OrderInv'
  <2>1. Rank(t) \in Nat
    <3>1. IsFiniteSet({k \in Queued : Ahead(k, t)})
      BY FS_Subset DEF OrderInv
    <3> QED
      BY <3>1, FS_CardinalityType DEF Rank
  <2>2. /\ move' \in [Clients -> MoveState] /\ \A d \in Clients \ {c} : move'[d] = move[d]
        /\ move'[c].pc = "score" /\ move'[c].job = j
    BY <1>4, <1>t, <2>1 DEF MoveRank, MoveState
  <2>3. moves' \in 0..MoveLimit
    BY <1>4, <1>t, <1>q DEF MoveRank, TypeOK
  <2>4. move[c].pc # "sug" /\ ticket[j] > 0 /\ UNCHANGED <<score, seq, ticket, pending, sug>>
    BY <1>4 DEF MoveRank
  <2> QED
    BY <2>2, <2>3, <2>4, MoveOnly
<1>5. ASSUME NEW c \in Clients, MoveScore(c) PROVE OrderInv'
  <2>1. move[c].pc = "score" /\ move[c].job \in Jobs /\ ticket[move[c].job] > 0
    BY <1>5 DEF MoveScore, OrderInv, Numbered
  <2>2. /\ move' \in [Clients -> MoveState] /\ \A d \in Clients \ {c} : move'[d] = move[d]
        /\ move'[c].pc \in {"idle", "add", "prev"}
        /\ move'[c].pc # "idle" => move'[c].job = move[c].job
    <3>1. CASE Return(c)
      BY <3>1, <1>t DEF Return, MoveIdle, MoveState
    <3>2. CASE move[c].target \in Queued /\ ~Return(c)
      <4>1. score[move[c].target] \in Int /\ score[move[c].target] - Gap * Unit \in Int
        BY <3>2, <1>t, QueueAssumption DEF TypeOK
      <4> QED
        BY <1>5, <3>2, <4>1, <1>t DEF MoveScore, MoveState
    <3> QED
      BY <1>5, <3>1, <3>2 DEF MoveScore
  <2>3. UNCHANGED <<score, seq, ticket, pending, sug>> /\ moves' \in 0..MoveLimit
    BY <1>5, <1>t DEF MoveScore, TypeOK
  <2> QED
    BY <2>1, <2>2, <2>3, MoveOnly
<1>6. ASSUME NEW c \in Clients, MovePrev(c) PROVE OrderInv'
  <2>1. move[c].pc = "prev" /\ move[c].job \in Jobs /\ ticket[move[c].job] > 0
    BY <1>6 DEF MovePrev, OrderInv, Numbered
  <2>2. /\ move' \in [Clients -> MoveState] /\ \A d \in Clients \ {c} : move'[d] = move[d]
        /\ move'[c].pc \in {"idle", "add"}
        /\ move'[c].pc # "idle" => move'[c].job = move[c].job
    <3>1. CASE Return(c)
      BY <3>1, <1>t DEF Return, MoveIdle, MoveState
    <3>2. ASSUME NEW k \in Queued,
                 move' = [move EXCEPT ![c].pc = "add", ![c].new = Midpoint(score[k], move[c].before)]
          PROVE  <2>2
      <4>1. score[k] \in Int /\ move[c].before \in Int
        BY <1>t DEF TypeOK, MoveState
      <4>2. Midpoint(score[k], move[c].before) \in Int
        BY <4>1 DEF Midpoint
      <4> QED
        BY <3>2, <4>2, <1>t DEF MoveState
    <3> QED
      BY <1>6, <3>1, <3>2 DEF MovePrev
  <2>3. UNCHANGED <<score, seq, ticket, pending, sug>> /\ moves' \in 0..MoveLimit
    BY <1>6, <1>t DEF MovePrev, TypeOK
  <2> QED
    BY <2>1, <2>2, <2>3, MoveOnly
<1>7. ASSUME NEW c \in Clients, MoveAdd(c) PROVE OrderInv'
  <2>1. move[c].job \in Jobs /\ ticket[move[c].job] > 0 /\ move[c].new \in Int
    BY <1>7, <1>t DEF MoveAdd, OrderInv, Numbered, MoveState
  <2>2. /\ Queued' = Queued \cup {move[c].job} /\ Queued' \subseteq Jobs
        /\ score' \in [Queued' -> Int] /\ IsFiniteSet(Queued')
        /\ \A k \in Queued \ {move[c].job} : score'[k] = score[k]
    BY <1>7, <2>1, ZAddKeeps DEF MoveAdd
  <2>3. /\ move' \in [Clients -> MoveState] /\ \A d \in Clients \ {c} : move'[d] = move[d]
        /\ move'[c].pc = "sug" /\ move'[c].job = move[c].job /\ move[c].pc = "add"
    BY <1>7, <1>t DEF MoveAdd, Goto, MoveState
  <2>4. TypeOK'
    BY <1>7, <1>t, <2>2, <2>3 DEF MoveAdd, TypeOK, MoveState
  <2>5. Numbered'
    BY <1>7, <2>1, <2>2, <2>3 DEF MoveAdd, OrderInv, Numbered
  <2>6. Placed'
    <3> SUFFICES ASSUME NEW k \in Queued', ~Rescored(k)' PROVE score'[k] = EnqueueScore(k)'
      BY DEF Placed
    <3>1. k # move[c].job
      BY <2>3 DEF Rescored
    <3>2. EnqueueScore(k)' = EnqueueScore(k) /\ ~Rescored(k)
      BY <1>7, <2>3 DEF MoveAdd, EnqueueScore, Rescored
    <3> QED
      BY <3>1, <3>2, <2>2 DEF OrderInv, Placed
  <2> QED
    BY <2>2, <2>4, <2>5, <2>6 DEF OrderInv
<1>8. ASSUME NEW c \in Clients, UpdateSug(c) PROVE OrderInv'
  <2>1. move[c].job \in Jobs
    BY <1>8 DEF UpdateSug, OrderInv, Numbered
  <2>2. /\ move' \in [Clients -> MoveState] /\ \A d \in Clients \ {c} : move'[d] = move[d]
        /\ move'[c].pc = "idle"
    BY <1>8, <1>t DEF UpdateSug, Return, MoveIdle, MoveState
  <2>3. Queued' = Queued
    BY <1>8 DEF UpdateSug, Queued
  <2>4. TypeOK' /\ Numbered'
    BY <1>8, <1>t, <2>1, <2>2, <2>3 DEF UpdateSug, TypeOK, OrderInv, Numbered, MoveState
  <2>5. Placed'
    BY <1>8, <2>2, <2>3 DEF UpdateSug, OrderInv, Placed, Rescored, EnqueueScore
  <2> QED
    BY <2>3, <2>4, <2>5 DEF OrderInv
<1>9. CASE UNCHANGED vars
  BY <1>9 DEF vars, OrderInv, TypeOK, Numbered, Placed, Rescored, EnqueueScore, Queued
<1> QED
  BY <1>1, <1>2, <1>3, <1>4, <1>5, <1>6, <1>7, <1>8, <1>9 DEF Next

-----------------------------------------------------------------------------

\* The queue is ordered by priority and submission, apart from the jobs that
\* administrators moved: with any jobs and priorities, any number of concurrent
\* moves and removals, as long as fewer than PriorityGap jobs were submitted.
THEOREM QueueOrdered == Spec => []PriorityOrder
<1>1. Spec => []OrderInv
  BY OrderInit, OrderStep, PTL DEF Spec
<1> QED
  BY <1>1, OrderFollows, PTL
=============================================================================
