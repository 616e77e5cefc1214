------------------------------- MODULE JobQueue -------------------------------
(***************************************************************************)
(* The scores behind the queue: Enqueue places a job by its user's         *)
(* priority and a sequence number, MoveBefore between two neighbours, and  *)
(* Redis orders the ZSET queue:jobs by score and then by the members'      *)
(* spelling.  Every Redis command is a step; Scheduler keeps only the      *)
(* order that results.  Scores are float64: here they lie on a grid of     *)
(* Unit points per whole number, and a midpoint is rounded to it.          *)
(***************************************************************************)
EXTENDS Integers, FiniteSets

CONSTANTS
  Jobs,
  Spelling,     \* Spelling[j]: rank of j's decimal spelling among the job ids
  Priority,     \* Priority[j]: the priority of the user who submits j
  MaxPriority,  \* 10
  Gap,          \* PriorityGap, 10^9
  Unit,         \* 1/ulp of a score: 2^19 for scores of about 10^10
  SeqLimit,     \* bound: submissions
  MoveLimit,    \* bound: MoveBefore requests
  Clients,      \* administrators that reorder at the same time
  Amid,         \* "add", "remove": what may overlap with a MoveBefore
  NoJob

ASSUME QueueAssumption ==
  /\ Spelling \in [Jobs -> Int] /\ \A j, k \in Jobs : Spelling[j] = Spelling[k] => j = k
  /\ MaxPriority \in Nat /\ Priority \in [Jobs -> 1..MaxPriority]
  /\ Gap \in Nat /\ Unit \in Nat \ {0} /\ SeqLimit \in Nat /\ MoveLimit \in Nat
  /\ SeqLimit < Gap
  /\ NoJob \notin Jobs

VARIABLES
  score,        \* Redis ZSET queue:jobs: score[j] for the jobs that are members
  seq,          \* Redis counter queue:seq
  ticket,       \* the number Enqueue drew for j, 0 before
  pending,      \* Enqueue calls between INCR and ZADD
  sug,          \* MySQL: jobs whose sug column says an administrator moved them
  move,         \* MoveBefore requests in flight
  moves         \* how many there have been

vars == <<score, seq, ticket, pending, sug, move, moves>>

Queued   == DOMAIN score
MoveIdle == [pc |-> "idle", job |-> NoJob, target |-> NoJob, rank |-> 0, before |-> 0, new |-> 0]

\* ZRANK: members ahead by score, or by spelling when the scores are equal.
Ahead(j, k) == score[j] < score[k] \/ (score[j] = score[k] /\ Spelling[j] < Spelling[k])
Rank(j)     == Cardinality({k \in Queued : Ahead(k, j)})

\* ZADD inserts the member or moves it.
ZAdd(j, x) == score' = [k \in Queued \cup {j} |-> IF k = j THEN x ELSE score[k]]

\* Nobody is in the middle of a MoveBefore, or this may happen there.
Allowed(what) == what \in Amid \/ \A c \in Clients : move[c].pc = "idle"

Init ==
  /\ score = [j \in {} |-> 0] /\ seq = 0 /\ moves = 0
  /\ ticket = [j \in Jobs |-> 0] /\ pending = {} /\ sug = {}
  /\ move = [c \in Clients |-> MoveIdle]

-----------------------------------------------------------------------------
(* Enqueue and Remove *)

\* INCR queue:seq; a job is submitted once.
NextSeq(j) ==
  /\ ticket[j] = 0 /\ seq < SeqLimit
  /\ seq' = seq + 1 /\ ticket' = [ticket EXCEPT ![j] = seq + 1]
  /\ pending' = pending \cup {j}
  /\ UNCHANGED <<score, sug, move, moves>>

\* Mutant: a higher priority makes a larger base.
EnqueueScoreInverted(j) == (Priority[j] * Gap + ticket[j]) * Unit

\* The higher the priority, the smaller the base.
EnqueueScore(j) == ((MaxPriority - Priority[j]) * Gap + ticket[j]) * Unit

Add(j) ==
  /\ j \in pending /\ Allowed("add")
  /\ ZAdd(j, EnqueueScore(j))
  /\ pending' = pending \ {j}
  /\ UNCHANGED <<seq, ticket, sug, move, moves>>

\* ZREM by the scheduler, by CancelJob or by RemoveJob.
Remove(j) ==
  /\ j \in Queued /\ Allowed("remove")
  /\ score' = [k \in Queued \ {j} |-> score[k]]
  /\ UNCHANGED <<seq, ticket, pending, sug, move, moves>>

-----------------------------------------------------------------------------
(* MoveBefore *)

Goto(c, pc) == move' = [move EXCEPT ![c].pc = pc]
Return(c)   == move' = [move EXCEPT ![c] = MoveIdle]

\* ZRANK of the target, an error when it is not queued.
MoveRank(c, j, t) ==
  /\ move[c].pc = "idle" /\ moves < MoveLimit /\ (pending = {} \/ "add" \in Amid)
  /\ ticket[j] > 0 /\ j \notin pending /\ t \in Queued
  /\ move' = [move EXCEPT ![c] = [pc |-> "score", job |-> j, target |-> t, rank |-> Rank(t),
                                  before |-> 0, new |-> 0]]
  /\ moves' = moves + 1
  /\ UNCHANGED <<score, seq, ticket, pending, sug>>

\* ZSCORE of the target; in front of the head the new score is one band lower.
MoveScore(c) ==
  LET t == move[c].target IN
  /\ move[c].pc = "score"
  /\ \/ t \notin Queued /\ Return(c)
     \/ /\ t \in Queued /\ move[c].rank = 0
        /\ move' = [move EXCEPT ![c].pc = "add", ![c].before = score[t], ![c].new = score[t] - Gap * Unit]
     \/ /\ t \in Queued /\ move[c].rank > 0
        /\ move' = [move EXCEPT ![c].pc = "prev", ![c].before = score[t]]
  /\ UNCHANGED <<score, seq, ticket, pending, sug, moves>>

\* Half of the sum, ties to even.
Midpoint(x, y) ==
  LET half == (x + y) \div 2 IN
  IF (x + y) % 2 = 0 \/ half % 2 = 0 THEN half ELSE half + 1

\* ZRANGE rank-1 rank-1; prevs[0] panics when the queue has become that short,
\* and the Recovery middleware turns the panic into a reply.
MovePrev(c) ==
  /\ move[c].pc = "prev"
  /\ \/ \E k \in Queued :
          /\ Rank(k) = move[c].rank - 1
          /\ move' = [move EXCEPT ![c].pc = "add", ![c].new = Midpoint(score[k], move[c].before)]
     \/ Cardinality(Queued) < move[c].rank /\ Return(c)
  /\ UNCHANGED <<score, seq, ticket, pending, sug, moves>>

\* ZADD, whether or not the job is a member by now.
MoveAdd(c) ==
  /\ move[c].pc = "add"
  /\ ZAdd(move[c].job, move[c].new)
  /\ Goto(c, "sug")
  /\ UNCHANGED <<seq, ticket, pending, sug, moves>>

UpdateSug(c) ==
  /\ move[c].pc = "sug"
  /\ sug' = sug \cup {move[c].job}
  /\ Return(c)
  /\ UNCHANGED <<score, seq, ticket, pending, moves>>

Next ==
  \/ \E j \in Jobs : NextSeq(j) \/ Add(j) \/ Remove(j)
  \/ \E c \in Clients :
       \/ \E j, t \in Jobs : MoveRank(c, j, t)
       \/ MoveScore(c) \/ MovePrev(c) \/ MoveAdd(c) \/ UpdateSug(c)

Spec == Init /\ [][Next]_vars

-----------------------------------------------------------------------------
(* Properties *)

\* Scores, numbers and requests in flight hold what Enqueue and MoveBefore write.
TypeOK ==
  /\ Queued \subseteq Jobs /\ score \in [Queued -> Int]
  /\ seq \in 0..SeqLimit /\ moves \in 0..MoveLimit
  /\ ticket \in [Jobs -> 0..SeqLimit]
  /\ pending \subseteq Jobs /\ sug \subseteq Jobs
  /\ move \in [Clients -> [pc : {"idle", "score", "prev", "add", "sug"},
                           job : Jobs \cup {NoJob}, target : Jobs \cup {NoJob},
                           rank : Nat, before : Int, new : Int]]

\* Nobody has moved j: its sug is unset and no MoveBefore of it is under way.
Untouched(j) == j \notin sug /\ \A c \in Clients : move[c].job # j

\* The queue is ordered by priority and, within a priority, by the order of the
\* submissions, for all jobs no administrator has moved -- however their ZADDs
\* are delayed and whatever is done to the jobs around them.
PriorityOrder ==
  \A j, k \in Queued :
    /\ Untouched(j) /\ Untouched(k)
    /\ \/ Priority[j] > Priority[k]
       \/ Priority[j] = Priority[k] /\ ticket[j] < ticket[k]
    => Ahead(j, k)

=============================================================================
