------------------------------- MODULE GpuCards -------------------------------
(***************************************************************************)
(* The GPU service over its two layers: the gpu_cards table decides, and   *)
(* the Redis keys gpu:status:<id> answer "busy" early.  A job's calls come *)
(* in the order the scheduler makes them -- check, acquire, hold, release, *)
(* then as another job with the same request -- and those of different     *)
(* jobs interleave at every MySQL transaction and every Redis pipeline.    *)
(***************************************************************************)
EXTENDS Integers, Sequences, FiniteSets

CONSTANTS
  Cards,      \* rows of gpu_cards
  CardIDs,    \* ids a request may name
  Jobs,
  GpuIDs,     \* GpuIDs[j]: the cardIDs list of job j
  Instances,  \* instances that run InitializeGpus while the others work
  Faults,     \* "RedisRead", "RedisWrite", "MySQL": the calls that may fail
  NoJob

ASSUME GpuAssumption ==
  /\ Cards \subseteq CardIDs /\ IsFiniteSet(Cards)
  /\ GpuIDs \in [Jobs -> Seq(CardIDs) \ {<<>>}]
  /\ NoJob \notin Jobs

VARIABLES
  owner,      \* MySQL: current_job_id, NoJob when status is idle
  cache,      \* Redis: "idle", "busy", or "none" when the key is missing
  call,       \* where the calls on behalf of a job stand
  sync        \* SyncGpuCards of a starting instance: cards left, card read, what it said

vars == <<owner, cache, call, sync>>

Wants(j) == {GpuIDs[j][i] : i \in DOMAIN GpuIDs[j]}
Goto(j, pc)      == call' = [call EXCEPT ![j] = [pc |-> pc, at |-> 1]]
Fails(kind)      == kind \in Faults
RowsIdle(j)      == {c \in Cards \cap Wants(j) : owner[c] = NoJob}
CountMatches(j)  == Cardinality(RowsIdle(j)) = Len(GpuIDs[j])

Init ==
  /\ owner = [c \in Cards |-> NoJob]
  /\ cache = [c \in CardIDs |-> "none"]
  /\ call = [j \in Jobs |-> [pc |-> "out", at |-> 1]]
  /\ sync = [i \in Instances |-> [todo |-> Cards, card |-> {}, said |-> "none"]]

-----------------------------------------------------------------------------
(* CheckAvailable *)

\* Mutant: a missing key counts as busy, as it did before the fix.
CacheSaysMissIsBusy(j) == IF \A c \in Wants(j) : cache[c] = "idle" THEN "idle" ELSE "busy"

\* One pipeline of HGETALLs; the first card that is not idle decides, and a
\* missing key is an error (redis.Nil), not an answer.
CacheSays(j) ==
  LET bad == {i \in DOMAIN GpuIDs[j] : cache[GpuIDs[j][i]] # "idle"} IN
  IF bad = {} THEN "idle"
  ELSE cache[GpuIDs[j][CHOOSE i \in bad : \A k \in bad : i <= k]]

CheckCache(j) ==
  /\ call[j].pc = "out"
  /\ \/ CacheSays(j) # "busy" /\ Goto(j, "checkRows")
     \/ CacheSays(j) = "busy" /\ UNCHANGED call
     \/ Fails("RedisRead") /\ Goto(j, "checkRows")
  /\ UNCHANGED <<owner, cache, sync>>

\* Mutant: any idle card among those asked for is enough.
CheckRowsAnyIdle(j) ==
  /\ call[j].pc = "checkRows"
  /\ IF RowsIdle(j) # {} THEN Goto(j, "acquire") ELSE Goto(j, "out")
  /\ UNCHANGED <<owner, cache, sync>>

\* SELECT count(*) WHERE id IN ? AND status = idle, compared with len(cardIDs).
CheckRows(j) ==
  /\ call[j].pc = "checkRows"
  /\ \/ CountMatches(j) /\ Goto(j, "acquire")
     \/ (~CountMatches(j) \/ Fails("MySQL")) /\ Goto(j, "out")
  /\ UNCHANGED <<owner, cache, sync>>

-----------------------------------------------------------------------------
(* AcquireCards and ReleaseCards *)

\* Mutant: the count is taken before the transaction, by CheckAvailable only.
AcquireRowsUnchecked(j) ==
  /\ call[j].pc = "acquire"
  /\ owner' = [c \in Cards |-> IF c \in Wants(j) THEN j ELSE owner[c]]
  /\ Goto(j, "setBusy")
  /\ UNCHANGED <<cache, sync>>

AcquireRows(j) ==
  /\ call[j].pc = "acquire"
  /\ \/ /\ CountMatches(j)
        /\ owner' = [c \in Cards |-> IF c \in Wants(j) THEN j ELSE owner[c]]
        /\ Goto(j, "setBusy")
     \/ (~CountMatches(j) \/ Fails("MySQL")) /\ UNCHANGED owner /\ Goto(j, "out")
  /\ UNCHANGED <<cache, sync>>

\* SetBusy or SetIdle for the next card of the list; its error is only logged.
WriteCache(j, pc, value, then) ==
  /\ call[j].pc = pc
  /\ \/ cache' = [cache EXCEPT ![GpuIDs[j][call[j].at]] = value]
     \/ Fails("RedisWrite") /\ UNCHANGED cache
  /\ IF call[j].at < Len(GpuIDs[j]) THEN call' = [call EXCEPT ![j].at = @ + 1] ELSE Goto(j, then)
  /\ UNCHANGED <<owner, sync>>

SetBusy(j) == WriteCache(j, "setBusy", "busy", "held")
SetIdle(j) == WriteCache(j, "setIdle", "idle", "out")

\* The UPDATE fails: the error is logged by the caller and nobody tries again.
ReleaseRows(j) ==
  /\ call[j].pc = "held"
  /\ \/ owner' = [c \in Cards |-> IF c \in Wants(j) THEN NoJob ELSE owner[c]] /\ Goto(j, "setIdle")
     \/ Fails("MySQL") /\ UNCHANGED owner /\ Goto(j, "out")
  /\ UNCHANGED <<cache, sync>>

-----------------------------------------------------------------------------
(* The keys' 24 h TTL, and SyncGpuCards at the start of an instance *)

Expire(c) ==
  /\ cache[c] # "none"
  /\ cache' = [cache EXCEPT ![c] = "none"]
  /\ UNCHANGED <<owner, call, sync>>

\* FindByUUID (a card it cannot read is skipped), then SetIdle or SetBusy with
\* what the row said.
SyncRead(i, c) ==
  /\ sync[i].card = {} /\ c \in sync[i].todo
  /\ \/ sync' = [sync EXCEPT ![i] = [todo |-> @.todo \ {c}, card |-> {c},
                                     said |-> IF owner[c] = NoJob THEN "idle" ELSE "busy"]]
     \/ Fails("MySQL") /\ sync' = [sync EXCEPT ![i].todo = @ \ {c}]
  /\ UNCHANGED <<owner, cache, call>>

SyncWrite(i, c) ==
  /\ c \in sync[i].card
  /\ sync' = [sync EXCEPT ![i].card = {}]
  /\ \/ cache' = [cache EXCEPT ![c] = sync[i].said]
     \/ Fails("RedisWrite") /\ UNCHANGED cache
  /\ UNCHANGED <<owner, call>>

CallNext(j) ==
  \/ CheckCache(j) \/ CheckRows(j) \/ AcquireRows(j) \/ SetBusy(j)
  \/ ReleaseRows(j) \/ SetIdle(j)

SyncNext(i) == \E c \in Cards : SyncRead(i, c) \/ SyncWrite(i, c)

Next ==
  \/ \E j \in Jobs : CallNext(j)
  \/ \E c \in CardIDs : Expire(c)
  \/ \E i \in Instances : SyncNext(i)

Spec == Init /\ [][Next]_vars

\* A key that is not rewritten expires, an instance that starts gets through its
\* sync, and the scheduler ticks: every job that waits is tried again, every
\* running one ends.
Fairness ==
  /\ \A j \in Jobs : WF_vars(CallNext(j))
  /\ \A c \in CardIDs : WF_vars(Expire(c))
  /\ \A i \in Instances : WF_vars(SyncNext(i))

FairSpec == Spec /\ Fairness

-----------------------------------------------------------------------------
(* Properties *)

\* Rows, keys and calls hold what the two repositories can write.
TypeOK ==
  /\ owner \in [Cards -> Jobs \cup {NoJob}]
  /\ cache \in [CardIDs -> {"none", "idle", "busy"}]
  /\ call \in [Jobs -> [pc : {"out", "checkRows", "acquire", "setBusy", "held", "setIdle"}, at : Nat \ {0}]]
  /\ sync \in [Instances -> [todo : SUBSET Cards, card : SUBSET Cards, said : {"none", "idle", "busy"}]]

granted == {j \in Jobs : call[j].pc = "acquire"}
Pool == INSTANCE CardPool

\* The service keeps the promise of CardPool, whatever Redis does: cards change
\* hands whole, and CheckAvailable says yes only to a job that could have them.
PoolKept == Pool!Spec

\* From the commit of Acquire to the UPDATE of Release every row a job asked for
\* is its own: no other job's acquisition or release touches them.
HolderOwns ==
  \A j \in Jobs : call[j].pc \in {"setBusy", "held"} =>
    Wants(j) \subseteq Cards /\ \A c \in Wants(j) : owner[c] = j

\* No job waits for ever in front of free cards: the cards a job asks for, and
\* keeps asking for, do not stay idle.
FreeCardsGetUsed ==
  \A j \in Jobs : Wants(j) \subseteq Cards => []<>(\E c \in Wants(j) : owner[c] # NoJob)
=============================================================================
