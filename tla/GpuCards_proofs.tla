---------------------------- MODULE GpuCards_proofs ----------------------------
(***************************************************************************)
(* GpuCards implements CardPool for every set of cards, jobs and requests, *)
(* whatever Redis and MySQL calls fail and however many instances start:   *)
(* the rows decide, the cache can only delay.                              *)
(***************************************************************************)
EXTENDS GpuCards, FiniteSetTheorems, SequenceTheorems, TLAPS

\* A count equal to the length of the request leaves no card out: they are
\* distinct rows of the table, and all of them are idle.
LEMMA CountMeansIdle ==
  ASSUME NEW j \in Jobs, CountMatches(j)
  PROVE  Wants(j) \subseteq Cards /\ \A c \in Wants(j) : owner[c] = NoJob
<1> DEFINE n == Len(GpuIDs[j])
<1>1. n \in Nat /\ GpuIDs[j] \in [1..n -> CardIDs]
  <2>1. GpuIDs[j] \in Seq(CardIDs)
    BY GpuAssumption
  <2> QED
    BY <2>1, LenProperties
<1>n. n = Len(GpuIDs[j])
  OBVIOUS
<1> HIDE DEF n
<1>2. IsFiniteSet(1..n) /\ Cardinality(1..n) = n
  <2>1. 1 \in Int /\ n \in Int /\ n >= 0
    BY <1>1
  <2> QED
    BY <2>1, FS_Interval
<1>3. IsFiniteSet(Wants(j)) /\ Cardinality(Wants(j)) <= n
  <2>1. GpuIDs[j] \in Surjection(1..n, Wants(j))
    BY <1>1 DEF Wants, Surjection
  <2> QED
    BY <2>1, <1>2, FS_Surjection
<1>4. RowsIdle(j) \subseteq Wants(j) /\ Cardinality(RowsIdle(j)) = n
  BY <1>n DEF RowsIdle, CountMatches
<1>5. RowsIdle(j) = Wants(j)
  BY <1>3, <1>4, <1>1, FS_Subset, FS_CardinalityType
<1> QED
  BY <1>5 DEF RowsIdle

-----------------------------------------------------------------------------
(* The inductive invariant: types, and who holds which rows. *)

PoolInv == TypeOK /\ HolderOwns

CallState == [pc : {"out", "checkRows", "acquire", "setBusy", "held", "setIdle"}, at : Nat \ {0}]

LEMMA GotoType ==
  ASSUME call \in [Jobs -> CallState], NEW j \in Jobs,
         NEW pc \in {"out", "checkRows", "acquire", "setBusy", "held", "setIdle"}, Goto(j, pc)
  PROVE  /\ call' \in [Jobs -> CallState]
         /\ call'[j].pc = pc
         /\ \A k \in Jobs \ {j} : call'[k] = call[k]
  BY DEF Goto, CallState

\* SetBusy and SetIdle move one job on along its list.
LEMMA WriteMoves ==
  ASSUME TypeOK, NEW j \in Jobs,
         NEW pc \in {"setBusy", "setIdle"}, NEW value \in {"idle", "busy"},
         NEW then \in {"held", "out"}, WriteCache(j, pc, value, then)
  PROVE  /\ TypeOK'
         /\ UNCHANGED owner
         /\ call[j].pc = pc /\ call'[j].pc \in {pc, then}
         /\ \A k \in Jobs \ {j} : call'[k] = call[k]
<1>c. call \in [Jobs -> CallState]
  BY DEF TypeOK, CallState
<1>1. cache' \in [CardIDs -> {"none", "idle", "busy"}]
  BY DEF WriteCache, TypeOK
<1>2. CASE call' = [call EXCEPT ![j].at = @ + 1]
  <2>1. /\ call' \in [Jobs -> CallState] /\ call'[j].pc = call[j].pc
        /\ \A k \in Jobs \ {j} : call'[k] = call[k]
    BY <1>2, <1>c DEF CallState
  <2> QED
    BY <1>1, <2>1 DEF WriteCache, TypeOK, CallState
<1>3. CASE Goto(j, then)
  <2>1. /\ call' \in [Jobs -> CallState] /\ call'[j].pc = then
        /\ \A k \in Jobs \ {j} : call'[k] = call[k]
    BY <1>3, <1>c, GotoType
  <2> QED
    BY <1>1, <2>1 DEF WriteCache, TypeOK, CallState
<1> QED
  BY <1>2, <1>3 DEF WriteCache

\* A starting instance and the keys' TTL touch neither rows nor calls.
LEMMA BackgroundMoves ==
  ASSUME TypeOK, \/ \E c \in CardIDs : Expire(c)
                 \/ \E i \in Instances : SyncNext(i)
  PROVE  TypeOK' /\ UNCHANGED <<owner, call>>
<1>1. ASSUME NEW c \in CardIDs, Expire(c)
      PROVE  TypeOK' /\ UNCHANGED <<owner, call>>
  BY <1>1 DEF Expire, TypeOK
<1>2. ASSUME NEW i \in Instances, NEW c \in Cards, SyncRead(i, c)
      PROVE  TypeOK' /\ UNCHANGED <<owner, call>>
  <2> DEFINE S == [todo : SUBSET Cards, card : SUBSET Cards, said : {"none", "idle", "busy"}]
  <2>1. sync \in [Instances -> S]
    BY DEF TypeOK
  <2>2. CASE sync' = [sync EXCEPT ![i] = [todo |-> @.todo \ {c}, card |-> {c},
                                          said |-> IF owner[c] = NoJob THEN "idle" ELSE "busy"]]
    BY <1>2, <2>1, <2>2 DEF SyncRead, TypeOK
  <2>3. CASE sync' = [sync EXCEPT ![i].todo = @ \ {c}]
    BY <1>2, <2>1, <2>3 DEF SyncRead, TypeOK
  <2> QED
    BY <1>2, <2>2, <2>3 DEF SyncRead
<1>3. ASSUME NEW i \in Instances, NEW c \in Cards, SyncWrite(i, c)
      PROVE  TypeOK' /\ UNCHANGED <<owner, call>>
  <2>1. sync[i].said \in {"none", "idle", "busy"}
    BY DEF TypeOK
  <2>2. cache' \in [CardIDs -> {"none", "idle", "busy"}]
    BY <1>3, <2>1 DEF SyncWrite, TypeOK
  <2>3. sync' \in [Instances -> [todo : SUBSET Cards, card : SUBSET Cards, said : {"none", "idle", "busy"}]]
    BY <1>3 DEF SyncWrite, TypeOK
  <2> QED
    BY <1>3, <2>2, <2>3 DEF SyncWrite, TypeOK
<1> QED
  BY <1>1, <1>2, <1>3 DEF SyncNext

\* One call of a job keeps the invariant and is a step of the pool, or none.
LEMMA CallStep ==
  ASSUME PoolInv, NEW j \in Jobs, CallNext(j)
  PROVE  PoolInv' /\ (Pool!Next \/ UNCHANGED <<owner, granted>>)
<1>c. call \in [Jobs -> CallState] /\ owner \in [Cards -> Jobs \cup {NoJob}]
  BY DEF PoolInv, TypeOK, CallState
<1>w. Pool!Wanted(j) = Wants(j)
  BY DEF Pool!Wanted, Wants
<1>n. j # NoJob
  BY GpuAssumption
<1>1. CASE CheckCache(j)
  <2>1. CASE call' = call
    BY <1>1, <2>1 DEF CheckCache, PoolInv, TypeOK, HolderOwns, granted
  <2>2. CASE Goto(j, "checkRows")
    <3>1. /\ call' \in [Jobs -> CallState] /\ call'[j].pc = "checkRows"
          /\ \A k \in Jobs \ {j} : call'[k] = call[k]
      BY <1>c, <2>2, GotoType
    <3>2. PoolInv'
      BY <1>1, <3>1 DEF CheckCache, PoolInv, TypeOK, HolderOwns, CallState
    <3>3. UNCHANGED <<owner, granted>>
      BY <1>1, <3>1 DEF CheckCache, granted
    <3> QED
      BY <3>2, <3>3
  <2> QED
    BY <1>1, <2>1, <2>2 DEF CheckCache
<1>2. CASE CheckRows(j)
  <2>1. CASE CountMatches(j) /\ Goto(j, "acquire")
    <3>1. /\ call' \in [Jobs -> CallState] /\ call'[j].pc = "acquire"
          /\ \A k \in Jobs \ {j} : call'[k] = call[k]
      BY <1>c, <2>1, GotoType
    <3>2. PoolInv'
      BY <1>2, <3>1 DEF CheckRows, PoolInv, TypeOK, HolderOwns, CallState
    <3>3. granted' = granted \cup {j}
      BY <3>1 DEF granted
    <3>4. Pool!Available(j)
      BY <2>1, <1>w, CountMeansIdle DEF Pool!Available
    <3>5. Pool!Say(j)
      BY <1>2, <3>3, <3>4 DEF CheckRows, Pool!Say
    <3> QED
      BY <3>2, <3>5 DEF Pool!Next
  <2>2. CASE Goto(j, "out")
    <3>1. /\ call' \in [Jobs -> CallState] /\ call'[j].pc = "out"
          /\ \A k \in Jobs \ {j} : call'[k] = call[k]
      BY <1>c, <2>2, GotoType
    <3>2. PoolInv'
      BY <1>2, <3>1 DEF CheckRows, PoolInv, TypeOK, HolderOwns, CallState
    <3>3. UNCHANGED <<owner, granted>>
      BY <1>2, <3>1 DEF CheckRows, granted
    <3> QED
      BY <3>2, <3>3
  <2> QED
    BY <1>2, <2>1, <2>2 DEF CheckRows
<1>3. CASE AcquireRows(j)
  <2>1. CASE /\ CountMatches(j)
             /\ owner' = [c \in Cards |-> IF c \in Wants(j) THEN j ELSE owner[c]]
             /\ Goto(j, "setBusy")
    <3>1. /\ call' \in [Jobs -> CallState] /\ call'[j].pc = "setBusy"
          /\ \A k \in Jobs \ {j} : call'[k] = call[k]
      BY <1>c, <2>1, GotoType
    <3>2. Wants(j) \subseteq Cards /\ \A c \in Wants(j) : owner[c] = NoJob
      BY <2>1, CountMeansIdle
    <3>3. TypeOK'
      BY <1>3, <1>c, <2>1, <3>1 DEF AcquireRows, PoolInv, TypeOK, CallState
    <3>4. HolderOwns'
      <4> SUFFICES ASSUME NEW k \in Jobs, call'[k].pc \in {"setBusy", "held"}
                   PROVE  Wants(k) \subseteq Cards /\ \A c \in Wants(k) : owner'[c] = k
        BY DEF HolderOwns, Wants
      <4>1. CASE k = j
        BY <4>1, <2>1, <3>2
      <4>2. CASE k # j
        <5>1. Wants(k) \subseteq Cards /\ \A c \in Wants(k) : owner[c] = k
          BY <4>2, <3>1 DEF PoolInv, HolderOwns
        <5>2. k # NoJob
          BY GpuAssumption
        <5> QED
          BY <5>1, <5>2, <3>2, <2>1
      <4> QED
        BY <4>1, <4>2
    <3>5. Pool!Acquire(j)
      <4>1. j \in granted /\ granted' = granted \ {j}
        BY <1>3, <3>1 DEF AcquireRows, granted
      <4>2. owner' = Pool!Assign(j, j)
        BY <2>1, <1>w DEF Pool!Assign
      <4> QED
        BY <4>1, <4>2, <3>2, <1>w DEF Pool!Acquire, Pool!Available
    <3> QED
      BY <3>3, <3>4, <3>5 DEF PoolInv, Pool!Next
  <2>2. CASE UNCHANGED owner /\ Goto(j, "out")
    <3>1. /\ call' \in [Jobs -> CallState] /\ call'[j].pc = "out"
          /\ \A k \in Jobs \ {j} : call'[k] = call[k]
      BY <1>c, <2>2, GotoType
    <3>2. PoolInv'
      BY <1>3, <2>2, <3>1 DEF AcquireRows, PoolInv, TypeOK, HolderOwns, CallState
    <3>3. granted' = granted \ {j}
      BY <3>1 DEF granted
    <3> QED
      BY <2>2, <3>2, <3>3 DEF Pool!Next, Pool!Forget
  <2> QED
    BY <1>3, <2>1, <2>2 DEF AcquireRows
<1>4. CASE SetBusy(j) \/ SetIdle(j)
  <2>1. /\ TypeOK' /\ UNCHANGED owner
        /\ \A k \in Jobs \ {j} : call'[k] = call[k]
        /\ \/ call[j].pc = "setBusy" /\ call'[j].pc \in {"setBusy", "held"}
           \/ call[j].pc = "setIdle" /\ call'[j].pc \in {"setIdle", "out"}
    BY <1>4, WriteMoves DEF SetBusy, SetIdle, PoolInv
  <2>2. HolderOwns'
    BY <2>1 DEF PoolInv, HolderOwns, Wants
  <2>3. UNCHANGED granted
    BY <2>1 DEF granted
  <2> QED
    BY <2>1, <2>2, <2>3 DEF PoolInv
<1>5. CASE ReleaseRows(j)
  <2>0. Wants(j) \subseteq Cards /\ \A c \in Wants(j) : owner[c] = j
    BY <1>5 DEF ReleaseRows, PoolInv, HolderOwns
  <2>1. CASE /\ owner' = [c \in Cards |-> IF c \in Wants(j) THEN NoJob ELSE owner[c]]
             /\ Goto(j, "setIdle")
    <3>1. /\ call' \in [Jobs -> CallState] /\ call'[j].pc = "setIdle"
          /\ \A k \in Jobs \ {j} : call'[k] = call[k]
      BY <1>c, <2>1, GotoType
    <3>2. TypeOK'
      BY <1>5, <1>c, <2>1, <3>1 DEF ReleaseRows, PoolInv, TypeOK, CallState
    <3>3. HolderOwns'
      <4> SUFFICES ASSUME NEW k \in Jobs, call'[k].pc \in {"setBusy", "held"}
                   PROVE  Wants(k) \subseteq Cards /\ \A c \in Wants(k) : owner'[c] = k
        BY DEF HolderOwns, Wants
      <4>1. k # j
        BY <3>1
      <4>2. Wants(k) \subseteq Cards /\ \A c \in Wants(k) : owner[c] = k
        BY <4>1, <3>1 DEF PoolInv, HolderOwns
      <4> QED
        BY <4>1, <4>2, <2>0, <2>1
    <3>4. Pool!Release(j)
      <4>1. UNCHANGED granted
        BY <1>5, <3>1 DEF ReleaseRows, granted
      <4>2. owner' = Pool!Assign(j, NoJob) /\ Pool!Assigned(j)
        BY <2>0, <2>1, <1>w DEF Pool!Assign, Pool!Assigned
      <4> QED
        BY <4>1, <4>2 DEF Pool!Release
    <3> QED
      BY <3>2, <3>3, <3>4 DEF PoolInv, Pool!Next
  <2>2. CASE UNCHANGED owner /\ Goto(j, "out")
    <3>1. /\ call' \in [Jobs -> CallState] /\ call'[j].pc = "out"
          /\ \A k \in Jobs \ {j} : call'[k] = call[k]
      BY <1>c, <2>2, GotoType
    <3>2. PoolInv'
      BY <1>5, <2>2, <3>1 DEF ReleaseRows, PoolInv, TypeOK, HolderOwns, CallState
    <3>3. UNCHANGED granted
      BY <1>5, <3>1 DEF ReleaseRows, granted
    <3> QED
      BY <2>2, <3>2, <3>3
  <2> QED
    BY <1>5, <2>1, <2>2 DEF ReleaseRows
<1> QED
  BY <1>1, <1>2, <1>3, <1>4, <1>5 DEF CallNext

LEMMA PoolInit == Init => PoolInv /\ Pool!Init
  BY DEF Init, PoolInv, TypeOK, HolderOwns, granted, Pool!Init

LEMMA PoolStep ==
  ASSUME PoolInv, [Next]_vars
  PROVE  PoolInv' /\ (Pool!Next \/ UNCHANGED <<owner, granted>>)
<1>1. CASE \E j \in Jobs : CallNext(j)
  BY <1>1, CallStep
<1>2. CASE \/ \E c \in CardIDs : Expire(c)
           \/ \E i \in Instances : SyncNext(i)
  <2>1. TypeOK' /\ UNCHANGED <<owner, call>>
    BY <1>2, BackgroundMoves DEF PoolInv
  <2> QED
    BY <2>1 DEF PoolInv, HolderOwns, granted, Wants
<1>3. CASE UNCHANGED vars
  BY <1>3 DEF vars, PoolInv, TypeOK, HolderOwns, granted, Wants
<1> QED
  BY <1>1, <1>2, <1>3 DEF Next

-----------------------------------------------------------------------------

\* Between AcquireCards and ReleaseCards a job owns every row it asked for, for
\* any cards, requests, failing calls and starting instances.
THEOREM HoldersOwn == Spec => []HolderOwns
<1>1. Spec => []PoolInv
  BY PoolInit, PoolStep, PTL DEF Spec
<1> QED
  BY <1>1, PTL DEF PoolInv

\* The GPU service implements the card pool: whatever the cache says and loses,
\* cards change hands whole, from idle to one job and back, and CheckAvailable
\* says yes only when all of a job's cards are idle.
THEOREM ServiceIsPool == Spec => PoolKept
<1>1. Init => PoolInv /\ Pool!Init
  BY PoolInit
<1>2. PoolInv /\ [Next]_vars => PoolInv' /\ [Pool!Next]_<<owner, granted>>
  BY PoolStep
<1> QED
  BY <1>1, <1>2, PTL DEF Spec, PoolKept, Pool!Spec
=============================================================================
