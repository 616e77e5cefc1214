----------------------------- MODULE Files_proofs -----------------------------
(***************************************************************************)
(* A file reported as completed is whole, for any number of uploads,       *)
(* requests, names and blocks.  The invariant follows a name from Create   *)
(* to the report: while nothing blurs it, one upload at most writes there, *)
(* the blocks behind its position are its own, and if the file was removed *)
(* under it the name is gone or is what unzip put there since.             *)
(***************************************************************************)
EXTENDS Files, TLAPS

Writing   == {"copy", "clean", "complete"}
Reporting == Writing \cup {"failed"}

Whole(n)  == \E u \in Uploads : \A b \in Block : dir[n][b] = u
HasReq(n) == \E b \in Block : dir[n][b] \in Reqs

UpState  == [pc : {"idle", "key", "client", "create", "copy", "clean", "failed",
                   "complete", "invalidate", "untemp"},
             block : 1 .. Blocks + 1, keyed : BOOLEAN, client : BOOLEAN]
ReqState == [pc : {"idle", "get", "read", "store", "stat", "rm", "verify", "absent",
                   "exec", "unzip", "invalidate"},
             name : Names \cup {NoName}, snap : (SUBSET Names) \cup {NoList}, client : BOOLEAN]

\* Where an upload stands in its file.
Positions ==
  \A u \in Uploads :
    /\ up[u].pc \in {"idle", "key", "client", "create"} => up[u].block = 1
    /\ up[u].pc = "copy" => up[u].block \in Block
    /\ up[u].pc = "complete" => up[u].block = Blocks + 1

\* An open file that was not removed is the one under its name.
LinkedThere == \A u \in linked : Target[u] \in Entries

\* One writer per name, unless it is blurred.
Solo ==
  \A u, v \in Uploads :
    Target[u] = Target[v] /\ Target[u] \notin blurred /\ up[u].pc \in Writing /\ up[v].pc \in Writing => u = v

\* The blocks behind the position of the writer are its own.
OwnBlocks ==
  \A u \in linked :
    Target[u] \notin blurred /\ up[u].pc \in {"copy", "complete"} =>
      \A b \in Block : b < up[u].block => dir[Target[u]][b] = u

\* What is under the name of a writer whose file was removed is unzip's.
Unlinked ==
  \A u \in Uploads \ linked :
    Target[u] \notin blurred /\ up[u].pc \in Writing => Target[u] \notin Entries \/ HasReq(Target[u])

Reported ==
  \A n \in Names :
    n \notin blurred \cup unsaid /\ progress[n] = "completed" /\ Unreported(n) = {} =>
      n \notin Entries \/ Whole(n) \/ HasReq(n)

FileInv == LinkedThere /\ Solo /\ OwnBlocks /\ Unlinked /\ Reported
FilesInv == TypeOK /\ Positions /\ FileInv /\ ListTrue

-----------------------------------------------------------------------------
(* Types and positions *)

LEMMA BlocksThere == 1 \in Block /\ Blocks \in Nat /\ Blocks + 1 \in 1 .. Blocks + 1 /\ 1 \in 1 .. Blocks + 1
<1>1. Blocks \in Nat /\ Blocks >= 1
  BY FilesAssumption
<1> QED  BY <1>1 DEF Block

LEMMA IdleTyped == UpIdle \in UpState /\ ReqIdle \in ReqState
BY BlocksThere DEF UpIdle, UpState, ReqIdle, ReqState

LEMMA Typed ==
  ASSUME TypeOK
  PROVE  up \in [Uploads -> UpState] /\ req \in [Reqs -> ReqState]
BY DEF TypeOK, UpState, ReqState

LEMMA EmptyTyped == [b \in Block |-> Nobody] \in Content /\ NoFile \notin Content
BY BlocksThere, FilesAssumption DEF Content, NoFile

LEMMA LookupTyped ==
  ASSUME TypeOK, NEW works \in BOOLEAN, Lookup(works)
  PROVE  conn' \in {"up", "broken", "none"} /\ vouched' \in BOOLEAN
BY DEF TypeOK, Lookup

\* Moving one upload on.
LEMMA UpTyped ==
  ASSUME up \in [Uploads -> UpState], NEW u \in Uploads,
         NEW pc \in {"idle", "key", "client", "create", "copy", "clean", "failed",
                     "complete", "invalidate", "untemp"}
  PROVE  /\ [up EXCEPT ![u].pc = pc] \in [Uploads -> UpState]
         /\ \A b \in 1 .. Blocks + 1 : [up EXCEPT ![u].block = b, ![u].pc = pc] \in [Uploads -> UpState]
BY DEF UpState

LEMMA ReqTyped ==
  ASSUME req \in [Reqs -> ReqState], NEW r \in Reqs,
         NEW pc \in {"idle", "get", "read", "store", "stat", "rm", "verify", "absent",
                     "exec", "unzip", "invalidate"}
  PROVE  ReqGoto(r, pc) => req' \in [Reqs -> ReqState]
<1>1. [req[r] EXCEPT !.pc = pc] \in ReqState
  BY DEF ReqState
<1> QED  BY <1>1, IdleTyped DEF ReqGoto

LEMMA ReportTyped ==
  ASSUME TypeOK, NEW u \in Uploads, NEW st \in {"uploading", "completed", "failed"}, Report(u, st)
  PROVE  /\ progress' \in [Names -> {"none", "uploading", "completed", "failed"}]
         /\ \A n \in Names : progress'[n] = progress[n] \/ (n = Target[u] /\ progress'[n] = st)
BY FilesAssumption DEF TypeOK, Report

\* After the last report the name shows how the upload ended, or is unsaid.
LEMMA FinalTyped ==
  ASSUME TypeOK, NEW u \in Uploads, NEW st \in {"completed", "failed"}, FinalReport(u, st)
  PROVE  /\ progress' \in [Names -> {"none", "uploading", "completed", "failed"}] /\ unsaid' \subseteq Names
         /\ \A n \in Names : n # Target[u] => progress'[n] = progress[n] /\ (n \in unsaid' <=> n \in unsaid)
         /\ progress'[Target[u]] = st \/ Target[u] \in unsaid'
<1>1. Report(u, st) /\ Target[u] \in Names /\ unsaid \subseteq Names
  BY FilesAssumption DEF FinalReport, TypeOK
<1>2. unsaid' = IF progress'[Target[u]] = st THEN unsaid \ {Target[u]} ELSE unsaid \cup {Target[u]}
  BY DEF FinalReport
<1> QED  BY <1>1, <1>2, ReportTyped

\* A block goes into a file that is there.
LEMMA WriteTyped ==
  ASSUME TypeOK, NEW n \in Entries, NEW b \in Block, NEW w \in Uploads \cup Reqs,
         dir' = [dir EXCEPT ![n][b] = w]
  PROVE  /\ dir' \in [Names -> Content \cup {NoFile}]
         /\ dir'[n] \in Content /\ dir'[n] = [dir[n] EXCEPT ![b] = w]
         /\ \A m \in Names : m # n => dir'[m] = dir[m]
<1>1. n \in Names /\ dir \in [Names -> Content \cup {NoFile}] /\ dir[n] \in Content
  BY DEF Entries, TypeOK
<1>2. [dir[n] EXCEPT ![b] = w] \in Content
  BY <1>1 DEF Content
<1> QED  BY <1>1, <1>2

LEMMA UpTypeStep ==
  ASSUME TypeOK, Positions, LinkedThere, NEW u \in Uploads, UploadFile(u) \/ UpContinue(u)
  PROVE  TypeOK'
<1> USE DEF session, server, redis, cached, shown
<1>t. up \in [Uploads -> UpState] /\ Target[u] \in Names /\ up[u].block \in 1 .. Blocks + 1
  BY Typed, FilesAssumption DEF UpState
<1>1. CASE UploadFile(u)
  <2>1. up' \in [Uploads -> UpState]  BY <1>1, <1>t, UpTyped DEF UploadFile, UpGoto
  <2> QED  BY <1>1, <2>1 DEF UploadFile, TypeOK, UpState
<1>2. CASE UpKey(u)
  <2>1. up' \in [Uploads -> UpState]
    <3>1. CASE UpGoto(u, "client")  BY <3>1, <1>t, UpTyped DEF UpGoto
    <3>2. CASE up' = [up EXCEPT ![u].pc = "client", ![u].keyed = FALSE]  BY <3>2, <1>t DEF UpState
    <3> QED  BY <1>2, <3>1, <3>2 DEF UpKey
  <2>2. conn' \in {"up", "broken", "none"} /\ vouched' \in BOOLEAN
    BY <1>2, LookupTyped DEF UpKey, SessionFails, TypeOK
  <2> QED  BY <1>2, <2>1, <2>2 DEF UpKey, TypeOK, UpState
<1>3. CASE UpClient(u)
  <2>1. up' \in [Uploads -> UpState]
    <3>1. CASE UpGoto(u, "failed")  BY <3>1, <1>t, UpTyped DEF UpGoto
    <3>2. CASE \E works \in BOOLEAN : up' = [up EXCEPT ![u].pc = "create", ![u].client = works]
      BY <3>2, <1>t DEF UpState
    <3> QED  BY <1>3, <3>1, <3>2 DEF UpClient
  <2>2. conn' \in {"up", "broken", "none"} /\ vouched' \in BOOLEAN
    BY <1>3, LookupTyped DEF UpClient, SessionFails, TypeOK
  <2> QED  BY <1>3, <2>1, <2>2 DEF UpClient, TypeOK, UpState
<1>4. CASE UpCreate(u)
  <2>1. up' \in [Uploads -> UpState]
    <3>1. CASE UpGoto(u, "copy")  BY <3>1, <1>t, UpTyped DEF UpGoto
    <3>2. CASE UpGoto(u, "failed")  BY <3>2, <1>t, UpTyped DEF UpGoto
    <3> QED  BY <1>4, <3>1, <3>2 DEF UpCreate
  <2>2. dir' \in [Names -> Content \cup {NoFile}]  BY <1>4, <1>t, EmptyTyped DEF UpCreate, TypeOK
  <2>3. blurred' \subseteq Names /\ linked' \subseteq Uploads /\ unsaid' \subseteq Names
    BY <1>4, <1>t DEF UpCreate, TypeOK
  <2> QED  BY <1>4, <2>1, <2>2, <2>3 DEF UpCreate, TypeOK, UpState
<1>5. CASE UpCopy(u)
  <2>b. up[u].block \in Block /\ up[u].block + 1 \in 1 .. Blocks + 1
    BY <1>5, BlocksThere DEF UpCopy, UpAt, Positions, Block
  <2>1. up' \in [Uploads -> UpState]
    <3>1. CASE UpGoto(u, "clean")
      BY <3>1, <1>t, UpTyped DEF UpGoto
    <3>2. CASE up' = [up EXCEPT ![u].block = up[u].block + 1,
                                ![u].pc = IF up[u].block < Blocks THEN "copy" ELSE "complete"]
      BY <3>2, <2>b, <1>t, UpTyped
    <3> QED  BY <1>5, <3>1, <3>2 DEF UpCopy
  <2>2. dir' \in [Names -> Content \cup {NoFile}]
    <3>1. CASE dir' = dir  BY <3>1 DEF TypeOK
    <3>2. CASE u \in linked /\ dir' = [dir EXCEPT ![Target[u]][up[u].block] = u]
      <4>1. Target[u] \in Entries  BY <3>2 DEF LinkedThere
      <4> QED  BY <3>2, <4>1, <2>b, WriteTyped
    <3> QED  BY <1>5, <3>1, <3>2 DEF UpCopy
  <2>3. progress' \in [Names -> {"none", "uploading", "completed", "failed"}]
    BY <1>5, ReportTyped DEF UpCopy, TypeOK
  <2> QED  BY <1>5, <2>1, <2>2, <2>3 DEF UpCopy, TypeOK, UpState
<1>6. CASE UpClean(u)
  <2>1. up' \in [Uploads -> UpState]  BY <1>6, <1>t, UpTyped DEF UpClean, UpGoto
  <2>2. dir' \in [Names -> Content \cup {NoFile}] /\ linked' \subseteq Uploads
    BY <1>6 DEF UpClean, TypeOK
  <2> QED  BY <1>6, <2>1, <2>2 DEF UpClean, TypeOK, UpState
<1>7. CASE UpFailed(u) \/ UpComplete(u)
  <2>1. up' \in [Uploads -> UpState]
    <3>1. CASE UpGoto(u, "untemp")  BY <3>1, <1>t, UpTyped DEF UpGoto
    <3>2. CASE UpGoto(u, "invalidate")  BY <3>2, <1>t, UpTyped DEF UpGoto
    <3> QED  BY <1>7, <3>1, <3>2 DEF UpFailed, UpComplete
  <2>2. progress' \in [Names -> {"none", "uploading", "completed", "failed"}] /\ unsaid' \subseteq Names
    BY <1>7, FinalTyped DEF UpFailed, UpComplete
  <2>3. list' = list /\ late' \in BOOLEAN
    BY <1>7 DEF UpFailed, UpComplete, Missed, TypeOK
  <2> QED  BY <1>7, <2>1, <2>2, <2>3 DEF UpFailed, UpComplete, TypeOK, UpState
<1>8. CASE UpInvalidate(u)
  <2>1. up' \in [Uploads -> UpState]  BY <1>8, <1>t, UpTyped DEF UpInvalidate, UpGoto
  <2>2. list' \in (SUBSET Names) \cup {NoList} /\ late' \in BOOLEAN
    BY <1>8 DEF UpInvalidate, Invalidate, Missed, TypeOK
  <2> QED  BY <1>8, <2>1, <2>2 DEF UpInvalidate, TypeOK, UpState
<1>9. CASE UpUntemp(u)
  <2>1. up' \in [Uploads -> UpState]  BY <1>9, <1>t, IdleTyped DEF UpUntemp
  <2> QED  BY <1>9, <2>1 DEF UpUntemp, TypeOK, UpState
<1> QED  BY <1>1, <1>2, <1>3, <1>4, <1>5, <1>6, <1>7, <1>8, <1>9 DEF UpContinue

LEMMA ReqTypeStep ==
  ASSUME TypeOK, NEW r \in Reqs, ReqContinue(r)
  PROVE  TypeOK'
<1> USE DEF session, server, redis, cached, shown
<1>t. /\ req \in [Reqs -> ReqState] /\ Entries \in SUBSET Names /\ req[r] \in ReqState
      /\ req[r].snap \in (SUBSET Names) \cup {NoList}
  BY Typed DEF Entries, ReqState
<1>1. CASE ListGet(r) \/ UnzipExec(r)
  <2>1. req' \in [Reqs -> ReqState]
    <3>1. CASE ReqGoto(r, "idle")  BY <3>1, <1>t, ReqTyped
    <3>2. ASSUME NEW pc \in {"read", "unzip"}, NewClient(r, pc)
          PROVE  req' \in [Reqs -> ReqState]
      <4>1. PICK works \in BOOLEAN : req' = [req EXCEPT ![r].pc = pc, ![r].client = works]
        BY <3>2 DEF NewClient
      <4>2. CASE pc = "read"  BY <4>1, <4>2, <1>t DEF ReqState
      <4>3. CASE pc = "unzip"  BY <4>1, <4>3, <1>t DEF ReqState
      <4> QED  BY <4>2, <4>3
    <3> QED  BY <1>1, <3>1, <3>2 DEF ListGet, UnzipExec
  <2>2. conn' \in {"up", "broken", "none"} /\ vouched' \in BOOLEAN
    BY <1>1, LookupTyped DEF ListGet, UnzipExec, NewClient, SessionFails, TypeOK
  <2> QED  BY <1>1, <2>1, <2>2 DEF ListGet, UnzipExec, TypeOK, ReqState
<1>2. CASE ListRead(r) \/ DelStat(r) \/ DelVerify(r) \/ UnzipStat(r)
  <2>1. req' \in [Reqs -> ReqState]
    <3>1. CASE \E pc \in {"idle", "rm", "invalidate", "exec"} : ReqGoto(r, pc)  BY <3>1, <1>t, ReqTyped
    <3>2. CASE req' = [req EXCEPT ![r].pc = "store", ![r].snap = Entries]
      BY <3>2, <1>t DEF ReqState
    <3> QED  BY <1>2, <3>1, <3>2 DEF ListRead, DelStat, DelVerify, UnzipStat
  <2>2. late' \in BOOLEAN
    BY <1>2 DEF ListRead, DelStat, DelVerify, UnzipStat, Missed, TypeOK
  <2> QED  BY <1>2, <2>1, <2>2 DEF ListRead, DelStat, DelVerify, UnzipStat, TypeOK, ReqState
<1>3. CASE ListStore(r) \/ ReqInvalidate(r)
  <2>1. req' \in [Reqs -> ReqState]
    BY <1>3, <1>t, ReqTyped DEF ListStore, ReqInvalidate
  <2>2. list' \in (SUBSET Names) \cup {NoList} /\ late' \in BOOLEAN
    BY <1>3, <1>t DEF ListStore, ReqInvalidate, Invalidate, Missed, TypeOK
  <2> QED  BY <1>3, <2>1, <2>2 DEF ListStore, ReqInvalidate, TypeOK, ReqState
<1>4. CASE DelRm(r)
  <2>1. req' \in [Reqs -> ReqState]  BY <1>4, <1>t, ReqTyped DEF DelRm
  <2>2. conn' \in {"up", "broken", "none"} /\ vouched' \in BOOLEAN
    BY <1>4, LookupTyped DEF DelRm, SessionFails, TypeOK
  <2>3. dir' \in [Names -> Content \cup {NoFile}] /\ linked' \subseteq Uploads /\ late' \in BOOLEAN
    BY <1>4 DEF DelRm, TypeOK
  <2> QED  BY <1>4, <2>1, <2>2, <2>3 DEF DelRm, TypeOK, ReqState
<1>5. CASE Unzip(r)
  <2>1. req' \in [Reqs -> ReqState]  BY <1>5, <1>t, ReqTyped DEF Unzip, TypeOK
  <2>2. dir' \in [Names -> Content \cup {NoFile}]
    <3>1. CASE dir' = dir  BY <3>1 DEF TypeOK
    <3>2. CASE \E b \in Missing(req[r].name) :
                 dir' = [dir EXCEPT ![req[r].name] = [a \in Block |->
                           IF a = b THEN r ELSE IF req[r].name \in Entries THEN dir[req[r].name][a] ELSE Nobody]]
      <4> DEFINE n == req[r].name
      <4>1. PICK b \in Missing(n) :
              dir' = [dir EXCEPT ![n] = [a \in Block |->
                        IF a = b THEN r ELSE IF n \in Entries THEN dir[n][a] ELSE Nobody]]
        BY <3>2
      <4>2. n \in Entries => dir[n] \in Content  BY DEF Entries, TypeOK
      <4>3. [a \in Block |-> IF a = b THEN r ELSE IF n \in Entries THEN dir[n][a] ELSE Nobody] \in Content
        BY <4>2 DEF Content
      <4> QED  BY <4>1, <4>3 DEF TypeOK
    <3> QED  BY <1>5, <3>1, <3>2 DEF Unzip
  <2>3. late' \in BOOLEAN  BY <1>5 DEF Unzip, Missed, TypeOK
  <2> QED  BY <1>5, <2>1, <2>2, <2>3 DEF Unzip, TypeOK, ReqState
<1> QED  BY <1>1, <1>2, <1>3, <1>4, <1>5 DEF ReqContinue

LEMMA DropTyped ==
  ASSUME TypeOK, NEW st \in {"broken", "none"}, Drop(st)
  PROVE  /\ TypeOK'
         /\ \A u \in Uploads : up'[u].pc = up[u].pc /\ up'[u].block = up[u].block /\ up'[u].keyed = up[u].keyed
<1>1. up \in [Uploads -> UpState] /\ req \in [Reqs -> ReqState]  BY Typed
<1>2. \A u \in Uploads : [up[u] EXCEPT !.client = FALSE] \in UpState  BY <1>1 DEF UpState
<1>3. \A r \in Reqs : [req[r] EXCEPT !.client = FALSE] \in ReqState  BY <1>1 DEF ReqState
<1>4. up' \in [Uploads -> UpState] /\ req' \in [Reqs -> ReqState]  BY <1>2, <1>3 DEF Drop
<1>5. TypeOK'  BY <1>4 DEF Drop, TypeOK, UpState, ReqState, server, redis, cached, shown
<1>6. ASSUME NEW u \in Uploads
      PROVE  up'[u].pc = up[u].pc /\ up'[u].block = up[u].block /\ up'[u].keyed = up[u].keyed
  <2>1. up'[u] = [up[u] EXCEPT !.client = FALSE] /\ up[u] \in UpState  BY <1>1 DEF Drop
  <2> QED  BY <2>1 DEF UpState
<1> QED  BY <1>5, <1>6

LEMMA BeginTyped ==
  ASSUME TypeOK, NEW r \in Reqs, NEW pc \in {"get", "stat", "absent"}, NEW n \in Names \cup {NoName}, Begin(r, pc, n)
  PROVE  TypeOK'
<1>1. PICK works \in BOOLEAN :
        /\ Lookup(works)
        /\ req' = [req EXCEPT ![r] = [ReqIdle EXCEPT !.pc = pc, !.name = n, !.client = works]]
  BY DEF Begin
<1>2. [ReqIdle EXCEPT !.pc = pc, !.name = n, !.client = works] \in ReqState
  BY DEF ReqIdle, ReqState
<1>3. req' \in [Reqs -> ReqState]  BY <1>1, <1>2, Typed
<1> QED  BY <1>1, <1>3, LookupTyped DEF Begin, TypeOK, ReqState, server, redis, cached, shown

LEMMA TypeStep ==
  ASSUME TypeOK, Positions, LinkedThere, [Next]_vars
  PROVE  TypeOK'
<1>1. CASE UNCHANGED vars
  BY <1>1 DEF vars, TypeOK, session, server, redis, cached, shown
<1>2. CASE VouchExpires
  BY <1>2 DEF VouchExpires, TypeOK, server, redis, cached, shown
<1>3. CASE ListExpire \/ \E n \in Names : ProgressExpire(n)
  BY <1>3 DEF ListExpire, ProgressExpire, TypeOK, session, server, cached, shown
<1>4. CASE \E r \in Reqs : Begin(r, "get", NoName) \/ \E n \in Names, pc \in {"stat", "absent"} : Begin(r, pc, n)
  BY <1>4, BeginTyped
<1> QED  BY <1>1, <1>2, <1>3, <1>4, DropTyped, UpTypeStep, ReqTypeStep DEF Next

-----------------------------------------------------------------------------
(* What a step does to the uploads *)

\* u is at pc with its position and key as before; the others stay.
Moved(u, pc) ==
  /\ up'[u].pc = pc /\ up'[u].block = up[u].block /\ up'[u].keyed = up[u].keyed
  /\ \A v \in Uploads : v # u => up'[v] = up[v]

LEMMA GotoMoves ==
  ASSUME TypeOK, NEW u \in Uploads, NEW pc, UpGoto(u, pc)
  PROVE  Moved(u, pc)
<1>1. up \in [Uploads -> UpState]  BY Typed
<1> QED  BY <1>1 DEF UpGoto, Moved, UpState

LEMMA ClientMoves ==
  ASSUME TypeOK, NEW u \in Uploads, UpClient(u)
  PROVE  \E pc \in {"create", "failed"} : Moved(u, pc)
<1>1. up \in [Uploads -> UpState]  BY Typed
<1>2. ASSUME NEW works \in BOOLEAN, up' = [up EXCEPT ![u].pc = "create", ![u].client = works]
      PROVE  Moved(u, "create")
  BY <1>1, <1>2 DEF Moved, UpState
<1> QED  BY <1>2, GotoMoves DEF UpClient

\* A block is copied, or the copy ends with an error.
CopyWrites(u) ==
  /\ up[u].pc = "copy" /\ up[u].block \in Block
  /\ dir' = IF u \in linked THEN [dir EXCEPT ![Target[u]][up[u].block] = u] ELSE dir
  /\ up'[u].block = up[u].block + 1 /\ up'[u].keyed = up[u].keyed
  /\ up'[u].pc = IF up[u].block < Blocks THEN "copy" ELSE "complete"
  /\ \A v \in Uploads : v # u => up'[v] = up[v]

LEMMA CopyMoves ==
  ASSUME TypeOK, Positions, NEW u \in Uploads, UpCopy(u)
  PROVE  (Moved(u, "clean") /\ up[u].pc = "copy" /\ dir' = dir /\ progress' = progress) \/ CopyWrites(u)
<1>1. up \in [Uploads -> UpState] /\ up[u].pc = "copy" /\ up[u].block \in Block
  BY Typed DEF UpCopy, UpAt, Positions
<1>2. CASE /\ dir' = IF u \in linked THEN [dir EXCEPT ![Target[u]][up[u].block] = u] ELSE dir
           /\ up' = [up EXCEPT ![u].block = up[u].block + 1,
                               ![u].pc = IF up[u].block < Blocks THEN "copy" ELSE "complete"]
  <2>1. /\ up'[u].block = up[u].block + 1 /\ up'[u].keyed = up[u].keyed
        /\ up'[u].pc = IF up[u].block < Blocks THEN "copy" ELSE "complete"
        /\ \A v \in Uploads : v # u => up'[v] = up[v]
    BY <1>1, <1>2 DEF UpState
  <2> QED  BY <1>1, <1>2, <2>1 DEF CopyWrites
<1>3. CASE UpGoto(u, "clean") /\ UNCHANGED <<dir, progress>>
  BY <1>1, <1>3, GotoMoves
<1> QED  BY <1>2, <1>3 DEF UpCopy

\* The uploads stay where they are.
Stay == \A v \in Uploads : up'[v].pc = up[v].pc /\ up'[v].block = up[v].block /\ up'[v].keyed = up[v].keyed

\* Nothing the file invariants speak of changes.
Still == Stay /\ UNCHANGED <<dir, linked, blurred, shown>>

LEMMA NextCases ==
  ASSUME TypeOK, [Next]_vars
  PROVE  \/ Still
         \/ \E n \in Names : ProgressExpire(n)
         \/ \E u \in Uploads : UploadFile(u) \/ UpContinue(u)
         \/ \E r \in Reqs : DelRm(r) \/ Unzip(r)
<1>1. CASE UNCHANGED vars \/ VouchExpires \/ ListExpire
  BY <1>1 DEF vars, VouchExpires, ListExpire, Still, Stay, server, session, redis
<1>2. CASE \E st \in {"broken", "none"} : Drop(st)
  BY <1>2, DropTyped DEF Drop, Still, Stay, server, redis
<1>3. CASE \E r \in Reqs : Begin(r, "get", NoName) \/ \E n \in Names, pc \in {"stat", "absent"} : Begin(r, pc, n)
  BY <1>3 DEF Begin, Still, Stay, server, redis
<1>4. CASE \E r \in Reqs : ReqContinue(r)
  <2>1. PICK r \in Reqs : ReqContinue(r)  BY <1>4
  <2>2. CASE DelRm(r) \/ Unzip(r)  BY <2>2
  <2>3. CASE \/ ListGet(r) \/ ListRead(r) \/ ListStore(r) \/ DelStat(r) \/ DelVerify(r)
             \/ UnzipStat(r) \/ UnzipExec(r) \/ ReqInvalidate(r)
    BY <2>3 DEF ListGet, ListRead, ListStore, DelStat, DelVerify, UnzipStat, UnzipExec, ReqInvalidate,
                Still, Stay, server, redis
  <2> QED  BY <2>1, <2>2, <2>3 DEF ReqContinue
<1> QED  BY <1>1, <1>2, <1>3, <1>4 DEF Next

LEMMA DeleteStays ==
  ASSUME NEW r \in Reqs, DelRm(r) \/ Unzip(r)
  PROVE  Stay /\ UNCHANGED <<blurred, progress, unsaid>>
BY DEF DelRm, Unzip, Stay, shown

LEMMA PositionsStep ==
  ASSUME TypeOK, Positions, [Next]_vars
  PROVE  Positions'
<1>1. CASE Stay
  BY <1>1 DEF Stay, Positions
<1>2. ASSUME NEW u \in Uploads, UploadFile(u) \/ UpContinue(u)
      PROVE  Positions'
  <2>t. up \in [Uploads -> UpState] /\ Target[u] \in Names  BY Typed, FilesAssumption
  <2>1. CASE UploadFile(u)
    <3>1. Moved(u, "key") /\ up[u].pc = "idle"
      BY <2>1, GotoMoves DEF UploadFile, UpAt, server
    <3> QED  BY <3>1 DEF Moved, Positions
  <2>2. CASE UpKey(u)
    <3>1. CASE UpGoto(u, "client")
      <4>1. Moved(u, "client") /\ up[u].pc = "key"  BY <2>2, <3>1, GotoMoves DEF UpKey, UpAt
      <4> QED  BY <3>1, <4>1 DEF Moved, Positions
    <3>2. CASE up' = [up EXCEPT ![u].pc = "client", ![u].keyed = FALSE]
      <4>1. /\ up'[u].pc = "client" /\ up'[u].block = up[u].block /\ up[u].pc = "key"
            /\ \A v \in Uploads : v # u => up'[v] = up[v]
        BY <2>2, <3>2, <2>t DEF UpKey, UpAt, UpState
      <4> QED  BY <3>2, <4>1 DEF Positions
    <3> QED  BY <2>2, <3>1, <3>2 DEF UpKey
  <2>3. CASE UpClient(u)
    <3>1. PICK pc \in {"create", "failed"} : Moved(u, pc)  BY <2>3, ClientMoves
    <3>2. up[u].pc = "client"  BY <2>3 DEF UpClient, UpAt, server
    <3> QED  BY <3>1, <3>2 DEF Moved, Positions
  <2>4. CASE UpCreate(u)
    <3>1. PICK pc \in {"copy", "failed"} : Moved(u, pc)  BY <2>4, GotoMoves DEF UpCreate
    <3>2. up[u].pc = "create"  BY <2>4 DEF UpCreate, UpAt, server
    <3> QED  BY <3>1, <3>2, BlocksThere DEF Moved, Positions
  <2>5. CASE UpCopy(u)
    <3>1. CASE Moved(u, "clean")
      BY <3>1 DEF Moved, Positions
    <3>2. CASE CopyWrites(u)
      BY <3>2, BlocksThere DEF CopyWrites, Positions, Block
    <3> QED  BY <2>5, <3>1, <3>2, CopyMoves
  <2>6. CASE UpClean(u) \/ UpFailed(u) \/ UpComplete(u) \/ UpInvalidate(u)
    <3>1. \E pc \in {"failed", "untemp", "invalidate"} : Moved(u, pc)
      BY <2>6, GotoMoves DEF UpClean, UpFailed, UpComplete, UpInvalidate
    <3> QED  BY <3>1 DEF Moved, Positions
  <2>7. CASE UpUntemp(u)
    <3>1. /\ up'[u] = UpIdle
          /\ \A v \in Uploads : v # u => up'[v] = up[v]
      BY <2>7, <2>t DEF UpUntemp
    <3> QED  BY <3>1 DEF UpIdle, Positions
  <2> QED  BY <1>2, <2>1, <2>2, <2>3, <2>4, <2>5, <2>6, <2>7 DEF UpContinue
<1>3. CASE \E n \in Names : ProgressExpire(n)
  BY <1>3 DEF ProgressExpire, Positions
<1> QED  BY <1>1, <1>2, <1>3, NextCases, DeleteStays DEF Still

-----------------------------------------------------------------------------
(* Steps that write no file *)

\* Files stay, nobody starts to write, and a report is withdrawn only with
\* the outcome.
Calm ==
  /\ dir' = dir /\ linked' \subseteq linked /\ blurred \subseteq blurred'
  /\ \A v \in linked : v \in linked' \/ up'[v].pc \notin Writing
  /\ \A v \in Uploads :
       /\ up'[v].pc \in Writing => up[v].pc = up'[v].pc /\ up[v].block = up'[v].block
       /\ up[v].pc \in Reporting /\ Target[v] \notin blurred' =>
            up'[v].pc \in Reporting \/ progress'[Target[v]] # "completed" \/ Target[v] \in unsaid'
  /\ \A n \in Names : progress'[n] = "completed" /\ n \notin unsaid' => progress[n] = "completed" /\ n \notin unsaid

LEMMA CalmStep ==
  ASSUME TypeOK, FileInv, Calm
  PROVE  FileInv'
<1> USE DEF FileInv
<1>e. Entries' = Entries /\ \A n : (Whole(n)' <=> Whole(n)) /\ (HasReq(n)' <=> HasReq(n))
  BY DEF Calm, Entries, Whole, HasReq
<1>1. LinkedThere'  BY <1>e DEF LinkedThere, Calm
<1>2. Solo'  BY DEF Solo, Calm
<1>3. OwnBlocks'  BY DEF OwnBlocks, Calm, Writing, TypeOK
<1>4. Unlinked'  BY <1>e DEF Unlinked, Calm
<1>5. Reported'
  <2> SUFFICES ASSUME NEW n \in Names, n \notin blurred', n \notin unsaid',
                      progress'[n] = "completed", Unreported(n)' = {}
               PROVE  n \notin Entries \/ Whole(n) \/ HasReq(n)
    BY <1>e DEF Reported
  <2>1. Unreported(n) = {}
    <3>1. ASSUME NEW v \in Unreported(n)  PROVE FALSE
      <4>1. v \in Uploads /\ Target[v] = n /\ up[v].pc \in Reporting
        BY <3>1 DEF Unreported, Reporting, Writing
      <4>2. up'[v].pc \in Reporting  BY <4>1 DEF Calm
      <4>3. v \in Unreported(n)'  BY <4>1, <4>2 DEF Unreported, Reporting, Writing
      <4> QED  BY <4>3
    <3> QED  BY <3>1
  <2> QED  BY <2>1 DEF Reported, Calm
<1> QED  BY <1>1, <1>2, <1>3, <1>4, <1>5

LEMMA StillCalm ==
  ASSUME TypeOK, Still
  PROVE  Calm
BY DEF Still, Stay, Calm, Writing, Reporting, shown

LEMMA UpCalm ==
  ASSUME TypeOK, Positions, NEW u \in Uploads,
         \/ UploadFile(u) \/ UpKey(u) \/ UpClient(u) \/ UpFailed(u) \/ UpInvalidate(u) \/ UpUntemp(u)
  PROVE  Calm
<1> USE DEF server, redis, shown
<1>t. up \in [Uploads -> UpState] /\ Target[u] \in Names /\ linked \subseteq Uploads
  BY Typed, FilesAssumption DEF TypeOK
<1>1. CASE UploadFile(u) \/ UpInvalidate(u) \/ UpClient(u)
  <2>1. PICK pc \in {"key", "untemp", "create", "failed"} : Moved(u, pc)
    BY <1>1, GotoMoves, ClientMoves DEF UploadFile, UpInvalidate
  <2>2. up[u].pc \notin Reporting /\ UNCHANGED <<dir, linked, blurred, progress, unsaid>>
    BY <1>1 DEF UploadFile, UpInvalidate, UpClient, UpAt, Reporting, Writing
  <2> QED  BY <2>1, <2>2, <1>t DEF Calm, Moved, Writing, Reporting
<1>2. CASE UpKey(u)
  <2>1. /\ up'[u].pc = "client" /\ up[u].pc = "key"
        /\ \A v \in Uploads : v # u => up'[v] = up[v]
    BY <1>2, <1>t DEF UpKey, UpAt, UpGoto, UpState
  <2>2. UNCHANGED <<blurred, dir, linked, progress, unsaid>>
    BY <1>2 DEF UpKey
  <2> QED  BY <2>1, <2>2, <1>t DEF Calm, Writing, Reporting
<1>3. CASE UpFailed(u)
  <2>1. Moved(u, "untemp") /\ up[u].pc = "failed" /\ UNCHANGED <<dir, linked, blurred>>
    BY <1>3, GotoMoves DEF UpFailed, UpAt
  <2>2. /\ \A n \in Names : n # Target[u] => progress'[n] = progress[n] /\ (n \in unsaid' <=> n \in unsaid)
        /\ progress'[Target[u]] = "failed" \/ Target[u] \in unsaid'
    BY <1>3, FinalTyped DEF UpFailed
  <2> QED  BY <2>1, <2>2, <1>t DEF Calm, Moved, Writing, Reporting
<1>4. CASE UpUntemp(u)
  <2>1. /\ up'[u].pc = "idle" /\ up[u].pc = "untemp" /\ linked' = linked \ {u}
        /\ \A v \in Uploads : v # u => up'[v] = up[v]
        /\ UNCHANGED <<dir, blurred, progress, unsaid>>
    BY <1>4, <1>t DEF UpUntemp, UpAt, UpIdle
  <2> QED  BY <2>1, <1>t DEF Calm, Writing, Reporting
<1> QED  BY <1>1, <1>2, <1>3, <1>4

-----------------------------------------------------------------------------
(* Steps that write, remove or publish a file *)

\* A new file, or none because the client does not work.
LEMMA CreateStep ==
  ASSUME TypeOK, Positions, FileInv, NEW u \in Uploads, UpCreate(u)
  PROVE  FileInv'
<1> USE DEF FileInv
<1>t. /\ up \in [Uploads -> UpState] /\ Target[u] \in Names /\ linked \subseteq Uploads
      /\ dir \in [Names -> Content \cup {NoFile}] /\ up[u].pc = "create" /\ up[u].block = 1
  BY Typed, FilesAssumption DEF TypeOK, UpCreate, UpAt, Positions
<1>1. CASE UpGoto(u, "failed") /\ UNCHANGED <<server, unsaid>>
  <2>1. Moved(u, "failed") /\ progress' = progress
    BY <1>1, GotoMoves DEF UpCreate
  <2>2. Calm
    BY <1>1, <2>1, <1>t DEF Calm, Moved, Writing, Reporting, server
  <2> QED  BY <2>2, CalmStep
<1>2. CASE /\ dir' = [dir EXCEPT ![Target[u]] = [b \in Block |-> Nobody]]
           /\ linked' = linked \cup {u}
           /\ blurred' = IF Unreported(Target[u]) = {} THEN blurred ELSE blurred \cup {Target[u]}
           /\ unsaid' = unsaid \ {Target[u]}
           /\ UpGoto(u, "copy")
  <2> DEFINE n == Target[u]
  <2>m. Moved(u, "copy") /\ progress' = progress
    BY <1>2, GotoMoves DEF UpCreate
  <2>d. n \in Entries' /\ \A m \in Names : m # n => dir'[m] = dir[m]
    BY <1>2, <1>t, EmptyTyped DEF Entries
  <2>e. Entries \subseteq Entries'
    BY <2>d DEF Entries
  <2>s. n \notin blurred' => \A v \in Uploads : v # u /\ Target[v] = n => up[v].pc \notin Writing
    BY <1>2 DEF Unreported, Writing
  <2>1. LinkedThere'  BY <1>2, <2>d, <2>e DEF LinkedThere
  <2>2. Solo'
    BY <1>2, <2>m, <2>s DEF Solo, Moved
  <2>3. OwnBlocks'
    <3> SUFFICES ASSUME NEW v \in linked', Target[v] \notin blurred', up'[v].pc \in {"copy", "complete"},
                        NEW b \in Block, b < up'[v].block
                 PROVE  dir'[Target[v]][b] = v
      BY DEF OwnBlocks
    <3>1. v # u  BY <2>m, <1>t DEF Moved, Block
    <3>2. v \in linked /\ v \in Uploads /\ up'[v] = up[v]  BY <3>1, <1>2, <2>m, <1>t DEF Moved
    <3>3. Target[v] # n  BY <3>1, <3>2, <2>s DEF Writing
    <3>4. dir'[Target[v]] = dir[Target[v]]  BY <3>2, <3>3, <2>d, FilesAssumption
    <3>5. Target[v] \notin blurred  BY <1>2
    <3> QED  BY <3>2, <3>4, <3>5 DEF OwnBlocks
  <2>4. Unlinked'
    <3> SUFFICES ASSUME NEW v \in Uploads \ linked', Target[v] \notin blurred', up'[v].pc \in Writing
                 PROVE  Target[v] \notin Entries' \/ HasReq(Target[v])'
      BY DEF Unlinked
    <3>1. v # u /\ v \notin linked /\ up'[v] = up[v]  BY <1>2, <2>m DEF Moved
    <3>2. Target[v] # n  BY <3>1, <2>s
    <3>3. dir'[Target[v]] = dir[Target[v]] /\ Target[v] \in Names  BY <3>2, <2>d, FilesAssumption
    <3>4. Target[v] \notin blurred  BY <1>2
    <3>5. Target[v] \notin Entries \/ HasReq(Target[v])  BY <3>1, <3>4 DEF Unlinked
    <3> QED  BY <3>3, <3>5 DEF Entries, HasReq
  <2>5. Reported'
    <3> SUFFICES ASSUME NEW m \in Names, m \notin blurred', m \notin unsaid',
                        progress'[m] = "completed", Unreported(m)' = {}
                 PROVE  m \notin Entries' \/ Whole(m)' \/ HasReq(m)'
      BY DEF Reported
    <3>1. m # n  BY <2>m DEF Moved, Unreported
    <3>2. Unreported(m) = {}  BY <3>1, <2>m DEF Moved, Unreported
    <3>3. m \notin blurred \cup unsaid  BY <1>2, <3>1
    <3>4. m \notin Entries \/ Whole(m) \/ HasReq(m)  BY <3>2, <3>3, <2>m DEF Reported
    <3>5. dir'[m] = dir[m]  BY <3>1, <2>d
    <3> QED  BY <3>4, <3>5 DEF Entries, Whole, HasReq
  <2> QED  BY <2>1, <2>2, <2>3, <2>4, <2>5
<1> QED  BY <1>1, <1>2 DEF UpCreate

\* The next block of the writer.
LEMMA CopyStep ==
  ASSUME TypeOK, Positions, FileInv, NEW u \in Uploads, UpCopy(u)
  PROVE  FileInv'
<1> USE DEF FileInv
<1>t. /\ up \in [Uploads -> UpState] /\ Target[u] \in Names /\ linked \subseteq Uploads
      /\ dir \in [Names -> Content \cup {NoFile}]
      /\ linked' = linked /\ blurred' = blurred /\ unsaid' = unsaid
      /\ \A m \in Names : progress'[m] = "completed" => progress[m] = "completed"
  BY Typed, FilesAssumption, ReportTyped DEF TypeOK, UpCopy
<1>1. CASE Moved(u, "clean") /\ up[u].pc = "copy" /\ dir' = dir /\ progress' = progress
  <2>1. \A v \in Uploads : /\ up'[v].pc \in Writing => up[v].pc \in Writing
                           /\ up[v].pc \in Reporting <=> up'[v].pc \in Reporting
                           /\ up'[v].pc \in {"copy", "complete"} => up'[v] = up[v]
    BY <1>1 DEF Moved, Writing, Reporting
  <2>e. Entries' = Entries /\ \A m : (Whole(m)' <=> Whole(m)) /\ (HasReq(m)' <=> HasReq(m))
    BY <1>1 DEF Entries, Whole, HasReq
  <2>2. \A m \in Names : Unreported(m)' = Unreported(m)
    BY <2>1 DEF Unreported, Reporting, Writing
  <2>3. LinkedThere'  BY <2>e, <1>t DEF LinkedThere
  <2>4. Solo'  BY <2>1, <1>t DEF Solo
  <2>5. OwnBlocks'  BY <2>1, <1>1, <1>t DEF OwnBlocks
  <2>6. Unlinked'  BY <2>1, <2>e, <1>t DEF Unlinked
  <2>7. Reported'  BY <2>2, <2>e, <1>1, <1>t DEF Reported
  <2> QED  BY <2>3, <2>4, <2>5, <2>6, <2>7
<1>2. CASE CopyWrites(u)
  <2> DEFINE n == Target[u]
  <2>w. /\ up[u].pc = "copy" /\ up'[u].pc \in {"copy", "complete"}
        /\ up[u].block \in Block /\ up'[u].block = up[u].block + 1
        /\ \A v \in Uploads : v # u => up'[v] = up[v]
    BY <1>2 DEF CopyWrites
  <2>p. \A v \in Uploads : up'[v].pc \in Writing <=> up[v].pc \in Writing
    BY <2>w DEF Writing
  <2>r. \A m \in Names : Unreported(m)' = Unreported(m)
    BY <2>w DEF Unreported
  <2>d. /\ u \in linked => n \in Entries /\ dir'[n] \in Content /\ dir'[n] = [dir[n] EXCEPT ![up[u].block] = u]
        /\ u \notin linked => dir' = dir
        /\ \A m \in Names : m # n => dir'[m] = dir[m]
    <3>1. CASE u \in linked
      <4>1. n \in Entries  BY <3>1 DEF LinkedThere
      <4>2. dir' = [dir EXCEPT ![n][up[u].block] = u]  BY <1>2, <3>1 DEF CopyWrites
      <4>3. dir[n] \in Content  BY <4>1, <1>t DEF Entries
      <4>4. [dir[n] EXCEPT ![up[u].block] = u] \in Content  BY <4>3, <2>w DEF Content
      <4> QED  BY <3>1, <4>1, <4>2, <4>4, <1>t
    <3>2. CASE u \notin linked  BY <1>2, <3>2 DEF CopyWrites
    <3> QED  BY <3>1, <3>2
  <2>e. Entries' = Entries
    BY <2>d, <1>t, EmptyTyped DEF Entries
  <2>1. LinkedThere'  BY <2>e, <1>t DEF LinkedThere
  <2>2. Solo'  BY <2>p, <1>t DEF Solo
  <2>3. OwnBlocks'
    <3> SUFFICES ASSUME NEW v \in linked, Target[v] \notin blurred, up'[v].pc \in {"copy", "complete"},
                        NEW b \in Block, b < up'[v].block
                 PROVE  dir'[Target[v]][b] = v
      BY <1>t DEF OwnBlocks
    <3>1. CASE v = u
      <4>1. dir[n] \in Content /\ dir'[n] = [dir[n] EXCEPT ![up[u].block] = u]
        BY <3>1, <2>d, <1>t, EmptyTyped DEF Entries
      <4>2. CASE b = up[u].block  BY <3>1, <4>1, <4>2 DEF Content
      <4>3. CASE b # up[u].block
        <5>1. b < up[u].block  BY <3>1, <4>3, <2>w DEF Block
        <5>2. dir[n][b] = u  BY <5>1, <3>1, <2>w DEF OwnBlocks
        <5> QED  BY <3>1, <4>1, <4>3, <5>2 DEF Content
      <4> QED  BY <4>2, <4>3
    <3>2. CASE v # u
      <4>1. up'[v] = up[v] /\ v \in Uploads  BY <3>2, <2>w, <1>t
      <4>2. Target[v] # n  BY <3>2, <4>1, <2>w DEF Solo, Writing
      <4>3. dir'[Target[v]] = dir[Target[v]]  BY <4>1, <4>2, <2>d, FilesAssumption
      <4> QED  BY <4>1, <4>3 DEF OwnBlocks
    <3> QED  BY <3>1, <3>2
  <2>4. Unlinked'
    <3> SUFFICES ASSUME NEW v \in Uploads \ linked, Target[v] \notin blurred, up'[v].pc \in Writing
                 PROVE  Target[v] \notin Entries \/ HasReq(Target[v])'
      BY <1>t, <2>e DEF Unlinked
    <3>1. Target[v] \notin Entries \/ HasReq(Target[v])  BY <2>p DEF Unlinked
    <3>2. dir'[Target[v]] = dir[Target[v]]
      <4>1. CASE u \notin linked  BY <4>1, <2>d
      <4>2. CASE u \in linked
        <5>1. Target[v] # n  BY <4>2, <2>p, <2>w DEF Solo, Writing
        <5> QED  BY <5>1, <2>d, FilesAssumption
      <4> QED  BY <4>1, <4>2
    <3> QED  BY <3>1, <3>2 DEF HasReq
  <2>5. Reported'
    <3> SUFFICES ASSUME NEW m \in Names, m \notin blurred \cup unsaid, progress'[m] = "completed", Unreported(m) = {}
                 PROVE  m \notin Entries \/ Whole(m)' \/ HasReq(m)'
      BY <1>t, <2>e, <2>r DEF Reported
    <3>1. m # n  BY <2>w DEF Unreported
    <3>2. dir'[m] = dir[m]  BY <3>1, <2>d
    <3>3. m \notin Entries \/ Whole(m) \/ HasReq(m)  BY <1>t DEF Reported
    <3> QED  BY <3>2, <3>3 DEF Whole, HasReq
  <2> QED  BY <2>1, <2>2, <2>3, <2>4, <2>5
<1> QED  BY <1>1, <1>2, CopyMoves

\* The file of a name goes, by rm or by the clean-up of a failed upload.
Removed(n) ==
  /\ dir' = [dir EXCEPT ![n] = NoFile]
  /\ linked' = linked \ {v \in Uploads : Target[v] = n}
  /\ blurred' = blurred /\ progress' = progress /\ unsaid' = unsaid
  /\ \A v \in Uploads : /\ up'[v].pc \in Writing => up[v].pc = up'[v].pc /\ up[v].block = up'[v].block
                        /\ up[v].pc \in Reporting => up'[v].pc \in Reporting

LEMMA RemovedStep ==
  ASSUME TypeOK, FileInv, NEW n, Removed(n)
  PROVE  FileInv'
<1> USE DEF FileInv
<1>t. linked \subseteq Uploads /\ dir \in [Names -> Content \cup {NoFile}] /\ linked' \subseteq linked
  BY DEF TypeOK, Removed
<1>d. /\ \A m \in Names : m # n => dir'[m] = dir[m]
      /\ n \in Names => dir'[n] = NoFile
      /\ Entries' = Entries \ {n}
  BY <1>t DEF Removed, Entries
<1>1. LinkedThere'  BY <1>d, <1>t DEF LinkedThere, Removed
<1>2. Solo'  BY DEF Solo, Removed
<1>3. OwnBlocks'
  <2> SUFFICES ASSUME NEW v \in linked', Target[v] \notin blurred, up'[v].pc \in {"copy", "complete"},
                      NEW b \in Block, b < up'[v].block
               PROVE  dir'[Target[v]][b] = v
    BY DEF OwnBlocks, Removed
  <2>1. v \in linked /\ v \in Uploads /\ Target[v] # n  BY <1>t DEF Removed
  <2>2. up[v].pc \in {"copy", "complete"} /\ b < up[v].block  BY <2>1 DEF Removed, Writing
  <2>3. dir'[Target[v]] = dir[Target[v]]  BY <2>1, <1>d, FilesAssumption
  <2> QED  BY <2>1, <2>2, <2>3 DEF OwnBlocks
<1>4. Unlinked'
  <2> SUFFICES ASSUME NEW v \in Uploads \ linked', Target[v] \notin blurred, up'[v].pc \in Writing
               PROVE  Target[v] \notin Entries' \/ HasReq(Target[v])'
    BY DEF Unlinked, Removed
  <2>1. CASE Target[v] = n  BY <2>1, <1>d
  <2>2. CASE Target[v] # n
    <3>1. v \notin linked /\ up[v].pc \in Writing  BY <2>2 DEF Removed
    <3>2. Target[v] \notin Entries \/ HasReq(Target[v])  BY <3>1 DEF Unlinked
    <3>3. dir'[Target[v]] = dir[Target[v]]  BY <2>2, <1>d, FilesAssumption
    <3> QED  BY <3>2, <3>3, <1>d DEF HasReq
  <2> QED  BY <2>1, <2>2
<1>5. Reported'
  <2> SUFFICES ASSUME NEW m \in Names, m \notin blurred \cup unsaid, progress[m] = "completed", Unreported(m)' = {}
               PROVE  m \notin Entries' \/ Whole(m)' \/ HasReq(m)'
    BY DEF Reported, Removed
  <2>1. CASE m = n  BY <2>1, <1>d
  <2>2. CASE m # n
    <3>1. Unreported(m) = {}  BY DEF Unreported, Removed, Reporting, Writing
    <3>2. m \notin Entries \/ Whole(m) \/ HasReq(m)  BY <3>1 DEF Reported
    <3>3. dir'[m] = dir[m]  BY <2>2, <1>d
    <3> QED  BY <3>2, <3>3, <1>d DEF Whole, HasReq
  <2> QED  BY <2>1, <2>2
<1> QED  BY <1>1, <1>2, <1>3, <1>4, <1>5

LEMMA CleanStep ==
  ASSUME TypeOK, FileInv, NEW u \in Uploads, UpClean(u)
  PROVE  FileInv'
<1>1. /\ Moved(u, "failed") /\ up[u].pc = "clean" /\ blurred' = blurred
      /\ progress' = progress /\ unsaid' = unsaid /\ linked \subseteq Uploads
  BY GotoMoves DEF UpClean, UpAt, redis, shown, TypeOK
<1>2. CASE UNCHANGED <<dir, linked>>
  <2>1. Calm  BY <1>1, <1>2 DEF Calm, Moved, Writing, Reporting
  <2> QED  BY <2>1, CalmStep
<1>3. CASE /\ dir' = [dir EXCEPT ![Target[u]] = NoFile]
           /\ linked' = linked \ {v \in Uploads : Target[v] = Target[u]}
  <2>1. Removed(Target[u])  BY <1>1, <1>3 DEF Removed, Moved, Writing, Reporting
  <2> QED  BY <2>1, RemovedStep
<1> QED  BY <1>2, <1>3 DEF UpClean

LEMMA DeleteStep ==
  ASSUME TypeOK, FileInv, NEW r \in Reqs, DelRm(r)
  PROVE  FileInv'
<1>1. Stay /\ UNCHANGED <<blurred, progress, unsaid>>  BY DeleteStays
<1>2. CASE UNCHANGED <<dir, linked>>
  <2>1. Still  BY <1>1, <1>2 DEF Still, shown
  <2> QED  BY <2>1, StillCalm, CalmStep
<1>3. CASE /\ dir' = [dir EXCEPT ![req[r].name] = NoFile]
           /\ linked' = linked \ {v \in Uploads : Target[v] = req[r].name}
  <2>1. Removed(req[r].name)  BY <1>1, <1>3 DEF Removed, Stay
  <2> QED  BY <2>1, RemovedStep
<1> QED  BY <1>2, <1>3 DEF DelRm

\* A member of an archive: into a block nobody wrote, or a new file.
LEMMA UnzipStep ==
  ASSUME TypeOK, FileInv, NEW r \in Reqs, Unzip(r)
  PROVE  FileInv'
<1> USE DEF FileInv
<1>1. Stay /\ UNCHANGED <<blurred, progress, unsaid, linked>>  BY DeleteStays DEF Unzip
<1>2. CASE UNCHANGED dir
  <2>1. Still  BY <1>1, <1>2 DEF Still, shown
  <2> QED  BY <2>1, StillCalm, CalmStep
<1>3. ASSUME NEW n, n = req[r].name, NEW b \in Missing(n),
             dir' = [dir EXCEPT ![n] = [a \in Block |->
                       IF a = b THEN r ELSE IF n \in Entries THEN dir[n][a] ELSE Nobody]]
      PROVE  FileInv'
  <2>t. /\ linked \subseteq Uploads /\ dir \in [Names -> Content \cup {NoFile}] /\ b \in Block
        /\ r \notin Uploads
    BY <1>3, FilesAssumption DEF TypeOK, Missing
  <2>d. /\ \A m \in Names : m # n => dir'[m] = dir[m]
        /\ n \in Names => /\ dir'[n][b] = r
                          /\ \A a \in Block : a # b /\ n \in Entries => dir'[n][a] = dir[n][a]
    BY <1>3, <2>t
  <2>h. n \in Names => HasReq(n)'  BY <2>d, <2>t DEF HasReq
  <2>n. n \in Entries => dir[n][b] = Nobody  BY <1>3 DEF Missing
  <2>e. Entries \subseteq Entries' /\ \A m \in Names : m # n => (m \in Entries' <=> m \in Entries)
    <3>1. n \in Names => n \in Entries'
      BY <2>d, <2>t, FilesAssumption DEF Entries, NoFile
    <3> QED  BY <3>1, <2>d DEF Entries
  <2>1. LinkedThere'  BY <2>e, <1>1 DEF LinkedThere
  <2>2. Solo'  BY <1>1 DEF Solo, Stay
  <2>3. OwnBlocks'
    <3> SUFFICES ASSUME NEW v \in linked, Target[v] \notin blurred, up'[v].pc \in {"copy", "complete"},
                        NEW a \in Block, a < up'[v].block
                 PROVE  dir'[Target[v]][a] = v
      BY <1>1 DEF OwnBlocks
    <3>1. dir[Target[v]][a] = v /\ Target[v] \in Entries /\ v \in Uploads /\ Target[v] \in Names
      BY <1>1, <2>t, FilesAssumption DEF OwnBlocks, LinkedThere, Stay
    <3>2. CASE Target[v] = n
      <4>1. a # b  BY <3>1, <3>2, <2>n, FilesAssumption
      <4> QED  BY <3>1, <3>2, <4>1, <2>d
    <3>3. CASE Target[v] # n  BY <3>1, <3>3, <2>d
    <3> QED  BY <3>2, <3>3
  <2>4. Unlinked'
    <3> SUFFICES ASSUME NEW v \in Uploads \ linked, Target[v] \notin blurred, up'[v].pc \in Writing
                 PROVE  Target[v] \notin Entries' \/ HasReq(Target[v])'
      BY <1>1 DEF Unlinked
    <3>1. Target[v] \in Names /\ (Target[v] \notin Entries \/ HasReq(Target[v]))
      BY <1>1, FilesAssumption DEF Unlinked, Stay
    <3>2. CASE Target[v] = n  BY <3>1, <3>2, <2>h
    <3>3. CASE Target[v] # n  BY <3>1, <3>3, <2>d, <2>e DEF HasReq
    <3> QED  BY <3>2, <3>3
  <2>5. Reported'
    <3> SUFFICES ASSUME NEW m \in Names, m \notin blurred \cup unsaid, progress[m] = "completed", Unreported(m)' = {}
                 PROVE  m \notin Entries' \/ Whole(m)' \/ HasReq(m)'
      BY <1>1 DEF Reported
    <3>1. CASE m = n  BY <3>1, <2>h
    <3>2. CASE m # n
      <4>1. Unreported(m) = {}  BY <1>1 DEF Unreported, Stay
      <4>2. m \notin Entries \/ Whole(m) \/ HasReq(m)  BY <4>1 DEF Reported
      <4>3. dir'[m] = dir[m] /\ (m \in Entries' <=> m \in Entries)  BY <3>2, <2>d, <2>e
      <4> QED  BY <4>2, <4>3 DEF Whole, HasReq
    <3> QED  BY <3>1, <3>2
  <2> QED  BY <2>1, <2>2, <2>3, <2>4, <2>5
<1> QED  BY <1>2, <1>3 DEF Unzip

\* The report: the writer's file is whole, or gone from under its name.
LEMMA CompleteStep ==
  ASSUME TypeOK, Positions, FileInv, NEW u \in Uploads, UpComplete(u)
  PROVE  FileInv'
<1> USE DEF FileInv
<1>1. /\ Moved(u, "invalidate") /\ up[u].pc = "complete" /\ up[u].block = Blocks + 1
      /\ UNCHANGED <<dir, linked, blurred>> /\ linked \subseteq Uploads /\ Target[u] \in Names
  BY GotoMoves, FilesAssumption DEF UpComplete, UpAt, server, Positions, TypeOK
<1>p. \A v \in Uploads : up'[v].pc \in Writing => up'[v] = up[v]
  BY <1>1 DEF Moved, Writing
<1>e. Entries' = Entries /\ \A m : (Whole(m)' <=> Whole(m)) /\ (HasReq(m)' <=> HasReq(m))
  BY <1>1 DEF Entries, Whole, HasReq
<1>2. LinkedThere'  BY <1>e, <1>1 DEF LinkedThere
<1>3. Solo'  BY <1>1, <1>p DEF Solo
<1>4. OwnBlocks'  BY <1>1, <1>p DEF OwnBlocks, Writing
<1>5. Unlinked'  BY <1>1, <1>e, <1>p DEF Unlinked
<1>6. Reported'
  <2> SUFFICES ASSUME NEW m \in Names, m \notin blurred, m \notin unsaid',
                      progress'[m] = "completed", Unreported(m)' = {}
               PROVE  m \notin Entries \/ Whole(m) \/ HasReq(m)
    BY <1>1, <1>e DEF Reported
  <2>1. CASE m = Target[u]
    <3>1. CASE u \in linked
      <4>1. \A b \in Block : dir[m][b] = u
        BY <2>1, <3>1, <1>1, BlocksThere DEF OwnBlocks, Block
      <4> QED  BY <4>1 DEF Whole
    <3>2. CASE u \notin linked
      BY <2>1, <3>2, <1>1 DEF Unlinked, Writing
    <3> QED  BY <3>1, <3>2
  <2>2. CASE m # Target[u]
    <3>1. progress[m] = "completed" /\ m \notin unsaid
      BY <2>2, FinalTyped DEF UpComplete
    <3>2. Unreported(m) = {}
      BY <2>2, <1>1 DEF Unreported, Moved
    <3> QED  BY <3>1, <3>2 DEF Reported
  <2> QED  BY <2>1, <2>2
<1> QED  BY <1>2, <1>3, <1>4, <1>5, <1>6

LEMMA FileStep ==
  ASSUME TypeOK, Positions, FileInv, [Next]_vars
  PROVE  FileInv'
<1>1. ASSUME NEW u \in Uploads, UploadFile(u) \/ UpContinue(u)  PROVE FileInv'
  <2>1. CASE UpCreate(u)  BY <2>1, CreateStep
  <2>2. CASE UpCopy(u)  BY <2>2, CopyStep
  <2>3. CASE UpClean(u)  BY <2>3, CleanStep
  <2>4. CASE UpComplete(u)  BY <2>4, CompleteStep
  <2>5. CASE UploadFile(u) \/ UpKey(u) \/ UpClient(u) \/ UpFailed(u) \/ UpInvalidate(u) \/ UpUntemp(u)
    BY <2>5, UpCalm, CalmStep
  <2> QED  BY <1>1, <2>1, <2>2, <2>3, <2>4, <2>5 DEF UpContinue
<1>2. ASSUME NEW n \in Names, ProgressExpire(n)  PROVE FileInv'
  <2>1. /\ \A m \in Names : progress'[m] = "completed" => progress[m] = "completed"
        /\ UNCHANGED <<up, dir, linked, blurred, unsaid>>
    BY <1>2 DEF ProgressExpire, server, TypeOK
  <2>2. Calm  BY <2>1 DEF Calm, Writing, Reporting
  <2> QED  BY <2>2, CalmStep
<1> QED  BY <1>1, <1>2, NextCases, StillCalm, CalmStep, DeleteStep, UnzipStep

-----------------------------------------------------------------------------
(* The cached listing *)

\* An upload that has changed the directory, or a request, has to invalidate.
UpChanges  == {"copy", "clean", "failed", "complete", "invalidate"}
ReqChanges == {"verify", "unzip", "invalidate"}

\* A step that leaves the listing as right or wrong as it was, or lets a change
\* go on, or knows that it missed one.
Honest ==
  \/ list' = NoList
  \/ Changing'
  \/ late'
  \/ list' = Entries'
  \/ list' = list /\ Entries' = Entries /\ late' = late /\ (Changing => Changing')

LEMMA HonestStep ==
  ASSUME ListTrue, Honest
  PROVE  ListTrue'
BY DEF ListTrue, Honest

LEMMA MissedHonest ==
  ASSUME Missed, list' = list, Entries' = Entries
  PROVE  Honest
BY DEF Missed, Honest

LEMMA UpListStep ==
  ASSUME TypeOK, Positions, LinkedThere, NEW u \in Uploads, UploadFile(u) \/ UpContinue(u)
  PROVE  Honest
<1> USE DEF server, redis, cached
<1>t. up \in [Uploads -> UpState]  BY Typed
<1>s. ASSUME NEW pc \in UpChanges, Moved(u, pc)  PROVE Changing'
  BY <1>s DEF Moved, Changing, UpChanges
<1>1. CASE UploadFile(u) \/ UpKey(u) \/ UpClient(u)
  <2>1. up[u].pc \notin UpChanges /\ (\A v \in Uploads : v # u => up'[v] = up[v])
        /\ UNCHANGED <<dir, list, late, req>>
    BY <1>1, <1>t DEF UploadFile, UpKey, UpClient, UpAt, UpGoto, UpChanges
  <2> QED  BY <2>1 DEF Honest, Changing, Entries, UpChanges
<1>2. CASE UpCreate(u) \/ UpClean(u) \/ UpComplete(u)
  BY <1>2, <1>s, GotoMoves DEF UpCreate, UpClean, UpComplete, UpChanges, Honest
<1>3. CASE UpCopy(u)
  <2>1. up'[u].pc \in UpChanges  BY <1>3, CopyMoves DEF Moved, CopyWrites, UpChanges
  <2> QED  BY <2>1 DEF Honest, Changing, UpChanges
<1>4. CASE UpFailed(u) \/ UpInvalidate(u)
  <2>1. Entries' = Entries  BY <1>4 DEF UpFailed, UpInvalidate, Entries
  <2> QED  BY <1>4, <2>1, MissedHonest DEF UpFailed, UpInvalidate, Invalidate, Honest
<1>5. CASE UpUntemp(u)
  <2>1. up[u].pc \notin UpChanges /\ (\A v \in Uploads : v # u => up'[v] = up[v])
        /\ UNCHANGED <<dir, list, late, req>>
    BY <1>5, <1>t DEF UpUntemp, UpAt, UpChanges
  <2> QED  BY <2>1 DEF Honest, Changing, Entries, UpChanges
<1> QED  BY <1>1, <1>2, <1>3, <1>4, <1>5 DEF UpContinue

LEMMA ReqListStep ==
  ASSUME TypeOK, NEW r \in Reqs, ReqContinue(r)
  PROVE  Honest
<1> USE DEF server, redis, cached
<1>t. req \in [Reqs -> ReqState]  BY Typed
<1>g. ASSUME NEW pc, pc # "idle", ReqGoto(r, pc)  PROVE req'[r].pc = pc
  BY <1>g, <1>t DEF ReqGoto, ReqState
<1>s. ASSUME req'[r].pc \in ReqChanges  PROVE Changing'
  BY <1>s DEF Changing, ReqChanges
<1>1. CASE ListGet(r) \/ ListRead(r) \/ DelStat(r) \/ UnzipStat(r) \/ UnzipExec(r)
  <2>1. req[r].pc \notin ReqChanges /\ (\A q \in Reqs : q # r => req'[q] = req[q])
        /\ UNCHANGED <<dir, list, late, up>>
    BY <1>1, <1>t DEF ListGet, ListRead, DelStat, UnzipStat, UnzipExec, NewClient, ReqAt, ReqGoto, ReqChanges
  <2> QED  BY <2>1 DEF Honest, Changing, Entries, ReqChanges
<1>2. CASE ListStore(r)
  <2>1. Entries' = Entries /\ up' = up  BY <1>2 DEF ListStore, Entries
  <2>2. CASE list' = req[r].snap /\ late' = (req[r].snap # Entries)
    BY <2>1, <2>2 DEF Honest
  <2>3. CASE UNCHANGED cached
    <3>1. req[r].pc \notin ReqChanges /\ (\A q \in Reqs : q # r => req'[q] = req[q])
      BY <1>2, <1>t DEF ListStore, ReqAt, ReqGoto, ReqChanges
    <3> QED  BY <2>1, <2>3, <3>1 DEF Honest, Changing, ReqChanges
  <2> QED  BY <1>2, <2>2, <2>3 DEF ListStore
<1>3. CASE DelRm(r)
  <2>1. CASE ReqGoto(r, "verify")
    BY <2>1, <1>g, <1>s DEF Honest, ReqChanges
  <2>2. CASE late' = (late \/ list # NoList) /\ list' = list
    BY <2>2 DEF Honest
  <2>3. CASE ReqGoto(r, "idle") /\ UNCHANGED <<dir, linked, late>>
    <3>1. req[r].pc \notin ReqChanges /\ (\A q \in Reqs : q # r => req'[q] = req[q])
          /\ UNCHANGED <<list, up>>
      BY <1>3, <2>3, <1>t DEF DelRm, ReqAt, ReqGoto, ReqChanges
    <3> QED  BY <2>3, <3>1 DEF Honest, Changing, Entries, ReqChanges
  <2> QED  BY <1>3, <2>1, <2>2, <2>3 DEF DelRm
<1>4. CASE DelVerify(r)
  <2>1. Entries' = Entries /\ list' = list  BY <1>4 DEF DelVerify, Entries
  <2> QED  BY <1>4, <2>1, <1>g, <1>s, MissedHonest DEF DelVerify, Honest, ReqChanges
<1>5. CASE Unzip(r)
  <2>1. CASE UNCHANGED <<req, late>>
    BY <1>5, <2>1, <1>s DEF Unzip, ReqAt, ReqChanges, Honest
  <2>2. CASE ReqGoto(r, "invalidate")
    BY <2>2, <1>g, <1>s DEF Honest, ReqChanges
  <2>3. CASE Missed /\ UNCHANGED dir
    <3>1. Entries' = Entries /\ list' = list  BY <1>5, <2>3 DEF Unzip, Entries
    <3> QED  BY <2>3, <3>1, MissedHonest
  <2> QED  BY <1>5, <2>1, <2>2, <2>3 DEF Unzip
<1>6. CASE ReqInvalidate(r)
  <2>1. Entries' = Entries  BY <1>6 DEF ReqInvalidate, Entries
  <2> QED  BY <1>6, <2>1, MissedHonest DEF ReqInvalidate, Invalidate, Honest
<1> QED  BY <1>1, <1>2, <1>3, <1>4, <1>5, <1>6 DEF ReqContinue

LEMMA ListStep ==
  ASSUME TypeOK, Positions, LinkedThere, ListTrue, [Next]_vars
  PROVE  ListTrue'
<1> USE DEF server, redis, cached
<1>1. CASE UNCHANGED vars \/ VouchExpires \/ \E n \in Names : ProgressExpire(n)
  <2>1. UNCHANGED <<dir, list, late, up, req>>
    BY <1>1 DEF vars, VouchExpires, ProgressExpire
  <2> QED  BY <2>1 DEF ListTrue, Changing, Entries
<1>2. CASE ListExpire
  BY <1>2 DEF ListExpire, ListTrue
<1>3. CASE \E st \in {"broken", "none"} : Drop(st)
  <2>t. req \in [Reqs -> ReqState]  BY Typed
  <2>1. UNCHANGED <<dir, list, late>> /\ \A u \in Uploads : up'[u].pc = up[u].pc
    BY <1>3, DropTyped DEF Drop
  <2>2. \A r \in Reqs : req'[r].pc = req[r].pc
    BY <1>3, <2>t DEF Drop, ReqState
  <2> QED  BY <2>1, <2>2 DEF ListTrue, Changing, Entries
<1>4. CASE \E r \in Reqs : Begin(r, "get", NoName) \/ \E n \in Names, pc \in {"stat", "absent"} : Begin(r, pc, n)
  <2>t. req \in [Reqs -> ReqState]  BY Typed
  <2>1. PICK r \in Reqs, pc \in {"get", "stat", "absent"}, n \in Names \cup {NoName} : Begin(r, pc, n)
    BY <1>4
  <2>2. req[r].pc = "idle" /\ (\A q \in Reqs : q # r => req'[q] = req[q]) /\ UNCHANGED <<dir, list, late, up>>
    BY <2>1, <2>t DEF Begin, ReqAt
  <2> QED  BY <2>2 DEF ListTrue, Changing, Entries
<1> QED  BY <1>1, <1>2, <1>3, <1>4, UpListStep, ReqListStep, HonestStep DEF Next

-----------------------------------------------------------------------------
(* The theorems *)

LEMMA InitInv == Init => FilesInv
<1> SUFFICES ASSUME Init  PROVE FilesInv
  OBVIOUS
<1>1. TypeOK
  <2>1. UpIdle \in UpState /\ ReqIdle \in ReqState  BY IdleTyped
  <2>2. up \in [Uploads -> UpState] /\ req \in [Reqs -> ReqState]  BY <2>1 DEF Init
  <2>3. dir \in [Names -> Content \cup {NoFile}]  BY DEF Init
  <2>4. progress \in [Names -> {"none", "uploading", "completed", "failed"}]  BY DEF Init
  <2>5. /\ conn \in {"up", "broken", "none"} /\ vouched \in BOOLEAN
        /\ linked \subseteq Uploads /\ blurred \subseteq Names /\ temp \subseteq Uploads
        /\ list \in (SUBSET Names) \cup {NoList} /\ late \in BOOLEAN /\ unsaid \subseteq Names
    BY DEF Init
  <2> QED  BY <2>2, <2>3, <2>4, <2>5 DEF TypeOK, UpState, ReqState
<1>2. Positions  BY DEF Init, Positions, UpIdle
<1>3. FileInv
  BY DEF Init, FileInv, LinkedThere, Solo, OwnBlocks, Unlinked, Reported, UpIdle, Writing
<1>4. ListTrue  BY DEF Init, ListTrue
<1> QED  BY <1>1, <1>2, <1>3, <1>4 DEF FilesInv

\* The inductive invariant behind the theorems below.
THEOREM FilesInvariant == Spec => []FilesInv
<1>1. FilesInv /\ [Next]_vars => FilesInv'
  BY TypeStep, PositionsStep, FileStep, ListStep DEF FilesInv, FileInv
<1> QED  BY <1>1, InitInv, PTL DEF Spec

\* Uploads, requests, the directory and both caches keep their types.
THEOREM FilesTyped == Spec => []TypeOK
<1>1. FilesInv => TypeOK  BY DEF FilesInv
<1> QED  BY <1>1, FilesInvariant, PTL

\* asyncUploadToSFTP reports an upload as completed only when its file is
\* complete and of one piece, whatever breaks and whoever deletes or extracts
\* there, as long as no other upload wrote to the name and Redis took the last
\* report of every upload of it.
THEOREM CompletedIsWhole == Spec => []PublishedWhole
<1>1. FilesInv => PublishedWhole
  BY DEF FilesInv, FileInv, Reported, PublishedWhole, Whole, HasReq
<1> QED  BY <1>1, FilesInvariant, PTL

\* invalidateFileListCache comes late enough in UploadFile, DeleteFile and
\* UnzipFile: a cached listing that none of the three known ways left behind
\* shows the directory whenever no change is under way.
THEOREM ListingFollows == Spec => []ListTrue
<1>1. FilesInv => ListTrue  BY DEF FilesInv
<1> QED  BY <1>1, FilesInvariant, PTL
=============================================================================
