------------------------------- MODULE Files -------------------------------
(***************************************************************************)
(* The file service of one user (files_service.go): uploads that go on in  *)
(* the background after the request returned, listing through a Redis      *)
(* cache, deletion and unzip, all over one SSH connection that may break   *)
(* or be closed between any two calls and is re-created by the next        *)
(* request that finds it dead.  A file is a few blocks, each with the      *)
(* request that wrote it.                                                  *)
(***************************************************************************)
EXTENDS Naturals, FiniteSets

CONSTANTS
  Uploads,    \* upload goroutines, each for one upload after the other
  Reqs,       \* handlers of the other requests
  Names,      \* names in the user's directory
  Target,     \* [Uploads -> Names], where its uploads go
  Blocks,     \* blocks of a file, written in order
  Nobody,     \* a block that was not written
  NoName

ASSUME FilesAssumption ==
  /\ Target \in [Uploads -> Names] /\ Blocks \in Nat \ {0}
  /\ Uploads \cap Reqs = {} /\ Nobody \notin Uploads \cup Reqs
  /\ NoName \notin Names \cup Uploads \cup Reqs \cup {Nobody}

VARIABLES
  conn,       \* the registered SSH connection: "up" | "broken" | "none"
  vouched,    \* sessionCheckCache has a ping younger than 3 s
  dir,        \* the directory on the server
  linked,     \* uploads whose open file is the one under its name
  list,       \* Redis: the cached listing
  progress,   \* Redis: upload:progress under the resolved path
  temp,       \* uploads whose temporary file exists
  up,         \* upload goroutines: pc, block, keyed, and whether the client works
  req,        \* handlers: pc, name, snap, and whether the client works
  blurred,    \* history: names two writers shared
  unsaid,     \* history: names whose last upload could not say how it ended
  late        \* history: the cached listing missed a change for good

session == <<conn, vouched>>
server  == <<dir, linked, blurred>>
cached  == <<list, late>>
shown   == <<progress, unsaid>>
redis   == <<cached, shown>>
vars    == <<session, server, redis, temp, up, req>>

Block   == 1 .. Blocks
NoFile  == [b \in Block |-> NoName]
NoList  == {NoName}
Entries == {n \in Names : dir[n] # NoFile}
UpIdle  == [pc |-> "idle", block |-> 1, keyed |-> TRUE, client |-> FALSE]
ReqIdle == [pc |-> "idle", name |-> NoName, snap |-> NoList, client |-> FALSE]

Init ==
  /\ conn = "up" /\ vouched = FALSE
  /\ dir = [n \in Names |-> NoFile] /\ linked = {} /\ blurred = {}
  /\ list = NoList /\ late = FALSE
  /\ progress = [n \in Names |-> "none"] /\ unsaid = {}
  /\ temp = {}
  /\ up = [u \in Uploads |-> UpIdle]
  /\ req = [r \in Reqs |-> ReqIdle]

-----------------------------------------------------------------------------
(* The SSH session *)

\* getOrReconnectSession: a session pinged less than 3 s ago is taken as it is,
\* dead or not; one that answers the ping is vouched for; otherwise
\* EnsureSSHSessionByType connects anew.  The caller gets a client that works
\* or one that does not.
Stale == \/ conn = "none"
         \/ conn = "broken" /\ ~vouched

Lookup(works) ==
  \/ /\ conn # "none" /\ vouched
     /\ works = (conn = "up") /\ UNCHANGED <<conn, vouched>>
  \/ /\ conn = "up" /\ ~vouched
     /\ works /\ vouched' = TRUE /\ UNCHANGED conn
  \/ /\ Stale
     /\ works /\ conn' = "up" /\ UNCHANGED vouched

SessionFails == Stale /\ UNCHANGED session

\* The network breaks the connection, or logout or idle clean-up closes it.
Drop(st) ==
  /\ conn = "up"
  /\ conn' = st
  /\ up' = [u \in Uploads |-> [up[u] EXCEPT !.client = FALSE]]
  /\ req' = [r \in Reqs |-> [req[r] EXCEPT !.client = FALSE]]
  /\ UNCHANGED <<vouched, server, redis, temp>>

VouchExpires ==
  /\ vouched /\ vouched' = FALSE
  /\ UNCHANGED <<conn, server, redis, temp, up, req>>

-----------------------------------------------------------------------------
(* UploadFile and asyncUploadToSFTP *)

UpAt(u, pc)   == up[u].pc = pc
UpGoto(u, pc) == up' = [up EXCEPT ![u].pc = pc]

\* reportProgress: SET with one hour to live; its error is ignored.
Report(u, st) ==
  \/ up[u].keyed /\ progress' = [progress EXCEPT ![Target[u]] = st]
  \/ UNCHANGED progress

\* The last report of an upload; if it is lost, or has no key, the name shows
\* what it showed before.
FinalReport(u, st) ==
  LET n == Target[u] IN
  /\ Report(u, st)
  /\ unsaid' = IF progress'[n] = st THEN unsaid \ {n} ELSE unsaid \cup {n}

\* Uploads of a name that have created the file and not reported how it ended.
Unreported(n) ==
  {u \in Uploads : Target[u] = n /\ up[u].pc \in {"copy", "clean", "failed", "complete"}}

\* The request: the body is saved to a temporary file, the goroutine started.
UploadFile(u) ==
  /\ UpAt(u, "idle")
  /\ temp' = temp \cup {u}
  /\ UpGoto(u, "key")
  /\ UNCHANGED <<session, server, redis, req>>

\* getUploadProgressKey; without a session the key is made from the raw path,
\* where GetUploadProgress does not look.
UpKey(u) ==
  /\ UpAt(u, "key")
  /\ \/ /\ \E works \in BOOLEAN : Lookup(works)
        /\ UpGoto(u, "client")
     \/ /\ SessionFails
        /\ up' = [up EXCEPT ![u].pc = "client", ![u].keyed = FALSE]
  /\ UNCHANGED <<server, redis, temp, req>>

\* getSftpClient, and resolvePath right after it.
UpClient(u) ==
  /\ UpAt(u, "client")
  /\ \/ \E works \in BOOLEAN :
          Lookup(works) /\ up' = [up EXCEPT ![u].pc = "create", ![u].client = works]
     \/ SessionFails /\ UpGoto(u, "failed")
  /\ UNCHANGED <<server, redis, temp, req>>

\* MkdirAll and Create: a file that is there is truncated, not replaced.
UpCreate(u) ==
  LET n == Target[u] IN
  /\ UpAt(u, "create")
  /\ \/ /\ up[u].client
        /\ dir' = [dir EXCEPT ![n] = [b \in Block |-> Nobody]]
        /\ linked' = linked \cup {u}
        /\ blurred' = IF Unreported(n) = {} THEN blurred ELSE blurred \cup {n}
        /\ unsaid' = unsaid \ {n}
        /\ UpGoto(u, "copy")
     \/ UpGoto(u, "failed") /\ UNCHANGED <<server, unsaid>>
  /\ UNCHANGED <<session, cached, progress, temp, req>>

\* Mutant: a connection that breaks during the copy looks like its end.
UpCopyShort(u) ==
  LET n == Target[u]
      b == up[u].block IN
  /\ UpAt(u, "copy")
  /\ \/ /\ up[u].client
        /\ dir' = IF u \in linked THEN [dir EXCEPT ![n][b] = u] ELSE dir
        /\ up' = [up EXCEPT ![u].block = b + 1, ![u].pc = IF b < Blocks THEN "copy" ELSE "complete"]
     \/ UpGoto(u, "complete") /\ UNCHANGED dir
  /\ UNCHANGED <<session, linked, blurred, redis, temp, req>>

\* Mutant: the copy goes on past the last block.
UpCopyLong(u) ==
  LET n == Target[u]
      b == up[u].block IN
  /\ UpAt(u, "copy") /\ up[u].client
  /\ dir' = IF u \in linked THEN [dir EXCEPT ![n][b] = u] ELSE dir
  /\ up' = [up EXCEPT ![u].block = b + 1, ![u].pc = IF b <= Blocks THEN "copy" ELSE "complete"]
  /\ UNCHANGED <<session, linked, blurred, redis, temp, req>>

\* io.CopyBuffer: the next block, and once per second a report of progress.
UpCopy(u) ==
  LET n == Target[u]
      b == up[u].block IN
  /\ UpAt(u, "copy")
  /\ \/ /\ up[u].client
        /\ dir' = IF u \in linked THEN [dir EXCEPT ![n][b] = u] ELSE dir
        /\ Report(u, "uploading")
        /\ up' = [up EXCEPT ![u].block = b + 1, ![u].pc = IF b < Blocks THEN "copy" ELSE "complete"]
     \/ UpGoto(u, "clean") /\ UNCHANGED <<dir, progress>>
  /\ UNCHANGED <<session, linked, blurred, cached, unsaid, temp, req>>

\* Remove of the incomplete file, through the same client; its error is ignored.
UpClean(u) ==
  LET n == Target[u] IN
  /\ UpAt(u, "clean")
  /\ \/ /\ up[u].client
        /\ dir' = [dir EXCEPT ![n] = NoFile]
        /\ linked' = linked \ {v \in Uploads : Target[v] = n}
     \/ UNCHANGED <<dir, linked>>
  /\ UpGoto(u, "failed")
  /\ UNCHANGED <<session, blurred, redis, temp, req>>

\* Mutant: the error is only logged.
UpFailedSilent(u) ==
  /\ UpAt(u, "failed")
  /\ UpGoto(u, "untemp")
  /\ UNCHANGED <<session, server, redis, temp, req>>

\* A change is over and no DEL follows it.
Missed == late' = (late \/ list \notin {NoList, Entries})

\* What a failed upload left behind or removed is not invalidated.
UpFailed(u) ==
  /\ UpAt(u, "failed")
  /\ FinalReport(u, "failed")
  /\ Missed
  /\ UpGoto(u, "untemp")
  /\ UNCHANGED <<session, server, list, temp, req>>

\* Mutant: the cached listing is forgotten.
UpCompleteForgets(u) ==
  /\ UpAt(u, "complete")
  /\ FinalReport(u, "completed")
  /\ UpGoto(u, "untemp")
  /\ UNCHANGED <<session, server, cached, temp, req>>

UpComplete(u) ==
  /\ UpAt(u, "complete")
  /\ FinalReport(u, "completed")
  /\ UpGoto(u, "invalidate")
  /\ UNCHANGED <<session, server, cached, temp, req>>

\* invalidateFileListCache: DEL, whose error is ignored.
Invalidate ==
  \/ list' = NoList /\ late' = FALSE
  \/ Missed /\ UNCHANGED list

\* The progress key has one hour to live.
ProgressExpire(n) ==
  /\ progress[n] # "none" /\ progress' = [progress EXCEPT ![n] = "none"]
  /\ UNCHANGED <<session, server, cached, unsaid, temp, up, req>>

UpInvalidate(u) ==
  /\ UpAt(u, "invalidate")
  /\ Invalidate
  /\ UpGoto(u, "untemp")
  /\ UNCHANGED <<session, server, shown, temp, req>>

\* The deferred calls: the file is closed and the temporary file removed.
UpUntemp(u) ==
  /\ UpAt(u, "untemp")
  /\ temp' = temp \ {u} /\ linked' = linked \ {u}
  /\ up' = [up EXCEPT ![u] = UpIdle]
  /\ UNCHANGED <<session, dir, blurred, redis, req>>

UpContinue(u) ==
  \/ UpKey(u) \/ UpClient(u) \/ UpCreate(u) \/ UpCopy(u) \/ UpClean(u)
  \/ UpFailed(u) \/ UpComplete(u) \/ UpInvalidate(u) \/ UpUntemp(u)

-----------------------------------------------------------------------------
(* GetFileList, DeleteFile, UnzipFile *)

ReqAt(r, pc)   == req[r].pc = pc
ReqGoto(r, pc) == req' = [req EXCEPT ![r] = IF pc = "idle" THEN ReqIdle ELSE [@ EXCEPT !.pc = pc]]

\* The session is looked up once more, for a client of its own.
NewClient(r, pc) ==
  \E works \in BOOLEAN :
    Lookup(works) /\ req' = [req EXCEPT ![r].pc = pc, ![r].client = works]

\* resolvePath needs a session; a request without one ends here, unchanged.
Begin(r, pc, n) ==
  /\ ReqAt(r, "idle")
  /\ \E works \in BOOLEAN :
       /\ Lookup(works)
       /\ req' = [req EXCEPT ![r] = [ReqIdle EXCEPT !.pc = pc, !.name = n, !.client = works]]
  /\ UNCHANGED <<server, redis, temp, up>>

\* A hit is the reply; a miss, or a GET that fails, asks for a client.
ListGet(r) ==
  /\ ReqAt(r, "get")
  /\ \/ list # NoList /\ ReqGoto(r, "idle") /\ UNCHANGED session
     \/ NewClient(r, "read")
     \/ SessionFails /\ ReqGoto(r, "idle")
  /\ UNCHANGED <<server, redis, temp, up>>

ListRead(r) ==
  /\ ReqAt(r, "read")
  /\ \/ req[r].client /\ req' = [req EXCEPT ![r].pc = "store", ![r].snap = Entries]
     \/ ReqGoto(r, "idle")
  /\ UNCHANGED <<session, server, redis, temp, up>>

\* SET with 5 s to live; its error is ignored.
ListStore(r) ==
  /\ ReqAt(r, "store")
  /\ \/ list' = req[r].snap /\ late' = (req[r].snap # Entries)
     \/ UNCHANGED cached
  /\ ReqGoto(r, "idle")
  /\ UNCHANGED <<session, server, shown, temp, up>>

ListExpire ==
  /\ list # NoList /\ list' = NoList /\ late' = FALSE
  /\ UNCHANGED <<session, server, shown, temp, up, req>>

\* DeleteFile: Stat by SFTP, rm -rf by a session looked up again, Stat by SFTP.
DelStat(r) ==
  /\ ReqAt(r, "stat")
  /\ \/ req[r].client /\ req[r].name \in Entries /\ ReqGoto(r, "rm")
     \/ ReqGoto(r, "idle")
  /\ UNCHANGED <<session, server, redis, temp, up>>

\* The command is run, or not, or run without the reply that says so.
DelRm(r) ==
  LET n == req[r].name IN
  /\ ReqAt(r, "rm")
  /\ \/ /\ Lookup(TRUE)
        /\ dir' = [dir EXCEPT ![n] = NoFile]
        /\ linked' = linked \ {u \in Uploads : Target[u] = n}
        /\ \/ ReqGoto(r, "verify") /\ UNCHANGED late
           \/ ReqGoto(r, "idle") /\ late' = (late \/ list # NoList)
     \/ /\ Lookup(FALSE) \/ SessionFails
        /\ ReqGoto(r, "idle") /\ UNCHANGED <<dir, linked, late>>
  /\ UNCHANGED <<blurred, list, shown, temp, up>>

\* Only a deletion that is verified is invalidated.
DelVerify(r) ==
  /\ ReqAt(r, "verify")
  /\ \/ req[r].client /\ req[r].name \notin Entries /\ ReqGoto(r, "invalidate") /\ UNCHANGED late
     \/ ReqGoto(r, "idle") /\ Missed
  /\ UNCHANGED <<session, server, list, shown, temp, up>>

\* UnzipFile: the target must not exist; unzip -n then keeps what it meets.
UnzipStat(r) ==
  /\ ReqAt(r, "absent")
  /\ ReqGoto(r, IF req[r].client /\ req[r].name \notin Entries THEN "exec" ELSE "idle")
  /\ UNCHANGED <<session, server, redis, temp, up>>

UnzipExec(r) ==
  /\ ReqAt(r, "exec")
  /\ \/ NewClient(r, "unzip")
     \/ SessionFails /\ ReqGoto(r, "idle")
  /\ UNCHANGED <<server, redis, temp, up>>

\* One member is extracted, or the command ends; a broken one leaves the rest out.
Missing(n) == IF n \in Entries THEN {b \in Block : dir[n][b] = Nobody} ELSE Block

Unzip(r) ==
  LET n == req[r].name IN
  /\ ReqAt(r, "unzip")
  /\ \/ /\ req[r].client /\ \E b \in Missing(n) :
             dir' = [dir EXCEPT ![n] = [a \in Block |->
                       IF a = b THEN r ELSE IF n \in Entries THEN dir[n][a] ELSE Nobody]]
        /\ UNCHANGED <<req, late>>
     \/ req[r].client /\ Missing(n) = {} /\ ReqGoto(r, "invalidate") /\ UNCHANGED <<dir, late>>
     \/ ReqGoto(r, "idle") /\ Missed /\ UNCHANGED dir
  /\ UNCHANGED <<session, linked, blurred, list, shown, temp, up>>

ReqInvalidate(r) ==
  /\ ReqAt(r, "invalidate")
  /\ Invalidate
  /\ ReqGoto(r, "idle")
  /\ UNCHANGED <<session, server, shown, temp, up>>

ReqContinue(r) ==
  \/ ListGet(r) \/ ListRead(r) \/ ListStore(r)
  \/ DelStat(r) \/ DelRm(r) \/ DelVerify(r)
  \/ UnzipStat(r) \/ UnzipExec(r) \/ Unzip(r) \/ ReqInvalidate(r)

Next ==
  \/ \E st \in {"broken", "none"} : Drop(st)
  \/ VouchExpires \/ ListExpire \/ \E n \in Names : ProgressExpire(n)
  \/ \E u \in Uploads : UploadFile(u) \/ UpContinue(u)
  \/ \E r \in Reqs :
       \/ Begin(r, "get", NoName)
       \/ \E n \in Names, pc \in {"stat", "absent"} : Begin(r, pc, n)
       \/ ReqContinue(r)

Spec == Init /\ [][Next]_vars

\* Goroutines and handlers that can go on do; nothing in Redis need expire.
Fairness ==
  /\ \A u \in Uploads : WF_vars(UpContinue(u))
  /\ \A r \in Reqs : WF_vars(ReqContinue(r))

FairSpec == Spec /\ Fairness

-----------------------------------------------------------------------------
(* Properties *)

Content == [Block -> Uploads \cup Reqs \cup {Nobody}]

\* The service, Redis and the server hold what the code can put there.
TypeOK ==
  /\ conn \in {"up", "broken", "none"} /\ vouched \in BOOLEAN
  /\ dir \in [Names -> Content \cup {NoFile}]
  /\ linked \subseteq Uploads /\ blurred \subseteq Names /\ temp \subseteq Uploads
  /\ list \in (SUBSET Names) \cup {NoList} /\ late \in BOOLEAN /\ unsaid \subseteq Names
  /\ progress \in [Names -> {"none", "uploading", "completed", "failed"}]
  /\ up \in [Uploads -> [pc : {"idle", "key", "client", "create", "copy", "clean", "failed",
                               "complete", "invalidate", "untemp"},
                         block : 1 .. Blocks + 1, keyed : BOOLEAN, client : BOOLEAN]]
  /\ req \in [Reqs -> [pc : {"idle", "get", "read", "store", "stat", "rm", "verify", "absent",
                             "exec", "unzip", "invalidate"},
                       name : Names \cup {NoName}, snap : (SUBSET Names) \cup {NoList}, client : BOOLEAN]]

\* A file that the progress shows as completed is complete and of one piece,
\* through every loss of the connection; not so where uploads of one name
\* overlapped (blurred), where the report of how the last upload ended was lost
\* or went to another key (unsaid), or where unzip wrote.
PublishedWhole ==
  \A n \in Names \ (blurred \cup unsaid) :
    progress[n] = "completed" /\ n \in Entries /\ Unreported(n) = {} =>
      \/ \E u \in Uploads : \A b \in Block : dir[n][b] = u
      \/ \E b \in Block : dir[n][b] \in Reqs

\* Every upload ends: its temporary file goes, and no progress stays at
\* uploading, whenever the connection breaks and whoever else uploads there,
\* unless Redis loses the report of how the upload ended.
UploadsSettle ==
  /\ \A u \in Uploads : u \in temp ~> u \notin temp
  /\ \A n \in Names : progress[n] = "uploading" ~> progress[n] # "uploading" \/ n \in unsaid

\* Somebody changes the directory and has still to invalidate the listing.
Changing ==
  \/ \E u \in Uploads : up[u].pc \in {"copy", "clean", "failed", "complete", "invalidate"}
  \/ \E r \in Reqs : req[r].pc \in {"verify", "unzip", "invalidate"}

\* After an upload, a deletion or an unzip that succeeded, the cached listing
\* shows the directory, whoever listed or changed it meanwhile.  Only three
\* things leave a wrong one until it expires: its DEL failed, the change failed
\* half-way, or the listing was read before a change and stored after it.
ListTrue == list \in {NoList, Entries} \/ Changing \/ late

=============================================================================
