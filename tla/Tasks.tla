------------------------------- MODULE Tasks -------------------------------
(***************************************************************************)
(* What the rest of CloudQue may rely on about the training processes that *)
(* the scheduler starts and the hash job:pid that lists them: an entry is  *)
(* made once the start has succeeded and goes only after the process.      *)
(* Scheduler implements this specification while no instance stops or      *)
(* crashes (Scheduler!ListsTasks); Reaper builds on it.                    *)
(***************************************************************************)
CONSTANT Pids

VARIABLES
  task,       \* how the process of a pid stands with the scheduler
  cache       \* pids with an entry in job:pid

Stages == {"free", "starting", "live", "stray", "gone"}

TaskInit ==
  /\ task = [p \in Pids |-> "free"]
  /\ cache = {}

\* The process runs; executeJob waits for its pid or has given it up already.
Launch(p) ==
  /\ task[p] = "free"
  /\ \E s \in {"starting", "stray"} : task' = [task EXCEPT ![p] = s]
  /\ UNCHANGED cache

\* CreatePid, and from now on a monitor; the process may have ended before.
Enter(p) ==
  /\ task[p] \in {"starting", "gone"}
  /\ task' = [task EXCEPT ![p] = IF @ = "gone" THEN @ ELSE "live"]
  /\ cache' = cache \cup {p}

\* A write that executeJob needs failed: the process runs on, unlisted.
Abandon(p) ==
  /\ task[p] = "starting"
  /\ task' = [task EXCEPT ![p] = "stray"]
  /\ UNCHANGED cache

End(p) ==
  /\ task[p] \in {"starting", "live", "stray"}
  /\ task' = [task EXCEPT ![p] = "gone"]
  /\ UNCHANGED cache

\* Mutant: the entry goes while the process runs.
ForgetLive(p) ==
  /\ task[p] \in {"live", "gone"}
  /\ cache' = cache \ {p}
  /\ UNCHANGED task

\* DelPid of the monitor's clean-up.
Forget(p) ==
  /\ task[p] = "gone"
  /\ cache' = cache \ {p}
  /\ UNCHANGED task

TaskNext ==
  \E p \in Pids : Launch(p) \/ Enter(p) \/ Abandon(p) \/ End(p) \/ Forget(p)

TaskSpec == TaskInit /\ [][TaskNext]_<<task, cache>>
=============================================================================
