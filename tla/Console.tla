------------------------------- MODULE Console -------------------------------
(***************************************************************************)
(* Logins, SSH connections and web terminals of CloudQue together: file    *)
(* requests, terminal connections and log-outs of the same user, with      *)
(* connections that break or expire under them.                            *)
(***************************************************************************)
EXTENDS Terminals

\* Go's nil is no connection, wrapper, client, key or goroutine.
ASSUME NothingAssumption ==
  NoConn \notin Conns /\ NoWrap \notin Wraps /\ NoSock \notin Socks
  /\ NoKey \notin Keys /\ NoReq \notin Reqs

Init ==
  /\ creds = {} /\ meta = {} /\ dying = {}
  /\ session = [k \in Keys |-> NoConn]
  /\ conn = [c \in Conns |-> "free"]
  /\ req = [r \in Reqs |-> ReqIdle]
  /\ term = [k \in Keys |-> NoWrap]
  /\ mu = NoReq
  /\ wrap = [w \in Wraps |-> WrapFree]
  /\ sock = [s \in Socks |-> SockFree]
  /\ sweep = [keys |-> {}, shut |-> {}]

\* What users do.
UserNext ==
  \/ \E u \in Users : Login(u) /\ UNCHANGED shells
  \/ \E r \in Reqs, k \in Keys :
       \/ Use(r, k) /\ UNCHANGED shells
       \/ Logout(r, k)
       \/ \E s \in Socks : Connect(r, k, s)
  \/ \E s \in Socks : SockEnd(s) \/ SockInput(s) \/ SockClose(s)

\* What a request that began goes on to do.
ReqNext(r) ==
  \/ (Ensure(r) \/ LogoutRest(r)) /\ UNCHANGED shells
  \/ ConnectRest(r) \/ LogoutTerms(r) \/ LogoutShut(r)

WaitNext(w) == WaitEnd(w) \/ WaitClose(w)
SockNext(s) == SockClosed(s) \/ SockDone(s)
SweepNext == (\E k \in Keys : SweepTake(k)) \/ SweepClose

Next ==
  \/ UserNext
  \/ \E r \in Reqs : ReqNext(r)
  \/ \E w \in Wraps : ShellExit(w) \/ WaitNext(w)
  \/ \E s \in Socks : SockNext(s)
  \/ SweepFind \/ SweepNext
  \/ \E k \in Keys : Expire(k) /\ UNCHANGED shells
  \/ \E c \in Conns : (ExpireClose(c) \/ Drop(c)) /\ UNCHANGED shells

Spec == Init /\ [][Next]_vars

\* Goroutines that can go on do (Go's mutexes are fair to waiters); users, the
\* network and time owe nothing.
Fairness ==
  /\ \A r \in Reqs : WF_vars(ReqNext(r))
  /\ \A w \in Wraps : WF_vars(WaitNext(w))
  /\ \A s \in Socks : WF_vars(SockNext(s))
  /\ \A c \in Conns : WF_vars(ExpireClose(c) /\ UNCHANGED shells)
  /\ WF_vars(SweepNext)

FairSpec == Spec /\ Fairness

-----------------------------------------------------------------------------
(* Properties *)

EnsurePCs == {"creds", "get", "probe", "delete", "drop", "dial", "store", "save"}
ReqPCs == EnsurePCs \cup
          {"idle", "delCreds", "closeAll", "delMeta", "evict", "evicted", "add", "lock",
           "client", "check", "again", "shell", "attach", "fail", "terms", "shut"}
ReqState  == [pc : ReqPCs, then : {"idle", "evict", "again"}, key : Keys \cup {NoKey},
              conn : Conns \cup {NoConn}, sock : Socks \cup {NoSock},
              wrap : Wraps \cup {NoWrap}, shut : SUBSET Wraps]
WrapState == [st : {"free", "open", "closed"}, key : Keys \cup {NoKey}, conn : Conns \cup {NoConn},
              shell : BOOLEAN, clients : SUBSET Socks, wait : {"off", "wait", "close"}]
SockState == [st : {"free", "open", "closed"}, key : Keys \cup {NoKey},
              wrap : Wraps \cup {NoWrap}, watch : BOOLEAN, shut : SUBSET Wraps]

\* Maps, locks and locals hold ids that exist or nothing.
TypeOK ==
  /\ creds \subseteq Users /\ meta \subseteq Users
  /\ session \in [Keys -> Conns \cup {NoConn}]
  /\ conn \in [Conns -> {"free", "open", "closed"}]
  /\ dying \subseteq Conns
  /\ req \in [Reqs -> ReqState]
  /\ term \in [Keys -> Wraps \cup {NoWrap}]
  /\ mu \in Reqs \cup {NoReq}
  /\ wrap \in [Wraps -> WrapState]
  /\ sock \in [Socks -> SockState]
  /\ sweep \in [keys : SUBSET Keys, shut : SUBSET Wraps]

\* No SSH connection leaks: an open one is in the session manager's map, or a
\* goroutine has it in hand to store or to close it.  (CreateSession races with
\* itself, DeleteSession closes outside the lock, expiry in a goroutine.)
ConnsAccounted ==
  \A c \in Conns : conn[c] = "open" =>
    \/ c \in Held \cup dying
    \/ \E r \in Reqs : req[r].conn = c /\ req[r].pc \in {"store", "drop"}

\* Some goroutine has taken the wrapper out of the map and will close it.
ToClose(w) ==
  \/ \E r \in Reqs : w \in req[r].shut
  \/ \E s \in Socks : w \in sock[s].shut
  \/ w \in sweep.shut
  \/ wrap[w].wait = "close"

\* No shell leaks, and the map never holds a closed one: a wrapper is open
\* exactly as long as it is registered or on its way to be closed.
ShellsAccounted ==
  /\ \A w \in Wraps : wrap[w].st = "open" => term[wrap[w].key] = w \/ ToClose(w)
  /\ \A k \in Keys : term[k] # NoWrap => wrap[term[k]].st = "open" /\ ~ToClose(term[k])

\* Every request comes to its end: s.mu, held across the re-creation of an SSH
\* session, is given back on every path.
RequestsEnd == \A r \in Reqs : req[r].pc # "idle" ~> req[r].pc = "idle"

\* A shell that ended, or whose connection is gone, is closed by its Wait
\* goroutine or by whoever unregistered it.
DeadShellsClosed == \A w \in Wraps : wrap[w].st = "open" /\ ~Runs(w) ~> wrap[w].st = "closed"

\* A client that disconnected does not stay in a wrapper's list, whenever it
\* left during HandleTerminalConnection.
ClosedSocksForgotten ==
  \A s \in Socks : sock[s].st = "closed" ~> \A w \in Wraps : s \notin wrap[w].clients
=============================================================================
