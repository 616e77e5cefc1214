---------------------------- MODULE Console_proofs ----------------------------
(***************************************************************************)
(* No SSH connection and no shell leaks, for any number of users, requests, *)
(* connections, wrappers and clients.  TypeStep, ConnsStep and ShellsStep   *)
(* show the three parts of the invariant preserved, each with one lemma per *)
(* kind of step: a request that ensures a connection or logs out, one that  *)
(* begins, one that opens a terminal, and the end of clients and shells.    *)
(***************************************************************************)
EXTENDS Console, TLAPS

ConnectPCs == {"evict", "evicted", "add", "lock", "client", "check", "again", "shell", "attach"}

\* The locals of a request are set when they are used.
ReqOK(v) ==
  /\ v.pc # "idle" => v.key \in Keys
  /\ v.pc \in ConnectPCs => v.then # "idle"
  /\ v.then # "idle" => v.sock \in Socks
  /\ v.pc = "attach" => v.wrap \in Wraps
  /\ v.pc \notin {"evicted", "shut"} => v.shut = {}

Locals ==
  /\ \A r \in Reqs : ReqOK(req[r])
  /\ \A s \in Socks : sock[s].st # "free" => sock[s].key \in Keys
  /\ \A w \in Wraps : wrap[w].wait # "off" => wrap[w].st # "free"

\* The request is between the two ends of getOrCreateTerminalSession's lock.
Creating(r) ==
  \/ req[r].pc \in {"client", "check", "again", "shell"}
  \/ req[r].pc \in EnsurePCs /\ req[r].then = "again"

\* While a shell is created nobody else creates one, and none is registered.
LockKept == \A r \in Reqs : Creating(r) => mu = r /\ term[req[r].key] = NoWrap

\* Every wrapper is registered under its own key, and was created before
\* anybody set out to close it.
OwnKey ==
  /\ \A k \in Keys : term[k] # NoWrap => wrap[term[k]].key = k
  /\ \A w \in Wraps : wrap[w].st # "free" => wrap[w].key \in Keys
ClosedBorn == \A w \in Wraps : ToClose(w) => wrap[w].st # "free"

Shells == ShellsAccounted /\ OwnKey /\ ClosedBorn /\ LockKept

ConsoleInv == TypeOK /\ Locals /\ ConnsAccounted /\ Shells

-----------------------------------------------------------------------------
(* Types and locals *)

ConnStates == {"free", "open", "closed"}

\* What the steps below start from.
LEMMA Typed ==
  ASSUME TypeOK, Locals
  PROVE  /\ creds \subseteq Users /\ meta \subseteq Users /\ dying \subseteq Conns
         /\ session \in [Keys -> Conns \cup {NoConn}] /\ conn \in [Conns -> ConnStates]
         /\ req \in [Reqs -> ReqState] /\ term \in [Keys -> Wraps \cup {NoWrap}]
         /\ mu \in Reqs \cup {NoReq}
         /\ wrap \in [Wraps -> WrapState] /\ sock \in [Socks -> SockState]
         /\ sweep \in [keys : SUBSET Keys, shut : SUBSET Wraps]
         /\ \A r \in Reqs : req[r] \in ReqState /\ ReqOK(req[r])
         /\ \A k \in Keys : k[1] \in Users
BY DEF TypeOK, Locals, ConnStates, Keys

\* A step that changes only the stores of the SSH side and one request.
LEMMA ReqMoved ==
  ASSUME TypeOK, Locals, UNCHANGED shells,
         creds' \subseteq Users, meta' \subseteq Users, dying' \subseteq Conns,
         session' \in [Keys -> Conns \cup {NoConn}], conn' \in [Conns -> ConnStates],
         NEW r \in Reqs, NEW v \in ReqState, ReqOK(v), req' = [req EXCEPT ![r] = v]
  PROVE  TypeOK' /\ Locals'
<1>1. TypeOK'
  BY DEF TypeOK, shells, ConnStates
<1>2. \A q \in Reqs : req'[q] = IF q = r THEN v ELSE req[q]
  BY DEF TypeOK
<1>3. Locals'
  BY <1>2 DEF Locals, shells, ReqOK
<1> QED  BY <1>1, <1>3

LEMMA ClosedTyped ==
  ASSUME TypeOK, NEW cs
  PROVE  Closed(cs) \in [Conns -> ConnStates]
BY DEF TypeOK, Closed, ConnStates

LEMMA IdleOK == ReqIdle \in ReqState /\ ReqOK(ReqIdle)
BY DEF ReqIdle, ReqState, ReqPCs, ReqOK, ConnectPCs

\* A request that changes its pc, and its connection, is as good as before.
LEMMA ReqPc ==
  ASSUME NEW v \in ReqState, ReqOK(v), v.shut = {}, v.pc # "idle",
         NEW c \in Conns \cup {NoConn}, NEW pc \in ReqPCs \ ConnectPCs
  PROVE  /\ [v EXCEPT !.pc = pc] \in ReqState /\ ReqOK([v EXCEPT !.pc = pc])
         /\ [v EXCEPT !.conn = c, !.pc = pc] \in ReqState /\ ReqOK([v EXCEPT !.conn = c, !.pc = pc])
<1>1. [v EXCEPT !.pc = pc] \in ReqState /\ [v EXCEPT !.conn = c, !.pc = pc] \in ReqState
  BY DEF ReqState
<1>2. v.key \in Keys /\ pc # "attach" /\ pc \notin ConnectPCs
  BY DEF ReqOK, ConnectPCs
<1>3. v.then # "idle" => v.sock \in Socks
  BY DEF ReqOK
<1>4. ReqOK([v EXCEPT !.pc = pc]) /\ ReqOK([v EXCEPT !.conn = c, !.pc = pc])
  BY <1>2, <1>3 DEF ReqOK, ReqState
<1> QED  BY <1>1, <1>4

LEMMA SshTypes ==
  ASSUME TypeOK, Locals, UNCHANGED shells, NEW r \in Reqs, Ensure(r) \/ LogoutRest(r)
  PROVE  TypeOK' /\ Locals'
<1> USE Typed DEF AtPc, Key
<1> DEFINE v == req[r]
<1>p. {"get", "fail", "dial", "probe", "save", "delete", "drop", "store", "closeAll", "delMeta"} \subseteq ReqPCs \ ConnectPCs
  BY DEF ReqPCs, EnsurePCs, ConnectPCs
<1>v. /\ v \in ReqState /\ ReqOK(v)
      /\ v.pc \in EnsurePCs \cup {"delCreds", "closeAll", "delMeta"} => v.shut = {} /\ v.key \in Keys
  BY DEF ReqOK, EnsurePCs
<1>g. ASSUME NEW pc \in {"get", "fail", "dial", "probe", "save", "delete", "drop", "store", "closeAll", "delMeta"},
             NEW c \in Conns \cup {NoConn}, v.pc \in EnsurePCs \cup {"delCreds", "closeAll", "delMeta"},
             creds' \subseteq Users, meta' \subseteq Users, dying' \subseteq Conns,
             session' \in [Keys -> Conns \cup {NoConn}], conn' \in [Conns -> ConnStates],
             \/ req' = [req EXCEPT ![r].pc = pc]
             \/ req' = [req EXCEPT ![r].conn = c, ![r].pc = pc]
      PROVE  TypeOK' /\ Locals'
  <2>0. v.pc # "idle"  BY <1>g DEF EnsurePCs
  <2>1. /\ [v EXCEPT !.pc = pc] \in ReqState /\ ReqOK([v EXCEPT !.pc = pc])
        /\ [v EXCEPT !.conn = c, !.pc = pc] \in ReqState /\ ReqOK([v EXCEPT !.conn = c, !.pc = pc])
    BY <1>p, <1>v, <1>g, <2>0, ReqPc
  <2>2. \/ req' = [req EXCEPT ![r] = [v EXCEPT !.pc = pc]]
        \/ req' = [req EXCEPT ![r] = [v EXCEPT !.conn = c, !.pc = pc]]
    <3>1. CASE req' = [req EXCEPT ![r].pc = pc]
      BY <3>1
    <3>2. CASE req' = [req EXCEPT ![r].conn = c, ![r].pc = pc]
      BY <3>2
    <3> QED  BY <1>g, <3>1, <3>2
  <2> QED  BY <1>g, <2>1, <2>2, ReqMoved
<1>1. CASE EnsureCreds(r)
  BY <1>1, <1>g, <1>v DEF EnsureCreds, Goto, ssh, EnsurePCs
<1>2. CASE EnsureGet(r)
  BY <1>2, <1>g, <1>v DEF EnsureGet, Goto, ssh, EnsurePCs
<1>3. CASE EnsureProbe(r)
  BY <1>3, <1>g, <1>v DEF EnsureProbe, Goto, ssh, EnsurePCs
<1>4. CASE EnsureDelete(r)
  BY <1>4, <1>g, <1>v DEF EnsureDelete, Goto, EnsurePCs
<1>5. CASE EnsureDrop(r)
  BY <1>5, <1>g, <1>v, ClosedTyped DEF EnsureDrop, Goto, EnsurePCs
<1>6. CASE EnsureDial(r)
  <2>1. v.pc \in EnsurePCs /\ dying' = dying /\ session' = session /\ creds' = creds /\ meta' = meta
    BY <1>6 DEF EnsureDial, EnsurePCs
  <2>2. ASSUME NEW c \in Conns, conn' = [conn EXCEPT ![c] = "open"],
               req' = [req EXCEPT ![r].conn = c, ![r].pc = "store"]
        PROVE  TypeOK' /\ Locals'
    <3>1. conn' \in [Conns -> ConnStates]  BY <2>2 DEF ConnStates
    <3> QED  BY <1>g, <2>1, <2>2, <3>1
  <2>3. CASE UNCHANGED conn /\ Goto(r, "fail")
    BY <1>g, <2>1, <2>3 DEF Goto
  <2> QED  BY <1>6, <2>2, <2>3 DEF EnsureDial
<1>7. CASE EnsureStore(r)
  <2>1. v.conn \in Conns \cup {NoConn}  BY <1>v DEF ReqState
  <2> QED  BY <1>7, <1>g, <1>v, <2>1, ClosedTyped DEF EnsureStore, Goto, EnsurePCs
<1>8. CASE EnsureSave(r)
  <2>1. meta' \subseteq Users /\ UNCHANGED <<creds, session, conn, dying>> /\ v.shut = {} /\ v.key \in Keys
    BY <1>v, <1>8 DEF EnsureSave, EnsurePCs
  <2>2. CASE v.then = "idle"
    BY <1>8, <2>1, <2>2, IdleOK, ReqMoved DEF EnsureSave
  <2>3. CASE v.then # "idle"
    <3> DEFINE u == [v EXCEPT !.pc = v.then, !.conn = NoConn]
    <3>1. v.then \in {"evict", "again"} /\ v.sock \in Socks
      BY <1>v, <2>3 DEF ReqState, ReqOK
    <3>2. {"evict", "again"} \subseteq ReqPCs  BY DEF ReqPCs
    <3>3. u \in ReqState
      BY <1>v, <3>1, <3>2 DEF ReqState
    <3>4. /\ u.then = v.then /\ u.shut = {} /\ u.key \in Keys /\ u.sock \in Socks /\ u.pc # "attach"
      BY <1>v, <2>1, <3>1 DEF ReqState
    <3>5. ReqOK(u)
      BY <2>3, <3>4 DEF ReqOK
    <3>6. req' = [req EXCEPT ![r] = u]
      BY <1>8, <2>3 DEF EnsureSave
    <3> HIDE DEF u
    <3> QED  BY <2>1, <3>3, <3>5, <3>6, ReqMoved
  <2> QED  BY <2>2, <2>3
<1>9. CASE LogoutCreds(r)
  BY <1>9, <1>g, <1>v DEF LogoutCreds, Goto
<1>10. CASE LogoutSessions(r)
  <2>1. session' \in [Keys -> Conns \cup {NoConn}]  BY <1>10 DEF LogoutSessions
  <2> QED  BY <1>10, <1>g, <1>v, <2>1, ClosedTyped DEF LogoutSessions, Goto
<1>11. CASE LogoutMeta(r)
  <2>1. meta' \subseteq Users  BY <1>11 DEF LogoutMeta
  <2> QED  BY <1>11, <2>1, IdleOK, ReqMoved DEF LogoutMeta
<1> QED  BY <1>1, <1>2, <1>3, <1>4, <1>5, <1>6, <1>7, <1>8, <1>9, <1>10, <1>11 DEF Ensure, LogoutRest

\* What sshSessionWrapper.close and Client.Close leave of wrappers and clients.
LEMMA ShutTyped ==
  ASSUME TypeOK, Locals, NEW ws
  PROVE  /\ Shut(ws) \in [Wraps -> WrapState]
         /\ \A w \in Wraps : /\ Shut(ws)[w].key = wrap[w].key /\ Shut(ws)[w].wait = wrap[w].wait
                             /\ Shut(ws)[w].st = "free" <=> wrap[w].st = "free"
                             /\ Shut(ws)[w].st = "open" <=> wrap[w].st = "open" /\ w \notin ws
BY DEF TypeOK, Shut, WrapFree, WrapState

LEMMA HangupTyped ==
  ASSUME TypeOK, Locals, NEW ss
  PROVE  /\ Hangup(ss) \in [Socks -> SockState]
         /\ \A s \in Socks : /\ Hangup(ss)[s].key = sock[s].key /\ Hangup(ss)[s].shut = sock[s].shut
                             /\ Hangup(ss)[s].st # "free" => sock[s].st # "free"
BY DEF TypeOK, Hangup, SockState

\* A step of the terminal service that changes one request, to a good one.
LEMMA TermMoved ==
  ASSUME TypeOK, Locals, UNCHANGED ssh,
         term' \in [Keys -> Wraps \cup {NoWrap}], mu' \in Reqs \cup {NoReq},
         wrap' \in [Wraps -> WrapState], sock' \in [Socks -> SockState],
         sweep' \in [keys : SUBSET Keys, shut : SUBSET Wraps],
         \A s \in Socks : sock'[s].st # "free" => sock'[s].key \in Keys,
         \A w \in Wraps : wrap'[w].wait # "off" => wrap'[w].st # "free",
         \/ req' = req
         \/ \E r \in Reqs : \E v \in ReqState : ReqOK(v) /\ req' = [req EXCEPT ![r] = v]
  PROVE  TypeOK' /\ Locals'
<1>1. req' \in [Reqs -> ReqState] /\ \A q \in Reqs : ReqOK(req'[q])
  BY Typed
<1>2. TypeOK'
  BY <1>1 DEF TypeOK, ssh
<1>3. Locals'
  BY <1>1 DEF Locals, ReqOK
<1> QED  BY <1>2, <1>3

\* The parts of TermMoved that hold of a step which leaves the variable alone.
LEMMA Unmoved ==
  ASSUME TypeOK, Locals
  PROVE  /\ \A s \in Socks : sock[s].st # "free" => sock[s].key \in Keys
         /\ \A w \in Wraps : wrap[w].wait # "off" => wrap[w].st # "free"
BY DEF Locals

LEMMA BeginTypes ==
  ASSUME TypeOK, Locals, NEW r \in Reqs, NEW k \in Keys,
         \/ Use(r, k) /\ UNCHANGED shells
         \/ Logout(r, k)
         \/ \E s \in Socks : Connect(r, k, s)
  PROVE  TypeOK' /\ Locals'
<1>1. ASSUME NEW pc \in {"creds", "terms"}
      PROVE  LET v == [ReqIdle EXCEPT !.pc = pc, !.key = k] IN v \in ReqState /\ ReqOK(v)
  BY DEF ReqIdle, ReqState, ReqPCs, EnsurePCs, ReqOK, ConnectPCs
<1>2. ASSUME NEW s \in Socks
      PROVE  LET v == [ReqIdle EXCEPT !.pc = "creds", !.then = "evict", !.key = k, !.sock = s]
             IN  v \in ReqState /\ ReqOK(v)
  BY DEF ReqIdle, ReqState, ReqPCs, EnsurePCs, ReqOK, ConnectPCs
<1>3. UNCHANGED ssh /\ UNCHANGED shells
  BY DEF Use, Logout, Connect
<1>4. \E v \in ReqState : ReqOK(v) /\ req' = [req EXCEPT ![r] = v]
  BY <1>1, <1>2 DEF Use, Logout, Connect
<1> QED  BY <1>3, <1>4, Typed, Unmoved, TermMoved DEF shells

LEMMA ConnectTypes ==
  ASSUME TypeOK, Locals, NEW r \in Reqs, ConnectRest(r) \/ LogoutTerms(r) \/ LogoutShut(r)
  PROVE  TypeOK' /\ Locals'
<1> DEFINE v == req[r]
<1>v. v \in ReqState /\ ReqOK(v)
  BY Typed
<1>k. ASSUME v.pc \in ConnectPCs \cup {"terms", "shut"}
      PROVE  /\ v.key \in Keys /\ session[v.key] \in Conns \cup {NoConn}
             /\ term[v.key] \in Wraps \cup {NoWrap}
             /\ v.pc \in ConnectPCs => v.then # "idle" /\ v.sock \in Socks
             /\ v.pc \notin {"evicted", "shut"} => v.shut = {}
  BY <1>v, <1>k, Typed DEF ReqOK, ConnectPCs
<1>p. {"creds", "delCreds", "fail"} \cup ConnectPCs \subseteq ReqPCs
  BY DEF ReqPCs, EnsurePCs, ConnectPCs
<1> USE DEF AtPc, Key, Goto
<1>1. CASE Evict(r)
  <2> DEFINE u == [v EXCEPT !.shut = {term[v.key]} \ {NoWrap}, !.pc = "evicted"]
  <2>1. u \in ReqState /\ ReqOK(u)
    BY <1>1, <1>v, <1>k, <1>p DEF Evict, ReqState, ReqOK, ConnectPCs
  <2>2. req' = [req EXCEPT ![r] = u]  BY <1>1 DEF Evict
  <2>3. term' \in [Keys -> Wraps \cup {NoWrap}]  BY <1>1, Typed DEF Evict
  <2> HIDE DEF u
  <2> QED  BY <1>1, <2>1, <2>2, <2>3, Typed, Unmoved, TermMoved DEF Evict
<1>2. CASE Evicted(r)
  <2> DEFINE u == [v EXCEPT !.shut = {}, !.pc = "add"]
  <2>1. u \in ReqState /\ ReqOK(u)
    BY <1>2, <1>v, <1>k, <1>p DEF Evicted, ReqState, ReqOK, ConnectPCs
  <2>2. req' = [req EXCEPT ![r] = u]  BY <1>2 DEF Evicted
  <2>3. /\ wrap' \in [Wraps -> WrapState] /\ sock' \in [Socks -> SockState]
        /\ \A s \in Socks : sock'[s].st # "free" => sock'[s].key \in Keys
        /\ \A w \in Wraps : wrap'[w].wait # "off" => wrap'[w].st # "free"
    BY <1>2, ShutTyped, HangupTyped, Unmoved DEF Evicted, CloseWraps
  <2> HIDE DEF u
  <2> QED  BY <1>2, <2>1, <2>2, <2>3, Typed, TermMoved DEF Evicted
<1>3. CASE AddSock(r)
  <2> DEFINE u == [v EXCEPT !.pc = "lock"]
  <2>1. u \in ReqState /\ ReqOK(u)
    BY <1>3, <1>v, <1>k, <1>p DEF AddSock, ReqState, ReqOK, ConnectPCs
  <2>2. req' = [req EXCEPT ![r] = u]  BY <1>3 DEF AddSock
  <2>3. v.key \in Keys  BY <1>3, <1>k DEF AddSock, ConnectPCs
  <2>4. sock' \in [Socks -> SockState]
    <3> DEFINE x == [sock[v.sock] EXCEPT !.st = "open", !.key = v.key]
    <3>1. v.sock \in Socks /\ sock[v.sock] \in SockState  BY <1>3, <1>k, Typed DEF AddSock, ConnectPCs
    <3>2. x \in SockState  BY <2>3, <3>1 DEF SockState
    <3>3. sock' = [sock EXCEPT ![v.sock] = x]  BY <1>3 DEF AddSock
    <3> HIDE DEF x
    <3> QED  BY <3>2, <3>3, Typed
  <2>5. \A s \in Socks : sock'[s].st # "free" => sock'[s].key \in Keys
    BY <1>3, <2>3, Typed, Unmoved DEF AddSock, SockState
  <2> HIDE DEF u
  <2> QED  BY <1>3, <2>1, <2>2, <2>4, <2>5, Typed, Unmoved, TermMoved DEF AddSock
<1>4. CASE Lock(r)
  <2> DEFINE u1 == [v EXCEPT !.wrap = term[v.key], !.pc = "attach"]
             u2 == [v EXCEPT !.pc = "client"]
  <2>1. term[v.key] # NoWrap => u1 \in ReqState /\ ReqOK(u1)
    BY <1>4, <1>v, <1>k, <1>p DEF Lock, ReqState, ReqOK, ConnectPCs
  <2>2. u2 \in ReqState /\ ReqOK(u2)
    BY <1>4, <1>v, <1>k, <1>p DEF Lock, ReqState, ReqOK, ConnectPCs
  <2>3. \/ term[v.key] # NoWrap /\ req' = [req EXCEPT ![r] = u1] /\ UNCHANGED <<term, mu>>
        \/ req' = [req EXCEPT ![r] = u2] /\ term' = [term EXCEPT ![v.key] = NoWrap] /\ mu' = r
    BY <1>4 DEF Lock
  <2>4. UNCHANGED <<ssh, wrap, sock, sweep>>  BY <1>4 DEF Lock
  <2> HIDE DEF u1, u2
  <2>5. term' \in [Keys -> Wraps \cup {NoWrap}] /\ mu' \in Reqs \cup {NoReq}
    BY <2>3, Typed
  <2> QED  BY <2>1, <2>2, <2>3, <2>4, <2>5, Typed, Unmoved, TermMoved
<1>5. CASE GetClient(r) \/ CheckClient(r) \/ GetAgain(r)
  <2>1. v.pc \in {"client", "check", "again"}
    BY <1>5 DEF GetClient, CheckClient, GetAgain
  <2>2. /\ v.key \in Keys /\ session[v.key] \in Conns \cup {NoConn}
        /\ v.then # "idle" /\ v.sock \in Socks /\ v.shut = {}
    BY <1>k, <2>1 DEF ConnectPCs
  <2>3. ASSUME NEW pc \in {"creds", "fail", "check", "shell"}, NEW c \in Conns \cup {NoConn},
               NEW th \in {"again", v.then},
               NEW u, u = [v EXCEPT !.then = th, !.conn = c, !.pc = pc]
        PROVE  u \in ReqState /\ ReqOK(u)
    <3>1. th \in {"idle", "evict", "again"} /\ th # "idle" /\ pc \in ReqPCs /\ pc # "attach"
      BY <1>v, <1>p, <2>2 DEF ReqState, ConnectPCs
    <3>2. u \in ReqState
      BY <1>v, <2>3, <3>1 DEF ReqState
    <3>3. u.then # "idle" /\ u.pc = pc /\ u.key \in Keys /\ u.sock \in Socks /\ u.shut = {}
      BY <1>v, <2>2, <2>3, <3>1 DEF ReqState
    <3> QED  BY <3>1, <3>2, <3>3 DEF ReqOK
  <2>4. \E pc \in {"creds", "fail", "check", "shell"}, c \in Conns \cup {NoConn}, th \in {"again", v.then} :
          req' = [req EXCEPT ![r] = [v EXCEPT !.then = th, !.conn = c, !.pc = pc]]
    <3>0. v.conn \in Conns \cup {NoConn} /\ v = [v EXCEPT !.then = v.then] /\ v = [v EXCEPT !.conn = v.conn]
      BY <1>v DEF ReqState
    <3>1. CASE GetClient(r)
      <4>1. CASE session[v.key] = NoConn
        <5>1. req' = [req EXCEPT ![r] = [v EXCEPT !.then = "again", !.conn = v.conn, !.pc = "creds"]]
          BY <1>v, <3>1, <4>1 DEF GetClient, ReqState
        <5> QED  BY <3>0, <5>1
      <4>2. CASE session[v.key] # NoConn
        <5>1. req' = [req EXCEPT ![r] = [v EXCEPT !.then = v.then, !.conn = session[v.key], !.pc = "check"]]
          BY <1>v, <3>1, <4>2 DEF GetClient, ReqState
        <5> QED  BY <2>2, <5>1
      <4> QED  BY <4>1, <4>2
    <3>2. CASE CheckClient(r)
      <4>1. CASE conn[v.conn] = "open"
        <5>1. req' = [req EXCEPT ![r] = [v EXCEPT !.then = v.then, !.conn = v.conn, !.pc = "shell"]]
          BY <1>v, <3>2, <4>1 DEF CheckClient, ReqState
        <5> QED  BY <3>0, <5>1
      <4>2. CASE conn[v.conn] # "open"
        <5>1. req' = [req EXCEPT ![r] = [v EXCEPT !.then = "again", !.conn = NoConn, !.pc = "creds"]]
          BY <1>v, <3>2, <4>2 DEF CheckClient, ReqState
        <5> QED  BY <5>1
      <4> QED  BY <4>1, <4>2
    <3>3. CASE GetAgain(r)
      <4>1. PICK pc \in {"fail", "shell"} :
              req' = [req EXCEPT ![r] = [v EXCEPT !.then = v.then, !.conn = session[v.key], !.pc = pc]]
        BY <1>v, <3>3 DEF GetAgain, ReqState
      <4> QED  BY <2>2, <4>1
    <3> QED  BY <1>5, <3>1, <3>2, <3>3
  <2>5. UNCHANGED ssh /\ UNCHANGED shells
    BY <1>5 DEF GetClient, CheckClient, GetAgain
  <2> QED  BY <2>3, <2>4, <2>5, Typed, Unmoved, TermMoved DEF shells
<1>6. CASE OpenShell(r)
  <2>0. UNCHANGED <<ssh, sock, sweep>> /\ v.pc = "shell"  BY <1>6 DEF OpenShell
  <2>1. ASSUME NEW w \in Wraps,
               wrap' = [wrap EXCEPT ![w] = [st |-> "open", key |-> v.key, conn |-> v.conn,
                                            shell |-> TRUE, clients |-> {}, wait |-> "wait"]],
               term' = [term EXCEPT ![v.key] = w], mu' = NoReq,
               req' = [req EXCEPT ![r].wrap = w, ![r].pc = "attach"]
        PROVE  TypeOK' /\ Locals'
    <3> DEFINE u == [v EXCEPT !.wrap = w, !.pc = "attach"]
    <3>1. u \in ReqState /\ ReqOK(u)
      BY <2>0, <1>v, <1>k, <1>p DEF ReqState, ReqOK, ConnectPCs
    <3>2. req' = [req EXCEPT ![r] = u]  BY <2>1
    <3>3. wrap' \in [Wraps -> WrapState] /\ \A x \in Wraps : wrap'[x].wait # "off" => wrap'[x].st # "free"
      BY <2>1, <1>v, Typed, Unmoved DEF WrapState, ReqState
    <3>4. term' \in [Keys -> Wraps \cup {NoWrap}]  BY <2>1, Typed
    <3> HIDE DEF u
    <3> QED  BY <2>0, <2>1, <3>1, <3>2, <3>3, <3>4, Typed, Unmoved, TermMoved
  <2>2. CASE Goto(r, "fail") /\ UNCHANGED <<term, mu, wrap>>
    <3> DEFINE u == [v EXCEPT !.pc = "fail"]
    <3>1. u \in ReqState /\ ReqOK(u)
      BY <2>0, <1>v, <1>k, <1>p DEF ReqState, ReqOK, ConnectPCs
    <3>2. req' = [req EXCEPT ![r] = u]  BY <2>2
    <3> HIDE DEF u
    <3> QED  BY <2>0, <2>2, <3>1, <3>2, Typed, Unmoved, TermMoved
  <2> QED  BY <1>6, <2>1, <2>2 DEF OpenShell
<1>7. CASE Attach(r)
  <2>1. v.sock \in Socks /\ v.wrap \in Wraps  BY <1>7, <1>v, <1>k DEF Attach, ConnectPCs, ReqOK
  <2>2. wrap' \in [Wraps -> WrapState] /\ \A x \in Wraps : wrap'[x].wait # "off" => wrap'[x].st # "free"
    <3> DEFINE y == [wrap[v.wrap] EXCEPT !.clients = IF wrap[v.wrap].st = "open" THEN @ \cup {v.sock} ELSE @]
    <3>1. wrap[v.wrap] \in WrapState  BY <2>1, Typed
    <3>2. y \in WrapState /\ y.wait = wrap[v.wrap].wait /\ y.st = wrap[v.wrap].st
      BY <2>1, <3>1 DEF WrapState
    <3>3. wrap' = [wrap EXCEPT ![v.wrap] = y]  BY <1>7 DEF Attach
    <3> HIDE DEF y
    <3> QED  BY <3>2, <3>3, Typed, Unmoved
  <2>3. sock' \in [Socks -> SockState] /\ \A s \in Socks : sock'[s].st # "free" => sock'[s].key \in Keys
    <3> DEFINE x == [sock[v.sock] EXCEPT !.wrap = v.wrap, !.watch = TRUE]
    <3>1. sock[v.sock] \in SockState  BY <2>1, Typed
    <3>2. x \in SockState /\ x.st = sock[v.sock].st /\ x.key = sock[v.sock].key  BY <2>1, <3>1 DEF SockState
    <3>3. sock' = [sock EXCEPT ![v.sock] = x]  BY <1>7 DEF Attach
    <3> HIDE DEF x
    <3> QED  BY <3>2, <3>3, Typed, Unmoved
  <2>4. UNCHANGED <<ssh, term, mu, sweep>> /\ req' = [req EXCEPT ![r] = ReqIdle]  BY <1>7 DEF Attach
  <2> QED  BY <2>2, <2>3, <2>4, IdleOK, Typed, TermMoved
<1>8. CASE Fail(r)
  <2>1. /\ sock' \in [Socks -> SockState] /\ \A s \in Socks : sock'[s].st # "free" => sock'[s].key \in Keys
        /\ UNCHANGED <<ssh, term, wrap, sweep>> /\ req' = [req EXCEPT ![r] = ReqIdle]
        /\ mu' \in Reqs \cup {NoReq}
    BY <1>8, HangupTyped, Typed, Unmoved DEF Fail
  <2> QED  BY <2>1, IdleOK, Typed, Unmoved, TermMoved
<1>9. CASE LogoutTerms(r)
  <2> DEFINE ws == {term[k] : k \in {k \in Keys : k[1] = v.key[1]}} \ {NoWrap}
             u == [v EXCEPT !.shut = ws, !.pc = "shut"]
  <2>1. ws \subseteq Wraps  BY Typed
  <2>2. u \in ReqState /\ ReqOK(u)
    <3> HIDE DEF ws
    <3>1. "shut" \in ReqPCs  BY DEF ReqPCs
    <3>2. v.pc = "terms"  BY <1>9 DEF LogoutTerms
    <3> QED  BY <2>1, <3>1, <3>2, <1>v, <1>k DEF ReqState, ReqOK, ConnectPCs
  <2>3. req' = [req EXCEPT ![r] = u] /\ UNCHANGED <<ssh, mu, wrap, sock, sweep>>  BY <1>9 DEF LogoutTerms
  <2>4. term' \in [Keys -> Wraps \cup {NoWrap}]  BY <1>9, Typed DEF LogoutTerms
  <2> HIDE DEF u
  <2> QED  BY <2>2, <2>3, <2>4, Typed, Unmoved, TermMoved
<1>10. CASE LogoutShut(r)
  <2> DEFINE u == [v EXCEPT !.shut = {}, !.pc = "delCreds"]
  <2>1. u \in ReqState /\ ReqOK(u)
    BY <1>10, <1>v, <1>k, <1>p DEF LogoutShut, ReqState, ReqOK, ConnectPCs
  <2>2. req' = [req EXCEPT ![r] = u]  BY <1>10 DEF LogoutShut
  <2>3. /\ wrap' \in [Wraps -> WrapState] /\ sock' \in [Socks -> SockState]
        /\ \A s \in Socks : sock'[s].st # "free" => sock'[s].key \in Keys
        /\ \A w \in Wraps : wrap'[w].wait # "off" => wrap'[w].st # "free"
    BY <1>10, ShutTyped, HangupTyped, Unmoved DEF LogoutShut, CloseWraps
  <2> HIDE DEF u
  <2> QED  BY <1>10, <2>1, <2>2, <2>3, Typed, TermMoved DEF LogoutShut
<1> QED  BY <1>1, <1>2, <1>3, <1>4, <1>5, <1>6, <1>7, <1>8, <1>9, <1>10 DEF ConnectRest

LEMMA EndTypes ==
  ASSUME TypeOK, Locals,
         \/ \E s \in Socks : SockEnd(s) \/ SockInput(s) \/ SockClose(s) \/ SockNext(s)
         \/ \E w \in Wraps : ShellExit(w) \/ WaitNext(w)
         \/ SweepFind \/ SweepNext
  PROVE  TypeOK' /\ Locals'
<1>1. ASSUME NEW s \in Socks, SockEnd(s) \/ SockInput(s)  PROVE TypeOK' /\ Locals'
  BY <1>1, HangupTyped, Typed, Unmoved, TermMoved DEF SockEnd, SockInput
<1>2. ASSUME NEW s \in Socks, SockClose(s)  PROVE TypeOK' /\ Locals'
  <2> DEFINE x == [sock[s] EXCEPT !.shut = {term[sock[s].key]}]
  <2>1. sock[s] \in SockState /\ sock[s].key \in Keys /\ term[sock[s].key] \in Wraps
    BY <1>2, Typed, Unmoved DEF SockClose
  <2>2. x \in SockState /\ x.st = sock[s].st /\ x.key = sock[s].key  BY <2>1 DEF SockState
  <2>3. sock' = [sock EXCEPT ![s] = x]  BY <1>2 DEF SockClose
  <2> HIDE DEF x
  <2>4. sock' \in [Socks -> SockState] /\ \A q \in Socks : sock'[q].st # "free" => sock'[q].key \in Keys
    BY <2>2, <2>3, Typed, Unmoved
  <2>5. term' \in [Keys -> Wraps \cup {NoWrap}] /\ UNCHANGED <<ssh, req, mu, wrap, sweep>>
    BY <1>2, Typed DEF SockClose
  <2> QED  BY <2>4, <2>5, Typed, Unmoved, TermMoved
<1>3. ASSUME NEW s \in Socks, SockClosed(s)  PROVE TypeOK' /\ Locals'
  <2> DEFINE h == Hangup({s})
  <2>1. h \in [Socks -> SockState] /\ \A q \in Socks : h[q].st # "free" => h[q].key \in Keys
    BY HangupTyped, Unmoved
  <2>2. sock' = [h EXCEPT ![s].shut = {}]  BY <1>3 DEF SockClosed
  <2> HIDE DEF h
  <2>3. sock' \in [Socks -> SockState] /\ \A q \in Socks : sock'[q].st # "free" => sock'[q].key \in Keys
    BY <2>1, <2>2 DEF SockState
  <2>4. wrap' \in [Wraps -> WrapState] /\ \A w \in Wraps : wrap'[w].wait # "off" => wrap'[w].st # "free"
    BY <1>3, ShutTyped, Unmoved DEF SockClosed
  <2> QED  BY <1>3, <2>3, <2>4, Typed, TermMoved DEF SockClosed
<1>4. ASSUME NEW s \in Socks, SockDone(s)  PROVE TypeOK' /\ Locals'
  <2>1. sock' \in [Socks -> SockState] /\ \A q \in Socks : sock'[q].st # "free" => sock'[q].key \in Keys
    BY <1>4, Typed, Unmoved DEF SockDone, SockState
  <2>2. wrap' \in [Wraps -> WrapState] /\ \A w \in Wraps : wrap'[w].wait # "off" => wrap'[w].st # "free"
    <3> DEFINE v == sock[s].wrap
               y == [wrap[v] EXCEPT !.clients = @ \ {s}]
    <3>1. wrap' = [wrap EXCEPT ![v] = y]  BY <1>4 DEF SockDone
    <3>2. v \in Wraps => y \in WrapState /\ y.wait = wrap[v].wait /\ y.st = wrap[v].st
      BY Typed DEF WrapState
    <3> HIDE DEF v, y
    <3> QED  BY <3>1, <3>2, Typed, Unmoved
  <2> QED  BY <1>4, <2>1, <2>2, Typed, TermMoved DEF SockDone
<1>5. ASSUME NEW w \in Wraps, ShellExit(w)  PROVE TypeOK' /\ Locals'
  <2>1. wrap' \in [Wraps -> WrapState] /\ \A x \in Wraps : wrap'[x].wait # "off" => wrap'[x].st # "free"
    <3> DEFINE y == [wrap[w] EXCEPT !.shell = FALSE]
    <3>1. y \in WrapState /\ y.wait = wrap[w].wait /\ y.st = wrap[w].st  BY Typed DEF WrapState
    <3>2. wrap' = [wrap EXCEPT ![w] = y]  BY <1>5 DEF ShellExit
    <3> HIDE DEF y
    <3> QED  BY <3>1, <3>2, Typed, Unmoved
  <2> QED  BY <1>5, <2>1, Typed, Unmoved, TermMoved DEF ShellExit
<1>6. ASSUME NEW w \in Wraps, WaitEnd(w)  PROVE TypeOK' /\ Locals'
  <2>1. wrap' \in [Wraps -> WrapState] /\ \A x \in Wraps : wrap'[x].wait # "off" => wrap'[x].st # "free"
    <3> DEFINE y(x) == [wrap[w] EXCEPT !.wait = x]
    <3>1. \A x \in {"close", "off"} : y(x) \in WrapState /\ y(x).st = wrap[w].st  BY Typed DEF WrapState
    <3>2. wrap[w].st # "free"  BY <1>6, Unmoved DEF WaitEnd
    <3>3. PICK x \in {"close", "off"} : wrap' = [wrap EXCEPT ![w] = y(x)]  BY <1>6 DEF WaitEnd
    <3> HIDE DEF y
    <3> QED  BY <3>1, <3>2, <3>3, Typed, Unmoved
  <2>2. term' \in [Keys -> Wraps \cup {NoWrap}]  BY <1>6, Typed DEF WaitEnd
  <2> QED  BY <1>6, <2>1, <2>2, Typed, Unmoved, TermMoved DEF WaitEnd
<1>7. ASSUME NEW w \in Wraps, WaitClose(w)  PROVE TypeOK' /\ Locals'
  <2> DEFINE h == Shut({w})
  <2>1. h \in [Wraps -> WrapState] /\ \A x \in Wraps : h[x].wait # "off" => h[x].st # "free"
    BY ShutTyped, Unmoved
  <2>2. wrap' = [h EXCEPT ![w].wait = "off"]  BY <1>7 DEF WaitClose
  <2> HIDE DEF h
  <2>3. wrap' \in [Wraps -> WrapState] /\ \A x \in Wraps : wrap'[x].wait # "off" => wrap'[x].st # "free"
    BY <2>1, <2>2 DEF WrapState
  <2>4. sock' \in [Socks -> SockState] /\ \A q \in Socks : sock'[q].st # "free" => sock'[q].key \in Keys
    BY <1>7, HangupTyped, Unmoved DEF WaitClose
  <2> QED  BY <1>7, <2>3, <2>4, Typed, TermMoved DEF WaitClose
<1>8. CASE SweepFind
  BY <1>8, Typed, Unmoved, TermMoved DEF SweepFind
<1>9. ASSUME NEW k \in Keys, SweepTake(k)  PROVE TypeOK' /\ Locals'
  BY <1>9, Typed, Unmoved, TermMoved DEF SweepTake
<1>10. CASE SweepClose
  <2>1. /\ wrap' \in [Wraps -> WrapState] /\ sock' \in [Socks -> SockState]
        /\ \A s \in Socks : sock'[s].st # "free" => sock'[s].key \in Keys
        /\ \A w \in Wraps : wrap'[w].wait # "off" => wrap'[w].st # "free"
    BY <1>10, ShutTyped, HangupTyped, Unmoved DEF SweepClose, CloseWraps
  <2> QED  BY <1>10, <2>1, Typed, TermMoved DEF SweepClose
<1> QED  BY <1>1, <1>2, <1>3, <1>4, <1>5, <1>6, <1>7, <1>8, <1>9, <1>10 DEF SockNext, WaitNext, SweepNext

\* What every step is, one line per lemma about a kind of step.
Kinds ==
  \/ \E r \in Reqs : (Ensure(r) \/ LogoutRest(r)) /\ UNCHANGED shells
  \/ \E r \in Reqs : ConnectRest(r) \/ LogoutTerms(r) \/ LogoutShut(r)
  \/ \E r \in Reqs, k \in Keys : \/ Use(r, k) /\ UNCHANGED shells
                                 \/ Logout(r, k)
                                 \/ \E s \in Socks : Connect(r, k, s)
  \/ \/ \E s \in Socks : SockEnd(s) \/ SockInput(s) \/ SockClose(s) \/ SockNext(s)
     \/ \E w \in Wraps : ShellExit(w) \/ WaitNext(w)
     \/ SweepFind \/ SweepNext
  \/ /\ UNCHANGED shells
     /\ \/ \E u \in Users : Login(u)
        \/ \E k \in Keys : Expire(k)
        \/ \E c \in Conns : ExpireClose(c) \/ Drop(c)
  \/ UNCHANGED vars

LEMMA NextKinds == [Next]_vars => Kinds
BY DEF Next, UserNext, ReqNext, Kinds

LEMMA TypeStep == TypeOK /\ Locals /\ [Next]_vars => TypeOK' /\ Locals'
<1> SUFFICES ASSUME TypeOK, Locals, Kinds  PROVE TypeOK' /\ Locals'
  BY NextKinds
<1>1. ASSUME NEW u \in Users, Login(u), UNCHANGED shells  PROVE TypeOK' /\ Locals'
  BY <1>1 DEF Login, shells, TypeOK, Locals
<1>2. ASSUME NEW k \in Keys, Expire(k), UNCHANGED shells  PROVE TypeOK' /\ Locals'
  BY <1>2 DEF Expire, shells, TypeOK, Locals
<1>3. ASSUME NEW c \in Conns, ExpireClose(c) \/ Drop(c), UNCHANGED shells  PROVE TypeOK' /\ Locals'
  <2>1. conn' \in [Conns -> {"free", "open", "closed"}]
    BY <1>3, ClosedTyped DEF ExpireClose, Drop, ConnStates
  <2> QED  BY <1>3, <2>1 DEF ExpireClose, Drop, shells, TypeOK, Locals
<1>4. CASE UNCHANGED vars
  BY <1>4 DEF vars, TypeOK, Locals
<1> QED  BY <1>1, <1>2, <1>3, <1>4, SshTypes, BeginTypes, ConnectTypes, EndTypes DEF Kinds

-----------------------------------------------------------------------------
(* SSH connections *)

InHand(q) == req[q].pc \in {"store", "drop"}

\* A step that leaves the SSH side and the requests with a connection in hand.
LEMMA ConnsFrame ==
  ASSUME ConnsAccounted, UNCHANGED ssh,
         \A q \in Reqs : InHand(q) => req'[q] = req[q]
  PROVE  ConnsAccounted'
BY DEF ConnsAccounted, Held, InHand, ssh

LEMMA BeginConns ==
  ASSUME TypeOK, ConnsAccounted, NEW r \in Reqs, NEW k \in Keys,
         \/ Use(r, k) /\ UNCHANGED shells
         \/ Logout(r, k)
         \/ \E s \in Socks : Connect(r, k, s)
  PROVE  ConnsAccounted'
<1>1. UNCHANGED ssh /\ \A q \in Reqs : InHand(q) => req'[q] = req[q]
  BY DEF Use, Logout, Connect, AtPc, InHand, TypeOK
<1> QED  BY <1>1, ConnsFrame

LEMMA ConnectConns ==
  ASSUME TypeOK, ConnsAccounted, NEW r \in Reqs, ConnectRest(r) \/ LogoutTerms(r) \/ LogoutShut(r)
  PROVE  ConnsAccounted'
<1>1. UNCHANGED ssh
  BY DEF ConnectRest, Evict, Evicted, AddSock, Lock, GetClient, CheckClient, GetAgain, OpenShell,
         Attach, Fail, LogoutTerms, LogoutShut
<1>2. ~InHand(r)
  BY DEF ConnectRest, Evict, Evicted, AddSock, Lock, GetClient, CheckClient, GetAgain, OpenShell,
         Attach, Fail, LogoutTerms, LogoutShut, AtPc, InHand
<1>3. \A q \in Reqs \ {r} : req'[q] = req[q]
  BY DEF ConnectRest, Evict, Evicted, AddSock, Lock, GetClient, CheckClient, GetAgain, OpenShell,
         Attach, Fail, LogoutTerms, LogoutShut, Goto, TypeOK
<1> QED  BY <1>1, <1>2, <1>3, ConnsFrame

\* A connection closed by Close is not open, and no other changes.
LEMMA ClosedOpen ==
  ASSUME TypeOK, NEW cs, NEW c \in Conns
  PROVE  Closed(cs)[c] = "open" <=> conn[c] = "open" /\ c \notin cs
BY DEF TypeOK, Closed

LEMMA SshConns ==
  ASSUME TypeOK, Locals, ConnsAccounted, NEW r \in Reqs, Ensure(r) \/ LogoutRest(r)
  PROVE  ConnsAccounted'
<1> USE DEF AtPc, Key, Goto
<1>0. /\ req \in [Reqs -> ReqState] /\ session \in [Keys -> Conns \cup {NoConn}]
      /\ conn \in [Conns -> ConnStates]
      /\ req[r].pc # "idle" => req[r].key \in Keys
  BY Typed DEF ReqOK
<1>1. CASE EnsureCreds(r) \/ EnsureGet(r) \/ EnsureProbe(r)
  <2>1. UNCHANGED ssh /\ \A q \in Reqs : InHand(q) => req'[q] = req[q]
    BY <1>0, <1>1 DEF EnsureCreds, EnsureGet, EnsureProbe, InHand
  <2> QED  BY <2>1, ConnsFrame
<1>2. CASE EnsureDelete(r)
  <2>1. /\ \A q \in Reqs \ {r} : req'[q] = req[q]
        /\ req'[r].conn = session[req[r].key]
        /\ session[req[r].key] # NoConn => req'[r].pc = "drop"
        /\ ~InHand(r)
    BY <1>0, <1>2 DEF EnsureDelete, InHand, ReqState
  <2>2. \A k \in Keys \ {req[r].key} : session'[k] = session[k]
    BY <1>0, <1>2 DEF EnsureDelete
  <2>3. \A k \in Keys : session'[k] = session[k] \/ session[k] = session[req[r].key]
    BY <2>2
  <2>4. UNCHANGED <<conn, dying>>  BY <1>2 DEF EnsureDelete
  <2> SUFFICES ASSUME NEW c \in Conns, conn[c] = "open"
               PROVE  (c \in Held \cup dying \/ \E q \in Reqs : req[q].conn = c /\ InHand(q))'
    BY <2>4 DEF ConnsAccounted, InHand
  <2>5. CASE c \in dying  BY <2>4, <2>5
  <2>6. ASSUME NEW q \in Reqs, req[q].conn = c, InHand(q)  PROVE req'[q].conn = c /\ InHand(q)'
    BY <2>1, <2>6 DEF InHand
  <2>7. ASSUME NEW k \in Keys, session[k] = c
        PROVE  c \in Held' \/ (req'[r].conn = c /\ InHand(r)')
    <3>1. CASE k = req[r].key
      <4>1. c # NoConn  BY NothingAssumption
      <4> QED  BY <2>1, <2>7, <3>1, <4>1 DEF InHand
    <3>2. CASE k # req[r].key
      BY <2>2, <2>7, <3>2 DEF Held
    <3> QED  BY <3>1, <3>2
  <2> QED  BY <2>5, <2>6, <2>7 DEF ConnsAccounted, Held, InHand
<1>3. CASE EnsureDrop(r)
  <2>1. \A q \in Reqs \ {r} : req'[q] = req[q]
    BY <1>0, <1>3 DEF EnsureDrop
  <2>2. \A c \in Conns : conn'[c] = "open" <=> conn[c] = "open" /\ c # req[r].conn
    BY <1>3, ClosedOpen DEF EnsureDrop
  <2> QED  BY <1>3, <2>1, <2>2 DEF EnsureDrop, ConnsAccounted, Held
<1>4. CASE EnsureDial(r)
  <2>1. ~InHand(r) /\ UNCHANGED <<creds, meta, session, dying>>
    BY <1>4 DEF EnsureDial, InHand
  <2>2. ASSUME NEW c \in Conns, conn' = [conn EXCEPT ![c] = "open"],
               req' = [req EXCEPT ![r].conn = c, ![r].pc = "store"]
        PROVE  ConnsAccounted'
    <3>1. /\ \A q \in Reqs \ {r} : req'[q] = req[q]
          /\ req'[r].conn = c /\ req'[r].pc = "store"
          /\ \A d \in Conns \ {c} : conn'[d] = conn[d]
      BY <1>0, <2>2 DEF ReqState
    <3> QED  BY <2>1, <3>1 DEF ConnsAccounted, Held, InHand
  <2>3. CASE UNCHANGED conn /\ Goto(r, "fail")
    <3>1. UNCHANGED ssh /\ \A q \in Reqs : InHand(q) => req'[q] = req[q]
      BY <1>0, <2>1, <2>3 DEF ssh
    <3> QED  BY <3>1, ConnsFrame
  <2> QED  BY <1>4, <2>2, <2>3 DEF EnsureDial
<1>5. CASE EnsureStore(r)
  <2>1. \A q \in Reqs \ {r} : req'[q] = req[q]
    BY <1>0, <1>5 DEF EnsureStore
  <2>2. \A c \in Conns : conn'[c] = "open" <=> conn[c] = "open" /\ c # session[req[r].key]
    BY <1>5, ClosedOpen DEF EnsureStore
  <2>3. \A k \in Keys : session'[k] = IF k = req[r].key THEN req[r].conn ELSE session[k]
    BY <1>0, <1>5 DEF EnsureStore
  <2>4. req[r].key \in Keys  BY <1>0, <1>5 DEF EnsureStore
  <2>5. dying' = dying  BY <1>5 DEF EnsureStore
  <2> SUFFICES ASSUME NEW c \in Conns, conn[c] = "open", c # session[req[r].key]
               PROVE  (c \in Held \cup dying \/ \E q \in Reqs : req[q].conn = c /\ InHand(q))'
    BY <2>2 DEF ConnsAccounted, InHand
  <2>6. ASSUME NEW k \in Keys, session[k] = c  PROVE c \in Held'
    BY <2>3, <2>6 DEF Held
  <2>7. ASSUME NEW q \in Reqs \ {r}, req[q].conn = c, InHand(q)  PROVE req'[q].conn = c /\ InHand(q)'
    BY <2>1, <2>7 DEF InHand
  <2>8. ASSUME req[r].conn = c  PROVE c \in Held'
    BY <2>3, <2>4, <2>8 DEF Held
  <2> QED  BY <2>5, <2>6, <2>7, <2>8 DEF ConnsAccounted, Held, InHand
<1>6. CASE EnsureSave(r) \/ LogoutCreds(r) \/ LogoutMeta(r)
  <2>1. \A q \in Reqs : InHand(q) => req'[q] = req[q]
    BY <1>0, <1>6 DEF EnsureSave, LogoutCreds, LogoutMeta, InHand
  <2>2. UNCHANGED <<session, conn, dying>>
    BY <1>6 DEF EnsureSave, LogoutCreds, LogoutMeta
  <2> QED  BY <2>1, <2>2 DEF ConnsAccounted, Held, InHand
<1>7. CASE LogoutSessions(r)
  <2> DEFINE mine == {k \in Keys : k[1] = req[r].key[1]}
  <2>1. \A q \in Reqs : InHand(q) => req'[q] = req[q]
    BY <1>0, <1>7 DEF LogoutSessions, InHand
  <2>2. \A c \in Conns : conn'[c] = "open" <=> conn[c] = "open" /\ c \notin {session[k] : k \in mine}
    BY <1>7, ClosedOpen DEF LogoutSessions
  <2>3. \A k \in Keys : k \notin mine => session'[k] = session[k]
    BY <1>7 DEF LogoutSessions
  <2>4. dying' = dying  BY <1>7 DEF LogoutSessions
  <2> QED  BY <2>1, <2>2, <2>3, <2>4 DEF ConnsAccounted, Held, InHand
<1> QED  BY <1>1, <1>2, <1>3, <1>4, <1>5, <1>6, <1>7 DEF Ensure, LogoutRest

LEMMA ConnsStep == TypeOK /\ Locals /\ ConnsAccounted /\ [Next]_vars => ConnsAccounted'
<1> SUFFICES ASSUME TypeOK, Locals, ConnsAccounted, Kinds  PROVE ConnsAccounted'
  BY NextKinds
<1>1. ASSUME UNCHANGED <<session, conn, dying, req>>  PROVE ConnsAccounted'
  BY <1>1 DEF ConnsAccounted, Held
<1>2. ASSUME NEW k \in Keys, Expire(k)  PROVE ConnsAccounted'
  <2>1. \A x \in Keys : session'[x] = IF x = k THEN NoConn ELSE session[x]
    BY <1>2 DEF Expire, TypeOK
  <2> QED  BY <1>2, <2>1 DEF Expire, ConnsAccounted, Held
<1>3. ASSUME NEW c \in Conns, ExpireClose(c) \/ Drop(c)  PROVE ConnsAccounted'
  <2>1. \A x \in Conns : conn'[x] = "open" <=> conn[x] = "open" /\ x # c
    BY <1>3, ClosedOpen DEF ExpireClose, Drop
  <2> QED  BY <1>3, <2>1 DEF ExpireClose, Drop, ConnsAccounted, Held
<1>4. ASSUME \/ \E s \in Socks : SockEnd(s) \/ SockInput(s) \/ SockClose(s) \/ SockNext(s)
             \/ \E w \in Wraps : ShellExit(w) \/ WaitNext(w)
             \/ SweepFind \/ SweepNext
      PROVE  UNCHANGED ssh /\ req' = req
  BY <1>4 DEF SockEnd, SockInput, SockClose, SockNext, SockClosed, SockDone, ShellExit, WaitNext, WaitEnd,
              WaitClose, SweepFind, SweepNext, SweepTake, SweepClose
<1> QED
  BY <1>1, <1>2, <1>3, <1>4, SshConns, BeginConns, ConnectConns DEF Kinds, Login, vars, ssh

-----------------------------------------------------------------------------
(* Shells *)

\* Requests go on creating shells only as they did before.
SameCreators == \A q \in Reqs : Creating(q)' => Creating(q) /\ req'[q].key = req[q].key /\ mu' = mu

\* A step that closes wrappers on their way to be closed, or none at all.
LEMMA ShellsClose ==
  ASSUME TypeOK, Shells, term' = term, SameCreators, NEW ws,
         \A w \in Wraps : /\ wrap'[w].key = wrap[w].key
                          /\ wrap'[w].st = "free" <=> wrap[w].st = "free"
                          /\ wrap'[w].st = "open" <=> wrap[w].st = "open" /\ w \notin ws
                          /\ w \in ws => ToClose(w)
                          /\ ToClose(w)' => ToClose(w)
                          /\ ToClose(w) => ToClose(w)' \/ w \in ws
  PROVE  Shells'
<1>1. \A k \in Keys : term[k] # NoWrap => term[k] \in Wraps
  BY DEF TypeOK
<1>2. /\ \A w \in Wraps : wrap[w].st = "open" => term[wrap[w].key] = w \/ ToClose(w)
      /\ \A k \in Keys : term[k] # NoWrap => /\ wrap[term[k]].st = "open" /\ ~ToClose(term[k])
                                             /\ wrap[term[k]].key = k
      /\ \A w \in Wraps : wrap[w].st # "free" => wrap[w].key \in Keys
      /\ \A w \in Wraps : ToClose(w) => wrap[w].st # "free"
  BY <1>1 DEF Shells, ShellsAccounted, OwnKey, ClosedBorn
<1>3. ShellsAccounted'
  BY <1>1, <1>2 DEF ShellsAccounted
<1>4. OwnKey' /\ ClosedBorn'
  BY <1>1, <1>2 DEF OwnKey, ClosedBorn
<1>5. LockKept'
  BY DEF SameCreators, Shells, LockKept
<1> QED  BY <1>3, <1>4, <1>5 DEF Shells

\* A step that takes the keys ks out of the map and sets out to close D.
LEMMA ShellsTake ==
  ASSUME TypeOK, Locals, Shells, SameCreators, NEW ks, NEW D,
         \A k \in Keys : term'[k] = IF k \in ks THEN NoWrap ELSE term[k],
         \A k \in Keys : k \in ks => term[k] \in D \cup {NoWrap},
         \A w \in Wraps : /\ wrap'[w].key = wrap[w].key /\ wrap'[w].st = wrap[w].st
                          /\ ToClose(w)' <=> ToClose(w) \/ w \in D
                          /\ w \in D => wrap[w].st # "free" /\ \A k \in Keys : term[k] = w => k \in ks
  PROVE  Shells'
<1>1. \A k \in Keys : term[k] # NoWrap => term[k] \in Wraps
  BY DEF TypeOK
<1>2. /\ \A w \in Wraps : wrap[w].st = "open" => term[wrap[w].key] = w \/ ToClose(w)
      /\ \A k \in Keys : term[k] # NoWrap => /\ wrap[term[k]].st = "open" /\ ~ToClose(term[k])
                                             /\ wrap[term[k]].key = k
      /\ \A w \in Wraps : wrap[w].st # "free" => wrap[w].key \in Keys
      /\ \A w \in Wraps : ToClose(w) => wrap[w].st # "free"
  BY <1>1 DEF Shells, ShellsAccounted, OwnKey, ClosedBorn
<1>3. ShellsAccounted'
  BY <1>1, <1>2, NothingAssumption DEF ShellsAccounted
<1>4. OwnKey' /\ ClosedBorn'
  BY <1>1, <1>2 DEF OwnKey, ClosedBorn
<1>5. LockKept'
  <2> SUFFICES ASSUME NEW q \in Reqs, Creating(q)'  PROVE mu' = q /\ term'[req'[q].key] = NoWrap
    BY DEF LockKept
  <2>1. Creating(q) /\ mu' = mu /\ req'[q].key = req[q].key  BY DEF SameCreators
  <2>2. req[q].key \in Keys  BY <2>1, Typed DEF Creating, EnsurePCs, ReqOK
  <2> QED  BY <2>1, <2>2 DEF Shells, LockKept
<1> QED  BY <1>3, <1>4, <1>5 DEF Shells

\* A step that takes no wrapper out of the map and closes none.
LEMMA ShellsSame ==
  ASSUME TypeOK, Shells, term' = term, sweep'.shut = sweep.shut, SameCreators,
         \A q \in Reqs : req'[q].shut = req[q].shut,
         \A s \in Socks : sock'[s].shut = sock[s].shut,
         \A w \in Wraps : wrap'[w].key = wrap[w].key /\ wrap'[w].st = wrap[w].st /\ wrap'[w].wait = wrap[w].wait
  PROVE  Shells'
<1>1. \A w \in Wraps : ToClose(w)' <=> ToClose(w)
  BY DEF ToClose
<1> DEFINE ws == {}
<1>2. \A w \in Wraps : /\ w \notin ws /\ wrap'[w].key = wrap[w].key
                       /\ wrap'[w].st = "free" <=> wrap[w].st = "free"
                       /\ wrap'[w].st = "open" <=> wrap[w].st = "open" /\ w \notin ws
  OBVIOUS
<1> HIDE DEF ws
<1> QED  BY <1>1, <1>2, ShellsClose

LEMMA SshShells ==
  ASSUME TypeOK, Locals, Shells, NEW r \in Reqs, Ensure(r) \/ LogoutRest(r), UNCHANGED shells
  PROVE  Shells'
<1> DEFINE v == req[r]
<1>0. /\ req \in [Reqs -> ReqState] /\ v \in ReqState
      /\ v.pc \in EnsurePCs \cup {"delCreds", "closeAll", "delMeta"}
  BY Typed DEF Ensure, LogoutRest, EnsureCreds, EnsureGet, EnsureProbe, EnsureDelete, EnsureDrop, EnsureDial,
         EnsureStore, EnsureSave, LogoutCreds, LogoutSessions, LogoutMeta, AtPc, EnsurePCs
<1>1. v.shut = {}
  BY <1>0, Typed DEF ReqOK, EnsurePCs
<1>2. \A q \in Reqs \ {r} : req'[q] = req[q]
  BY <1>0 DEF Ensure, LogoutRest, EnsureCreds, EnsureGet, EnsureProbe, EnsureDelete, EnsureDrop, EnsureDial,
         EnsureStore, EnsureSave, LogoutCreds, LogoutSessions, LogoutMeta, Goto, ssh
<1>3. req'[r].shut = {} /\ (Creating(r)' => Creating(r) /\ req'[r].key = v.key)
  <2>1. CASE EnsureSave(r)
    BY <1>0, <1>1, <2>1 DEF EnsureSave, AtPc, Creating, EnsurePCs, ReqIdle, ReqState
  <2>2. CASE LogoutRest(r)
    BY <1>0, <1>1, <2>2 DEF LogoutRest, LogoutCreds, LogoutSessions, LogoutMeta, AtPc, Goto, Creating, EnsurePCs, ReqIdle, ReqState
  <2>3. CASE \/ EnsureCreds(r) \/ EnsureGet(r) \/ EnsureProbe(r) \/ EnsureDelete(r)
             \/ EnsureDrop(r) \/ EnsureDial(r) \/ EnsureStore(r)
    <3>1. v.pc \in EnsurePCs
      BY <2>3 DEF EnsureCreds, EnsureGet, EnsureProbe, EnsureDelete, EnsureDrop, EnsureDial, EnsureStore, AtPc, EnsurePCs
    <3> DEFINE Moved(pc, c) == \/ req' = [req EXCEPT ![r].pc = pc]
                               \/ req' = [req EXCEPT ![r].conn = c, ![r].pc = pc]
    <3>2. \E c : \E pc \in {"get", "fail", "dial", "probe", "save", "delete", "drop", "store"} : Moved(pc, c)
      <4>1. CASE EnsureCreds(r) \/ EnsureProbe(r) \/ EnsureDrop(r) \/ EnsureStore(r)
        BY <4>1 DEF EnsureCreds, EnsureProbe, EnsureDrop, EnsureStore, Goto
      <4>2. CASE EnsureGet(r) \/ EnsureDelete(r)
        BY <4>2 DEF EnsureGet, EnsureDelete
      <4>3. CASE EnsureDial(r)
        BY <4>3 DEF EnsureDial, Goto
      <4> QED  BY <2>3, <4>1, <4>2, <4>3
    <3>3. ASSUME NEW pc \in {"get", "fail", "dial", "probe", "save", "delete", "drop", "store"}, NEW c, Moved(pc, c)
          PROVE  req'[r].shut = v.shut /\ req'[r].key = v.key /\ req'[r].then = v.then /\ req'[r].pc = pc
      BY <1>0, <3>3 DEF ReqState
    <3> HIDE DEF Moved
    <3>4. /\ req'[r].shut = v.shut /\ req'[r].key = v.key /\ req'[r].then = v.then
          /\ req'[r].pc \in EnsurePCs \cup {"fail"}
      BY <3>2, <3>3 DEF EnsurePCs
    <3> QED  BY <1>1, <3>1, <3>4 DEF Creating, EnsurePCs
  <2> QED  BY <2>1, <2>2, <2>3 DEF Ensure
<1>4. SameCreators
  BY <1>2, <1>3 DEF SameCreators, Creating, shells
<1> QED  BY <1>1, <1>2, <1>3, <1>4, ShellsSame DEF shells

LEMMA BeginShells ==
  ASSUME TypeOK, Locals, Shells, NEW r \in Reqs, NEW k \in Keys,
         \/ Use(r, k) /\ UNCHANGED shells
         \/ Logout(r, k)
         \/ \E s \in Socks : Connect(r, k, s)
  PROVE  Shells'
<1>1. UNCHANGED shells /\ \A q \in Reqs \ {r} : req'[q] = req[q]
  BY Typed DEF Use, Logout, Connect
<1>0. req \in [Reqs -> ReqState] /\ req[r].shut = {}
  BY Typed DEF Use, Logout, Connect, AtPc, ReqOK
<1>2. /\ req'[r].shut = {}
      /\ req'[r].pc \in {"creds", "terms"} /\ req'[r].then \in {"idle", "evict"}
  <2>1. CASE Use(r, k)  BY <1>0, <2>1 DEF Use, ReqIdle
  <2>2. CASE Logout(r, k)  BY <1>0, <2>2 DEF Logout, ReqIdle
  <2>3. CASE \E s \in Socks : Connect(r, k, s)
    <3>1. PICK s \in Socks : Connect(r, k, s)  BY <2>3
    <3>2. req'[r] = [ReqIdle EXCEPT !.pc = "creds", !.then = "evict", !.key = k, !.sock = s]
      BY <1>0, <3>1 DEF Connect
    <3> QED  BY <3>2 DEF ReqIdle
  <2> QED  BY <2>1, <2>2, <2>3
<1>3. ~Creating(r)'
  BY <1>2 DEF Creating, EnsurePCs
<1>4. SameCreators
  BY <1>1, <1>3 DEF SameCreators, Creating, shells
<1> QED  BY <1>0, <1>1, <1>2, <1>4, ShellsSame DEF shells

\* A step of one request that neither begins nor goes on creating a shell.
LEMMA OneCreator ==
  ASSUME NEW r \in Reqs, \A q \in Reqs \ {r} : req'[q] = req[q], mu' = mu,
         Creating(r)' => Creating(r) /\ req'[r].key = req[r].key
  PROVE  SameCreators
BY DEF SameCreators, Creating

\* The wrapper registered under a key has no other key.
LEMMA OneKey ==
  ASSUME TypeOK, Shells, NEW j \in Keys, NEW k \in Keys, term[j] # NoWrap, term[k] = term[j]
  PROVE  k = j
BY DEF Shells, OwnKey

LEMMA ConnectShells ==
  ASSUME TypeOK, Locals, Shells, NEW r \in Reqs, ConnectRest(r) \/ LogoutTerms(r) \/ LogoutShut(r)
  PROVE  Shells'
<1> DEFINE v == req[r]
<1>0. /\ req \in [Reqs -> ReqState] /\ v \in ReqState /\ term \in [Keys -> Wraps \cup {NoWrap}]
      /\ wrap \in [Wraps -> WrapState] /\ sock \in [Socks -> SockState]
      /\ v.pc # "idle" => v.key \in Keys
      /\ v.pc \notin {"evicted", "shut"} => v.shut = {}
  BY Typed DEF ReqOK
<1>q. \A q \in Reqs \ {r} : req'[q] = req[q]
  BY <1>0 DEF ConnectRest, Evict, Evicted, AddSock, Lock, GetClient, CheckClient, GetAgain, OpenShell,
         Attach, Fail, LogoutTerms, LogoutShut, Goto
<1> USE DEF AtPc, Key
<1>1. CASE Evict(r)
  <2> DEFINE ks == {v.key}
             D == {term[v.key]} \ {NoWrap}
  <2>1. v.pc = "evict" /\ v.key \in Keys /\ v.shut = {} /\ UNCHANGED <<mu, wrap, sock, sweep>>
    BY <1>0, <1>1 DEF Evict
  <2>2. req'[r].shut = D /\ req'[r].pc = "evicted"
    BY <1>0, <1>1 DEF Evict, ReqState
  <2>3. SameCreators  BY <1>q, <2>1, <2>2, OneCreator DEF Creating, EnsurePCs
  <2>4. \A w \in Wraps : ToClose(w)' <=> ToClose(w) \/ w \in D
    BY <1>q, <2>1, <2>2 DEF ToClose
  <2>5. \A w \in Wraps : w \in D => wrap[w].st # "free" /\ \A k \in Keys : term[k] = w => k \in ks
    BY <2>1, OneKey DEF Shells, ShellsAccounted
  <2>6. \A k \in Keys : term'[k] = IF k \in ks THEN NoWrap ELSE term[k]
    BY <1>0, <1>1 DEF Evict
  <2>7. \A k \in Keys : k \in ks => term[k] \in D \cup {NoWrap}  OBVIOUS
  <2> HIDE DEF D, ks
  <2> QED  BY <2>1, <2>3, <2>4, <2>5, <2>6, <2>7, ShellsTake
<1>2. CASE Evicted(r) \/ LogoutShut(r)
  <2> DEFINE ws == v.shut
  <2>1. UNCHANGED <<term, mu, sweep>> /\ v.pc \in {"evicted", "shut"} /\ wrap' = Shut(ws) /\ \E ss : sock' = Hangup(ss)
    BY <1>2 DEF Evicted, LogoutShut, CloseWraps
  <2>2. req'[r].shut = {} /\ req'[r].pc \in {"add", "delCreds"}
    BY <1>0, <1>2 DEF Evicted, LogoutShut, ReqState
  <2>3. SameCreators  BY <1>q, <2>1, <2>2, OneCreator DEF Creating, EnsurePCs
  <2>4. \A s \in Socks : sock'[s].shut = sock[s].shut  BY <2>1, HangupTyped
  <2>5. \A w \in Wraps : /\ wrap'[w].key = wrap[w].key /\ wrap'[w].wait = wrap[w].wait
                         /\ wrap'[w].st = "free" <=> wrap[w].st = "free"
                         /\ wrap'[w].st = "open" <=> wrap[w].st = "open" /\ w \notin ws
    BY <2>1, ShutTyped
  <2>6. \A w \in Wraps : /\ w \in ws => ToClose(w)
                         /\ ToClose(w)' => ToClose(w)
                         /\ ToClose(w) => ToClose(w)' \/ w \in ws
    BY <1>q, <2>1, <2>2, <2>4, <2>5 DEF ToClose
  <2> HIDE DEF ws
  <2> QED  BY <2>1, <2>3, <2>5, <2>6, ShellsClose
<1>3. CASE AddSock(r) \/ Attach(r) \/ Fail(r)
  <2>1. UNCHANGED <<term, sweep>> /\ v.pc \in {"add", "attach", "fail"}
    BY <1>3 DEF AddSock, Attach, Fail
  <2>2. req'[r].shut = v.shut /\ ~Creating(r)'
    <3>1. CASE AddSock(r)
      BY <1>0, <3>1 DEF AddSock, Goto, Creating, EnsurePCs, ReqState
    <3>2. CASE Attach(r) \/ Fail(r)
      <4>1. req'[r] = ReqIdle /\ v.shut = {}  BY <1>0, <2>1, <3>2 DEF Attach, Fail
      <4> QED  BY <4>1 DEF ReqIdle, Creating, EnsurePCs
    <3> QED  BY <1>3, <3>1, <3>2
  <2>3. SameCreators
    <3>1. CASE Fail(r)
      <4>1. \A q \in Reqs \ {r} : Creating(q) => mu = q  BY DEF Shells, LockKept
      <4> QED  BY <1>q, <2>2, <3>1, <4>1 DEF Fail, SameCreators, Creating
    <3>2. CASE AddSock(r) \/ Attach(r)
      BY <1>q, <2>2, <3>2, OneCreator DEF AddSock, Attach
    <3> QED  BY <1>3, <3>1, <3>2
  <2>4. \A s \in Socks : sock'[s].shut = sock[s].shut
    <3>1. CASE AddSock(r) \/ Attach(r)
      BY <1>0, <3>1 DEF AddSock, Attach, SockState
    <3>2. CASE Fail(r)
      <4>1. sock' = Hangup({v.sock})  BY <3>2 DEF Fail
      <4> QED  BY <4>1, HangupTyped
    <3> QED  BY <1>3, <3>1, <3>2
  <2>5. \A w \in Wraps : wrap'[w].key = wrap[w].key /\ wrap'[w].st = wrap[w].st /\ wrap'[w].wait = wrap[w].wait
    BY <1>0, <1>3 DEF AddSock, Attach, Fail, WrapState
  <2> QED  BY <1>q, <2>1, <2>2, <2>3, <2>4, <2>5, ShellsSame
<1>4. CASE Lock(r)
  <2>1. UNCHANGED <<wrap, sock, sweep>> /\ v.pc = "lock" /\ v.key \in Keys /\ mu = NoReq
    BY <1>0, <1>4 DEF Lock, Unlocked
  <2>2. term' = term
    <3>1. term[v.key] # NoWrap => wrap[term[v.key]].st = "open"  BY <2>1 DEF Shells, ShellsAccounted
    <3> QED  BY <1>0, <1>4, <3>1 DEF Lock
  <2>3. \A q \in Reqs : req'[q].shut = req[q].shut
    BY <1>0, <1>q, <1>4 DEF Lock, Goto, ReqState
  <2>4. ShellsAccounted' /\ OwnKey' /\ ClosedBorn'
    <3>1. \A w \in Wraps : ToClose(w)' <=> ToClose(w)  BY <2>1, <2>3 DEF ToClose
    <3> QED  BY <1>0, <2>1, <2>2, <3>1 DEF Shells, ShellsAccounted, OwnKey, ClosedBorn
  <2>5. \A q \in Reqs : ~Creating(q)
    BY <2>1, NothingAssumption DEF Shells, LockKept
  <2>6. Creating(r)' => req'[r].key = v.key /\ mu' = r /\ term[v.key] = NoWrap
    <3>1. term[v.key] # NoWrap => wrap[term[v.key]].st = "open"  BY <2>1 DEF Shells, ShellsAccounted
    <3>2. CASE term[v.key] # NoWrap
      BY <1>0, <1>4, <3>1, <3>2 DEF Lock, Creating, EnsurePCs, ReqState
    <3>3. CASE term[v.key] = NoWrap
      BY <1>0, <1>4, <3>3 DEF Lock, Goto, ReqState
    <3> QED  BY <3>2, <3>3
  <2>7. LockKept'
    BY <1>q, <2>2, <2>5, <2>6 DEF LockKept, Creating
  <2> QED  BY <2>4, <2>7 DEF Shells
<1>5. CASE GetClient(r) \/ CheckClient(r) \/ GetAgain(r)
  <2>1. UNCHANGED shells /\ Creating(r)
    BY <1>5 DEF GetClient, CheckClient, GetAgain, Creating
  <2>2. req'[r].shut = v.shut /\ req'[r].key = v.key
    BY <1>0, <1>5 DEF GetClient, CheckClient, GetAgain, ReqState
  <2>3. SameCreators  BY <1>q, <2>1, <2>2, OneCreator DEF shells
  <2> QED  BY <1>q, <2>1, <2>2, <2>3, ShellsSame DEF shells
<1>7. CASE LogoutTerms(r)
  <2> DEFINE ks == {k \in Keys : k[1] = v.key[1]}
             D == {term[k] : k \in ks} \ {NoWrap}
  <2>1. v.pc = "terms" /\ v.shut = {} /\ UNCHANGED <<mu, wrap, sock, sweep>>
    BY <1>0, <1>7 DEF LogoutTerms
  <2>2. req'[r].shut = D /\ req'[r].pc = "shut"
    BY <1>0, <1>7 DEF LogoutTerms, ReqState
  <2>3. SameCreators  BY <1>q, <2>1, <2>2, OneCreator DEF Creating, EnsurePCs
  <2>4. \A w \in Wraps : ToClose(w)' <=> ToClose(w) \/ w \in D
    <3> HIDE DEF D
    <3> QED  BY <1>q, <2>1, <2>2 DEF ToClose
  <2>5. \A w \in Wraps : w \in D => wrap[w].st # "free" /\ \A k \in Keys : term[k] = w => k \in ks
    BY OneKey DEF Shells, ShellsAccounted
  <2>6. \A k \in Keys : term'[k] = IF k \in ks THEN NoWrap ELSE term[k]
    BY <1>7 DEF LogoutTerms
  <2>7. \A k \in Keys : k \in ks => term[k] \in D \cup {NoWrap}  OBVIOUS
  <2> HIDE DEF D, ks
  <2> QED  BY <2>1, <2>3, <2>4, <2>5, <2>6, <2>7, ShellsTake
<1>6. CASE OpenShell(r)
  <2>1. UNCHANGED <<sock, sweep>> /\ Creating(r) /\ v.shut = {} /\ v.key \in Keys
    BY <1>0, <1>6 DEF OpenShell, Creating
  <2>2. mu = r /\ term[v.key] = NoWrap /\ \A q \in Reqs \ {r} : ~Creating(q)
    BY <2>1 DEF Shells, LockKept
  <2>3. ASSUME NEW w \in Wraps, wrap[w].st = "free",
               wrap' = [wrap EXCEPT ![w] = [st |-> "open", key |-> v.key, conn |-> v.conn,
                                            shell |-> TRUE, clients |-> {}, wait |-> "wait"]],
               term' = [term EXCEPT ![v.key] = w],
               req' = [req EXCEPT ![r].wrap = w, ![r].pc = "attach"]
        PROVE  Shells'
    <3>1. req'[r].shut = {} /\ ~Creating(r)'
      BY <1>0, <2>1, <2>3 DEF ReqState, Creating, EnsurePCs
    <3>2. /\ \A k \in Keys : term'[k] = IF k = v.key THEN w ELSE term[k]
          /\ \A x \in Wraps \ {w} : wrap'[x] = wrap[x]
          /\ wrap'[w].st = "open" /\ wrap'[w].key = v.key /\ wrap'[w].wait = "wait"
      BY <1>0, <2>3
    <3>3. ~ToClose(w) /\ \A k \in Keys : term[k] # w
      BY <2>3, NothingAssumption DEF Shells, ShellsAccounted, ClosedBorn
    <3>4. /\ ~ToClose(w)' /\ \A x \in Wraps \ {w} : ToClose(x)' <=> ToClose(x)
      BY <1>q, <2>1, <3>1, <3>2, <3>3 DEF ToClose
    <3>5. \A k \in Keys : term[k] # NoWrap => term[k] \in Wraps \ {w}
      BY <1>0, <3>3
    <3>6. ASSUME NEW x \in Wraps, wrap'[x].st = "open"  PROVE term'[wrap'[x].key] = x \/ ToClose(x)'
      <4>1. CASE x = w  BY <2>1, <3>2, <4>1
      <4>2. CASE x # w
        <5>1. (term[wrap[x].key] = x \/ ToClose(x)) /\ wrap[x].key \in Keys
          BY <3>2, <3>6, <4>2 DEF Shells, ShellsAccounted, OwnKey
        <5> QED  BY <2>2, <3>2, <3>4, <4>2, <5>1, NothingAssumption
      <4> QED  BY <4>1, <4>2
    <3>7. ASSUME NEW k \in Keys, NEW x \in Wraps, term'[k] = x
          PROVE  wrap'[x].st = "open" /\ ~ToClose(x)' /\ wrap'[x].key = k
      <4>1. CASE k = v.key  BY <3>2, <3>4, <3>7, <4>1
      <4>2. CASE k # v.key
        <5>1. x = term[k] /\ x # w /\ x # NoWrap
          BY <3>2, <3>3, <3>7, <4>2, NothingAssumption
        <5>2. wrap[x].st = "open" /\ ~ToClose(x) /\ wrap[x].key = k
          BY <5>1 DEF Shells, ShellsAccounted, OwnKey
        <5> QED  BY <3>2, <3>4, <5>1, <5>2
      <4> QED  BY <4>1, <4>2
    <3>8. ShellsAccounted' /\ OwnKey' /\ ClosedBorn'
      <4>1. \A k \in Keys : term'[k] # NoWrap => term'[k] \in Wraps
        BY <3>2, <3>5
      <4>2. ShellsAccounted'
        BY <3>6, <3>7, <4>1 DEF ShellsAccounted
      <4>3. OwnKey'
        BY <2>1, <3>2, <3>7, <4>1 DEF Shells, OwnKey
      <4>4. ClosedBorn'
        BY <3>2, <3>4 DEF Shells, ClosedBorn
      <4> QED  BY <4>2, <4>3, <4>4
    <3>9. LockKept'
      BY <1>q, <2>2, <3>1 DEF LockKept, Creating
    <3> QED  BY <3>8, <3>9 DEF Shells
  <2>4. CASE Goto(r, "fail") /\ UNCHANGED <<term, mu, wrap>>
    <3>1. req'[r].shut = v.shut /\ req'[r].key = v.key  BY <1>0, <2>4 DEF Goto, ReqState
    <3>2. SameCreators  BY <1>q, <2>1, <2>4, <3>1, OneCreator
    <3> QED  BY <1>q, <2>1, <2>4, <3>1, <3>2, ShellsSame
  <2> QED  BY <1>6, <2>3, <2>4 DEF OpenShell
<1> QED  BY <1>1, <1>2, <1>3, <1>4, <1>5, <1>6, <1>7 DEF ConnectRest

LEMMA EndShells ==
  ASSUME TypeOK, Locals, Shells,
         \/ \E s \in Socks : SockEnd(s) \/ SockInput(s) \/ SockClose(s) \/ SockNext(s)
         \/ \E w \in Wraps : ShellExit(w) \/ WaitNext(w)
         \/ SweepFind \/ SweepNext
  PROVE  Shells'
<1>0. /\ term \in [Keys -> Wraps \cup {NoWrap}] /\ wrap \in [Wraps -> WrapState] /\ sock \in [Socks -> SockState]
      /\ sweep \in [keys : SUBSET Keys, shut : SUBSET Wraps]
  BY Typed
<1>q. req' = req /\ mu' = mu
  BY DEF SockEnd, SockInput, SockClose, SockNext, SockClosed, SockDone, ShellExit, WaitNext, WaitEnd,
         WaitClose, SweepFind, SweepNext, SweepTake, SweepClose
<1>c. SameCreators
  BY <1>q DEF SameCreators, Creating
<1>1. ASSUME NEW s \in Socks, SockEnd(s) \/ SockInput(s)  PROVE Shells'
  <2>1. UNCHANGED <<term, wrap, sweep>> /\ \A x \in Socks : sock'[x].shut = sock[x].shut
    BY <1>1, HangupTyped DEF SockEnd, SockInput
  <2> QED  BY <1>q, <1>c, <2>1, ShellsSame
<1>2. ASSUME NEW s \in Socks, SockDone(s)  PROVE Shells'
  <2>1. UNCHANGED <<term, sweep>> /\ \A x \in Socks : sock'[x].shut = sock[x].shut
    BY <1>0, <1>2 DEF SockDone, SockState
  <2>2. \A w \in Wraps : wrap'[w].key = wrap[w].key /\ wrap'[w].st = wrap[w].st /\ wrap'[w].wait = wrap[w].wait
    BY <1>0, <1>2 DEF SockDone, WrapState
  <2> QED  BY <1>q, <1>c, <2>1, <2>2, ShellsSame
<1>3. ASSUME NEW w \in Wraps, ShellExit(w)  PROVE Shells'
  <2>1. /\ UNCHANGED <<term, sweep, sock>>
        /\ \A x \in Wraps : wrap'[x].key = wrap[x].key /\ wrap'[x].st = wrap[x].st /\ wrap'[x].wait = wrap[x].wait
    BY <1>0, <1>3 DEF ShellExit, WrapState
  <2> QED  BY <1>q, <1>c, <2>1, ShellsSame
<1>4. CASE SweepFind
  <2>1. UNCHANGED <<term, sock, wrap>> /\ sweep'.shut = sweep.shut
    BY <1>0, <1>4 DEF SweepFind
  <2> QED  BY <1>q, <1>c, <2>1, ShellsSame
<1>5. ASSUME NEW s \in Socks, SockClosed(s)  PROVE Shells'
  <2> DEFINE ws == sock[s].shut
             h == Hangup({s})
  <2>1. UNCHANGED <<term, sweep>> /\ wrap' = Shut(ws) /\ sock' = [h EXCEPT ![s].shut = {}]
    BY <1>5 DEF SockClosed
  <2>2. h \in [Socks -> SockState] /\ \A x \in Socks : h[x].shut = sock[x].shut
    BY HangupTyped
  <2>3. sock'[s].shut = {} /\ \A x \in Socks \ {s} : sock'[x].shut = sock[x].shut
    <3> HIDE DEF h
    <3> QED  BY <2>1, <2>2 DEF SockState
  <2>4. \A w \in Wraps : /\ wrap'[w].key = wrap[w].key /\ wrap'[w].wait = wrap[w].wait
                         /\ wrap'[w].st = "free" <=> wrap[w].st = "free"
                         /\ wrap'[w].st = "open" <=> wrap[w].st = "open" /\ w \notin ws
    BY <2>1, ShutTyped
  <2>5. \A w \in Wraps : /\ w \in ws => ToClose(w)
                         /\ ToClose(w)' => ToClose(w)
                         /\ ToClose(w) => ToClose(w)' \/ w \in ws
    BY <1>q, <2>1, <2>3, <2>4 DEF ToClose
  <2> HIDE DEF ws
  <2> QED  BY <1>c, <2>1, <2>4, <2>5, ShellsClose
<1>6. CASE SweepClose
  <2> DEFINE ws == sweep.shut
  <2>1. term' = term /\ wrap' = Shut(ws) /\ sweep'.shut = {} /\ \A s \in Socks : sock'[s].shut = sock[s].shut
    BY <1>0, <1>6, HangupTyped DEF SweepClose, CloseWraps
  <2>2. \A w \in Wraps : /\ wrap'[w].key = wrap[w].key /\ wrap'[w].wait = wrap[w].wait
                         /\ wrap'[w].st = "free" <=> wrap[w].st = "free"
                         /\ wrap'[w].st = "open" <=> wrap[w].st = "open" /\ w \notin ws
    BY <2>1, ShutTyped
  <2>3. \A w \in Wraps : /\ w \in ws => ToClose(w)
                         /\ ToClose(w)' => ToClose(w)
                         /\ ToClose(w) => ToClose(w)' \/ w \in ws
    BY <1>q, <2>1, <2>2 DEF ToClose
  <2> HIDE DEF ws
  <2> QED  BY <1>c, <2>1, <2>2, <2>3, ShellsClose
<1>7. ASSUME NEW w \in Wraps, WaitClose(w)  PROVE Shells'
  <2> DEFINE ws == {w}
             h == Shut(ws)
  <2>1. /\ UNCHANGED <<term, sweep>> /\ wrap' = [h EXCEPT ![w].wait = "off"] /\ wrap[w].wait = "close"
        /\ \A s \in Socks : sock'[s].shut = sock[s].shut
    BY <1>7, HangupTyped DEF WaitClose
  <2>2. /\ h \in [Wraps -> WrapState]
        /\ \A x \in Wraps : /\ h[x].key = wrap[x].key /\ h[x].wait = wrap[x].wait
                            /\ h[x].st = "free" <=> wrap[x].st = "free"
                            /\ h[x].st = "open" <=> wrap[x].st = "open" /\ x \notin ws
    BY ShutTyped
  <2> HIDE DEF h
  <2>3. /\ wrap'[w].wait = "off" /\ \A x \in Wraps \ {w} : wrap'[x].wait = wrap[x].wait
        /\ \A x \in Wraps : wrap'[x].key = h[x].key /\ wrap'[x].st = h[x].st
    BY <2>1, <2>2 DEF WrapState
  <2>4. \A x \in Wraps : /\ x \in ws => ToClose(x)
                         /\ ToClose(x)' => ToClose(x)
                         /\ ToClose(x) => ToClose(x)' \/ x \in ws
    BY <1>q, <2>1, <2>3 DEF ToClose
  <2>5. \A x \in Wraps : /\ wrap'[x].key = wrap[x].key
                         /\ wrap'[x].st = "free" <=> wrap[x].st = "free"
                         /\ wrap'[x].st = "open" <=> wrap[x].st = "open" /\ x \notin ws
    BY <2>2, <2>3
  <2> HIDE DEF ws
  <2> QED  BY <1>c, <2>1, <2>4, <2>5, ShellsClose
<1>8. ASSUME NEW s \in Socks, SockClose(s)  PROVE Shells'
  <2> DEFINE ks == {sock[s].key}
             D == {term[sock[s].key]}
  <2>1. /\ sock[s].key \in Keys /\ term[sock[s].key] # NoWrap /\ sock[s].shut = {}
        /\ UNCHANGED <<wrap, sweep>> /\ sock'[s].shut = D /\ \A x \in Socks \ {s} : sock'[x].shut = sock[x].shut
    BY <1>0, <1>8, Unmoved DEF SockClose, SockState
  <2>2. \A w \in Wraps : ToClose(w)' <=> ToClose(w) \/ w \in D
    BY <1>q, <2>1 DEF ToClose
  <2>3. \A w \in Wraps : w \in D => wrap[w].st # "free" /\ \A k \in Keys : term[k] = w => k \in ks
    BY <2>1, OneKey DEF Shells, ShellsAccounted
  <2>4. \A k \in Keys : term'[k] = IF k \in ks THEN NoWrap ELSE term[k]
    BY <1>0, <1>8 DEF SockClose
  <2>5. \A k \in Keys : k \in ks => term[k] \in D \cup {NoWrap}
    OBVIOUS
  <2> HIDE DEF D, ks
  <2> QED  BY <1>c, <2>1, <2>2, <2>3, <2>4, <2>5, ShellsTake
<1>9. ASSUME NEW j \in Keys, SweepTake(j)  PROVE Shells'
  <2> DEFINE ks == {j}
             D == {term[j]} \ {NoWrap}
  <2>1. UNCHANGED <<wrap, sock>> /\ sweep.shut = {} /\ sweep'.shut = D
    BY <1>9 DEF SweepTake
  <2>2. \A w \in Wraps : ToClose(w)' <=> ToClose(w) \/ w \in D
    BY <1>q, <2>1 DEF ToClose
  <2>3. \A w \in Wraps : w \in D => wrap[w].st # "free" /\ \A k \in Keys : term[k] = w => k \in ks
    BY OneKey DEF Shells, ShellsAccounted
  <2>4. \A k \in Keys : term'[k] = IF k \in ks THEN NoWrap ELSE term[k]
    BY <1>0, <1>9 DEF SweepTake
  <2>5. \A k \in Keys : k \in ks => term[k] \in D \cup {NoWrap}
    OBVIOUS
  <2> HIDE DEF D, ks
  <2> QED  BY <1>c, <2>1, <2>2, <2>3, <2>4, <2>5, ShellsTake
<1>10. ASSUME NEW w \in Wraps, WaitEnd(w)  PROVE Shells'
  <2>1. UNCHANGED <<sock, sweep>> /\ wrap[w].wait = "wait" /\ wrap[w].st # "free" /\ wrap[w].key \in Keys
    BY <1>10, Unmoved DEF WaitEnd, Shells, OwnKey
  <2>2. /\ \A x \in Wraps : wrap'[x].key = wrap[x].key /\ wrap'[x].st = wrap[x].st
        /\ \A x \in Wraps \ {w} : wrap'[x].wait = wrap[x].wait
        /\ wrap'[w].wait = IF term[wrap[w].key] = w THEN "close" ELSE "off"
    BY <1>0, <1>10 DEF WaitEnd, WrapState
  <2>3. CASE term[wrap[w].key] = w
    <3> DEFINE ks == {wrap[w].key}
               D == {w}
    <3>1. \A x \in Wraps : ToClose(x)' <=> ToClose(x) \/ x \in D
      BY <1>q, <2>1, <2>2, <2>3 DEF ToClose
    <3>2. \A x \in Wraps : x \in D => wrap[x].st # "free" /\ \A k \in Keys : term[k] = x => k \in ks
      BY <2>1, <2>3, OneKey, NothingAssumption
    <3>3. \A k \in Keys : term'[k] = IF k \in ks THEN NoWrap ELSE term[k]
      BY <1>0, <1>10, <2>3 DEF WaitEnd
    <3>4. \A k \in Keys : k \in ks => term[k] \in D \cup {NoWrap}
      BY <2>3
    <3> HIDE DEF D, ks
    <3>5. \A x \in Wraps : /\ wrap'[x].key = wrap[x].key /\ wrap'[x].st = wrap[x].st
                           /\ ToClose(x)' <=> ToClose(x) \/ x \in D
                           /\ x \in D => wrap[x].st # "free" /\ \A k \in Keys : term[k] = x => k \in ks
      BY <2>2, <3>1, <3>2
    <3> QED  BY <1>c, <3>3, <3>4, <3>5, ShellsTake
  <2>4. CASE term[wrap[w].key] # w
    <3> DEFINE ws == {}
    <3>1. term' = term  BY <1>10, <2>4 DEF WaitEnd
    <3>2. \A x \in Wraps : x \notin ws /\ (ToClose(x)' <=> ToClose(x))
      BY <1>q, <2>1, <2>2, <2>4 DEF ToClose
    <3> HIDE DEF ws
    <3> QED  BY <1>c, <2>2, <3>1, <3>2, ShellsClose
  <2> QED  BY <2>3, <2>4
<1> QED  BY <1>1, <1>2, <1>3, <1>4, <1>5, <1>6, <1>7, <1>8, <1>9, <1>10 DEF SockNext, WaitNext, SweepNext

LEMMA ShellsStep == TypeOK /\ Locals /\ Shells /\ [Next]_vars => Shells'
<1> SUFFICES ASSUME TypeOK, Locals, Shells, Kinds  PROVE Shells'
  BY NextKinds
<1>1. ASSUME UNCHANGED shells, req' = req  PROVE Shells'
  <2>1. SameCreators  BY <1>1 DEF SameCreators, Creating, shells
  <2> QED  BY <1>1, <2>1, ShellsSame DEF shells
<1>2. ASSUME \/ \E u \in Users : Login(u)
             \/ \E k \in Keys : Expire(k)
             \/ \E c \in Conns : ExpireClose(c) \/ Drop(c)
             \/ UNCHANGED vars
      PROVE  req' = req
  BY <1>2 DEF Login, Expire, ExpireClose, Drop, vars
<1> QED  BY <1>1, <1>2, SshShells, BeginShells, ConnectShells, EndShells DEF Kinds, vars, shells

-----------------------------------------------------------------------------
(* The theorems *)

LEMMA InitInv == Init => ConsoleInv
<1> SUFFICES ASSUME Init  PROVE ConsoleInv
  OBVIOUS
<1>1. ReqIdle \in ReqState /\ WrapFree \in WrapState /\ SockFree \in SockState
  BY IdleOK DEF WrapFree, WrapState, SockFree, SockState
<1>2. TypeOK
  BY <1>1 DEF Init, TypeOK
<1>3. Locals
  BY IdleOK DEF Init, Locals, WrapFree, SockFree
<1>4. ConnsAccounted
  BY DEF Init, ConnsAccounted
<1>5. Shells
  BY DEF Init, Shells, ShellsAccounted, OwnKey, ClosedBorn, LockKept, Creating, ToClose, EnsurePCs,
         ReqIdle, WrapFree, SockFree
<1> QED  BY <1>2, <1>3, <1>4, <1>5 DEF ConsoleInv

\* The inductive invariant behind the theorems below.
THEOREM InvariantKept == Spec => []ConsoleInv
<1>1. ConsoleInv /\ [Next]_vars => ConsoleInv'
  BY TypeStep, ConnsStep, ShellsStep DEF ConsoleInv
<1> QED  BY <1>1, InitInv, PTL DEF Spec

\* The maps, locks and locals of session manager and terminal service keep
\* their types.
THEOREM ConsoleTyped == Spec => []TypeOK
<1>1. ConsoleInv => TypeOK  BY DEF ConsoleInv
<1> QED  BY <1>1, InvariantKept, PTL

\* No SSH connection is ever lost by CreateSession, DeleteSession, expiry and
\* log-out, however many requests race.
THEOREM NoConnLeaks == Spec => []ConnsAccounted
<1>1. ConsoleInv => ConnsAccounted  BY DEF ConsoleInv
<1> QED  BY <1>1, InvariantKept, PTL

\* No shell is ever lost by the terminal service, and s.sessions never holds a
\* closed one.
THEOREM NoShellLeaks == Spec => []ShellsAccounted
<1>1. ConsoleInv => ShellsAccounted  BY DEF ConsoleInv, Shells
<1> QED  BY <1>1, InvariantKept, PTL
=============================================================================
