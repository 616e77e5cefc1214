----------------------------- MODULE SshSessions -----------------------------
(***************************************************************************)
(* SSH connections of the users: the session manager's map, the            *)
(* credentials in Redis that a connection is re-created from, and the      *)
(* requests that ensure, use and end them.  One UserSession is one         *)
(* connection to the server.                                               *)
(***************************************************************************)
EXTENDS Naturals, FiniteSets

CONSTANTS
  Users,
  Roots,      \* identities in use, a subset of BOOLEAN (isRoot)
  Conns,      \* connections that can be dialled
  Reqs,       \* goroutines that serve requests
  Ops,        \* what happens in this configuration: use, close, logout, sweep, drop, expire
  NoKey, NoConn, NoReq, NoWrap, NoSock

Keys == Users \X Roots

VARIABLES
  creds,      \* users with a key ssh_creds:<id>
  meta,       \* users with a key ssh:session:<id>
  session,    \* sm.sessions
  conn,       \* state of every connection
  dying,      \* connections whose Close was handed to a goroutine
  req         \* the requests: where they are and their locals

ssh == <<creds, meta, session, conn, dying>>

ReqIdle == [pc |-> "idle", then |-> "idle", key |-> NoKey, conn |-> NoConn,
            sock |-> NoSock, wrap |-> NoWrap, shut |-> {}]

Held   == {c \in Conns : \E k \in Keys : session[k] = c}
Goto(r, pc) == req' = [req EXCEPT ![r].pc = pc]
AtPc(r, pc) == req[r].pc = pc
Key(r) == req[r].key

\* Close of the SFTP and SSH clients; closing twice does nothing more.
Closed(cs) == [c \in Conns |-> IF c \in cs /\ conn[c] = "open" THEN "closed" ELSE conn[c]]

-----------------------------------------------------------------------------
(* authService: Login, EnsureSSHSessionByType *)

\* Credentials are cached for the terminal; a Redis error is only logged.
Login(u) ==
  /\ creds' = creds \cup {u}
  /\ UNCHANGED <<meta, session, conn, dying, req>>

\* A file operation or a command that found its session missing or broken (its
\* check may be 3 s old): the session is ensured, then used.
Use(r, k) ==
  /\ "use" \in Ops /\ AtPc(r, "idle")
  /\ req' = [req EXCEPT ![r] = [ReqIdle EXCEPT !.pc = "creds", !.key = k]]
  /\ UNCHANGED ssh

\* GetUserCredentialsFromRedis, FindByID: without credentials there is no
\* session, and either read may fail.
EnsureCreds(r) ==
  /\ AtPc(r, "creds")
  /\ \/ Key(r)[1] \in creds /\ Goto(r, "get")
     \/ Goto(r, "fail")
  /\ UNCHANGED ssh

\* GetOrCreateSession: GetSession, then echo 1 over what it found.
EnsureGet(r) ==
  /\ AtPc(r, "get")
  /\ req' = [req EXCEPT ![r].conn = session[Key(r)],
                        ![r].pc = IF session[Key(r)] = NoConn THEN "dial" ELSE "probe"]
  /\ UNCHANGED ssh

\* isSessionValid runs an echo; it may fail on an open connection too.
EnsureProbe(r) ==
  /\ AtPc(r, "probe")
  /\ \/ conn[req[r].conn] = "open" /\ Goto(r, "save")
     \/ Goto(r, "delete")
  /\ UNCHANGED ssh

\* DeleteSession takes whatever the map holds by now, and closes it unlocked.
EnsureDelete(r) ==
  /\ AtPc(r, "delete")
  /\ req' = [req EXCEPT ![r].conn = session[Key(r)],
                        ![r].pc = IF session[Key(r)] = NoConn THEN "dial" ELSE "drop"]
  /\ session' = [session EXCEPT ![Key(r)] = NoConn]
  /\ UNCHANGED <<creds, meta, conn, dying>>

EnsureDrop(r) ==
  /\ AtPc(r, "drop")
  /\ conn' = Closed({req[r].conn})
  /\ Goto(r, "dial")
  /\ UNCHANGED <<creds, meta, session, dying>>

\* NewClient, with its retries; the server may refuse.
EnsureDial(r) ==
  /\ AtPc(r, "dial")
  /\ \/ \E c \in Conns :
          /\ conn[c] = "free" /\ conn' = [conn EXCEPT ![c] = "open"]
          /\ req' = [req EXCEPT ![r].conn = c, ![r].pc = "store"]
     \/ UNCHANGED conn /\ Goto(r, "fail")
  /\ UNCHANGED <<creds, meta, session, dying>>

\* Mutant: the session that is replaced is not closed.
EnsureStoreKeepsOld(r) ==
  /\ AtPc(r, "store")
  /\ session' = [session EXCEPT ![Key(r)] = req[r].conn]
  /\ Goto(r, "save")
  /\ UNCHANGED <<creds, meta, conn, dying>>

\* The end of CreateSession, under the manager's lock.
EnsureStore(r) ==
  /\ AtPc(r, "store")
  /\ conn' = Closed({session[Key(r)]})
  /\ session' = [session EXCEPT ![Key(r)] = req[r].conn]
  /\ Goto(r, "save")
  /\ UNCHANGED <<creds, meta, dying>>

\* SaveSession, whose error is ignored; the request goes on where it was.
EnsureSave(r) ==
  /\ AtPc(r, "save")
  /\ meta' \in {meta, meta \cup {Key(r)[1]}}
  /\ IF req[r].then = "idle" THEN req' = [req EXCEPT ![r] = ReqIdle]
     ELSE req' = [req EXCEPT ![r].pc = req[r].then, ![r].conn = NoConn]
  /\ UNCHANGED <<creds, session, conn, dying>>

Ensure(r) ==
  \/ EnsureCreds(r) \/ EnsureGet(r) \/ EnsureProbe(r) \/ EnsureDelete(r)
  \/ EnsureDrop(r) \/ EnsureDial(r) \/ EnsureStore(r) \/ EnsureSave(r)

-----------------------------------------------------------------------------
(* authService.Logout, after the terminals of the user were closed; an error  *)
(* of Redis is logged and the log-out goes on                                 *)

LogoutCreds(r) ==
  /\ AtPc(r, "delCreds")
  /\ creds' \in {creds, creds \ {Key(r)[1]}}
  /\ Goto(r, "closeAll")
  /\ UNCHANGED <<meta, session, conn, dying>>

\* CloseAllSessionsForUser holds the lock from the first Close to the last delete.
LogoutSessions(r) ==
  LET mine == {k \in Keys : k[1] = Key(r)[1]} IN
  /\ AtPc(r, "closeAll")
  /\ conn' = Closed({session[k] : k \in mine})
  /\ session' = [k \in Keys |-> IF k \in mine THEN NoConn ELSE session[k]]
  /\ Goto(r, "delMeta")
  /\ UNCHANGED <<creds, meta, dying>>

LogoutMeta(r) ==
  /\ AtPc(r, "delMeta")
  /\ meta' \in {meta, meta \ {Key(r)[1]}}
  /\ req' = [req EXCEPT ![r] = ReqIdle]
  /\ UNCHANGED <<creds, session, conn, dying>>

LogoutRest(r) == LogoutCreds(r) \/ LogoutSessions(r) \/ LogoutMeta(r)

-----------------------------------------------------------------------------
(* Time and network *)

\* cleanupExpiredSessions: out of the map at once, closed by a goroutine.
Expire(k) ==
  /\ "expire" \in Ops /\ session[k] # NoConn
  /\ dying' = dying \cup {session[k]}
  /\ session' = [session EXCEPT ![k] = NoConn]
  /\ UNCHANGED <<creds, meta, conn, req>>

ExpireClose(c) ==
  /\ c \in dying
  /\ dying' = dying \ {c} /\ conn' = Closed({c})
  /\ UNCHANGED <<creds, meta, session, req>>

\* The connection breaks; nobody notices until it is used.
Drop(c) ==
  /\ "drop" \in Ops /\ conn[c] = "open"
  /\ conn' = Closed({c})
  /\ UNCHANGED <<creds, meta, session, dying, req>>
=============================================================================
