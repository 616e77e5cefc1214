------------------------------ MODULE Terminals ------------------------------
(***************************************************************************)
(* Web terminals over the SSH connections: the service's map of shells     *)
(* (sshSessionWrapper), the WebSocket clients bound to them, and the       *)
(* goroutines that close both.  s.mu is a variable because                 *)
(* getOrCreateTerminalSession holds it while it ensures a connection; the  *)
(* wrapper's and the pool's locks cover single steps.                      *)
(***************************************************************************)
EXTENDS SshSessions

CONSTANTS
  Wraps,      \* sshSessionWrappers, one shell each
  Socks       \* WebSocket clients

VARIABLES
  term,       \* s.sessions
  mu,         \* holder of s.mu across calls, or NoReq
  wrap,       \* every wrapper: closed?, its shell, its clients, its Wait goroutine
  sock,       \* every client: open?, the wrapper its handler writes to, its goroutines
  sweep       \* cleanupIdleSessions: keys found idle, wrapper to close

shells == <<term, mu, wrap, sock, sweep>>
vars == <<creds, meta, session, conn, dying, req, term, mu, wrap, sock, sweep>>

Unlocked == mu = NoReq
WrapFree == [st |-> "free", key |-> NoKey, conn |-> NoConn, shell |-> FALSE, clients |-> {}, wait |-> "off"]
SockFree == [st |-> "free", key |-> NoKey, wrap |-> NoWrap, watch |-> FALSE, shut |-> {}]

\* The shell runs until it exits, is closed or loses its connection.
Runs(w) == wrap[w].shell /\ conn[wrap[w].conn] = "open"

Shut(ws) == [w \in Wraps |-> IF w \in ws /\ wrap[w].st = "open"
                              THEN [WrapFree EXCEPT !.st = "closed", !.key = wrap[w].key, !.wait = wrap[w].wait]
                              ELSE wrap[w]]
ClientsOf(ws) == UNION {wrap[w].clients : w \in {v \in ws : wrap[v].st = "open"}}
Hangup(ss) == [s \in Socks |-> IF s \in ss /\ sock[s].st = "open" THEN [sock[s] EXCEPT !.st = "closed"] ELSE sock[s]]

\* sshSessionWrapper.close: the first caller takes the shell and the clients.
CloseWraps(ws) == wrap' = Shut(ws) /\ sock' = Hangup(ClientsOf(ws))

-----------------------------------------------------------------------------
(* HandleTerminalConnection *)

Connect(r, k, s) ==
  /\ AtPc(r, "idle") /\ sock[s].st = "free" /\ \A q \in Reqs : req[q].sock # s
  /\ req' = [req EXCEPT ![r] = [ReqIdle EXCEPT !.pc = "creds", !.then = "evict", !.key = k, !.sock = s]]
  /\ UNCHANGED <<ssh, shells>>

\* Mutant: closeTerminalSession does not ask whether there was a session.
EvictUnchecked(r) ==
  /\ AtPc(r, "evict") /\ Unlocked
  /\ term' = [term EXCEPT ![Key(r)] = NoWrap]
  /\ req' = [req EXCEPT ![r].shut = {term[Key(r)]}, ![r].pc = "evicted"]
  /\ UNCHANGED <<ssh, mu, wrap, sock, sweep>>

\* closeTerminalSession(userID, isRoot, true): an old shell of the user goes,
\* with its clients; then wsPool.Add takes the new one.
Evict(r) ==
  /\ AtPc(r, "evict") /\ Unlocked
  /\ term' = [term EXCEPT ![Key(r)] = NoWrap]
  /\ req' = [req EXCEPT ![r].shut = {term[Key(r)]} \ {NoWrap}, ![r].pc = "evicted"]
  /\ UNCHANGED <<ssh, mu, wrap, sock, sweep>>

Evicted(r) ==
  /\ AtPc(r, "evicted")
  /\ CloseWraps(req[r].shut)
  /\ req' = [req EXCEPT ![r].shut = {}, ![r].pc = "add"]
  /\ UNCHANGED <<ssh, term, mu, sweep>>

AddSock(r) ==
  /\ AtPc(r, "add")
  /\ sock' = [sock EXCEPT ![req[r].sock].st = "open", ![req[r].sock].key = Key(r)]
  /\ Goto(r, "lock")
  /\ UNCHANGED <<ssh, term, mu, wrap, sweep>>

\* getOrCreateTerminalSession: an open shell is shared, otherwise s.mu is kept.
Lock(r) ==
  /\ AtPc(r, "lock") /\ Unlocked
  /\ LET w == term[Key(r)] IN
     IF w # NoWrap /\ wrap[w].st = "open"
     THEN /\ req' = [req EXCEPT ![r].wrap = w, ![r].pc = "attach"]
          /\ UNCHANGED <<term, mu>>
     ELSE /\ term' = [term EXCEPT ![Key(r)] = NoWrap]
          /\ mu' = r
          /\ Goto(r, "client")
  /\ UNCHANGED <<ssh, wrap, sock, sweep>>

\* getSSHClient: the session if echo 1 succeeds over it, otherwise it is
\* ensured once more under s.mu.
GetClient(r) ==
  /\ AtPc(r, "client")
  /\ IF session[Key(r)] = NoConn
     THEN req' = [req EXCEPT ![r].then = "again", ![r].pc = "creds"]
     ELSE req' = [req EXCEPT ![r].conn = session[Key(r)], ![r].pc = "check"]
  /\ UNCHANGED <<ssh, shells>>

CheckClient(r) ==
  /\ AtPc(r, "check")
  /\ req' = IF conn[req[r].conn] = "open" THEN [req EXCEPT ![r].pc = "shell"]
            ELSE [req EXCEPT ![r].then = "again", ![r].conn = NoConn, ![r].pc = "creds"]
  /\ UNCHANGED <<ssh, shells>>

GetAgain(r) ==
  /\ AtPc(r, "again")
  /\ req' = [req EXCEPT ![r].conn = session[Key(r)],
                        ![r].pc = IF session[Key(r)] = NoConn THEN "fail" ELSE "shell"]
  /\ UNCHANGED <<ssh, shells>>

\* NewTerminalSession over the connection, which may be gone by now.
OpenShell(r) ==
  /\ AtPc(r, "shell")
  /\ \/ \E w \in Wraps :
          /\ conn[req[r].conn] = "open" /\ wrap[w].st = "free"
          /\ wrap' = [wrap EXCEPT ![w] = [st |-> "open", key |-> Key(r), conn |-> req[r].conn,
                                          shell |-> TRUE, clients |-> {}, wait |-> "wait"]]
          /\ term' = [term EXCEPT ![Key(r)] = w] /\ mu' = NoReq
          /\ req' = [req EXCEPT ![r].wrap = w, ![r].pc = "attach"]
     \/ Goto(r, "fail") /\ UNCHANGED <<term, mu, wrap>>
  /\ UNCHANGED <<ssh, sock, sweep>>

\* The handler's sw is set, buffered input is replayed, addClient binds the
\* client unless the shell is closed by now, and a goroutine waits for Done.
Attach(r) ==
  LET s == req[r].sock w == req[r].wrap IN
  /\ AtPc(r, "attach")
  /\ wrap' = [wrap EXCEPT ![w].clients = IF wrap[w].st = "open" THEN @ \cup {s} ELSE @]
  /\ sock' = [sock EXCEPT ![s].wrap = w, ![s].watch = TRUE]
  /\ req' = [req EXCEPT ![r] = ReqIdle]
  /\ UNCHANGED <<ssh, term, mu, sweep>>

\* Mutant: the error return of getOrCreateTerminalSession keeps s.mu.
FailKeepsLock(r) ==
  /\ AtPc(r, "fail")
  /\ sock' = Hangup({req[r].sock})
  /\ req' = [req EXCEPT ![r] = ReqIdle]
  /\ UNCHANGED <<ssh, term, mu, wrap, sweep>>

\* An error return: s.mu is released if it was held, the client closed.
Fail(r) ==
  /\ AtPc(r, "fail")
  /\ mu' = IF mu = r THEN NoReq ELSE mu
  /\ sock' = Hangup({req[r].sock})
  /\ req' = [req EXCEPT ![r] = ReqIdle]
  /\ UNCHANGED <<ssh, term, wrap, sweep>>

ConnectRest(r) ==
  \/ Evict(r) \/ Evicted(r) \/ AddSock(r) \/ Lock(r) \/ GetClient(r)
  \/ CheckClient(r) \/ GetAgain(r) \/ OpenShell(r) \/ Attach(r) \/ Fail(r)

-----------------------------------------------------------------------------
(* Messages and the end of a client *)

\* The browser leaves, a ping is not answered, a write fails.
SockEnd(s) ==
  /\ sock[s].st = "open"
  /\ sock' = Hangup({s})
  /\ UNCHANGED <<ssh, req, term, mu, wrap, sweep>>

\* Input for a shell that is closed: the handler's error ends the client.
SockInput(s) ==
  /\ sock[s].st = "open" /\ sock[s].shut = {}
  /\ sock[s].wrap # NoWrap /\ wrap[sock[s].wrap].st = "closed"
  /\ sock' = Hangup({s})
  /\ UNCHANGED <<ssh, req, term, mu, wrap, sweep>>

\* "close": the shell of the user, whichever it is now, goes; its other clients
\* are forgotten, not closed.
SockClose(s) ==
  /\ "close" \in Ops /\ sock[s].st = "open" /\ sock[s].shut = {} /\ Unlocked
  /\ term[sock[s].key] # NoWrap
  /\ term' = [term EXCEPT ![sock[s].key] = NoWrap]
  /\ sock' = [sock EXCEPT ![s].shut = {term[sock[s].key]}]
  /\ UNCHANGED <<ssh, req, mu, wrap, sweep>>

SockClosed(s) ==
  /\ sock[s].shut # {}
  /\ wrap' = Shut(sock[s].shut)
  /\ sock' = [Hangup({s}) EXCEPT ![s].shut = {}]
  /\ UNCHANGED <<ssh, req, term, mu, sweep>>

\* Mutant: the goroutine that waits for Done is not there.
SockDoneIgnored(s) ==
  /\ sock[s].st = "closed" /\ sock[s].watch
  /\ sock' = [sock EXCEPT ![s].watch = FALSE]
  /\ UNCHANGED <<ssh, req, term, mu, wrap, sweep>>

\* <-wsClient.Done: removeClient.
SockDone(s) ==
  /\ sock[s].st = "closed" /\ sock[s].watch
  /\ wrap' = [wrap EXCEPT ![sock[s].wrap].clients = @ \ {s}]
  /\ sock' = [sock EXCEPT ![s].watch = FALSE]
  /\ UNCHANGED <<ssh, req, term, mu, sweep>>

-----------------------------------------------------------------------------
(* The end of a shell: Wait, log-out, idle clean-up *)

ShellExit(w) ==
  /\ Runs(w)
  /\ wrap' = [wrap EXCEPT ![w].shell = FALSE]
  /\ UNCHANGED <<ssh, req, term, mu, sock, sweep>>

\* Mutant: closeTerminalSessionByKey does not compare with the expected wrapper.
WaitEndAny(w) ==
  /\ wrap[w].wait = "wait" /\ ~Runs(w) /\ Unlocked
  /\ term' = [term EXCEPT ![wrap[w].key] = NoWrap]
  /\ wrap' = [wrap EXCEPT ![w].wait = "close"]
  /\ UNCHANGED <<ssh, req, mu, sock, sweep>>

\* closeTerminalSessionByKey: only the wrapper that is still registered.
WaitEnd(w) ==
  /\ wrap[w].wait = "wait" /\ ~Runs(w) /\ Unlocked
  /\ LET mine == term[wrap[w].key] = w IN
     /\ term' = IF mine THEN [term EXCEPT ![wrap[w].key] = NoWrap] ELSE term
     /\ wrap' = [wrap EXCEPT ![w].wait = IF mine THEN "close" ELSE "off"]
  /\ UNCHANGED <<ssh, req, mu, sock, sweep>>

\* Mutant: the wrapper is unregistered but not closed.
WaitCloseForgets(w) ==
  /\ wrap[w].wait = "close"
  /\ wrap' = [wrap EXCEPT ![w].wait = "off"]
  /\ UNCHANGED <<ssh, req, term, mu, sock, sweep>>

WaitClose(w) ==
  /\ wrap[w].wait = "close"
  /\ wrap' = [Shut({w}) EXCEPT ![w].wait = "off"]
  /\ sock' = Hangup(ClientsOf({w}))
  /\ UNCHANGED <<ssh, req, term, mu, sweep>>

\* The controller's Logout: CloseUserTerminals, then authService.Logout.
Logout(r, k) ==
  /\ "logout" \in Ops /\ AtPc(r, "idle")
  /\ req' = [req EXCEPT ![r] = [ReqIdle EXCEPT !.pc = "terms", !.key = k]]
  /\ UNCHANGED <<ssh, shells>>

LogoutTerms(r) ==
  LET mine == {k \in Keys : k[1] = Key(r)[1]} IN
  /\ AtPc(r, "terms") /\ Unlocked
  /\ term' = [k \in Keys |-> IF k \in mine THEN NoWrap ELSE term[k]]
  /\ req' = [req EXCEPT ![r].shut = {term[k] : k \in mine} \ {NoWrap}, ![r].pc = "shut"]
  /\ UNCHANGED <<ssh, mu, wrap, sock, sweep>>

LogoutShut(r) ==
  /\ AtPc(r, "shut")
  /\ CloseWraps(req[r].shut)
  /\ req' = [req EXCEPT ![r].shut = {}, ![r].pc = "delCreds"]
  /\ UNCHANGED <<ssh, term, mu, sweep>>

\* cleanupIdleSessions: the idle keys are collected under the read lock; each
\* is looked up again, and what is there now is closed.
SweepFind ==
  /\ "sweep" \in Ops /\ sweep = [keys |-> {}, shut |-> {}] /\ Unlocked
  /\ \E ks \in SUBSET {k \in Keys : term[k] # NoWrap} \ {{}} : sweep' = [sweep EXCEPT !.keys = ks]
  /\ UNCHANGED <<ssh, req, term, mu, wrap, sock>>

SweepTake(k) ==
  /\ k \in sweep.keys /\ sweep.shut = {} /\ Unlocked
  /\ term' = [term EXCEPT ![k] = NoWrap]
  /\ sweep' = [keys |-> sweep.keys \ {k}, shut |-> {term[k]} \ {NoWrap}]
  /\ UNCHANGED <<ssh, req, mu, wrap, sock>>

SweepClose ==
  /\ sweep.shut # {}
  /\ CloseWraps(sweep.shut)
  /\ sweep' = [sweep EXCEPT !.shut = {}]
  /\ UNCHANGED <<ssh, req, term, mu>>
=============================================================================
