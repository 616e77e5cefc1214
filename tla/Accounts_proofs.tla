-------------------------- MODULE Accounts_proofs --------------------------
(***************************************************************************)
(* The user accounts, for every set of names, emails and requests: the     *)
(* table and the server stay in step, and a request that fails leaves      *)
(* nothing behind, outside the names that a torn write has touched.        *)
(***************************************************************************)
EXTENDS Accounts, TLAPS

AddOps  == {"register", "create"}
Before  == {"name", "email", "code", "burn", "insert"}
Located == {"owner", "chpasswd", "replace", "save", "account", "userdel", "clear", "drop"}
Pcs     == Ends \cup Before \cup Adding \cup Located \cup {"find"}

RowType == [name : Names \cup {NoName}, email : Emails \cup {NoEmail}, pw : Ids \cup {NoAccount}]
ReqType == [op : Ops, pc : Pcs, id : Ids, name : Names \cup {NoName}, email : Emails \cup {NoEmail},
            seen : Ids \cup {NoAccount}, pw : Ids \cup {NoAccount}, told : BOOLEAN]

\* r may still insert the row with its id.
Fresh(r) == req[r].pc = "idle" \/ (req[r].op \in AddOps /\ req[r].pc \in Before)

\* The password of r is, or has been, in a row.
Published(r) ==
  \/ req[r].op \in AddOps /\ ~Fresh(r)
  \/ req[r].op \in PasswordOps /\ req[r].pc \in {"burn", "ok"}
  \/ req[r].op \in PasswordOps /\ req[r].pc = "failed" /\ req[r].name \in torn

Typed ==
  /\ row \in [Ids -> RowType] /\ roles \in SUBSET Ids /\ code \in SUBSET Emails /\ torn \in SUBSET Names
  /\ vm \in [Names -> Ids \cup {NoAccount, Unset}]
  /\ req \in [Reqs -> ReqType]
  /\ \A r \in Reqs : req[r].pc \in Ends \cup Steps(req[r].op)

\* A row is whole or absent; it was inserted by the request with its id, and
\* keeps the name it was inserted with.
RowsOwned ==
  /\ \A i \in Ids : Present(i) => row[i].name \in Names /\ row[i].pw \in Ids
  /\ \A i, j \in Ids : Present(i) /\ row[i].name = row[j].name => i = j
  /\ \A r \in Reqs : Present(r) =>
       /\ req[r].op \in AddOps /\ ~Fresh(r) /\ row[r].name = req[r].name
       /\ req[r].pc = "failed" => req[r].name \in torn

\* A request that adds a user works under its own id; one that has found its
\* user has the name of the row, as long as that is there.
Aimed ==
  \A r \in Reqs :
    /\ req[r].pc = "idle" <=> req[r].op = "none"
    /\ req[r].op \in AddOps => req[r].name \in Names /\ req[r].id = r /\ req[r].pw = r
    /\ req[r].op \notin AddOps /\ req[r].id \in Reqs => ~Fresh(req[r].id)
    /\ req[r].op = "delete" /\ req[r].pc = "find" => req[r].email = NoEmail
    /\ req[r].pc = "chpasswd" => req[r].op \in PasswordOps
    /\ req[r].pc \in Located =>
         /\ req[r].name \in Names /\ req[r].seen \in Ids
         /\ req[r].pw = IF req[r].op \in PasswordOps THEN r ELSE req[r].seen
         /\ Present(req[r].id) => row[req[r].id].name = req[r].name

\* A password that a row has, that a request has read, or that the server has,
\* is of a request for that user that has come that far with it.
Passwords ==
  /\ \A i \in Ids, x \in Reqs : row[i].pw = x => Published(x) /\ req[x].id = i
  /\ \A q, x \in Reqs : req[q].seen = x => Published(x) /\ req[x].id = req[q].id
  /\ \A i \in Ids : row[i].pw = Seed => i = Seed
  /\ \A q \in Reqs : req[q].seen = Seed => req[q].id = Seed
  /\ \A n \in Names, x \in Reqs : vm[n] = x =>
       /\ req[x].name = n
       /\ \/ req[x].op \in AddOps /\ req[x].pc \in {"ok", "undo", "failed"}
          \/ req[x].op \in PasswordOps /\ req[x].pc \in {"replace", "save", "burn", "ok", "failed"}
       /\ req[x].pc \in {"undo", "failed"} => n \in torn

\* Where the row and the account are while r is between its two writes.
Between(r) ==
  LET q == req[r]
      n == q.name
  IN  /\ q.pc \in Adding => Present(r) /\ row[r].pw = r /\ vm[n] \in {NoAccount, Unset}
      /\ q.pc = "passwd" => vm[n] = Unset
      /\ q.pc \in {"clear", "drop"} => Present(q.id) /\ vm[n] = NoAccount
      /\ q.pc \in {"replace", "save"} /\ q.pw # q.seen => Present(q.id) /\ row[q.id].pw = q.seen /\ vm[n] = r

\* While r is between its two writes nobody else is, for the same name; otherwise
\* the account has the row's password, or there is no row and no password.
Whole(n) ==
  /\ \A r \in Reqs : req[r].name = n => Between(r)
  /\ \A r, s \in Reqs : Halfway(r, n) /\ Halfway(s, n) => r = s
  /\ ~Taken(n) => vm[n] \in {NoAccount, Unset}
  /\ \A i \in Ids : Present(i) /\ row[i].name = n /\ (\A r \in Reqs : ~Halfway(r, n)) => vm[n] = row[i].pw

Paired == \A n \in Names \ torn : Whole(n)

Inv == Typed /\ RowsOwned /\ Aimed /\ Passwords /\ Paired

-----------------------------------------------------------------------------
(* What a step changes *)

USE AccountsAssumption DEF Ids

\* Which requests take which steps.
LEMMA StepsOf ==
  ASSUME NEW op \in Ops, NEW pc \in Pcs
  PROVE  pc \in Ends \cup Steps(op) <=>
           \/ pc \in Ends
           \/ op = "register" /\ pc \in Before \cup Adding
           \/ op = "create" /\ pc \in {"name", "email", "insert"} \cup Adding
           \/ op = "delete" /\ pc \in Deleting
           \/ op = "reset" /\ pc \in {"code", "burn"} \cup Saving
           \/ op \in {"change", "admin", "adminpw", "profile", "avatar"} /\ pc \in Saving
<1>1. CASE op = "none"      BY <1>1 DEF Steps
<1>2. CASE op = "register"  BY <1>2 DEF Steps, Before
<1>3. CASE op = "create"    BY <1>3 DEF Steps
<1>4. CASE op = "delete"    BY <1>4 DEF Steps
<1>5. CASE op = "reset"     BY <1>5 DEF Steps
<1>6. CASE op \in {"change", "admin", "adminpw", "profile", "avatar"}  BY <1>6 DEF Steps
<1> QED  BY <1>1, <1>2, <1>3, <1>4, <1>5, <1>6 DEF Ops

LEMMA Sorted ==
  ASSUME Typed, NEW r \in Reqs
  PROVE  /\ req[r].pc \in Adding \cup {"name", "email", "insert"} => req[r].op \in AddOps
         /\ req[r].pc \in {"code", "burn"} => req[r].op \in {"register", "reset"}
         /\ req[r].pc \in Located \cup {"find"} => req[r].op \notin AddOps \cup {"none"}
         /\ req[r].pc \in {"account", "userdel", "clear", "drop"} => req[r].op = "delete"
         /\ req[r].pc \in {"owner", "chpasswd", "replace", "save"} =>
              req[r].op \in {"reset", "change", "admin", "adminpw", "profile", "avatar"}
<1>1. req[r].op \in Ops /\ req[r].pc \in Pcs /\ req[r].pc \in Ends \cup Steps(req[r].op)
  BY DEF Typed, ReqType
<1> QED  BY <1>1, StepsOf DEF Ends, Before, Adding, Saving, Deleting, Located, AddOps

\* Goto moves one request and leaves what it has read.
LEMMA Moves ==
  ASSUME req \in [Reqs -> ReqType], NEW r \in Reqs, NEW x \in Pcs, Goto(r, x)
  PROVE  /\ req' \in [Reqs -> ReqType]
         /\ \A s \in Reqs :
              /\ req'[s].op = req[s].op /\ req'[s].id = req[s].id /\ req'[s].name = req[s].name
              /\ req'[s].email = req[s].email /\ req'[s].seen = req[s].seen /\ req'[s].pw = req[s].pw
              /\ req'[s].pc = IF s = r THEN x ELSE req[s].pc
BY DEF Goto, ReqType

\* A row is there exactly when it has a name.
LEMMA Named ==
  ASSUME Typed, RowsOwned
  PROVE  /\ \A i \in Ids : Present(i) <=> row[i].name \in Names
         /\ \A n \in Names : Taken(n) <=> \E i \in Ids : Present(i) /\ row[i].name = n
         /\ \A i \in Ids : ~Present(i) => row[i].name = NoName /\ row[i].pw = NoAccount
<1>1. \A i \in Ids : Present(i) <=> row[i].name \in Names  BY DEF RowsOwned, Present, NoRow
<1>2. \A i \in Ids : ~Present(i) => row[i].name = NoName /\ row[i].pw = NoAccount  BY DEF Present, NoRow
<1> QED  BY <1>1, <1>2 DEF Taken

-----------------------------------------------------------------------------
(* The invariant, step by step *)

\* A step that changes neither table nor server, and moves a request that is
\* not between two writes to where it is not either.
Quiet(r, x) ==
  /\ Goto(r, x) /\ UNCHANGED <<row, roles, vm, torn>> /\ code' \in SUBSET Emails
  /\ x \in Pcs \ ({"idle"} \cup Adding \cup {"clear", "drop"}) /\ x \in Ends \cup Steps(req[r].op)
  /\ req[r].pc \in Before \cup {"find", "owner", "chpasswd", "account", "userdel"}
  /\ req[r].pc = "burn" /\ req[r].op \in PasswordOps => x = "ok"
  /\ x \in Located => req[r].pc \in Located
  /\ x = "find" => req[r].op = "reset"
  /\ x = "chpasswd" => req[r].op \in PasswordOps
  /\ x \in {"replace", "save"} => req[r].op \notin PasswordOps
  /\ req[r].op \in AddOps => x \in Before \cup {"failed"}

LEMMA QuietStep ==
  ASSUME Inv, NEW r \in Reqs, NEW x, Quiet(r, x)
  PROVE  Inv'
<1> USE DEF Inv
<1>1. /\ req' \in [Reqs -> ReqType]
      /\ \A s \in Reqs :
              /\ req'[s].op = req[s].op /\ req'[s].id = req[s].id /\ req'[s].name = req[s].name
              /\ req'[s].email = req[s].email /\ req'[s].seen = req[s].seen /\ req'[s].pw = req[s].pw
              /\ req'[s].pc = IF s = r THEN x ELSE req[s].pc
  BY Moves DEF Quiet, Typed
<1>2. UNCHANGED <<row, roles, vm, torn>> /\ code' \in SUBSET Emails  BY DEF Quiet
<1>3. req[r] \in ReqType  BY DEF Typed
<1>4. Typed'  BY <1>1, <1>2 DEF Typed, Quiet
<1>5. \A s \in Reqs : Fresh(s)' => Fresh(s)
  BY <1>1, Sorted DEF Fresh, Quiet, Before, Ends, Located
<1>6. \A s \in Reqs : Published(s) => Published(s)'  BY <1>1, <1>5 DEF Published, Quiet, Before, PasswordOps, AddOps
<1>7. RowsOwned'
  BY <1>1, <1>2, <1>5, Sorted DEF RowsOwned, Present, Quiet, Fresh, Before, Located, Adding, AddOps
<1>8. Aimed'
  BY <1>1, <1>2, <1>5 DEF Aimed, Present, Quiet, Located, Before
<1>9. Passwords'
  BY <1>1, <1>2, <1>6 DEF Passwords, Quiet, Before, PasswordOps, AddOps
<1>10. \A s \in Reqs, n \in Names : Halfway(s, n)' <=> Halfway(s, n)
  BY <1>1 DEF Halfway, Quiet, Before, Located, Adding, Aimed
<1>11. Paired'
  <2>1. \A s \in Reqs : req[s].name \in Names /\ Between(s) => Between(s)'
    BY <1>1, <1>2 DEF Between, Present, Quiet, Before, Adding, Aimed, Located
  <2>2. ASSUME NEW n \in Names \ torn'  PROVE Whole(n)'
    BY <1>1, <1>2, <1>10, <2>1 DEF Paired, Whole, Taken, Present
  <2> QED  BY <2>2 DEF Paired
<1> QED  BY <1>4, <1>7, <1>8, <1>9, <1>11

LEMMA CheckSteps ==
  ASSUME Inv, NEW r \in Reqs,
         \/ Rejected(r) \/ CheckCode(r) \/ BurnCode(r) \/ ExistsByUsername(r) \/ ExistsByEmail(r)
         \/ EmailFree(r) \/ VMUserFound(r)
  PROVE  Inv'
<1> USE DEF Inv
<1>1. req[r] \in ReqType /\ code \in SUBSET Emails  BY DEF Typed
<1>2. \A x \in Pcs : x \in Ends => x \in Ends \cup Steps(req[r].op)  OBVIOUS
<1>3. CASE Rejected(r)
  <2>1. Quiet(r, "failed")
    BY <1>1, <1>3, Sorted DEF Rejected, At, Quiet, Pcs, Ends, Adding, Located, Before, db, PasswordOps
  <2> QED  BY <2>1, QuietStep
<1>4. CASE CheckCode(r)
  <2>1. PICK x : x = IF req[r].op = "register" THEN "burn" ELSE "find"  OBVIOUS
  <2>2. req[r].op \in {"register", "reset"} /\ req[r].pc = "code"
    BY <1>4, Sorted DEF CheckCode, At
  <2>3. x \in Pcs /\ x \in Ends \cup Steps(req[r].op)
    BY <1>1, <2>1, <2>2, StepsOf DEF Pcs, Before, Saving, ReqType
  <2>4. Quiet(r, x)
    BY <1>1, <1>4, <2>1, <2>2, <2>3 DEF CheckCode, Quiet, Pcs, Ends, Adding, Located, Before, db, AddOps, PasswordOps
  <2> QED  BY <2>4, QuietStep
<1>5. CASE BurnCode(r)
  <2>1. PICK x : x = IF req[r].op = "register" THEN "insert" ELSE "ok"  OBVIOUS
  <2>2. req[r].op \in {"register", "reset"} /\ req[r].pc = "burn"
    BY <1>5, Sorted DEF BurnCode, At
  <2>3. x \in Pcs /\ x \in Ends \cup Steps(req[r].op)
    BY <1>1, <2>1, <2>2, StepsOf DEF Pcs, Ends, Before, ReqType
  <2>4. code' \in SUBSET Emails  BY <1>1, <1>5 DEF BurnCode
  <2>5. Quiet(r, x)
    BY <1>5, <2>1, <2>2, <2>3, <2>4 DEF BurnCode, Quiet, Ends, Adding, Located, Before, db, AddOps, PasswordOps
  <2> QED  BY <2>5, QuietStep
<1>6. CASE ExistsByUsername(r)
  <2>1. req[r].op \in AddOps /\ req[r].pc = "name"
    BY <1>6, Sorted DEF ExistsByUsername, At
  <2>2. "email" \in Pcs /\ "email" \in Ends \cup Steps(req[r].op)
    BY <1>1, <2>1, StepsOf DEF Pcs, AddOps, Before, ReqType
  <2>3. Quiet(r, "email")
    BY <1>1, <1>6, <2>1, <2>2 DEF ExistsByUsername, Quiet, Adding, Located, Before, db, AddOps, PasswordOps
  <2> QED  BY <2>3, QuietStep
<1>7. CASE ExistsByEmail(r)
  <2>1. PICK x : x = IF req[r].op = "register" THEN "code" ELSE "insert"  OBVIOUS
  <2>2. req[r].op \in AddOps /\ req[r].pc = "email"
    BY <1>7, Sorted DEF ExistsByEmail, At
  <2>3. x \in Pcs /\ x \in Ends \cup Steps(req[r].op)
    BY <1>1, <2>1, <2>2, StepsOf DEF Pcs, AddOps, Before, ReqType
  <2>4. Quiet(r, x)
    BY <1>1, <1>7, <2>1, <2>2, <2>3 DEF ExistsByEmail, Quiet, Adding, Located, Before, db, AddOps, PasswordOps
  <2> QED  BY <2>4, QuietStep
<1>8. CASE EmailFree(r)
  <2>1. PICK x : x = Work(req[r].op)  OBVIOUS
  <2>2. /\ req[r].op \in {"reset", "change", "admin", "adminpw", "profile", "avatar"} /\ req[r].pc = "owner"
        /\ Goto(r, x) /\ UNCHANGED <<row, roles, vm, code, torn>>
    BY <1>8, <2>1, Sorted DEF EmailFree, At, db
  <2>3. x \in {"chpasswd", "replace", "save"} /\ (x = "chpasswd" <=> req[r].op \in PasswordOps)
    BY <2>1, <2>2 DEF Work, PasswordOps
  <2>4. x \in Pcs /\ x \in Ends \cup Steps(req[r].op)
    BY <1>1, <2>2, <2>3, StepsOf DEF Pcs, Located, Saving, ReqType
  <2>5. Quiet(r, x)
    BY <1>1, <2>2, <2>3, <2>4 DEF Quiet, Ends, Adding, Located, Before, AddOps
  <2> QED  BY <2>5, QuietStep
<1>9. CASE VMUserFound(r)
  <2>1. req[r].op = "delete" /\ req[r].pc = "account"
    BY <1>9, Sorted DEF VMUserFound, At
  <2>2. "userdel" \in Pcs /\ "userdel" \in Ends \cup Steps(req[r].op)
    BY <1>1, <2>1, StepsOf DEF Pcs, Located, Deleting, ReqType
  <2>3. Quiet(r, "userdel")
    BY <1>1, <1>9, <2>1, <2>2 DEF VMUserFound, Quiet, Adding, Located, Before, db, AddOps, PasswordOps
  <2> QED  BY <2>3, QuietStep
<1> QED  BY <1>3, <1>4, <1>5, <1>6, <1>7, <1>8, <1>9

\* A request starts: it has read nothing yet, and names no row that is to come.
LEMMA StartStep ==
  ASSUME Inv, NEW r \in Reqs, NEW op \in Ops \ {"none"}, NEW pc, NEW i \in Ids,
         NEW n \in Names \cup {NoName}, NEW e \in Emails \cup {NoEmail}, NEW told \in BOOLEAN,
         Start(r, op, pc, i, n, e, told),
         pc \in Ends \cup Steps(op), pc \in {"name", "code", "find"},
         op \in AddOps => n \in Names /\ i = r /\ pc = "name",
         op \notin AddOps /\ i \in Reqs => Present(i),
         op = "delete" => e = NoEmail
  PROVE  Inv'
<1> USE DEF Inv
<1>1. UNCHANGED <<row, roles, vm, code, torn>> /\ req[r].pc = "idle" /\ req[r].op = "none"
  BY DEF Start, At, db, Aimed
<1>2. /\ req' \in [Reqs -> ReqType]
      /\ \A s \in Reqs : s # r => req'[s] = req[s]
      /\ req'[r].op = op /\ req'[r].pc = pc /\ req'[r].id = i /\ req'[r].name = n /\ req'[r].email = e
      /\ req'[r].seen = NoAccount /\ req'[r].pw = r
  <2>1. pc \in Pcs  BY DEF Pcs, Before
  <2>2. Idle \in ReqType  BY DEF Idle, ReqType, Ops, Pcs, Ends
  <2>3. PICK q : q = [Idle EXCEPT !.op = op, !.pc = pc, !.id = i, !.name = n, !.email = e, !.pw = r, !.told = told]
    OBVIOUS
  <2>4. q \in ReqType  BY <2>1, <2>2, <2>3 DEF ReqType
  <2>5. q.op = op /\ q.pc = pc /\ q.id = i /\ q.name = n /\ q.email = e /\ q.pw = r  BY <2>2, <2>3 DEF ReqType
  <2>6. q.seen = NoAccount  BY <2>3 DEF Idle
  <2>7. req' = [req EXCEPT ![r] = q]  BY <2>3 DEF Start
  <2> QED  BY <2>4, <2>5, <2>6, <2>7 DEF Typed
<1>3. \A s \in Reqs : Fresh(s)' => Fresh(s)  BY <1>1, <1>2 DEF Fresh
<1>4. \A s \in Reqs : Published(s) => Published(s)'
  BY <1>1, <1>2, <1>3 DEF Published, Fresh, PasswordOps, AddOps
<1>5. ~Present(r)  BY <1>1 DEF RowsOwned, AddOps
<1>6. Typed'  BY <1>1, <1>2 DEF Typed
<1>7. RowsOwned'  BY <1>1, <1>2, <1>3, <1>5 DEF RowsOwned, Present
<1>8. Aimed'
  <2>1. op \notin AddOps /\ i \in Reqs => ~Fresh(i)'
    BY <1>2, <1>3, <1>5 DEF RowsOwned
  <2>2. pc \notin Located \cup {"idle", "chpasswd"}  BY DEF Located
  <2> QED  BY <1>1, <1>2, <1>3, <2>1, <2>2 DEF Aimed, Present, AddOps
<1>9. Passwords'
  <2>1. \A m \in Names : vm[m] # r  BY <1>1 DEF Passwords, AddOps, PasswordOps
  <2>2. \A j \in Ids : row[j].pw # r
    BY <1>1 DEF Passwords, Published, AddOps, PasswordOps
  <2>3. \A q \in Reqs : req[q].seen # r
    BY <1>1 DEF Passwords, Published, AddOps, PasswordOps
  <2>4. req'[r].seen \notin Ids  BY <1>2
  <2> QED  BY <1>1, <1>2, <1>4, <2>1, <2>2, <2>3, <2>4 DEF Passwords
<1>10. pc \notin Adding \cup {"clear", "drop", "replace", "save"}  BY DEF Adding
<1>11. \A s \in Reqs, m \in Names : Halfway(s, m)' <=> Halfway(s, m)
  BY <1>1, <1>2, <1>10 DEF Halfway, Adding
<1>12. Paired'
  <2>1. \A s \in Reqs \ {r} : Between(s) => Between(s)'  BY <1>1, <1>2 DEF Between, Present
  <2>2. Between(r)'  BY <1>2, <1>10 DEF Between
  <2>3. ASSUME NEW m \in Names \ torn'  PROVE Whole(m)'
    BY <1>1, <1>2, <1>11, <2>1, <2>2 DEF Paired, Whole, Taken, Present
  <2> QED  BY <2>3 DEF Paired
<1> QED  BY <1>6, <1>7, <1>8, <1>9, <1>12

LEMMA BeginSteps ==
  ASSUME Inv, NEW r \in Reqs, Begin(r)
  PROVE  Inv'
<1>1. /\ \A op \in AddOps : op \in Ops \ {"none"} /\ "name" \in Ends \cup Steps(op)
      /\ "reset" \in Ops \ {"none"} /\ "code" \in Ends \cup Steps("reset")
      /\ \A op \in {"delete", "change", "avatar", "profile", "admin", "adminpw"} :
            op \in Ops \ ({"none"} \cup AddOps) /\ "find" \in Ends \cup Steps(op)
  BY StepsOf DEF Ops, AddOps, Pcs, Before, Saving, Deleting
<1>2. "reset" \notin AddOps /\ Seed \notin Reqs  BY DEF AddOps
<1>3. CASE Register(r) \/ CreateUser(r)
  <2>1. PICK op \in AddOps, n \in Names, e \in Emails : Start(r, op, "name", r, n, e, FALSE)
    BY <1>3 DEF Register, CreateUser, AddOps
  <2>2. op # "delete"  BY DEF AddOps
  <2> QED  BY <1>1, <2>1, <2>2, StartStep
<1>4. CASE ResetPassword(r)
  <2>1. PICK e \in Emails, told \in BOOLEAN : Start(r, "reset", "code", Seed, NoName, e, told)
    BY <1>4 DEF ResetPassword
  <2> QED  BY <1>1, <1>2, <2>1, StartStep
<1>5. CASE DeleteUser(r) \/ ChangePassword(r) \/ UpdateAvatar(r) \/ UpdateProfile(r) \/ AdminUpdateUser(r)
  <2>1. PICK op \in {"delete", "change", "avatar", "profile", "admin", "adminpw"}, i \in Ids, e \in Emails \cup {NoEmail}, told \in BOOLEAN :
          Present(i) /\ Start(r, op, "find", i, NoName, e, told) /\ (op = "delete" => e = NoEmail)
    BY <1>5 DEF DeleteUser, ChangePassword, UpdateAvatar, UpdateProfile, AdminUpdateUser
  <2>2. op \in Ops \ {"none"} /\ op \notin AddOps /\ "find" \in Ends \cup Steps(op)  BY <1>1
  <2>3. NoName \in Names \cup {NoName}  OBVIOUS
  <2> QED  BY <2>1, <2>2, <2>3, StartStep
<1> QED  BY <1>3, <1>4, <1>5 DEF Begin

LEMMA FindStep ==
  ASSUME Inv, NEW r \in Reqs, Find(r)
  PROVE  Inv'
<1> USE DEF Inv
<1>1. /\ req[r].pc = "find" /\ UNCHANGED <<row, roles, vm, code, torn>>
      /\ req[r].op \notin AddOps \cup {"none"} /\ req[r] \in ReqType /\ req[r].op \in Ops
  BY Sorted DEF Find, At, db, Typed, ReqType
<1> DEFINE new  == req[r].email # NoEmail /\ req[r].op # "reset"
           to   == IF new THEN "owner" ELSE Work(req[r].op)
           mail(i) == IF new THEN req[r].email ELSE row[i].email
           pass(i) == IF req[r].op \in PasswordOps THEN r ELSE row[i].pw
<1>2. PICK i \in IF req[r].op = "reset" THEN Holders(req[r].email) ELSE {req[r].id} :
        /\ Present(i)
        /\ req' = [req EXCEPT ![r] =
                [req[r] EXCEPT !.id = i, !.name = row[i].name, !.seen = row[i].pw,
                          !.pc = to, !.email = mail(i), !.pw = pass(i)]]
  BY DEF Find
<1>3. i \in Ids  BY <1>1, <1>2 DEF Holders, ReqType
<1>4. row[i] \in RowType /\ row[i].name \in Names /\ row[i].pw \in Ids  BY <1>2, <1>3 DEF Typed, RowsOwned
<1>5. /\ to \in {"owner", "account", "chpasswd", "replace", "save"}
      /\ to \in {"replace", "save"} => req[r].op \notin PasswordOps
      /\ to = "chpasswd" => req[r].op \in PasswordOps
      /\ to = "account" => req[r].op = "delete"
      /\ to # "account" => req[r].op # "delete"
  <2>1. CASE new  BY <1>1, <2>1 DEF Aimed
  <2>2. CASE ~new  BY <1>1, <2>2 DEF Work, PasswordOps
  <2> QED  BY <2>1, <2>2
<1>6. to \in Pcs /\ to \in Located /\ to \in Ends \cup Steps(req[r].op)
  <2>1. to \in Pcs /\ to \in Located  BY <1>5 DEF Pcs, Located
  <2> QED  BY <1>1, <1>5, <2>1, StepsOf DEF Ops, AddOps, Saving, Deleting
<1>7. mail(i) \in Emails \cup {NoEmail} /\ pass(i) \in Ids  BY <1>1, <1>4 DEF ReqType, RowType
<1> HIDE DEF to, mail, pass
<1>8. /\ req' \in [Reqs -> ReqType]
      /\ \A s \in Reqs : s # r => req'[s] = req[s]
      /\ req'[r].op = req[r].op /\ req'[r].pc = to /\ req'[r].id = i /\ req'[r].name = row[i].name
      /\ req'[r].seen = row[i].pw /\ req'[r].pw = pass(i)
  <2>1. PICK q : q = [req[r] EXCEPT !.id = i, !.name = row[i].name, !.seen = row[i].pw,
                          !.pc = to, !.email = mail(i), !.pw = pass(i)]
    OBVIOUS
  <2>2. q \in ReqType  BY <1>1, <1>3, <1>4, <1>6, <1>7, <2>1 DEF ReqType
  <2>3. q.op = req[r].op /\ q.pc = to /\ q.id = i /\ q.name = row[i].name /\ q.seen = row[i].pw /\ q.pw = pass(i)
    BY <1>1, <2>1 DEF ReqType
  <2>4. req' = [req EXCEPT ![r] = q]  BY <1>2, <2>1
  <2> QED  BY <2>2, <2>3, <2>4 DEF Typed
<1>9. \A s \in Reqs : Fresh(s)' <=> Fresh(s)
  BY <1>1, <1>5, <1>8 DEF Fresh
<1>10. \A s \in Reqs : Published(s) <=> Published(s)'
  BY <1>1, <1>5, <1>8, <1>9 DEF Published
<1>11. Typed'  BY <1>1, <1>6, <1>8 DEF Typed
<1>12. ~Present(r)  BY <1>1 DEF RowsOwned
<1>13. RowsOwned'  BY <1>1, <1>8, <1>9, <1>12 DEF RowsOwned, Present
<1>14. Aimed'
  <2>1. i \in Reqs => ~Fresh(i)'  BY <1>2, <1>9 DEF RowsOwned
  <2>2. Present(i)' <=> Present(i)  BY <1>1 DEF Present
  <2> QED  BY <1>1, <1>2, <1>4, <1>5, <1>8, <1>9, <2>1, <2>2 DEF Aimed, Present, pass
<1>15. Passwords'
  <2>1. \A m \in Names : vm[m] # r  BY <1>1 DEF Passwords
  <2>2. \A j \in Ids : row[j].pw # r  BY <1>1 DEF Passwords, Published
  <2>3. \A q \in Reqs : req[q].seen # r  BY <1>1 DEF Passwords, Published
  <2>4. ASSUME NEW x \in Reqs, req'[r].seen = x
        PROVE  Published(x)' /\ req'[x].id = req'[r].id
    <3>1. Published(x) /\ req[x].id = i  BY <1>3, <1>8, <2>4 DEF Passwords
    <3> QED  BY <1>8, <1>10, <2>2, <2>4, <3>1
  <2>5. req'[r].seen = Seed => req'[r].id = Seed  BY <1>3, <1>8 DEF Passwords
  <2> QED  BY <1>1, <1>8, <1>10, <2>1, <2>2, <2>3, <2>4, <2>5 DEF Passwords
<1>16. to \notin Adding \cup {"clear", "drop"} /\ (to \in {"replace", "save"} => pass(i) = row[i].pw)
  BY <1>5 DEF Adding, pass
<1>17. \A s \in Reqs, m \in Names : Halfway(s, m)' <=> Halfway(s, m)
  BY <1>1, <1>8, <1>16 DEF Halfway, Adding
<1>18. Paired'
  <2>1. \A s \in Reqs \ {r} : Between(s) => Between(s)'  BY <1>1, <1>8 DEF Between, Present
  <2>2. Between(r)'  BY <1>8, <1>16 DEF Between, Adding
  <2>3. ASSUME NEW m \in Names \ torn'  PROVE Whole(m)'
    BY <1>1, <1>8, <1>17, <2>1, <2>2 DEF Paired, Whole, Taken, Present
  <2> QED  BY <2>3 DEF Paired
<1> QED  BY <1>11, <1>13, <1>14, <1>15, <1>18

\* A request between its two writes has a row.
LEMMA HalfwayHasRow ==
  ASSUME Typed, RowsOwned, Aimed, NEW n \in Names, Whole(n), NEW r \in Reqs, Halfway(r, n)
  PROVE  \E i \in Ids : Present(i) /\ row[i].name = n
<1>1. Between(r) /\ req[r].name = n  BY DEF Whole, Halfway
<1>2. CASE req[r].pc \in Adding
  <2>1. Present(r)  BY <1>1, <1>2 DEF Between
  <2> QED  BY <1>1, <2>1 DEF RowsOwned
<1>3. CASE req[r].pc \notin Adding
  <2>1. req[r].pc \in Located /\ req[r].id \in Ids  BY <1>3 DEF Halfway, Located, Typed, ReqType
  <2>2. Present(req[r].id)  BY <1>1, <1>3 DEF Between, Halfway
  <2> QED  BY <1>1, <2>1, <2>2 DEF Aimed
<1> QED  BY <1>2, <1>3

\* The name was free, so nobody is between two writes for it and the server has
\* no account of that name, or one without a password.
LEMMA CreateStep ==
  ASSUME Inv, NEW r \in Reqs, Create(r)
  PROVE  Inv'
<1> USE DEF Inv
<1> DEFINE n == req[r].name
<1>1. /\ req[r].pc = "insert" /\ UNCHANGED <<roles, vm, code>>
      /\ row' = [row EXCEPT ![r] = [name |-> n, email |-> req[r].email, pw |-> r]]
      /\ req[r] \in ReqType /\ ~Taken(n)
  BY DEF Create, At, Typed
<1>0. PICK x \in {"role", "failed"} :
        Goto(r, x) /\ torn' \in {torn, torn \cup {n}} /\ (x = "failed" => n \in torn')
  BY DEF Create, Tear
<1>2. req[r].op \in AddOps /\ n \in Names /\ req[r].id = r /\ req[r].pw = r  BY <1>1, Sorted DEF Aimed
<1>3. x \in Pcs /\ x \in Ends \cup Steps(req[r].op) /\ torn' \in SUBSET Names /\ torn \subseteq torn'
  BY <1>0, <1>1, <1>2, StepsOf DEF Pcs, Adding, Ends, ReqType, AddOps, Typed
<1>4. /\ req' \in [Reqs -> ReqType]
      /\ \A s \in Reqs :
              /\ req'[s].op = req[s].op /\ req'[s].id = req[s].id /\ req'[s].name = req[s].name
              /\ req'[s].email = req[s].email /\ req'[s].seen = req[s].seen /\ req'[s].pw = req[s].pw
              /\ req'[s].pc = IF s = r THEN x ELSE req[s].pc
  BY <1>0, <1>3, Moves DEF Typed
<1>5. Fresh(r) /\ ~Present(r)  BY <1>1, <1>2 DEF Fresh, Before, RowsOwned
<1>6. /\ row' \in [Ids -> RowType] /\ row'[r].name = n /\ row'[r].pw = r
      /\ \A i \in Ids \ {r} : row'[i] = row[i]
  BY <1>1, <1>2 DEF Typed, RowType, ReqType
<1>7. Present(r)' /\ \A i \in Ids \ {r} : Present(i)' <=> Present(i)
  BY <1>2, <1>6 DEF Present, NoRow
<1>8. ~Fresh(r)' /\ \A s \in Reqs \ {r} : Fresh(s)' <=> Fresh(s)
  BY <1>4 DEF Fresh, Before
<1>9. \A s \in Reqs : Published(s) => Published(s)'
  BY <1>2, <1>3, <1>4, <1>8 DEF Published
<1>10. Published(r)'  BY <1>2, <1>4, <1>8 DEF Published
<1>11. Typed'  BY <1>1, <1>3, <1>4, <1>6 DEF Typed
<1>12. RowsOwned'
  <2>1. \A i \in Ids : row[i].name # n  BY <1>1 DEF Taken
  <2>2. \A i \in Ids \ {r} : row'[i].name # n  BY <1>6, <2>1
  <2> QED  BY <1>0, <1>1, <1>2, <1>3, <1>4, <1>6, <1>7, <1>8, <2>2 DEF RowsOwned
<1>13. Aimed'
  <2>1. \A s \in Reqs : req[s].pc \in Located => req[s].id # r
    BY <1>5, Sorted DEF Aimed
  <2>2. \A s \in Reqs : req[s].id \in Ids  BY DEF Typed, ReqType
  <2>3. \A s \in Reqs \ {r} : req'[s].pc = req[s].pc  BY <1>4
  <2>4. x \notin Located \cup {"idle", "find", "chpasswd"}  BY DEF Located
  <2>5. \A s \in Reqs : (req'[s].op \notin AddOps /\ req'[s].id \in Reqs) => ~Fresh(req[s].id)
    BY <1>4 DEF Aimed
  <2>6. \A s, t \in Reqs : t = req'[s].id /\ req'[s].op \notin AddOps => ~Fresh(t)'
    BY <1>4, <1>8, <2>5
  <2>7. \A s \in Reqs : req'[s].pc \in Located =>
         /\ req'[s].name \in Names /\ req'[s].seen \in Ids
         /\ req'[s].pw = IF req'[s].op \in PasswordOps THEN s ELSE req'[s].seen
    BY <1>4, <2>4 DEF Aimed
  <2>8. \A s \in Reqs, i \in Ids : req'[s].pc \in Located /\ i = req'[s].id /\ Present(i)' => row'[i].name = req'[s].name
    BY <1>4, <1>6, <1>7, <2>1, <2>2, <2>4 DEF Aimed
  <2> QED  BY <1>1, <1>2, <1>4, <2>4, <2>6, <2>7, <2>8 DEF Aimed, Present, Fresh
<1>14. Passwords'
  <2>1. \A m \in Names : vm[m] # r  BY <1>1, <1>2 DEF Passwords, AddOps, PasswordOps
  <2> QED  BY <1>1, <1>2, <1>3, <1>4, <1>6, <1>9, <1>10, <2>1 DEF Passwords
<1>15. n \notin torn => vm[n] \in {NoAccount, Unset} /\ \A s \in Reqs : ~Halfway(s, n)
  <2>1. n \notin torn => vm[n] \in {NoAccount, Unset}  BY <1>1, <1>2 DEF Paired, Whole
  <2>2. ASSUME n \notin torn, NEW s \in Reqs, Halfway(s, n)  PROVE FALSE
    BY <1>1, <1>2, <2>2, HalfwayHasRow DEF Paired, Taken
  <2> QED  BY <2>1, <2>2
<1>16. \A s \in Reqs \ {r}, m \in Names : Halfway(s, m)' <=> Halfway(s, m)
  BY <1>4 DEF Halfway
<1>17. \A m \in Names : (Halfway(r, m)' <=> m = n /\ x = "role") /\ ~Halfway(r, m)
  BY <1>1, <1>4 DEF Halfway, Adding
<1>18. \A s \in Reqs \ {r} : Between(s) => Between(s)'
  <2>1. ASSUME NEW s \in Reqs \ {r}, Between(s)  PROVE Between(s)'
    <3>1. req[s].pc \in Located => req[s].id # r  BY <1>5, Sorted DEF Aimed
    <3>2. req[s].id \in Ids  BY DEF Typed, ReqType
    <3> QED  BY <1>1, <1>4, <1>6, <1>7, <2>1, <3>1, <3>2 DEF Between, Located
  <2> QED  BY <2>1
<1>19. Paired'
  <2>1. ASSUME NEW m \in Names \ torn'  PROVE Whole(m)'
    <3>1. Whole(m) /\ (m = n => x = "role" /\ n \notin torn)  BY <1>0, <1>3, <2>1 DEF Paired
    <3>2. \A s \in Reqs : req'[s].name = m => Between(s)'
      <4>1. m = n => Between(r)'  BY <1>1, <1>4, <1>6, <1>7, <1>15, <3>1 DEF Between
      <4> QED  BY <1>4, <1>18, <3>1, <4>1 DEF Whole
    <3>3. \A s, t \in Reqs : Halfway(s, m)' /\ Halfway(t, m)' => s = t
      BY <1>1, <1>15, <1>16, <1>17, <3>1, <2>1 DEF Whole
    <3>4. ~Taken(m)' => vm'[m] \in {NoAccount, Unset}
      BY <1>1, <1>5, <1>6, <3>1, <2>1, Named DEF Whole, Taken
    <3>5. \A i \in Ids : Present(i)' /\ row'[i].name = m /\ (\A s \in Reqs : ~Halfway(s, m)') => vm'[m] = row'[i].pw
      BY <1>1, <1>6, <1>7, <1>16, <1>17, <3>1 DEF Whole
    <3> QED  BY <3>2, <3>3, <3>4, <3>5 DEF Whole
  <2> QED  BY <2>1 DEF Paired
<1> QED  BY <1>11, <1>12, <1>13, <1>14, <1>19

\* A step of a request that is past its checks: it touches the row and the account
\* of its own name n only, and moves on to x.
Writes(r, n, x) ==
  /\ Goto(r, x) /\ n = req[r].name /\ code' = code
  /\ row' \in [Ids -> RowType] /\ roles' \in SUBSET Ids /\ vm' \in [Names -> Ids \cup {NoAccount, Unset}]
  /\ torn \in SUBSET torn' /\ torn' \in SUBSET (torn \cup {n})
  /\ req[r].pc \in Adding \cup Located
  /\ x \in Pcs \ {"idle", "find", "chpasswd"} /\ x \in Ends \cup Steps(req[r].op)
  /\ x \in Located => req[r].pc \in Located
  /\ req[r].op \in AddOps => x \notin Before /\ (x = "failed" => row'[r] = NoRow \/ n \in torn')
  /\ \A i \in Ids : row[i].name # n => row'[i] = row[i]
  /\ \A i \in Ids : row'[i] \in {row[i], NoRow} \/
       (/\ i = req[r].id /\ row[i] # NoRow /\ row'[i].name = n /\ row'[i].pw = req[r].pw /\ req[r].pc \in Located
        /\ req[r].op \in PasswordOps => x \in {"burn", "ok"} \/ (x = "failed" /\ n \in torn'))
  /\ \A m \in Names \ {n} : vm'[m] = vm[m]
  /\ vm'[n] = r =>
       /\ \/ req[r].op \in AddOps /\ x \in {"ok", "undo", "failed"}
          \/ req[r].op \in PasswordOps /\ x \in {"replace", "save", "burn", "ok", "failed"}
       /\ x \in {"undo", "failed"} => n \in torn'
  /\ vm'[n] \in {vm[n], NoAccount, Unset, r}

LEMMA WriteStep ==
  ASSUME Inv, NEW r \in Reqs, NEW n \in Names, NEW x, Writes(r, n, x), n \notin torn' => Whole(n)'
  PROVE  Inv'
<1> USE DEF Inv
<1>1. /\ req' \in [Reqs -> ReqType]
      /\ \A s \in Reqs :
              /\ req'[s].op = req[s].op /\ req'[s].id = req[s].id /\ req'[s].name = req[s].name
              /\ req'[s].email = req[s].email /\ req'[s].seen = req[s].seen /\ req'[s].pw = req[s].pw
              /\ req'[s].pc = IF s = r THEN x ELSE req[s].pc
  BY Moves DEF Writes, Typed
<1>2. /\ n = req[r].name /\ req[r].pc \in Adding \cup Located /\ torn \subseteq torn'
      /\ \A m \in torn' : m = n \/ m \in torn
  BY DEF Writes
<1>3. Typed'  BY <1>1 DEF Typed, Writes
<1>4. /\ req[r].pc \in Adding => req[r].op \in AddOps
      /\ req[r].pc \in Located => req[r].op \notin AddOps \cup {"none"}
      /\ req[r].pc # "idle" /\ ~Fresh(r) /\ req[r].op # "none"
  <2>1. req[r].pc \in Adding => req[r].op \in AddOps  BY Sorted
  <2>2. req[r].pc \in Located => req[r].op \notin AddOps \cup {"none"}  BY Sorted
  <2> QED  BY <1>2, <2>1, <2>2 DEF Adding, Located, Fresh, Before, AddOps
<1>5. \A s \in Reqs : Fresh(s)' <=> Fresh(s)
  BY <1>1, <1>4 DEF Fresh, Writes
<1>6. \A s \in Reqs : Published(s) => Published(s)'
  <2>1. ~(req[r].op \in PasswordOps /\ req[r].pc \in {"burn", "ok", "failed"})  BY <1>2 DEF Adding, Located
  <2> QED  BY <1>1, <1>2, <1>5, <2>1 DEF Published
<1>7. \A i \in Ids : Present(i)' => Present(i) /\ row'[i].name = row[i].name
  BY DEF Writes, Present
<1>8. \A i \in Ids : Present(i)' => row'[i].pw \in {row[i].pw, req[r].pw}
  BY DEF Writes, Present
<1>9. req[r].pc \in Located => req[r].pw \in Ids  BY DEF Aimed
<1>10. RowsOwned'
  <2>1. \A i \in Ids : Present(i)' => row'[i].name \in Names /\ row'[i].pw \in Ids
    BY <1>7, <1>9 DEF RowsOwned, Writes, Present
  <2>2. \A i, j \in Ids : Present(i)' /\ row'[i].name = row'[j].name => i = j
    <3>1. \A j \in Ids : ~Present(j)' => row'[j].name = NoName  BY DEF Present, NoRow
    <3> QED  BY <1>7, <2>1, <3>1 DEF RowsOwned
  <2>3. ASSUME NEW s \in Reqs, Present(s)'
        PROVE  /\ req'[s].op \in AddOps /\ ~Fresh(s)' /\ row'[s].name = req'[s].name
               /\ req'[s].pc = "failed" => req'[s].name \in torn'
    <3>1. /\ req[s].op \in AddOps /\ ~Fresh(s) /\ row[s].name = req[s].name
          /\ req[s].pc = "failed" => req[s].name \in torn
      BY <1>7, <2>3 DEF RowsOwned
    <3> QED  BY <1>1, <1>2, <1>5, <1>7, <2>3, <3>1 DEF Writes, Present
  <2> QED  BY <2>1, <2>2, <2>3 DEF RowsOwned
<1>11. Aimed'
  <2>1. \A s \in Reqs : (req'[s].pc = "idle" <=> req'[s].op = "none")
    BY <1>1, <1>4 DEF Aimed, Writes
  <2>2. \A s \in Reqs : req'[s].op \in AddOps => req'[s].name \in Names /\ req'[s].id = s /\ req'[s].pw = s
    BY <1>1 DEF Aimed
  <2>3. \A s, t \in Reqs : t = req'[s].id /\ req'[s].op \notin AddOps => ~Fresh(t)'
    BY <1>1, <1>5 DEF Aimed
  <2>4. \A s \in Reqs : req'[s].op = "delete" /\ req'[s].pc = "find" => req'[s].email = NoEmail
    BY <1>1 DEF Aimed, Writes
  <2>9. \A s \in Reqs : req'[s].pc = "chpasswd" => req'[s].op \in PasswordOps
    BY <1>1 DEF Aimed, Writes
  <2>5. \A s \in Reqs : req'[s].pc \in Located => req[s].pc \in Located  BY <1>1 DEF Writes
  <2>6. \A s \in Reqs : req'[s].pc \in Located =>
         /\ req'[s].name \in Names /\ req'[s].seen \in Ids
         /\ req'[s].pw = IF req'[s].op \in PasswordOps THEN s ELSE req'[s].seen
    BY <1>1, <2>5 DEF Aimed
  <2>7. \A s \in Reqs, i \in Ids : req'[s].pc \in Located /\ i = req'[s].id /\ Present(i)' => row'[i].name = req'[s].name
    BY <1>1, <1>7, <2>5 DEF Aimed
  <2>8. \A s \in Reqs : req'[s].id \in Ids  BY <1>1 DEF ReqType
  <2> QED  BY <2>1, <2>2, <2>3, <2>4, <2>6, <2>7, <2>8, <2>9 DEF Aimed, Present, Fresh
<1>12. Passwords'
  <2>1. ASSUME NEW i \in Ids, NEW y \in Reqs, row'[i].pw = y
        PROVE  Published(y)' /\ req'[y].id = i
    <3>1. CASE row'[i] = row[i]  BY <1>1, <1>6, <2>1, <3>1 DEF Passwords
    <3>2. CASE row'[i] # row[i]
      <4>1. row'[i] # NoRow  BY <2>1 DEF NoRow
      <4>2. /\ i = req[r].id /\ row'[i].pw = req[r].pw /\ req[r].pc \in Located
            /\ req[r].op \in PasswordOps => x \in {"burn", "ok"} \/ (x = "failed" /\ n \in torn')
        BY <3>2, <4>1 DEF Writes
      <4>3. CASE req[r].op \in PasswordOps
        <5>1. y = r  BY <2>1, <4>2, <4>3 DEF Aimed
        <5> QED  BY <1>1, <1>2, <1>4, <4>2, <4>3, <5>1 DEF Published
      <4>4. CASE req[r].op \notin PasswordOps
        <5>1. req[r].seen = y  BY <2>1, <4>2, <4>4 DEF Aimed
        <5> QED  BY <1>1, <1>6, <4>2, <5>1 DEF Passwords
      <4> QED  BY <4>3, <4>4
    <3> QED  BY <3>1, <3>2
  <2>2. ASSUME NEW q \in Reqs, NEW y \in Reqs, req'[q].seen = y
        PROVE  Published(y)' /\ req'[y].id = req'[q].id
    BY <1>1, <1>6, <2>2 DEF Passwords
  <2>3. ASSUME NEW m \in Names, NEW y \in Reqs, vm'[m] = y
        PROVE  /\ req'[y].name = m
               /\ \/ req'[y].op \in AddOps /\ req'[y].pc \in {"ok", "undo", "failed"}
                  \/ req'[y].op \in PasswordOps /\ req'[y].pc \in {"replace", "save", "burn", "ok", "failed"}
               /\ req'[y].pc \in {"undo", "failed"} => m \in torn'
    <3>1. CASE m = n /\ y = r  BY <1>1, <1>2, <2>3, <3>1 DEF Writes
    <3>2. CASE ~(m = n /\ y = r)
      <4>1. vm[m] = y  BY <2>3, <3>2 DEF Writes
      <4>2. y # r
        BY <1>2, <3>2, <4>1 DEF Passwords
      <4> QED  BY <1>1, <1>2, <4>1, <4>2 DEF Passwords
    <3> QED  BY <3>1, <3>2
  <2>4. ASSUME NEW i \in Ids, row'[i].pw = Seed  PROVE i = Seed
    <3>1. CASE row'[i] = row[i]  BY <2>4, <3>1 DEF Passwords
    <3>2. CASE row'[i] # row[i]
      <4>1. row'[i] # NoRow  BY <2>4 DEF NoRow
      <4>2. i = req[r].id /\ row'[i].pw = req[r].pw /\ req[r].pc \in Located
        BY <3>2, <4>1 DEF Writes
      <4> QED  BY <2>4, <4>2 DEF Aimed, Passwords
    <3> QED  BY <3>1, <3>2
  <2> QED  BY <1>1, <2>1, <2>2, <2>3, <2>4 DEF Passwords
<1>13. ASSUME NEW m \in Names \ torn', m # n  PROVE Whole(m)'
  <2>1. Whole(m) /\ vm'[m] = vm[m]  BY <1>2, <1>13 DEF Paired, Writes
  <2>2. \A s \in Reqs : Halfway(s, m)' <=> Halfway(s, m)
    BY <1>1, <1>2, <1>13 DEF Halfway
  <2>3. \A i \in Ids : row[i].name = m => row'[i] = row[i]  BY <1>13 DEF Writes
  <2>4. \A i \in Ids : row'[i].name = m => row'[i] = row[i]
    <3>1. m # NoRow.name  BY DEF NoRow
    <3> QED  BY <1>7, <2>3, <3>1 DEF Present
  <2>5. \A s \in Reqs : req'[s].name = m => Between(s)'
    <3>1. ASSUME NEW s \in Reqs, req'[s].name = m  PROVE Between(s)'
      <4>1. Between(s) /\ s # r /\ req[s].name = m  BY <1>1, <1>2, <1>13, <2>1, <3>1 DEF Whole
      <4>2. req[s].pc \in Adding /\ Present(s) => row'[s] = row[s]  BY <2>3, <4>1 DEF RowsOwned
      <4>3. req[s].pc \in Located /\ Present(req[s].id) => row'[req[s].id] = row[req[s].id]
        BY <2>3, <4>1 DEF Aimed, Typed, ReqType
      <4> QED  BY <1>1, <2>1, <4>1, <4>2, <4>3 DEF Between, Located, Present
    <3> QED  BY <3>1
  <2>6. ~Taken(m)' => ~Taken(m)  BY <2>3 DEF Taken
  <2> QED  BY <2>1, <2>2, <2>3, <2>4, <2>5, <2>6 DEF Whole, Present
<1>14. Paired'
  <2>1. ASSUME NEW m \in Names \ torn'  PROVE Whole(m)'
    BY <1>13
  <2> QED  BY <2>1 DEF Paired
<1> QED  BY <1>3, <1>10, <1>11, <1>12, <1>14

\* A step of the only request between two writes for n.
LEMMA AloneStep ==
  ASSUME Inv, NEW r \in Reqs, NEW n \in Names, NEW x, Writes(r, n, x), Halfway(r, n), n \notin torn,
         Between(r)', ~Taken(n)' => vm'[n] \in {NoAccount, Unset},
         ~Halfway(r, n)' => \A i \in Ids : Present(i)' /\ row'[i].name = n => vm'[n] = row'[i].pw
  PROVE  Whole(n)'
<1>1. \A s \in Reqs :
         /\ req'[s].name = req[s].name /\ req'[s].seen = req[s].seen /\ req'[s].pw = req[s].pw
         /\ s # r => req'[s] = req[s]
  BY Moves DEF Inv, Writes, Typed, Goto
<1>2. Whole(n)  BY DEF Inv, Paired
<1>3. \A s \in Reqs \ {r} : ~Halfway(s, n)  BY <1>2 DEF Whole
<1>4. \A s \in Reqs \ {r} : ~Halfway(s, n)'  BY <1>1, <1>3 DEF Halfway
<1>5. \A s \in Reqs \ {r} : req'[s].name = n => Between(s)'
  BY <1>4 DEF Between, Halfway, Adding
<1> QED  BY <1>4, <1>5 DEF Whole

\* What Register and CreateUser know between Create and the end.
LEMMA AddingFacts ==
  ASSUME Inv, NEW r \in Reqs, req[r].pc \in Adding
  PROVE  /\ req[r] \in ReqType /\ req[r].op \in AddOps /\ req[r].op \in Ops /\ req[r].name \in Names
         /\ {"role", "id", "useradd", "passwd", "undo", "ok", "failed"} \subseteq Pcs \ ({"idle", "find", "chpasswd"} \cup Located \cup Before)
         /\ \A x \in Adding \cup {"ok", "failed"} : x \in Ends \cup Steps(req[r].op)
         /\ Halfway(r, req[r].name)
         /\ req[r].op \notin PasswordOps
         /\ \A m \in Names : vm[m] = r => req[r].pc = "undo" /\ m \in torn
         /\ req[r].name \notin torn =>
              /\ Present(r) /\ row[r].pw = r /\ vm[req[r].name] \in {NoAccount, Unset}
              /\ req[r].pc = "passwd" => vm[req[r].name] = Unset
<1> USE DEF Inv
<1>1. req[r] \in ReqType /\ req[r].op \in AddOps /\ req[r].op \in Ops /\ req[r].name \in Names
  BY Sorted DEF Typed, ReqType, Aimed
<1>2. {"role", "id", "useradd", "passwd", "undo", "ok", "failed"} \subseteq Pcs \ ({"idle", "find", "chpasswd"} \cup Located \cup Before)
  BY DEF Pcs, Located, Before, Adding, Ends
<1>3. \A x \in Adding \cup {"ok", "failed"} : x \in Ends \cup Steps(req[r].op)
  BY <1>1, <1>2, StepsOf DEF Adding, Ends, AddOps
<1>4. Halfway(r, req[r].name)  BY DEF Halfway
<1>5. req[r].op \notin PasswordOps  BY <1>1 DEF PasswordOps, AddOps
<1>6. \A m \in Names : vm[m] = r => req[r].pc = "undo" /\ m \in torn  BY <1>5 DEF Passwords, Adding
<1>7. req[r].name \notin torn =>
        /\ Present(r) /\ row[r].pw = r /\ vm[req[r].name] \in {NoAccount, Unset}
        /\ req[r].pc = "passwd" => vm[req[r].name] = Unset
  BY <1>1 DEF Paired, Whole, Between
<1> QED  BY <1>1, <1>2, <1>3, <1>4, <1>5, <1>6, <1>7

LEMMA AddSteps ==
  ASSUME Inv, NEW r \in Reqs, AssignRoleByName(r) \/ VMUserExists(r) \/ UserAdd(r) \/ SetPassword(r) \/ Undo(r)
  PROVE  Inv'
<1>0. req[r].pc \in Adding
  BY DEF AssignRoleByName, VMUserExists, UserAdd, SetPassword, Undo, At, Adding
<1>1. PICK n \in Names : n = req[r].name  BY <1>0, AddingFacts
<1>2. /\ req[r] \in ReqType /\ req[r].op \in AddOps
      /\ {"role", "id", "useradd", "passwd", "undo", "ok", "failed"} \subseteq Pcs \ ({"idle", "find", "chpasswd"} \cup Located \cup Before)
      /\ \A x \in Adding \cup {"ok", "failed"} : x \in Ends \cup Steps(req[r].op)
      /\ Halfway(r, n) /\ req[r].op \notin PasswordOps
      /\ \A m \in Names : vm[m] = r => req[r].pc = "undo" /\ m \in torn
      /\ n \notin torn => Present(r) /\ row[r].pw = r /\ vm[n] \in {NoAccount, Unset}
  BY <1>0, <1>1, AddingFacts
<1>3. /\ row \in [Ids -> RowType] /\ roles \in SUBSET Ids /\ vm \in [Names -> Ids \cup {NoAccount, Unset}]
      /\ torn \in SUBSET Names
      /\ Present(r) => row[r].name = n
      /\ \A i \in Ids : Present(i) /\ row[i].name = n /\ Present(r) => i = r
  BY <1>1 DEF Inv, Typed, RowsOwned
<1>4. PICK x \in {"role", "id", "useradd", "passwd", "undo", "ok", "failed"} : Goto(r, x)
  BY DEF AssignRoleByName, VMUserExists, UserAdd, SetPassword, Undo
<1>5. /\ \A s \in Reqs : req'[s].name = req[s].name /\ req'[s].id = req[s].id
      /\ req'[r].pc = x
  BY <1>2, <1>4, Moves DEF Inv, Typed
<1>6. x \in Adding \cup {"ok", "failed"}  BY DEF Adding
<1>7. Halfway(r, n)' <=> x \in Adding
  BY <1>1, <1>5, <1>6 DEF Halfway
<1>8. \A i \in Ids : row'[i] = row[i] => (Present(i)' <=> Present(i))  BY DEF Present
<1>9. \A y : Goto(r, y) => y = x
  BY <1>2, <1>5 DEF Goto, Inv, Typed, ReqType
<1>10. ASSUME row' = row, vm' = vm, code' = code, roles' \in SUBSET Ids, torn' \in {torn, torn \cup {n}},
              req[r].pc # "undo", (x \in Adding /\ x # "passwd") \/ n \in torn'
       PROVE  Inv'
  <2>1. Writes(r, n, x)
    BY <1>0, <1>1, <1>2, <1>3, <1>4, <1>6, <1>10 DEF Writes, Adding
  <2>2. ASSUME n \notin torn'  PROVE Whole(n)'
    <3>1. n \notin torn /\ x \in Adding /\ x # "passwd"  BY <1>10, <2>2
    <3>2. Present(r)' /\ row'[r].pw = r /\ vm'[n] \in {NoAccount, Unset}  BY <1>2, <1>10, <3>1 DEF Present
    <3>3. Between(r)'  BY <1>1, <1>5, <3>1, <3>2 DEF Between, Adding
    <3> QED  BY <1>2, <1>7, <2>1, <3>1, <3>2, <3>3, AloneStep
  <2> QED  BY <2>1, <2>2, WriteStep
<1>11. CASE AssignRoleByName(r)
  <2>1. /\ row' = row /\ vm' = vm /\ code' = code /\ req[r].pc = "role"
        /\ \/ roles' = roles \cup {r} /\ x = "id" /\ torn' = torn
           \/ roles' \in {roles, roles \cup {r}} /\ x = "failed" /\ torn' = torn \cup {n}
    BY <1>1, <1>9, <1>11 DEF AssignRoleByName, At, Tear
  <2> QED  BY <1>3, <1>10, <2>1 DEF Adding
<1>12. CASE VMUserExists(r)
  <2>1. /\ row' = row /\ vm' = vm /\ code' = code /\ roles' = roles /\ req[r].pc = "id"
        /\ (x = "ok" /\ torn' = torn \cup {n}) \/ (x \in {"useradd", "undo"} /\ torn' = torn)
    BY <1>1, <1>9, <1>12 DEF VMUserExists, At, db, Tear
  <2> QED  BY <1>2, <1>3, <1>10, <2>1 DEF Adding
<1>13. CASE UserAdd(r)
  <2>1. /\ row' = row /\ code' = code /\ roles' = roles /\ req[r].pc = "useradd" /\ torn' = torn
        /\ \/ vm' = [vm EXCEPT ![n] = Unset] /\ x \in {"passwd", "undo"}
           \/ vm' = vm /\ x = "undo"
    BY <1>1, <1>9, <1>13 DEF UserAdd, At, db
  <2>2. CASE vm' = vm /\ x = "undo"  BY <1>3, <1>10, <2>1, <2>2 DEF Adding
  <2>3. CASE vm' = [vm EXCEPT ![n] = Unset] /\ x \in {"passwd", "undo"}
    <3>1. vm'[n] = Unset /\ \A m \in Names \ {n} : vm'[m] = vm[m]  BY <1>3, <2>3
    <3>2. Writes(r, n, x)
      BY <1>0, <1>1, <1>2, <1>3, <1>4, <1>6, <2>1, <2>3, <3>1 DEF Writes, Adding
    <3>3. ASSUME n \notin torn'  PROVE Whole(n)'
      <4>1. n \notin torn  BY <2>1, <3>3
      <4>2. Present(r)' /\ row'[r].pw = r  BY <1>2, <2>1, <4>1 DEF Present
      <4>3. Between(r)'  BY <1>1, <1>5, <3>1, <4>1, <4>2 DEF Between, Adding
      <4>4. Taken(n)'  BY <1>2, <1>3, <2>1, <4>1 DEF Taken
      <4>5. x \in Adding  BY <2>3 DEF Adding
      <4> QED  BY <1>2, <1>7, <3>2, <4>1, <4>3, <4>4, <4>5, AloneStep
    <3> QED  BY <3>2, <3>3, WriteStep
  <2> QED  BY <2>1, <2>2, <2>3
<1>14. CASE SetPassword(r)
  <2>1. /\ row' = row /\ code' = code /\ roles' = roles /\ req[r].pc = "passwd" /\ torn' \in {torn, torn \cup {n}}
        /\ \/ /\ vm' = [vm EXCEPT ![n] = r]
              /\ x = "ok" \/ (x = "undo" /\ n \in torn')
           \/ vm' = vm /\ x = "undo"
    <3>1. torn' \in {torn, torn \cup {n}}  BY <1>1, <1>14 DEF SetPassword, Tear
    <3> QED  BY <1>1, <1>9, <1>14, <3>1 DEF SetPassword, At, db, Tear
  <2>2. CASE vm' = vm /\ x = "undo"  BY <1>3, <1>10, <2>1, <2>2 DEF Adding
  <2>3. CASE vm' = [vm EXCEPT ![n] = r] /\ x \in {"ok", "undo"} /\ (x = "ok" \/ n \in torn')
    <3>1. vm'[n] = r /\ \A m \in Names \ {n} : vm'[m] = vm[m]  BY <1>3, <2>3
    <3>2. Writes(r, n, x)
      BY <1>0, <1>1, <1>2, <1>3, <1>4, <1>6, <2>1, <2>3, <3>1 DEF Writes, Adding
    <3>3. ASSUME n \notin torn'  PROVE Whole(n)'
      <4>1. n \notin torn /\ x = "ok"  BY <2>1, <2>3, <3>3
      <4>2. Between(r)'  BY <1>5, <4>1 DEF Between, Adding
      <4>3. Taken(n)'  BY <1>2, <1>3, <2>1, <4>1 DEF Taken
      <4>4. \A i \in Ids : Present(i)' /\ row'[i].name = n => vm'[n] = row'[i].pw
        BY <1>2, <1>3, <1>8, <2>1, <3>1, <4>1
      <4> QED  BY <1>2, <3>2, <4>1, <4>2, <4>3, <4>4, AloneStep
    <3> QED  BY <3>2, <3>3, WriteStep
  <2> QED  BY <2>1, <2>2, <2>3
<1>15. CASE Undo(r)
  <2>1. /\ vm' = vm /\ code' = code /\ roles' = roles /\ req[r].pc = "undo" /\ x = "failed"
        /\ \/ row' = [row EXCEPT ![r] = NoRow] /\ torn' = torn
           \/ row' = row /\ torn' = torn \cup {n}
    BY <1>1, <1>9, <1>15 DEF Undo, At, Tear
  <2>2. NoRow \in RowType  BY DEF NoRow, RowType
  <2>3. /\ row' \in [Ids -> RowType] /\ \A i \in Ids \ {r} : row'[i] = row[i]
        /\ row'[r] = NoRow \/ (row'[r] = row[r] /\ n \in torn')
    <3>1. CASE row' = [row EXCEPT ![r] = NoRow]  BY <1>3, <2>2, <3>1
    <3>2. CASE row' = row /\ torn' = torn \cup {n}  BY <1>3, <3>2
    <3> QED  BY <2>1, <3>1, <3>2
  <2>4. row[r].name # n => row[r] = NoRow  BY <1>3 DEF Present
  <2>5. Writes(r, n, x)
    <3>1. vm'[n] = r => n \in torn' /\ x \in {"ok", "undo", "failed"}  BY <1>2, <2>1
    <3> QED  BY <1>0, <1>1, <1>2, <1>3, <1>4, <1>6, <2>1, <2>3, <2>4, <3>1 DEF Writes, Adding
  <2>6. ASSUME n \notin torn'  PROVE Whole(n)'
    <3>1. n \notin torn /\ row'[r] = NoRow  BY <2>1, <2>3, <2>6
    <3>2. vm'[n] \in {NoAccount, Unset}  BY <1>2, <2>1, <3>1
    <3>3. Between(r)'  BY <1>5, <2>1 DEF Between, Adding
    <3>4. \A i \in Ids : ~(Present(i)' /\ row'[i].name = n)
      BY <1>2, <1>3, <1>8, <2>3, <3>1 DEF Present, NoRow
    <3> QED  BY <1>2, <2>5, <3>1, <3>2, <3>3, <3>4, AloneStep
  <2> QED  BY <2>5, <2>6, WriteStep
<1> QED  BY <1>11, <1>12, <1>13, <1>14, <1>15

\* What a request that has found its user knows.
LEMMA LocatedFacts ==
  ASSUME Inv, NEW r \in Reqs, req[r].pc \in Located
  PROVE  /\ req[r] \in ReqType /\ req[r].op \in Ops \ (AddOps \cup {"none"}) /\ req[r].id \in Ids
         /\ req[r].name \in Names /\ req[r].seen \in Ids /\ req[r].pw \in Ids
         /\ req[r].pw = IF req[r].op \in PasswordOps THEN r ELSE req[r].seen
         /\ req[r].op \in PasswordOps => req[r].seen # r
         /\ Present(req[r].id) => row[req[r].id].name = req[r].name
         /\ ~Present(r)
         /\ {"replace", "save", "clear", "drop", "burn", "ok", "failed"} \subseteq Pcs \ {"idle", "find", "chpasswd"}
<1> USE DEF Inv
<1>1. req[r] \in ReqType /\ req[r].op \in Ops \ (AddOps \cup {"none"}) /\ req[r].id \in Ids
  BY Sorted DEF Typed, ReqType
<1>2. /\ req[r].name \in Names /\ req[r].seen \in Ids
      /\ req[r].pw = IF req[r].op \in PasswordOps THEN r ELSE req[r].seen
      /\ Present(req[r].id) => row[req[r].id].name = req[r].name
  BY DEF Aimed
<1>3. req[r].op \in PasswordOps => req[r].seen # r  BY <1>1 DEF Passwords, Published, Located
<1>4. ~Present(r)  BY <1>1 DEF RowsOwned
<1>5. {"replace", "save", "clear", "drop", "burn", "ok", "failed"} \subseteq Pcs \ {"idle", "find", "chpasswd"}
  BY DEF Pcs, Located, Before, Ends
<1> QED  BY <1>1, <1>2, <1>3, <1>4, <1>5

\* The account still has the password that r read with the row: nobody is between
\* two writes, and the row is there and has that password.
LEMMA SeenIsCurrent ==
  ASSUME Inv, NEW r \in Reqs, req[r].pc \in {"chpasswd", "userdel"}, NEW n \in Names, n = req[r].name,
         n \notin torn, vm[n] = req[r].seen
  PROVE  /\ \A s \in Reqs : ~Halfway(s, n)
         /\ Present(req[r].id) /\ row[req[r].id].pw = req[r].seen
<1> USE DEF Inv
<1>1. Whole(n)  BY DEF Paired
<1>2. req[r].seen \in Ids /\ req[r].id \in Ids  BY LocatedFacts DEF Located
<1>3. ASSUME NEW s \in Reqs, Halfway(s, n)  PROVE FALSE
  <2>1. Between(s) /\ req[s].name = n  BY <1>1, <1>3 DEF Whole, Halfway
  <2>2. vm[n] \notin {NoAccount, Unset}  BY <1>2
  <2>3. /\ req[s].pc \in {"replace", "save"} /\ req[s].pw # req[s].seen /\ vm[n] = s
    BY <1>3, <2>1, <2>2 DEF Between, Halfway
  <2>4. Published(s)  BY <2>3 DEF Passwords
  <2>5. req[s].op \notin AddOps  BY <2>3, Sorted DEF Located
  <2> QED  BY <2>3, <2>4, <2>5 DEF Published
<1>4. PICK i \in Ids : Present(i) /\ row[i].name = n
  BY <1>1, <1>2, Named DEF Whole
<1>5. vm[n] = row[i].pw  BY <1>1, <1>3, <1>4 DEF Whole
<1>6. i = req[r].id
  <2>1. CASE req[r].seen = Seed  BY <1>4, <1>5, <2>1 DEF Passwords
  <2>2. ASSUME NEW y \in Reqs, req[r].seen = y  PROVE i = req[r].id
    <3>0. row[i].pw = y  BY <1>5, <2>2
    <3>1. req[y].id = i  BY <1>4, <3>0 DEF Passwords
    <3>2. req[y].id = req[r].id  BY <2>2 DEF Passwords
    <3> QED  BY <3>1, <3>2
  <2> QED  BY <1>2, <2>1, <2>2
<1> QED  BY <1>3, <1>4, <1>5, <1>6

\* The steps on the server: r is alone for n when it begins to write.
LEMMA ServerSteps ==
  ASSUME Inv, NEW r \in Reqs, UpdateVMPassword(r) \/ UserDel(r)
  PROVE  Inv'
<1>0. req[r].pc \in {"chpasswd", "userdel"} /\ req[r].pc \in Located
  BY DEF UpdateVMPassword, UserDel, At, Located
<1>1. PICK n \in Names : n = req[r].name  BY <1>0, LocatedFacts
<1>2. /\ req[r] \in ReqType /\ req[r].op \in Ops \ (AddOps \cup {"none"}) /\ req[r].id \in Ids
      /\ req[r].seen \in Ids
      /\ req[r].pw = IF req[r].op \in PasswordOps THEN r ELSE req[r].seen
      /\ req[r].op \in PasswordOps => req[r].seen # r
      /\ {"replace", "save", "clear", "failed"} \subseteq Pcs \ {"idle", "find", "chpasswd"}
  BY <1>0, LocatedFacts
<1>3. /\ row \in [Ids -> RowType] /\ roles \in SUBSET Ids /\ vm \in [Names -> Ids \cup {NoAccount, Unset}]
  BY DEF Inv, Typed
<1>4. PICK x \in {"replace", "save", "clear", "failed"} : Goto(r, x)
  BY DEF UpdateVMPassword, UserDel
<1>5. /\ req' \in [Reqs -> ReqType]
      /\ \A s \in Reqs :
              /\ req'[s].op = req[s].op /\ req'[s].id = req[s].id /\ req'[s].name = req[s].name
              /\ req'[s].seen = req[s].seen /\ req'[s].pw = req[s].pw
              /\ req'[s].pc = IF s = r THEN x ELSE req[s].pc
  BY <1>2, <1>4, Moves DEF Inv, Typed
<1>6. \A y : Goto(r, y) => y = x
  BY <1>2, <1>5 DEF Goto, Inv, Typed, ReqType
<1>7. /\ row' = row /\ roles' = roles /\ code' = code /\ torn' \in {torn, torn \cup {n}}
      /\ x = "failed" => n \in torn'
      /\ vm[n] # req[r].seen => n \in torn'
      /\ \/ req[r].pc = "chpasswd" /\ vm' = [vm EXCEPT ![n] = r] /\ x \in {"failed", IF req[r].op = "adminpw" THEN "replace" ELSE "save"}
         \/ req[r].pc = "userdel" /\ vm' = [vm EXCEPT ![n] = NoAccount] /\ x \in {"failed", "clear"}
  <2>1. CASE UpdateVMPassword(r)  BY <1>1, <1>6, <2>1 DEF UpdateVMPassword, At, db, Tear
  <2>2. CASE UserDel(r)  BY <1>1, <1>6, <2>2 DEF UserDel, At, db, Tear
  <2> QED  BY <2>1, <2>2
<1>8. /\ req[r].pc = "chpasswd" => req[r].op \in PasswordOps
      /\ req[r].pc = "userdel" => req[r].op = "delete" /\ req[r].op \notin PasswordOps
  BY <1>0, Sorted DEF Inv, Aimed, PasswordOps
<1>9. /\ vm' \in [Names -> Ids \cup {NoAccount, Unset}] /\ \A m \in Names \ {n} : vm'[m] = vm[m]
      /\ vm'[n] = IF req[r].pc = "chpasswd" THEN r ELSE NoAccount
  BY <1>0, <1>3, <1>7
<1>10. Writes(r, n, x)
  <2>1. x \in Ends \cup Steps(req[r].op)
    BY <1>0, <1>2, <1>7, <1>8, StepsOf DEF Ends, Saving, Deleting, Ops, PasswordOps
  <2>2. x \in Located => req[r].pc \in Located  BY <1>0
  <2> QED  BY <1>0, <1>1, <1>2, <1>3, <1>4, <1>7, <1>8, <1>9, <2>1, <2>2 DEF Writes
<1>11. ASSUME n \notin torn'  PROVE Whole(n)'
  <2>1. n \notin torn /\ vm[n] = req[r].seen /\ x # "failed"  BY <1>7, <1>11
  <2>2. \A s \in Reqs : ~Halfway(s, n)  BY <1>0, <1>1, <2>1, SeenIsCurrent
  <2>3. Present(req[r].id) /\ row[req[r].id].pw = req[r].seen  BY <1>0, <1>1, <2>1, SeenIsCurrent
  <2>4. \A s \in Reqs \ {r} : ~Halfway(s, n)'  BY <1>5, <2>2 DEF Halfway
  <2>5. \A s \in Reqs \ {r} : req'[s].name = n => Between(s)'  BY <2>4 DEF Between, Halfway, Adding
  <2>6. Halfway(r, n)'
    BY <1>0, <1>1, <1>2, <1>5, <1>7, <1>8, <2>1 DEF Halfway
  <2>7. Between(r)'
    BY <1>0, <1>1, <1>2, <1>5, <1>7, <1>8, <1>9, <2>1, <2>3 DEF Between, Adding, Present
  <2>8. Taken(n)'
    <3>1. row[req[r].id].name = n  BY <1>0, <1>1, <2>3, LocatedFacts
    <3> QED  BY <1>2, <1>7, <3>1 DEF Taken
  <2> QED  BY <2>4, <2>5, <2>6, <2>7, <2>8 DEF Whole
<1> QED  BY <1>10, <1>11, WriteStep

\* The steps on the table, and on the roles.
LEMMA TableSteps ==
  ASSUME Inv, NEW r \in Reqs, ReplaceRolesByNames(r) \/ Update(r) \/ ClearRoles(r) \/ Delete(r)
  PROVE  Inv'
<1>0. req[r].pc \in {"replace", "save", "clear", "drop"} /\ req[r].pc \in Located
  BY DEF ReplaceRolesByNames, Update, ClearRoles, Delete, At, Located
<1>1. PICK n \in Names : n = req[r].name  BY <1>0, LocatedFacts
<1>2. PICK i \in Ids : i = req[r].id  BY <1>0, LocatedFacts
<1>3. /\ req[r] \in ReqType /\ req[r].op \in Ops \ (AddOps \cup {"none"})
      /\ req[r].seen \in Ids /\ req[r].pw \in Ids
      /\ req[r].pw = IF req[r].op \in PasswordOps THEN r ELSE req[r].seen
      /\ req[r].op \in PasswordOps => req[r].seen # r
      /\ Present(i) => row[i].name = n
      /\ {"save", "drop", "burn", "ok", "failed"} \subseteq Pcs \ {"idle", "find", "chpasswd"}
  BY <1>0, <1>1, <1>2, LocatedFacts
<1>4. /\ row \in [Ids -> RowType] /\ roles \in SUBSET Ids /\ vm \in [Names -> Ids \cup {NoAccount, Unset}]
      /\ \A j, k \in Ids : Present(j) /\ row[j].name = row[k].name => j = k
  BY DEF Inv, Typed, RowsOwned
<1>5. PICK x \in {"save", "drop", "burn", "ok", "failed"} : Goto(r, x)
  BY DEF ReplaceRolesByNames, Update, ClearRoles, Delete
<1>6. /\ req' \in [Reqs -> ReqType]
      /\ \A s \in Reqs :
              /\ req'[s].op = req[s].op /\ req'[s].id = req[s].id /\ req'[s].name = req[s].name
              /\ req'[s].seen = req[s].seen /\ req'[s].pw = req[s].pw
              /\ req'[s].pc = IF s = r THEN x ELSE req[s].pc
  BY <1>3, <1>5, Moves DEF Inv, Typed
<1>7. \A y : Goto(r, y) => y = x
  BY <1>3, <1>6 DEF Goto, Inv, Typed, ReqType
<1>8. Halfway(r, n) <=> req[r].pc \in {"clear", "drop"} \/ req[r].op \in PasswordOps
  BY <1>0, <1>1, <1>3 DEF Halfway, Adding, PasswordOps
<1>9. req[r].pc \in {"clear", "drop"} => req[r].op = "delete" /\ req[r].op \notin PasswordOps
  BY Sorted DEF Inv, PasswordOps
<1>10. vm' = vm /\ code' = code /\ torn' \in {torn, torn \cup {n}} /\ roles' \in SUBSET Ids
  <2>1. roles' \in SUBSET Ids  BY <1>2, <1>4 DEF ReplaceRolesByNames, Update, ClearRoles, Delete
  <2> QED  BY <1>1, <2>1 DEF ReplaceRolesByNames, Update, ClearRoles, Delete, Tear
<1>11. \A s \in Reqs \ {r} : Halfway(s, n)' <=> Halfway(s, n)  BY <1>6 DEF Halfway
<1>12. ASSUME row' = row, x \in Ends \cup Steps(req[r].op),
              \/ req[r].pc = "replace" /\ x = "save"
              \/ req[r].pc = "clear" /\ x = "drop"
              \/ x \in {"ok", "burn", "failed"} /\ (Halfway(r, n) => n \in torn')
       PROVE  Inv'
  <2>1. Writes(r, n, x)
    <3>1. vm'[n] = r => req[r].op \in PasswordOps  BY <1>3, <1>10 DEF Inv, Passwords
    <3> QED  BY <1>0, <1>1, <1>3, <1>4, <1>5, <1>8, <1>9, <1>10, <1>12, <3>1 DEF Writes
  <2>2. ASSUME n \notin torn'  PROVE Whole(n)'
    <3>1. n \notin torn  BY <1>10, <2>2
    <3>2. Whole(n)  BY <3>1 DEF Inv, Paired
    <3>3. CASE Halfway(r, n)
      <4>1. (req[r].pc = "replace" /\ x = "save") \/ (req[r].pc = "clear" /\ x = "drop")  BY <1>12, <2>2, <3>3
      <4>2. Between(r)  BY <1>1, <3>2 DEF Whole
      <4>3. Between(r)'
        BY <1>6, <1>10, <1>12, <4>1, <4>2 DEF Between, Adding, Present
      <4>4. Halfway(r, n)'  BY <1>1, <1>3, <1>6, <1>8, <1>9, <3>3, <4>1 DEF Halfway
      <4>5. ~Taken(n)' => vm'[n] \in {NoAccount, Unset}  BY <1>10, <1>12, <3>2 DEF Whole, Taken
      <4> QED  BY <2>1, <3>1, <3>3, <4>3, <4>4, <4>5, AloneStep
    <3>4. CASE ~Halfway(r, n)
      <4>1. ~Halfway(r, n)'  BY <1>1, <1>3, <1>6, <1>8, <1>12, <3>4 DEF Halfway, Adding
      <4>2. Between(r)'  BY <1>1, <1>6, <4>1 DEF Between, Halfway
      <4>3. \A s \in Reqs \ {r} : Between(s) => Between(s)'
        BY <1>6, <1>10, <1>12 DEF Between, Present
      <4>4. \A s \in Reqs : Halfway(s, n)' <=> Halfway(s, n)  BY <1>11, <3>4, <4>1
      <4> QED  BY <1>6, <1>10, <1>12, <3>2, <4>2, <4>3, <4>4 DEF Whole, Taken, Present
    <3> QED  BY <3>3, <3>4
  <2> QED  BY <2>1, <2>2, WriteStep
<1>13. CASE ReplaceRolesByNames(r)
  <2>1. row' = row /\ req[r].pc = "replace" /\ (x = "save" \/ (x = "failed" /\ (req[r].pw # req[r].seen => n \in torn')))
    BY <1>1, <1>7, <1>13 DEF ReplaceRolesByNames, At, Tear
  <2>2. x \in Ends \cup Steps(req[r].op)
    <3>1. req[r].op \in {"reset", "change", "admin", "adminpw", "profile", "avatar"}  BY <2>1, Sorted DEF Inv
    <3> QED  BY <1>3, <2>1, <3>1, StepsOf DEF Ends, Saving
  <2> QED  BY <1>3, <1>8, <1>12, <2>1, <2>2
<1>14. CASE ClearRoles(r)
  <2>1. row' = row /\ req[r].pc = "clear" /\ (x = "drop" \/ (x = "failed" /\ n \in torn'))
    BY <1>1, <1>7, <1>14 DEF ClearRoles, At, Tear
  <2>2. x \in Ends \cup Steps(req[r].op)
    BY <1>3, <1>9, <2>1, StepsOf DEF Ends, Deleting
  <2> QED  BY <1>12, <2>1, <2>2
<1>15. CASE Update(r)
  <2>1. /\ req[r].pc = "save"
        /\ x = "failed" /\ req[r].pw # req[r].seen => n \in torn'
        /\ \/ /\ x \in {IF req[r].op = "reset" THEN "burn" ELSE "ok", "failed"}
              /\ row' = IF Present(i) THEN [row EXCEPT ![i] = [name |-> n, email |-> req[r].email, pw |-> req[r].pw]] ELSE row
              /\ Present(i) /\ row[i].pw # req[r].seen => n \in torn'
           \/ row' = row /\ x = "failed"
    BY <1>1, <1>2, <1>7, <1>15 DEF Update, At, Tear
  <2>2. x \in Ends \cup Steps(req[r].op)
    <3>1. req[r].op \in {"reset", "change", "admin", "adminpw", "profile", "avatar"}  BY <2>1, Sorted DEF Inv
    <3> QED  BY <1>3, <2>1, <3>1, StepsOf DEF Ends, Saving
  <2>3. CASE row' = row /\ x = "failed"  BY <1>3, <1>8, <1>12, <2>1, <2>2, <2>3
  <2>4. CASE x # "failed" /\ ~Present(i)
    <3>1. Halfway(r, n) => n \in torn
      BY <1>1, <1>2, <1>3, <1>8, <2>1, <2>4 DEF Inv, Paired, Whole, Between
    <3>2. row' = row /\ x \in {"ok", "burn"} /\ (Halfway(r, n) => n \in torn')
      BY <1>10, <2>1, <2>4, <3>1
    <3> QED  BY <1>12, <2>2, <3>2
  <2>5. CASE ~(row' = row /\ x = "failed") /\ Present(i)
    <3>1. /\ x \in {"burn", "ok", "failed"}
          /\ row' = [row EXCEPT ![i] = [name |-> n, email |-> req[r].email, pw |-> req[r].pw]]
          /\ row[i].pw # req[r].seen => n \in torn'
          /\ x = "failed" /\ req[r].op \in PasswordOps => n \in torn'
      BY <1>3, <2>1, <2>5
    <3>2. /\ row' \in [Ids -> RowType] /\ \A j \in Ids \ {i} : row'[j] = row[j]
          /\ row'[i].name = n /\ row'[i].pw = req[r].pw
      BY <1>3, <1>4, <3>1 DEF RowType, ReqType
    <3>3. row[i].name = n  BY <1>3, <2>5
    <3>4. Writes(r, n, x)
      <4>1. vm'[n] = r => req[r].op \in PasswordOps  BY <1>3, <1>10 DEF Inv, Passwords
      <4>2. \A j \in Ids : row[j].name # n => row'[j] = row[j]  BY <3>2, <3>3
      <4>3. \A j \in Ids : row'[j] \in {row[j], NoRow} \/
              (/\ j = req[r].id /\ row[j] # NoRow /\ row'[j].name = n /\ row'[j].pw = req[r].pw /\ req[r].pc \in Located
               /\ req[r].op \in PasswordOps => x \in {"burn", "ok"} \/ (x = "failed" /\ n \in torn'))
        BY <1>0, <1>2, <2>5, <3>1, <3>2 DEF Present
      <4>4. x \in {"burn", "ok", "failed"} /\ (x = "failed" /\ req[r].op \in PasswordOps => n \in torn')  BY <3>1
      <4> QED  BY <1>0, <1>1, <1>3, <1>4, <1>5, <1>10, <2>2, <3>2, <4>1, <4>2, <4>3, <4>4 DEF Writes
    <3>5. ASSUME n \notin torn'  PROVE Whole(n)'
      <4>1. n \notin torn /\ row[i].pw = req[r].seen  BY <1>10, <3>1, <3>5
      <4>2. Whole(n)  BY <4>1 DEF Inv, Paired
      <4>3. ~Halfway(r, n)'  BY <1>1, <1>6, <3>1 DEF Halfway, Adding
      <4>4. Between(r)'  BY <1>1, <1>6, <4>3 DEF Between, Halfway
      <4>5. Taken(n)'  BY <3>2 DEF Taken
      <4>6. \A j \in Ids : Present(j)' <=> Present(j)
        BY <2>5, <3>2 DEF Present, NoRow
      <4>7. \A j \in Ids : Present(j)' /\ row'[j].name = n => j = i
        BY <1>4, <2>5, <3>2, <3>3, <4>6
      <4>8. CASE Halfway(r, n)
        <5>1. vm[n] = r  BY <1>1, <1>3, <1>8, <2>1, <4>2, <4>8 DEF Whole, Between
        <5>2. req[r].pw = r  BY <1>3, <1>8, <2>1, <4>8
        <5> QED  BY <1>10, <3>2, <3>4, <4>1, <4>3, <4>4, <4>5, <4>7, <4>8, <5>1, <5>2, AloneStep
      <4>9. CASE ~Halfway(r, n)
        <5>1. row'[i].pw = row[i].pw  BY <1>3, <1>8, <3>2, <4>1, <4>9
        <5>2. \A j \in Ids : row'[j].pw = row[j].pw  BY <3>2, <5>1
        <5>3. \A s \in Reqs \ {r} : req[s].id \in Ids  BY DEF Inv, Typed, ReqType
        <5>4. \A s \in Reqs \ {r} : Between(s) => Between(s)'
          BY <1>6, <1>10, <4>6, <5>2, <5>3 DEF Between
        <5>5. \A s \in Reqs : Halfway(s, n)' <=> Halfway(s, n)  BY <1>11, <4>3, <4>9
        <5>6. \A s \in Reqs : req'[s].name = n => Between(s)'  BY <1>6, <4>2, <4>4, <5>4 DEF Whole
        <5>7. \A j \in Ids : Present(j)' /\ row'[j].name = n /\ (\A s \in Reqs : ~Halfway(s, n)') => vm'[n] = row'[j].pw
          BY <1>10, <2>5, <3>3, <4>2, <4>7, <5>1, <5>5 DEF Whole
        <5> QED  BY <4>2, <4>5, <5>5, <5>6, <5>7 DEF Whole
      <4> QED  BY <4>8, <4>9
    <3> QED  BY <3>4, <3>5, WriteStep
  <2> QED  BY <2>1, <2>3, <2>4, <2>5
<1>16. CASE Delete(r)
  <2>1. /\ req[r].pc = "drop"
        /\ \/ row' = [row EXCEPT ![i] = NoRow] /\ x \in {"ok", "failed"} /\ torn' = torn
           \/ row' = row /\ x = "failed" /\ n \in torn'
    BY <1>1, <1>2, <1>7, <1>16 DEF Delete, At, Tear
  <2>2. x \in Ends \cup Steps(req[r].op)  BY <2>1 DEF Ends
  <2>3. CASE row' = row /\ x = "failed" /\ n \in torn'  BY <1>12, <2>1, <2>2, <2>3
  <2>4. CASE row' = [row EXCEPT ![i] = NoRow] /\ x \in {"ok", "failed"} /\ torn' = torn
    <3>1. NoRow \in RowType /\ NoRow.name = NoName  BY DEF NoRow, RowType
    <3>2. row' = [row EXCEPT ![i] = NoRow] /\ torn' = torn  BY <2>4
    <3>3. row' \in [Ids -> RowType] /\ row'[i] = NoRow /\ \A j \in Ids \ {i} : row'[j] = row[j]
      BY <1>4, <3>1, <3>2
    <3>4. row[i].name # n => row[i] = NoRow  BY <1>3 DEF Present
    <3>5. Writes(r, n, x)
      <4>1. vm'[n] # r  BY <1>3, <1>9, <1>10, <2>1 DEF Inv, Passwords
      <4>2. \A j \in Ids : row[j].name # n => row'[j] = row[j]  BY <3>3, <3>4
      <4>3. \A j \in Ids : row'[j] \in {row[j], NoRow}  BY <3>3
      <4> QED  BY <1>0, <1>1, <1>3, <1>4, <1>5, <1>10, <2>2, <2>4, <3>3, <4>1, <4>2, <4>3 DEF Writes
    <3>6. ASSUME n \notin torn'  PROVE Whole(n)'
      <4>1. Whole(n) /\ n \notin torn  BY <3>2, <3>6 DEF Inv, Paired
      <4>2. Present(i) /\ vm[n] = NoAccount  BY <1>1, <1>2, <2>1, <4>1 DEF Whole, Between
      <4>3. \A j \in Ids : row'[j].name # n  BY <1>3, <1>4, <3>1, <3>3, <4>2
      <4>4. Between(r)'  BY <1>6, <2>4 DEF Between, Adding
      <4>5. vm'[n] = NoAccount /\ Halfway(r, n)  BY <1>8, <1>10, <2>1, <4>2
      <4> QED  BY <3>5, <4>1, <4>3, <4>4, <4>5, AloneStep
    <3> QED  BY <3>5, <3>6, WriteStep
  <2> QED  BY <2>1, <2>3, <2>4
<1> QED  BY <1>13, <1>14, <1>15, <1>16

-----------------------------------------------------------------------------
(* The theorems *)

LEMMA InitInv == Init => Inv
<1> SUFFICES ASSUME Init  PROVE Inv  OBVIOUS
<1>0. PICK n \in Names, e \in Emails, byHand \in SUBSET Names :
        /\ row = [i \in Ids |-> IF i = Seed THEN [name |-> n, email |-> e, pw |-> Seed] ELSE NoRow]
        /\ vm = [m \in Names |-> CASE m = n -> Seed [] m # n /\ m \in byHand -> Unset [] OTHER -> NoAccount]
  BY DEF Init
<1>1. /\ row = [i \in Ids |-> IF i = Seed THEN [name |-> n, email |-> e, pw |-> Seed] ELSE NoRow]
      /\ vm \in [Names -> {Seed, NoAccount, Unset}] /\ vm[n] = Seed
      /\ \A m \in Names \ {n} : vm[m] \in {NoAccount, Unset}
  BY <1>0
<1>2. /\ Present(Seed) /\ row[Seed].name = n /\ row[Seed].pw = Seed
      /\ \A i \in Reqs : row[i] = NoRow /\ ~Present(i)
  BY <1>1 DEF Present, NoRow
<1>3. NoRow.name = NoName /\ NoRow.pw = NoAccount  BY DEF NoRow
<1>4. Idle \in ReqType  BY DEF Idle, ReqType, Ops, Pcs, Ends
<1>5. \A r \in Reqs : /\ req[r] = Idle /\ req[r].op = "none" /\ req[r].pc = "idle" /\ req[r].id = Seed /\ req[r].name = NoName
                      /\ req[r].seen = NoAccount
  BY DEF Init, Idle
<1>6. Typed
  <2>1. row \in [Ids -> RowType]  BY <1>1 DEF RowType, NoRow
  <2>2. vm \in [Names -> Ids \cup {NoAccount, Unset}]  BY <1>1
  <2>3. req \in [Reqs -> ReqType]  BY <1>4 DEF Init
  <2>4. \A r \in Reqs : req[r].pc \in Ends \cup Steps(req[r].op)  BY <1>5 DEF Ends
  <2> QED  BY <2>1, <2>2, <2>3, <2>4 DEF Init, Typed
<1>7. RowsOwned  BY <1>2, <1>3 DEF RowsOwned
<1>8. Aimed  BY <1>5 DEF Aimed, AddOps, Located
<1>9. Passwords  BY <1>1, <1>2, <1>3, <1>5 DEF Passwords
<1>10. \A r \in Reqs : Between(r) /\ \A m \in Names : ~Halfway(r, m)  BY <1>5 DEF Between, Halfway, Adding
<1>11. ASSUME NEW m \in Names  PROVE Whole(m)
  <2>1. ~Taken(m) => vm[m] \in {NoAccount, Unset}  BY <1>1, <1>2 DEF Taken
  <2>2. \A i \in Ids : Present(i) /\ row[i].name = m => vm[m] = row[i].pw  BY <1>1, <1>2
  <2> QED  BY <1>10, <2>1, <2>2 DEF Whole
<1> QED  BY <1>6, <1>7, <1>8, <1>9, <1>11 DEF Inv, Paired

LEMMA InvStep == Inv /\ [Next]_vars => Inv'
<1> SUFFICES ASSUME Inv, [Next]_vars  PROVE Inv'  OBVIOUS
<1>1. ASSUME UNCHANGED <<row, roles, vm, req, torn>>, code' \in SUBSET Emails  PROVE Inv'
  <2>1. Typed'  BY <1>1 DEF Inv, Typed
  <2>2. RowsOwned'  BY <1>1 DEF Inv, RowsOwned, Present, Fresh
  <2>3. Aimed'  BY <1>1 DEF Inv, Aimed, Present, Fresh
  <2>4. Passwords'  BY <1>1 DEF Inv, Passwords, Published, Fresh
  <2>5. Paired'  BY <1>1 DEF Inv, Paired, Whole, Between, Halfway, Taken, Present
  <2> QED  BY <2>1, <2>2, <2>3, <2>4, <2>5 DEF Inv
<1>2. code \in SUBSET Emails  BY DEF Inv, Typed
<1>3. CASE UNCHANGED vars  BY <1>1, <1>2, <1>3 DEF vars
<1>4. ASSUME NEW e \in Emails, SendEmailCode(e) \/ CodeExpires(e)  PROVE Inv'
  <2>1. UNCHANGED <<row, roles, vm, req, torn>> /\ code' \in SUBSET Emails
    BY <1>2, <1>4 DEF SendEmailCode, CodeExpires, db
  <2> QED  BY <1>1, <2>1
<1>5. ASSUME NEW r \in Reqs, Step(r)  PROVE Inv'
  BY <1>5, CheckSteps, FindStep, CreateStep, AddSteps, ServerSteps, TableSteps DEF Step
<1> QED  BY <1>3, <1>4, <1>5, BeginSteps DEF Next

LEMMA InvHolds == Spec => []Inv
BY InitInv, InvStep, PTL DEF Spec

\* The variables have their types, every request takes the steps of its handler
\* only, and the unique index holds: no two rows have one user name.
THEOREM AccountsTyped == Spec => []TypeOK
<1>1. Inv => TypeOK
  BY DEF Inv, Typed, RowsOwned, TypeOK, RowType, ReqType
<1> QED  BY <1>1, InvHolds, PTL

\* The table and the server stay in step, through every overlap of Register,
\* CreateUser, DeleteUser, ChangePassword, ResetPassword, UpdateProfile and
\* AdminUpdateUser, every failed call and every lost answer, whatever accounts
\* the server has besides, outside the names in torn.
THEOREM AccountsInStep == Spec => []InStep
<1>1. Inv => InStep
  <2> SUFFICES ASSUME Inv, NEW i \in Ids, Present(i), row[i].name \notin torn,
                      \A r \in Reqs : ~Halfway(r, row[i].name)
               PROVE  vm[row[i].name] = row[i].pw
    BY DEF InStep
  <2>1. PICK n \in Names : n = row[i].name  BY DEF Inv, RowsOwned
  <2> QED  BY <2>1 DEF Inv, Paired, Whole
<1> QED  BY <1>1, InvHolds, PTL

\* A request whose service call failed has left no row, and its password is
\* nowhere, unless its name is torn: the rollback of Register and the order
\* "server first" of the others do what they are there for.
THEOREM FailuresLeaveNoTrace == Spec => []FailedLeavesNoTrace
<1>1. Inv => FailedLeavesNoTrace
  <2> SUFFICES ASSUME Inv, NEW r \in Reqs, At(r, "failed"), req[r].name \notin torn
               PROVE  ~Present(r) /\ (\A i \in Ids : row[i].pw # r) /\ (\A n \in Names : vm[n] # r)
    BY DEF FailedLeavesNoTrace
  <2>1. ~Present(r)  BY DEF Inv, RowsOwned, At
  <2>2. ASSUME NEW i \in Ids, row[i].pw = r  PROVE FALSE
    <3>1. Published(r) /\ req[r].id = i  BY <2>2 DEF Inv, Passwords
    <3>2. req[r].op \in AddOps  BY <3>1 DEF Published, At
    <3>3. i = r  BY <3>1, <3>2 DEF Inv, Aimed
    <3> QED  BY <2>1, <2>2, <3>3 DEF Present, NoRow
  <2>3. ASSUME NEW n \in Names, vm[n] = r  PROVE FALSE
    BY <2>3 DEF Inv, Passwords, At
  <2> QED  BY <2>1, <2>2, <2>3
<1> QED  BY <1>1, InvHolds, PTL
=============================================================================
