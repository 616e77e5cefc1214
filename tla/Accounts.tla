------------------------------ MODULE Accounts ------------------------------
(***************************************************************************)
(* User accounts (user_service.go, admin_service.go): every user is a row  *)
(* in MySQL and an account on the GPU server, written one after the other  *)
(* without a transaction, and read and written back as a whole row.  The   *)
(* requests interleave, and any call to the database or the server may     *)
(* fail.  A password stands for the request that set it, and so does the   *)
(* id of a row for the request that inserted it.                           *)
(***************************************************************************)
EXTENDS FiniteSets

CONSTANTS
  Names,      \* user names
  Emails,
  Reqs,       \* requests, each served once
  Seed,       \* the user that is there at the start
  NoName, NoEmail,
  NoAccount,  \* the server has no such account
  Unset       \* an account whose password no request has set

ASSUME AccountsAssumption ==
  /\ Names # {} /\ Emails # {} /\ NoName \notin Names /\ NoEmail \notin Emails
  /\ Seed \notin Reqs /\ {NoAccount, Unset} \cap (Reqs \cup {Seed}) = {}
  /\ NoAccount # Unset

VARIABLES
  row,        \* table admin_users, by id
  roles,      \* ids with an entry in admin_role_users
  vm,         \* the server's accounts, by name
  code,       \* Redis: emails with a code that has not expired
  req,        \* the requests: op, pc and what they read
  torn        \* history: names left to a half-done or stale write, or adopted

db   == <<row, roles>>
vars == <<row, roles, vm, code, req, torn>>

Ids   == Reqs \cup {Seed}
NoRow == [name |-> NoName, email |-> NoEmail, pw |-> NoAccount]
Idle  == [op |-> "none", pc |-> "idle", id |-> Seed, name |-> NoName, email |-> NoEmail,
          seen |-> NoAccount, pw |-> NoAccount, told |-> FALSE]

Present(i) == row[i] # NoRow
Holders(e) == {i \in Ids : Present(i) /\ row[i].email = e}
Taken(n)   == \E i \in Ids : row[i].name = n

\* One registered user; the server may have accounts that no row names.
Init ==
  /\ \E n \in Names, e \in Emails, byHand \in SUBSET Names :
       /\ row = [i \in Ids |-> IF i = Seed THEN [name |-> n, email |-> e, pw |-> Seed] ELSE NoRow]
       /\ vm = [m \in Names |-> CASE m = n -> Seed [] m # n /\ m \in byHand -> Unset [] OTHER -> NoAccount]
  /\ roles = {Seed} /\ code = {} /\ torn = {}
  /\ req = [r \in Reqs |-> Idle]

At(r, pc)   == req[r].pc = pc
Goto(r, pc) == req' = [req EXCEPT ![r].pc = pc]
Tear(r, b)  == torn' = IF b THEN torn \cup {req[r].name} ELSE torn

-----------------------------------------------------------------------------
(* The requests start *)

Start(r, op, pc, i, n, e, told) ==
  /\ At(r, "idle")
  /\ req' = [req EXCEPT ![r] = [Idle EXCEPT !.op = op, !.pc = pc, !.id = i, !.name = n, !.email = e,
                                            !.pw = r, !.told = told]]
  /\ UNCHANGED <<db, vm, code, torn>>

Register(r)       == \E n \in Names, e \in Emails : Start(r, "register", "name", r, n, e, FALSE)
CreateUser(r)     == \E n \in Names, e \in Emails : Start(r, "create", "name", r, n, e, FALSE)
\* told: the controller has answered 400, because the two copies of the new
\* password differ, and calls the service all the same.
ResetPassword(r)  == \E e \in Emails, told \in BOOLEAN : Start(r, "reset", "code", Seed, NoName, e, told)
\* The rest names a user by id; AdminUpdateUser with or without a password.
ChangePassword(r) == \E i \in Ids, told \in BOOLEAN :
                       Present(i) /\ Start(r, "change", "find", i, NoName, NoEmail, told)
DeleteUser(r)     == \E i \in Ids : Present(i) /\ Start(r, "delete", "find", i, NoName, NoEmail, FALSE)
UpdateAvatar(r)   == \E i \in Ids : Present(i) /\ Start(r, "avatar", "find", i, NoName, NoEmail, FALSE)
UpdateProfile(r)  == \E i \in Ids, e \in Emails \cup {NoEmail} :
                       Present(i) /\ Start(r, "profile", "find", i, NoName, e, FALSE)
AdminUpdateUser(r) ==
  \E i \in Ids, e \in Emails \cup {NoEmail}, op \in {"admin", "adminpw"} :
    Present(i) /\ Start(r, op, "find", i, NoName, e, FALSE)

\* A check fails, or a call, before the request has changed the row or the
\* account: the old password or the code is wrong, the name or the email is
\* taken, the user or the account is not there, the database or the server
\* does not answer.
Rejected(r) ==
  /\ \E pc \in {"name", "email", "code", "insert", "find", "owner", "chpasswd", "account", "userdel"} : At(r, pc)
  /\ Goto(r, "failed")
  /\ UNCHANGED <<db, vm, code, torn>>

-----------------------------------------------------------------------------
(* Codes sent by email *)

SendEmailCode(e) ==
  /\ code' = code \cup {e}
  /\ UNCHANGED <<db, vm, req, torn>>

CodeExpires(e) ==
  /\ e \in code /\ code' = code \ {e}
  /\ UNCHANGED <<db, vm, req, torn>>

\* Register's next step is to delete the code, ResetPassword's to find the user.
CheckCode(r) ==
  /\ At(r, "code") /\ req[r].email \in code
  /\ Goto(r, IF req[r].op = "register" THEN "burn" ELSE "find")
  /\ UNCHANGED <<db, vm, code, torn>>

\* Mutant: both deletions of a code go on to insert the user.
BurnCodeInserts(r) ==
  /\ At(r, "burn")
  /\ code' \in {code, code \ {req[r].email}}
  /\ Goto(r, "insert")
  /\ UNCHANGED <<db, vm, torn>>

\* Del; an error is ignored.
BurnCode(r) ==
  /\ At(r, "burn")
  /\ code' \in {code, code \ {req[r].email}}
  /\ Goto(r, IF req[r].op = "register" THEN "insert" ELSE "ok")
  /\ UNCHANGED <<db, vm, torn>>

-----------------------------------------------------------------------------
(* Register and CreateUser: the row, its role, then the account *)

ExistsByUsername(r) ==
  /\ At(r, "name") /\ ~Taken(req[r].name) /\ Goto(r, "email")
  /\ UNCHANGED <<db, vm, code, torn>>

ExistsByEmail(r) ==
  /\ At(r, "email") /\ Holders(req[r].email) = {}
  /\ Goto(r, IF req[r].op = "register" THEN "code" ELSE "insert")
  /\ UNCHANGED <<db, vm, code, torn>>

\* The unique index on username decides between two that passed the check.
\* When the answer to the INSERT is lost the row stays, without an account.
Create(r) ==
  /\ At(r, "insert") /\ ~Taken(req[r].name)
  /\ row' = [row EXCEPT ![r] = [name |-> req[r].name, email |-> req[r].email, pw |-> r]]
  /\ \/ Goto(r, "role") /\ UNCHANGED torn
     \/ Goto(r, "failed") /\ Tear(r, TRUE)
  /\ UNCHANGED <<roles, vm, code>>

\* An error here returns without rollback: a row without an account.
AssignRoleByName(r) ==
  /\ At(r, "role")
  /\ \/ roles' = roles \cup {r} /\ Goto(r, "id") /\ UNCHANGED torn
     \/ roles' \in {roles, roles \cup {r}} /\ Goto(r, "failed") /\ Tear(r, TRUE)
  /\ UNCHANGED <<row, vm, code>>

\* createVMUser: an account that exists is taken as it is, and keeps the
\* password it has; every error of id -u reads as "no such user".
VMUserExists(r) ==
  /\ At(r, "id")
  /\ \/ vm[req[r].name] # NoAccount /\ Goto(r, "ok") /\ Tear(r, TRUE)
     \/ Goto(r, "useradd") /\ UNCHANGED torn
     \/ Goto(r, "undo") /\ UNCHANGED torn
  /\ UNCHANGED <<db, vm, code>>

\* useradd fails on an account that exists.  When its answer is lost the
\* account stays behind, without a password.
UserAdd(r) ==
  /\ At(r, "useradd")
  /\ \/ /\ vm[req[r].name] = NoAccount
        /\ vm' = [vm EXCEPT ![req[r].name] = Unset]
        /\ Goto(r, "passwd") \/ Goto(r, "undo")
     \/ UNCHANGED vm /\ Goto(r, "undo")
  /\ UNCHANGED <<db, code, torn>>

\* chpasswd; when it fails the account that useradd made stays behind.
SetPassword(r) ==
  /\ At(r, "passwd")
  /\ \/ /\ vm[req[r].name] # NoAccount
        /\ vm' = [vm EXCEPT ![req[r].name] = r]
        /\ \/ Goto(r, "ok") /\ Tear(r, vm[req[r].name] # Unset)
           \/ Goto(r, "undo") /\ Tear(r, TRUE)
     \/ UNCHANGED <<vm, torn>> /\ Goto(r, "undo")
  /\ UNCHANGED <<db, code>>

\* Mutant: a failed account leaves the row.
UndoKeepsRow(r) ==
  /\ At(r, "undo") /\ Goto(r, "failed")
  /\ UNCHANGED <<db, vm, code, torn>>

\* The rollback deletes the row; its own error is only logged.
Undo(r) ==
  /\ At(r, "undo") /\ Goto(r, "failed")
  /\ \/ row' = [row EXCEPT ![r] = NoRow] /\ UNCHANGED torn
     \/ UNCHANGED row /\ Tear(r, TRUE)
  /\ UNCHANGED <<roles, vm, code>>

-----------------------------------------------------------------------------
(* Requests on a user: read the row, change the account, write the row *)

PasswordOps == {"change", "reset", "adminpw"}
Work(op) == CASE op = "delete" -> "account" [] op \in PasswordOps -> "chpasswd"
              [] op = "admin" -> "replace" [] OTHER -> "save"

\* FindByID, or FindByEmail for ResetPassword.
Find(r) ==
  /\ At(r, "find")
  /\ \E i \in IF req[r].op = "reset" THEN Holders(req[r].email) ELSE {req[r].id} :
       /\ Present(i)
       /\ LET q == req[r]
              new == q.email # NoEmail /\ q.op # "reset"
          IN  req' = [req EXCEPT ![r] =
                [q EXCEPT !.id = i, !.name = row[i].name, !.seen = row[i].pw,
                          !.pc = IF new THEN "owner" ELSE Work(q.op),
                          !.email = IF new THEN q.email ELSE row[i].email,
                          !.pw = IF q.op \in PasswordOps THEN r ELSE row[i].pw]]
  /\ UNCHANGED <<db, vm, code, torn>>

\* FindByEmail returns one holder of the new email: it must be the user itself.
EmailFree(r) ==
  /\ At(r, "owner")
  /\ Holders(req[r].email) = {} \/ req[r].id \in Holders(req[r].email)
  /\ Goto(r, Work(req[r].op))
  /\ UNCHANGED <<db, vm, code, torn>>

\* Mutant: the row is written although the account was not.
UpdateVMPasswordAnyway(r) ==
  /\ At(r, "chpasswd")
  /\ \/ vm' = [vm EXCEPT ![req[r].name] = r] \/ UNCHANGED vm
  /\ Goto(r, IF req[r].op = "adminpw" THEN "replace" ELSE "save")
  /\ Tear(r, vm[req[r].name] # req[r].seen)
  /\ UNCHANGED <<db, code>>

\* updateVMPassword; the answer may be lost.
UpdateVMPassword(r) ==
  /\ At(r, "chpasswd") /\ vm[req[r].name] # NoAccount
  /\ vm' = [vm EXCEPT ![req[r].name] = r]
  /\ \/ Goto(r, IF req[r].op = "adminpw" THEN "replace" ELSE "save") /\ Tear(r, vm[req[r].name] # req[r].seen)
     \/ Goto(r, "failed") /\ Tear(r, TRUE)
  /\ UNCHANGED <<db, code>>

\* Roles are optional in the request; an error, or a lost answer, ends it.
ReplaceRolesByNames(r) ==
  /\ At(r, "replace")
  /\ roles' \in {roles, roles \cup {req[r].id}, roles \ {req[r].id}}
  /\ \/ Goto(r, "save") /\ UNCHANGED torn
     \/ Goto(r, "failed") /\ Tear(r, req[r].pw # req[r].seen)
  /\ UNCHANGED <<row, vm, code>>

\* Update writes the columns of the row read at the start, by id; it fails
\* before or after the row is written.
Update(r) ==
  /\ At(r, "save")
  /\ LET q     == req[r]
         Write == row' = IF Present(q.id)
                           THEN [row EXCEPT ![q.id] = [name |-> q.name, email |-> q.email, pw |-> q.pw]]
                           ELSE row
         stale == Present(q.id) /\ row[q.id].pw # q.seen
     IN  \/ Write /\ Goto(r, IF q.op = "reset" THEN "burn" ELSE "ok") /\ Tear(r, stale)
         \/ Write /\ Goto(r, "failed") /\ Tear(r, stale \/ q.pw # q.seen)
         \/ UNCHANGED row /\ Goto(r, "failed") /\ Tear(r, q.pw # q.seen)
  /\ UNCHANGED <<roles, vm, code>>

-----------------------------------------------------------------------------
(* DeleteUser: the account, the roles, then the row *)

\* deleteVMUser: without an account the request fails here, every time.
VMUserFound(r) ==
  /\ At(r, "account")
  /\ vm[req[r].name] # NoAccount /\ Goto(r, "userdel")
  /\ UNCHANGED <<db, vm, code, torn>>

UserDel(r) ==
  /\ At(r, "userdel") /\ vm[req[r].name] # NoAccount
  /\ vm' = [vm EXCEPT ![req[r].name] = NoAccount]
  /\ \/ Goto(r, "clear") /\ Tear(r, vm[req[r].name] # req[r].seen)
     \/ Goto(r, "failed") /\ Tear(r, TRUE)
  /\ UNCHANGED <<db, code>>

ClearRoles(r) ==
  /\ At(r, "clear")
  /\ \/ roles' = roles \ {req[r].id} /\ Goto(r, "drop") /\ UNCHANGED torn
     \/ roles' \in {roles, roles \ {req[r].id}} /\ Goto(r, "failed") /\ Tear(r, TRUE)
  /\ UNCHANGED <<row, vm, code>>

Delete(r) ==
  /\ At(r, "drop")
  /\ \/ row' = [row EXCEPT ![req[r].id] = NoRow] /\ (Goto(r, "ok") \/ Goto(r, "failed")) /\ UNCHANGED torn
     \/ UNCHANGED row /\ Goto(r, "failed") /\ Tear(r, TRUE)
  /\ UNCHANGED <<roles, vm, code>>

-----------------------------------------------------------------------------
Begin(r) ==
  \/ Register(r) \/ CreateUser(r) \/ DeleteUser(r) \/ ChangePassword(r) \/ ResetPassword(r)
  \/ AdminUpdateUser(r) \/ UpdateProfile(r) \/ UpdateAvatar(r)

Step(r) ==
  \/ Rejected(r) \/ CheckCode(r) \/ BurnCode(r)
  \/ ExistsByUsername(r) \/ ExistsByEmail(r) \/ Create(r) \/ AssignRoleByName(r)
  \/ VMUserExists(r) \/ UserAdd(r) \/ SetPassword(r) \/ Undo(r)
  \/ Find(r) \/ EmailFree(r) \/ UpdateVMPassword(r) \/ ReplaceRolesByNames(r) \/ Update(r)
  \/ VMUserFound(r) \/ UserDel(r) \/ ClearRoles(r) \/ Delete(r)

Next ==
  \/ \E r \in Reqs : Begin(r) \/ Step(r)
  \/ \E e \in Emails : SendEmailCode(e) \/ CodeExpires(e)

Spec == Init /\ [][Next]_vars

-----------------------------------------------------------------------------
Ends      == {"idle", "ok", "failed"}
Adding    == {"role", "id", "useradd", "passwd", "undo"}
Saving    == {"find", "owner", "chpasswd", "replace", "save"}
Deleting  == {"find", "account", "userdel", "clear", "drop"}
Steps(op) == CASE op = "none" -> {}
               [] op = "register" -> {"name", "email", "code", "burn", "insert"} \cup Adding
               [] op = "create" -> {"name", "email", "insert"} \cup Adding
               [] op = "delete" -> Deleting
               [] op = "reset" -> {"code", "burn"} \cup Saving
               [] OTHER -> Saving
Ops == {"none", "register", "create", "delete", "change", "reset", "admin", "adminpw", "profile", "avatar"}

\* The variables have their types, no request takes a step of another kind of
\* request, and no two rows have one user name.
TypeOK ==
  /\ row \in [Ids -> [name : Names \cup {NoName}, email : Emails \cup {NoEmail}, pw : Ids \cup {NoAccount}]]
  /\ roles \in SUBSET Ids /\ code \in SUBSET Emails /\ torn \in SUBSET Names
  /\ vm \in [Names -> Ids \cup {NoAccount, Unset}]
  /\ \A r \in Reqs : req[r].op \in Ops /\ req[r].pc \in Ends \cup Steps(req[r].op)
  /\ \A i, j \in Ids : Present(i) /\ row[i].name = row[j].name => i = j

\* r has changed the row or the account of n and not yet the other one.
Halfway(r, n) ==
  /\ req[r].name = n
  /\ \/ req[r].pc \in Adding \cup {"clear", "drop"}
     \/ req[r].pc \in {"replace", "save"} /\ req[r].pw # req[r].seen

\* A user who can log in to the service can log in to the server: outside a
\* request that is changing both, the account of every row exists and has the
\* row's password.  It holds through every refused command and lost connection
\* (the order "server first, give up when it fails" and the rollback of
\* Register are there for it) and through every overlap of requests, except
\* for the names in torn: one of two writes was done and the other failed (or
\* its answer was lost), a request wrote over a password it had not read, or
\* Register took over an account that was there, with the password it had.
InStep ==
  \A i \in Ids :
    LET n == row[i].name
    IN  Present(i) /\ n \notin torn /\ (\A r \in Reqs : ~Halfway(r, n)) => vm[n] = row[i].pw

\* A request whose service call failed has left nothing: no row it inserted,
\* and its password neither in a row nor on the server.  (ChangePassword and
\* ResetPassword with told have answered 400 before the call: that answer
\* promises nothing, the call goes on and may well change both.)
FailedLeavesNoTrace ==
  \A r \in Reqs :
    At(r, "failed") /\ req[r].name \notin torn =>
      /\ ~Present(r)
      /\ \A i \in Ids : row[i].pw # r
      /\ \A n \in Names : vm[n] # r
=============================================================================
