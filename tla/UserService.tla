------------------------------ MODULE UserService ------------------------------
(***************************************************************************)
(* Users in PostgreSQL: Create, Update and SoftDelete of the service, one   *)
(* action per call to the repository.  Usernames and emails are checked     *)
(* before they are written; an update loads a row, changes fields of the    *)
(* copy and saves all of it.                                                *)
(***************************************************************************)
EXTENDS Naturals

CONSTANTS
  Users,       \* ids of users
  Names,
  Emails,
  Roles,       \* ids that exist in roles
  Requests,
  Updates,     \* the sets of fields that updates name
  Faults,      \* "postgres": calls fail; "ack": commits whose answer is lost
  MaxWrites,   \* bound on the commits
  None

Fields  == {"name", "email", "role", "active"}
User    == [name : Names, email : Emails, role : Roles, active : BOOLEAN]
Changes == [name   : Names \cup {None},
            email  : Emails \cup {None},
            role   : Roles \cup {None},
            active : BOOLEAN \cup {None}]

ASSUME ConstantsAssumption ==
  /\ Users # {} /\ Updates \subseteq SUBSET Fields
  /\ None \notin Names \cup Emails \cup Roles \cup BOOLEAN \cup User
  /\ MaxWrites \in Nat

VARIABLES
  users,    \* rows of users
  pc,       \* of each request: its next call, or its outcome
  op,       \* its operation
  user,     \* the id it is about
  changes,  \* the fields it names
  loaded,   \* the row it has read
  writes,   \* commits so far
  born,     \* history: ids that have been drawn
  said,     \* history: each row as the committed requests asked for it
  lost,     \* history: fields that a save wrote from an older copy
  stale     \* history: the row of a request changed after it was read

ghost == <<born, said, lost, stale>>
vars  == <<users, writes, pc, op, user, changes, loaded, ghost>>

Outcomes == {"idle", "ok", "notFound", "duplicate", "conflict", "error"}
Places   == {"checkName", "checkEmail", "insert", "load", "save", "deactivate"}

Named(c) == {f \in Fields : c[f] # None}
Nothing  == [name |-> None, email |-> None, role |-> None, active |-> None]

(* The request goes on with another call, or ends with an outcome; then its *)
(* locals are gone.                                                         *)
Goto(r, l) == pc' = [pc EXCEPT ![r] = l] /\ UNCHANGED <<changes, loaded>>
Answer(r, l) ==
  /\ pc' = [pc EXCEPT ![r] = l]
  /\ changes' = [changes EXCEPT ![r] = Nothing]
  /\ loaded' = [loaded EXCEPT ![r] = None]

(* The changes of a request applied to a row.                               *)
Apply(c, row) ==
  [name   |-> IF c.name = None THEN row.name ELSE c.name,
   email  |-> IF c.email = None THEN row.email ELSE c.email,
   role   |-> IF c.role = None THEN row.role ELSE c.role,
   active |-> IF c.active = None THEN row.active ELSE c.active]

Saved_SkipsZeros(r) ==
  [Apply([changes[r] EXCEPT !.active = IF @ = FALSE THEN None ELSE @],
         loaded[r]) EXCEPT !.role = loaded[r].role]

(* What Save writes: the loaded row with its changes, but for the role.     *)
(* The row was read with its Role, and GORM saves that association first    *)
(* and takes role_id from it.                                               *)
Saved(r) == [Apply(changes[r], loaded[r]) EXCEPT !.role = loaded[r].role]

Conflicts_CountsItself(u, row) ==
  \E v \in Users :
    users[v] # None /\ (users[v].name = row.name \/ users[v].email = row.email)

(* The unique columns refuse the row of u.                                  *)
Conflicts(u, row) ==
  \E v \in Users \ {u} :
    users[v] # None /\ (users[v].name = row.name \/ users[v].email = row.email)

(* A commit to the user of r: its row becomes row.                          *)
Commit(r, row) ==
  /\ writes < MaxWrites /\ writes' = writes + 1
  /\ users' = [users EXCEPT ![user[r]] = row]
  /\ stale' = [q \in Requests |->
                 q # r /\ (stale[q] \/ (user[q] = user[r] /\ pc[q] \notin Outcomes))]
  /\ Answer(r, "ok") \/ ("ack" \in Faults /\ Answer(r, "error"))
  /\ UNCHANGED <<op, user, born>>

(* A call that changes nothing in the table.                                *)
Quiet == UNCHANGED <<users, writes, op, user, ghost>>

Fails(r) == "postgres" \in Faults /\ Answer(r, "error") /\ Quiet

-----------------------------------------------------------------------------
Init ==
  /\ users = [u \in Users |-> None]
  /\ pc = [r \in Requests |-> "idle"]
  /\ op = [r \in Requests |-> "create"]
  /\ user = [r \in Requests |-> CHOOSE u \in Users : TRUE]
  /\ changes = [r \in Requests |-> Nothing]
  /\ loaded = [r \in Requests |-> None]
  /\ writes = 0
  /\ born = {}
  /\ said = [u \in Users |-> None]
  /\ lost = [u \in Users |-> {}]
  /\ stale = [r \in Requests |-> FALSE]

(* A request arrives.  PostgreSQL draws the id of a new user; clients know  *)
(* only ids that were drawn.  A create names every field but is_active.     *)
Start(r, o, u, c) ==
  /\ pc[r] \in Outcomes
  /\ IF o = "create"
       THEN /\ u \notin born /\ born' = born \cup {u}
            /\ Named(c) = Fields /\ c.active
       ELSE /\ u \in born /\ UNCHANGED born
            /\ Named(c) \in IF o = "delete" THEN {{}} ELSE Updates
  /\ op' = [op EXCEPT ![r] = o]
  /\ user' = [user EXCEPT ![r] = u]
  /\ changes' = [changes EXCEPT ![r] = c]
  /\ pc' = [pc EXCEPT ![r] = IF o = "create" THEN "checkName" ELSE "load"]
  /\ stale' = [stale EXCEPT ![r] = FALSE]
  /\ UNCHANGED <<users, writes, loaded, said, lost>>

(* The call that writes.                                                    *)
WriteOf(r) == IF op[r] = "create" THEN "insert" ELSE "save"

AfterName(r) == IF "email" \in Named(changes[r]) THEN "checkEmail" ELSE WriteOf(r)

(* An update looks up only what it changes.                                 *)
AfterLoad(r) ==
  CASE op[r] = "delete"             -> "deactivate"
    [] "name" \in Named(changes[r]) -> "checkName"
    [] OTHER                        -> AfterName(r)

(* Another user has the name (the email).                                   *)
NameTaken(r) ==
  \E v \in Users \ {user[r]} : users[v] # None /\ users[v].name = changes[r].name
EmailTaken(r) ==
  \E v \in Users \ {user[r]} : users[v] # None /\ users[v].email = changes[r].email

CheckName(r) ==
  /\ pc[r] = "checkName"
  /\ \/ NameTaken(r) /\ Answer(r, "duplicate") /\ Quiet
     \/ ~NameTaken(r) /\ Goto(r, AfterName(r)) /\ Quiet
     \/ Fails(r)

CheckEmail(r) ==
  /\ pc[r] = "checkEmail"
  /\ \/ EmailTaken(r) /\ Answer(r, "duplicate") /\ Quiet
     \/ ~EmailTaken(r) /\ Goto(r, WriteOf(r)) /\ Quiet
     \/ Fails(r)

Insert_NoConstraint(r) ==
  /\ pc[r] = "insert"
  /\ Commit(r, changes[r])
  /\ said' = [said EXCEPT ![user[r]] = changes[r]]
  /\ UNCHANGED lost

(* Create: the row, active                                                  *)
Insert(r) ==
  /\ pc[r] = "insert"
  /\ \/ /\ ~Conflicts(user[r], changes[r])
        /\ Commit(r, changes[r])
        /\ said' = [said EXCEPT ![user[r]] = changes[r]]
        /\ UNCHANGED lost
     \/ Conflicts(user[r], changes[r]) /\ Answer(r, "conflict") /\ Quiet
     \/ Fails(r)

Load_ForgetsMissing(r) ==
  /\ pc[r] = "load"
  /\ loaded' = [loaded EXCEPT ![r] = users[user[r]]]
  /\ stale' = [stale EXCEPT ![r] = FALSE]
  /\ pc' = [pc EXCEPT ![r] = AfterLoad(r)]
  /\ UNCHANGED <<users, writes, op, user, changes, born, said, lost>>

(* Update and SoftDelete: the row with its role                             *)
Load(r) ==
  /\ pc[r] = "load"
  /\ \/ /\ users[user[r]] # None
        /\ loaded' = [loaded EXCEPT ![r] = users[user[r]]]
        /\ stale' = [stale EXCEPT ![r] = FALSE]
        /\ pc' = [pc EXCEPT ![r] = AfterLoad(r)]
        /\ UNCHANGED <<users, writes, op, user, changes, born, said, lost>>
     \/ users[user[r]] = None /\ Answer(r, "notFound") /\ Quiet
     \/ Fails(r)

(* Update: an UPDATE of every column by id                                  *)
Save(r) ==
  /\ pc[r] = "save"
  /\ LET u == user[r]
     IN  \/ /\ ~Conflicts(u, Saved(r))
            /\ Commit(r, Saved(r))
            /\ said' = [said EXCEPT ![u] = Apply(changes[r], @)]
            /\ lost' = [lost EXCEPT ![u] =
                 (IF stale[r] THEN Fields ELSE @) \ Named(changes[r])]
         \/ Conflicts(u, Saved(r)) /\ Answer(r, "conflict") /\ Quiet
         \/ Fails(r)

(* SoftDelete: an UPDATE of is_active only                                  *)
Deactivate(r) ==
  /\ pc[r] = "deactivate"
  /\ LET u == user[r]
     IN  \/ /\ Commit(r, [users[u] EXCEPT !.active = FALSE])
            /\ said' = [said EXCEPT ![u].active = FALSE]
            /\ lost' = [lost EXCEPT ![u] = @ \ {"active"}]
         \/ Fails(r)

Step(r) ==
  \/ CheckName(r) \/ CheckEmail(r) \/ Insert(r)
  \/ Load(r) \/ Save(r) \/ Deactivate(r)

Next ==
  \/ \E r \in Requests, o \in {"create", "update", "delete"},
        u \in Users, c \in Changes : Start(r, o, u, c)
  \/ \E r \in Requests : Step(r)

Spec == Init /\ [][Next]_vars
-----------------------------------------------------------------------------
(* Properties                                                               *)

Typed ==
  /\ users \in [Users -> User \cup {None}]
  /\ pc \in [Requests -> Outcomes \cup Places]
  /\ op \in [Requests -> {"create", "update", "delete"}]
  /\ user \in [Requests -> Users]
  /\ changes \in [Requests -> Changes]
  /\ loaded \in [Requests -> User \cup {None}]
  /\ writes \in 0..MaxWrites
  /\ born \in SUBSET Users
  /\ said \in [Users -> User \cup {None}]
  /\ lost \in [Users -> SUBSET Fields]
  /\ stale \in [Requests -> BOOLEAN]

(* What a call relies on: a row was read before it is checked or written,   *)
(* and a create has every field.                                            *)
LocalsOK ==
  \A r \in Requests :
    pc[r] \notin Outcomes \cup {"load"} =>
      IF op[r] = "create" THEN Named(changes[r]) = Fields
                          ELSE loaded[r] # None

(* Type invariant: every row is complete, and no request saves a row it has *)
(* not read.                                                                *)
TypeOK == Typed /\ LocalsOK

(* No two users share a username or an email, although the lookups that     *)
(* check them run before the write, and soft-deleted users keep theirs.     *)
UniqueColumns ==
  \A u, v \in Users :
    u # v /\ users[u] # None /\ users[v] # None
      => users[u].name # users[v].name /\ users[u].email # users[v].email

(* Username, email and activity of a user are what the last committed       *)
(* request that named the field asked for, unless a save wrote the field    *)
(* from a copy that was read before another commit.                         *)
ChangesKept ==
  \A u \in Users : users[u] # None =>
    \A f \in {"name", "email", "active"} \ lost[u] : users[u][f] = said[u][f]

(* The copy a request saves has a username or an email that its user has    *)
(* given up since.                                                          *)
WritesBack(r) ==
  \/ loaded[r].name # users[user[r]].name
  \/ loaded[r].email # users[user[r]].email

(* A save that changes neither username nor email is refused by a unique    *)
(* column only if it writes back a username or an email that its user has   *)
(* given up: other changes that overtook it do no harm.                     *)
InnocentSavesPass ==
  [][\A r \in Requests :
       pc[r] = "save" /\ pc'[r] = "conflict"
       /\ Named(changes[r]) \cap {"name", "email"} = {}
         => WritesBack(r)]_vars

(* An update that names a role gives the user that role.                    *)
RoleChangeApplies ==
  [][\A r \in Requests :
       pc[r] = "save" /\ pc'[r] = "ok" /\ "role" \in Named(changes[r])
         => users'[user[r]].role = changes[r].role]_vars
=============================================================================
