-------------------------- MODULE UserService_proofs --------------------------
(***************************************************************************)
(* Proofs about UserService, for every set of users, names, emails, roles   *)
(* and requests, every kind of update, every subset of the failures and     *)
(* every bound.                                                             *)
(***************************************************************************)
EXTENDS UserService, TLAPS

(* A request is at calls of its own operation, and has read nothing when it *)
(* ends.                                                                    *)
OwnCalls ==
  \A r \in Requests :
    /\ pc[r] \in {"load", "save", "deactivate"} => op[r] # "create"
    /\ pc[r] = "insert" => op[r] = "create"
    /\ pc[r] \in Outcomes => loaded[r] = None

(* A row that was read stays, and a row is there exactly while it has been  *)
(* asked for.                                                               *)
RowsOK ==
  /\ \A r \in Requests : loaded[r] # None => users[user[r]] # None
  /\ \A u \in Users : users[u] = None <=> said[u] = None

CallsOK == OwnCalls /\ RowsOK

Shape == TypeOK /\ CallsOK

(* Lemma: the changes of a create are a row.                                *)
LEMMA FullChanges ==
  ASSUME NEW c \in Changes, Named(c) = Fields
  PROVE  c \in User
<1>1. \A f \in Fields : c[f] # None
  BY DEF Named
<1>2. c.name # None /\ c.email # None /\ c.role # None /\ c.active # None
  BY <1>1 DEF Fields
<1> QED
  BY <1>2 DEF Changes, User

(* Lemma: changes applied to a row are a row.                               *)
LEMMA ApplyUser ==
  ASSUME NEW c \in Changes, NEW row \in User
  PROVE  Apply(c, row) \in User
  BY DEF Apply, Changes, User

(* Lemma: what is saved is a row.                                           *)
LEMMA SavedUser ==
  ASSUME Shape, NEW r \in Requests, pc[r] = "save"
  PROVE  Saved(r) \in User
<1>1. changes[r] \in Changes /\ loaded[r] \in User
  BY DEF Shape, TypeOK, Typed, LocalsOK, CallsOK, OwnCalls, Outcomes
<1>2. Apply(changes[r], loaded[r]) \in User
  BY <1>1, ApplyUser
<1> QED
  BY <1>1, <1>2 DEF Saved, User

(* Lemma: the types and the shape hold at the start.                        *)
LEMMA ShapeInit == Init => Shape
<1> SUFFICES ASSUME Init PROVE Shape
  OBVIOUS
<1> USE ConstantsAssumption DEF Init
<1>1. (CHOOSE u \in Users : TRUE) \in Users
  OBVIOUS
<1>2. Nothing \in Changes
  BY DEF Nothing, Changes
<1>3. /\ users \in [Users -> User \cup {None}]
      /\ said \in [Users -> User \cup {None}]
      /\ loaded \in [Requests -> User \cup {None}]
      /\ writes \in 0..MaxWrites
  OBVIOUS
<1>4. /\ changes \in [Requests -> Changes]
      /\ user \in [Requests -> Users]
  BY <1>1, <1>2
<1>5. Typed
  BY <1>3, <1>4 DEF Typed, Outcomes
<1>6. LocalsOK /\ CallsOK
  BY DEF LocalsOK, CallsOK, OwnCalls, RowsOK, Outcomes
<1> QED
  BY <1>5, <1>6 DEF Shape, TypeOK

(* Lemma: an answer clears what a request has read and keeps the rest.      *)
LEMMA ShapeAnswer ==
  ASSUME Shape, NEW r \in Requests, NEW l \in Outcomes, Answer(r, l),
         UNCHANGED <<op, user>>
  PROVE  /\ pc' \in [Requests -> Outcomes \cup Places]
         /\ changes' \in [Requests -> Changes]
         /\ loaded' \in [Requests -> User \cup {None}]
         /\ op' \in [Requests -> {"create", "update", "delete"}]
         /\ user' \in [Requests -> Users]
         /\ LocalsOK' /\ OwnCalls'
         /\ \A q \in Requests : loaded'[q] \in {loaded[q], None}
<1> USE DEF Shape, TypeOK, Typed, Answer
<1>1. Nothing \in Changes
  BY DEF Nothing, Changes
<1>2. /\ changes' \in [Requests -> Changes]
      /\ loaded' \in [Requests -> User \cup {None}]
      /\ pc' \in [Requests -> Outcomes \cup Places]
  BY <1>1
<1>3. /\ pc'[r] \in Outcomes
      /\ \A q \in Requests \ {r} : /\ pc'[q] = pc[q]
                                   /\ changes'[q] = changes[q]
                                   /\ loaded'[q] = loaded[q]
  OBVIOUS
<1>4. LocalsOK'
  BY <1>3 DEF LocalsOK
<1>5. OwnCalls'
  BY <1>3 DEF CallsOK, OwnCalls, Outcomes
<1> QED
  BY <1>2, <1>3, <1>4, <1>5

(* Lemma: an answer without a commit keeps the shape.                       *)
LEMMA ShapeQuiet ==
  ASSUME Shape, NEW r \in Requests, NEW l \in Outcomes, Answer(r, l), Quiet
  PROVE  Shape'
<1>1. UNCHANGED <<op, user>>
  BY DEF Quiet
<1> QED
  BY <1>1, ShapeAnswer DEF Shape, TypeOK, Typed, CallsOK, RowsOK, Quiet, ghost

(* Lemma: so does the move to another call that its locals allow.           *)
LEMMA ShapeGoto ==
  ASSUME Shape, NEW r \in Requests,
         NEW l \in {"checkEmail", "insert", "save"}, Goto(r, l), Quiet,
         pc[r] \notin Outcomes \cup {"load"},
         l = "save" => op[r] # "create",
         l = "insert" => op[r] = "create"
  PROVE  Shape'
<1> USE DEF Shape, TypeOK, Goto, Quiet, ghost
<1>1. Typed'
  BY DEF Typed, Places
<1>2. pc'[r] = l /\ \A q \in Requests \ {r} : pc'[q] = pc[q]
  BY DEF Typed
<1>3. LocalsOK' /\ CallsOK'
  BY <1>2 DEF LocalsOK, CallsOK, OwnCalls, RowsOK, Outcomes
<1> QED
  BY <1>1, <1>3

(* Lemma: so does a commit of a row.                                        *)
LEMMA ShapeCommit ==
  ASSUME Shape, NEW r \in Requests, NEW row \in User, Commit(r, row),
         said' \in [Users -> User \cup {None}],
         \A u \in Users : said'[u] = None <=> u # user[r] /\ said[u] = None,
         lost' \in [Users -> SUBSET Fields]
  PROVE  Shape'
<1> USE DEF Shape, TypeOK
<1>1. user[r] \in Users
  BY DEF Typed
<1>2. /\ users' \in [Users -> User \cup {None}]
      /\ \A u \in Users : users'[u] = IF u = user[r] THEN row ELSE users[u]
  BY <1>1 DEF Commit, Typed
<1>3. writes' \in 0..MaxWrites
  BY ConstantsAssumption DEF Commit, Typed
<1>4. stale' \in [Requests -> BOOLEAN]
  BY DEF Commit, Typed
<1>5. PICK l \in {"ok", "error"} : Answer(r, l)
  BY DEF Commit
<1>6. /\ pc' \in [Requests -> Outcomes \cup Places]
      /\ changes' \in [Requests -> Changes]
      /\ loaded' \in [Requests -> User \cup {None}]
      /\ op' \in [Requests -> {"create", "update", "delete"}]
      /\ user' \in [Requests -> Users]
      /\ LocalsOK' /\ OwnCalls'
      /\ \A q \in Requests : loaded'[q] \in {loaded[q], None}
  <2>1. UNCHANGED <<op, user>> /\ l \in Outcomes
    BY DEF Commit, Outcomes
  <2> HIDE DEF Shape, TypeOK
  <2> QED
    BY <1>5, <2>1, ShapeAnswer
<1>7. born' \in SUBSET Users
  BY DEF Commit, Typed
<1>8. Typed'
  BY <1>2, <1>3, <1>4, <1>6, <1>7 DEF Typed
<1>9. CallsOK'
  <2>1. \A u \in Users : users'[u] = None <=> said'[u] = None
    BY <1>1, <1>2, ConstantsAssumption DEF CallsOK, RowsOK
  <2>2. \A q \in Requests : user'[q] = user[q] /\ user[q] \in Users
    BY DEF Commit, Typed
  <2>3. \A q \in Requests : loaded'[q] # None => users'[user'[q]] # None
    BY <1>2, <1>6, <2>2, ConstantsAssumption DEF CallsOK, RowsOK
  <2> QED
    BY <1>6, <2>1, <2>3 DEF CallsOK, RowsOK
<1> QED
  BY <1>6, <1>8, <1>9

(* Lemma: every step keeps the types and the shape.                         *)
LEMMA ShapeStep == Shape /\ [Next]_vars => Shape'
<1> SUFFICES ASSUME Shape, [Next]_vars PROVE Shape'
  OBVIOUS
<1>1. ASSUME NEW r \in Requests, NEW o \in {"create", "update", "delete"},
             NEW u \in Users, NEW c \in Changes, Start(r, o, u, c)
      PROVE  Shape'
  <2> USE DEF Shape, TypeOK, Start
  <2>1. Typed'
    BY <1>1 DEF Typed, Places
  <2>2. /\ op'[r] = o
        /\ (pc'[r] = "checkName" /\ o = "create") \/ (pc'[r] = "load" /\ o # "create")
        /\ o = "create" => Named(changes'[r]) = Fields
        /\ \A q \in Requests \ {r} : /\ pc'[q] = pc[q] /\ op'[q] = op[q]
                                     /\ changes'[q] = changes[q]
                                     /\ loaded'[q] = loaded[q]
    BY <1>1 DEF Typed
  <2>3. LocalsOK'
    BY <2>2 DEF LocalsOK
  <2>4. CallsOK'
    <3>1. OwnCalls'
      BY <2>2 DEF CallsOK, OwnCalls, Outcomes
    <3>2. /\ loaded[r] = None /\ loaded' = loaded
          /\ UNCHANGED <<users, said>>
          /\ \A q \in Requests \ {r} : user'[q] = user[q]
      BY <1>1 DEF CallsOK, OwnCalls, Typed
    <3>3. RowsOK'
      BY <3>2 DEF CallsOK, RowsOK
    <3> QED
      BY <3>1, <3>3 DEF CallsOK
  <2> QED
    BY <2>1, <2>3, <2>4
<1>2. ASSUME NEW r \in Requests, Fails(r) PROVE Shape'
  BY <1>2, ShapeQuiet DEF Fails, Outcomes
<1>3. ASSUME NEW r \in Requests PROVE WriteOf(r) \in {"insert", "save"}
                                    /\ (WriteOf(r) = "save" <=> op[r] # "create")
  BY DEF WriteOf
<1>4. ASSUME NEW r \in Requests, CheckName(r) PROVE Shape'
  <2>1. CASE NameTaken(r) /\ ~Fails(r)
    BY <1>4, <2>1, ShapeQuiet DEF CheckName, Outcomes
  <2>2. CASE ~NameTaken(r) /\ ~Fails(r)
    <3>1. /\ AfterName(r) \in {"checkEmail", "insert", "save"}
          /\ AfterName(r) = "save" => op[r] # "create"
          /\ AfterName(r) = "insert" => op[r] = "create"
      BY <1>3 DEF AfterName
    <3>2. Goto(r, AfterName(r)) /\ Quiet /\ pc[r] = "checkName"
      BY <1>4, <2>2 DEF CheckName
    <3> QED
      BY <3>1, <3>2, ShapeGoto DEF Outcomes
  <2> QED
    BY <1>2, <2>1, <2>2
<1>5. ASSUME NEW r \in Requests, CheckEmail(r) PROVE Shape'
  <2>1. CASE EmailTaken(r) /\ ~Fails(r)
    BY <1>5, <2>1, ShapeQuiet DEF CheckEmail, Outcomes
  <2>2. CASE ~EmailTaken(r) /\ ~Fails(r)
    <3>1. Goto(r, WriteOf(r)) /\ Quiet /\ pc[r] = "checkEmail"
      BY <1>5, <2>2 DEF CheckEmail
    <3> QED
      BY <1>3, <3>1, ShapeGoto DEF Outcomes
  <2> QED
    BY <1>2, <2>1, <2>2
<1>6. ASSUME NEW r \in Requests, Insert(r) PROVE Shape'
  <2>1. /\ changes[r] \in User /\ user[r] \in Users
    <3>1. changes[r] \in Changes /\ Named(changes[r]) = Fields /\ user[r] \in Users
      BY <1>6 DEF Insert, Shape, TypeOK, Typed, LocalsOK, CallsOK, OwnCalls, Outcomes
    <3> QED
      BY <3>1, FullChanges
  <2>2. CASE Conflicts(user[r], changes[r]) /\ ~Fails(r)
    BY <1>6, <2>2, ShapeQuiet DEF Insert, Outcomes
  <2>3. CASE ~Conflicts(user[r], changes[r]) /\ ~Fails(r)
    <3>1. /\ Commit(r, changes[r])
          /\ said' = [said EXCEPT ![user[r]] = changes[r]]
          /\ UNCHANGED lost
      BY <1>6, <2>3 DEF Insert
    <3>2. /\ said' \in [Users -> User \cup {None}]
          /\ \A u \in Users : said'[u] = None <=> u # user[r] /\ said[u] = None
          /\ lost' \in [Users -> SUBSET Fields]
      BY <2>1, <3>1, ConstantsAssumption DEF Shape, TypeOK, Typed
    <3> QED
      BY <2>1, <3>1, <3>2, ShapeCommit
  <2> QED
    BY <1>2, <2>2, <2>3
<1>7. ASSUME NEW r \in Requests, Load(r) PROVE Shape'
  <2>1. CASE users[user[r]] = None /\ ~Fails(r)
    BY <1>7, <2>1, ShapeQuiet DEF Load, Outcomes
  <2>2. CASE users[user[r]] # None /\ ~Fails(r)
    <3> USE DEF Shape, TypeOK
    <3>1. /\ loaded' = [loaded EXCEPT ![r] = users[user[r]]]
          /\ stale' = [stale EXCEPT ![r] = FALSE]
          /\ pc' = [pc EXCEPT ![r] = AfterLoad(r)]
          /\ UNCHANGED <<users, writes, op, user, changes, born, said, lost>>
          /\ op[r] # "create"
      BY <1>7, <2>2 DEF Load, CallsOK, OwnCalls
    <3>2. AfterLoad(r) \in {"deactivate", "checkName", "checkEmail", "save"}
      BY <3>1 DEF AfterLoad, AfterName, WriteOf
    <3>3. users[user[r]] \in User
      BY <2>2 DEF Typed
    <3>4. Typed'
      BY <3>1, <3>2, <3>3 DEF Typed, Places
    <3>5. /\ loaded'[r] # None
          /\ pc'[r] \in {"deactivate", "checkName", "checkEmail", "save"}
          /\ \A q \in Requests \ {r} : pc'[q] = pc[q] /\ loaded'[q] = loaded[q]
      BY <2>2, <3>1, <3>2 DEF Typed
    <3>6. LocalsOK' /\ CallsOK'
      BY <2>2, <3>1, <3>5 DEF LocalsOK, CallsOK, OwnCalls, RowsOK, Outcomes
    <3> QED
      BY <3>4, <3>6
  <2> QED
    BY <1>2, <2>1, <2>2
<1>8. ASSUME NEW r \in Requests, Save(r) PROVE Shape'
  <2>1. CASE Conflicts(user[r], Saved(r)) /\ ~Fails(r)
    BY <1>8, <2>1, ShapeQuiet DEF Save, Outcomes
  <2>2. CASE ~Conflicts(user[r], Saved(r)) /\ ~Fails(r)
    <3>1. /\ Commit(r, Saved(r)) /\ pc[r] = "save"
          /\ said' = [said EXCEPT ![user[r]] = Apply(changes[r], @)]
          /\ lost' = [lost EXCEPT ![user[r]] =
               (IF stale[r] THEN Fields ELSE @) \ Named(changes[r])]
      BY <1>8, <2>2 DEF Save
    <3>2. user[r] \in Users /\ changes[r] \in Changes /\ loaded[r] # None
      BY <3>1 DEF Shape, TypeOK, Typed, LocalsOK, CallsOK, OwnCalls, Outcomes
    <3>3. said[user[r]] \in User
      BY <3>2 DEF Shape, TypeOK, Typed, CallsOK, RowsOK
    <3>4. Apply(changes[r], said[user[r]]) \in User
      BY <3>2, <3>3, ApplyUser
    <3>5. /\ said' \in [Users -> User \cup {None}]
          /\ \A u \in Users : said'[u] = None <=> u # user[r] /\ said[u] = None
      BY <3>1, <3>2, <3>4, ConstantsAssumption DEF Shape, TypeOK, Typed
    <3>6. lost' \in [Users -> SUBSET Fields]
      BY <3>1, <3>2 DEF Shape, TypeOK, Typed
    <3> QED
      BY <3>1, <3>5, <3>6, SavedUser, ShapeCommit
  <2> QED
    BY <1>2, <2>1, <2>2
<1>9. ASSUME NEW r \in Requests, Deactivate(r) PROVE Shape'
  <2>1. CASE ~Fails(r)
    <3> DEFINE row == [users[user[r]] EXCEPT !.active = FALSE]
    <3>1. /\ Commit(r, row) /\ pc[r] = "deactivate"
          /\ said' = [said EXCEPT ![user[r]].active = FALSE]
          /\ lost' = [lost EXCEPT ![user[r]] = @ \ {"active"}]
      BY <1>9, <2>1 DEF Deactivate
    <3>2. user[r] \in Users /\ users[user[r]] \in User /\ said[user[r]] \in User
      BY <3>1 DEF Shape, TypeOK, Typed, LocalsOK, CallsOK, OwnCalls, RowsOK,
                  Outcomes
    <3>3. row \in User /\ [said[user[r]] EXCEPT !.active = FALSE] \in User
      BY <3>2 DEF User
    <3>4. said' = [said EXCEPT ![user[r]] = [said[user[r]] EXCEPT !.active = FALSE]]
      BY <3>1
    <3> HIDE DEF row
    <3>5. /\ said' \in [Users -> User \cup {None}]
          /\ \A u \in Users : said'[u] = None <=> u # user[r] /\ said[u] = None
      BY <3>2, <3>3, <3>4, ConstantsAssumption DEF Shape, TypeOK, Typed
    <3>6. lost' \in [Users -> SUBSET Fields]
      BY <3>1, <3>2 DEF Shape, TypeOK, Typed
    <3> QED
      BY <3>1, <3>3, <3>5, <3>6, ShapeCommit
  <2> QED
    BY <1>2, <2>1
<1>10. CASE UNCHANGED vars
  BY <1>10 DEF vars, ghost, Shape, TypeOK, Typed, LocalsOK, CallsOK, OwnCalls,
               RowsOK
<1> QED
  BY <1>1, <1>4, <1>5, <1>6, <1>7, <1>8, <1>9, <1>10 DEF Next, Step

(* Every row is complete, and no request saves a row it has not read.       *)
THEOREM Typing == Spec => []TypeOK
<1>1. Shape => TypeOK
  BY DEF Shape
<1> QED
  BY <1>1, ShapeInit, ShapeStep, PTL DEF Spec

-----------------------------------------------------------------------------
(* Lemma: a step of a request either leaves the table or commits one row.   *)
LEMMA CommitOrQuiet ==
  ASSUME Shape, NEW r \in Requests, Step(r)
  PROVE  \/ UNCHANGED <<users, said, lost>>
         \/ /\ pc[r] = "insert" /\ ~Conflicts(user[r], changes[r])
            /\ Commit(r, changes[r])
            /\ said' = [said EXCEPT ![user[r]] = changes[r]]
            /\ UNCHANGED lost
         \/ /\ pc[r] = "save" /\ ~Conflicts(user[r], Saved(r))
            /\ Commit(r, Saved(r))
            /\ said' = [said EXCEPT ![user[r]] = Apply(changes[r], @)]
            /\ lost' = [lost EXCEPT ![user[r]] =
                 (IF stale[r] THEN Fields ELSE @) \ Named(changes[r])]
         \/ /\ pc[r] = "deactivate"
            /\ Commit(r, [users[user[r]] EXCEPT !.active = FALSE])
            /\ said' = [said EXCEPT ![user[r]].active = FALSE]
            /\ lost' = [lost EXCEPT ![user[r]] = @ \ {"active"}]
  BY DEF Step, CheckName, CheckEmail, Insert, Load, Save, Deactivate, Fails,
         Quiet, ghost

(* Lemma: a commit that the unique columns accept keeps them unique.        *)
LEMMA UniqueCommit ==
  ASSUME Typed, UniqueColumns, NEW r \in Requests, NEW row,
         users' = [users EXCEPT ![user[r]] = row], ~Conflicts(user[r], row)
  PROVE  UniqueColumns'
<1>1. user[r] \in Users
  BY DEF Typed
<1>2. \A v \in Users \ {user[r]} :
        /\ users'[v] = users[v]
        /\ users[v] # None => users[v].name # row.name /\ users[v].email # row.email
  BY DEF Typed, Conflicts
<1>3. users'[user[r]] = row
  BY <1>1 DEF Typed
<1> QED
  BY <1>2, <1>3 DEF UniqueColumns

(* Lemma: every step keeps usernames and emails unique.                     *)
LEMMA UniqueStep ==
  Shape /\ UniqueColumns /\ [Next]_vars => UniqueColumns'
<1> SUFFICES ASSUME Shape, UniqueColumns, [Next]_vars PROVE UniqueColumns'
  OBVIOUS
<1>1. CASE UNCHANGED users
  BY <1>1 DEF UniqueColumns
<1>2. ASSUME NEW r \in Requests, Step(r), users' # users PROVE UniqueColumns'
  <2>1. CASE pc[r] # "deactivate"
    BY <1>2, <2>1, CommitOrQuiet, UniqueCommit DEF Commit, Shape, TypeOK
  <2>2. CASE pc[r] = "deactivate"
    <3> DEFINE row == [users[user[r]] EXCEPT !.active = FALSE]
    <3>1. users' = [users EXCEPT ![user[r]] = row]
      BY <1>2, <2>2, CommitOrQuiet DEF Commit
    <3>2. user[r] \in Users /\ users[user[r]] \in User
      BY <2>2 DEF Shape, TypeOK, Typed, LocalsOK, CallsOK, OwnCalls, RowsOK,
                  Outcomes
    <3>3. row.name = users[user[r]].name /\ row.email = users[user[r]].email
      BY <3>2 DEF User
    <3>4. ~Conflicts(user[r], row)
      BY <3>2, <3>3, ConstantsAssumption DEF UniqueColumns, Conflicts
    <3> HIDE DEF row
    <3> QED
      BY <3>1, <3>4, UniqueCommit DEF Shape, TypeOK
  <2> QED
    BY <2>1, <2>2
<1> QED
  BY <1>1, <1>2 DEF Next, Start, vars

(* No two users share a username or an email, however lookups and writes    *)
(* interleave.                                                              *)
THEOREM Uniqueness == Spec => []UniqueColumns
<1>1. Init => UniqueColumns
  BY DEF Init, UniqueColumns
<1> QED
  BY <1>1, ShapeInit, ShapeStep, UniqueStep, PTL DEF Spec

-----------------------------------------------------------------------------
(* A copy is the row, unless another commit is marked.                      *)
Fresh ==
  \A r \in Requests :
    loaded[r] # None /\ ~stale[r] => loaded[r] = users[user[r]]

(* Lemma: every step marks the copies it overtakes.                         *)
LEMMA FreshStep == Shape /\ Fresh /\ [Next]_vars => Fresh'
<1> SUFFICES ASSUME Shape, Fresh, [Next]_vars PROVE Fresh'
  OBVIOUS
<1> USE DEF Shape, TypeOK
<1>1. ASSUME NEW r \in Requests, NEW o \in {"create", "update", "delete"},
             NEW u \in Users, NEW c \in Changes, Start(r, o, u, c)
      PROVE  Fresh'
  <2>1. /\ loaded[r] = None /\ loaded' = loaded /\ users' = users
        /\ \A q \in Requests \ {r} : user'[q] = user[q] /\ stale'[q] = stale[q]
    BY <1>1 DEF Start, CallsOK, OwnCalls, Typed
  <2> QED
    BY <2>1 DEF Fresh
<1>2. ASSUME UNCHANGED <<users, user, stale>>,
             \A q \in Requests : loaded'[q] \in {loaded[q], None}
      PROVE  Fresh'
  BY <1>2 DEF Fresh
<1>3. ASSUME NEW r \in Requests, NEW l, Answer(r, l), Quiet PROVE Fresh'
  <2>1. \A q \in Requests : loaded'[q] \in {loaded[q], None}
    BY <1>3 DEF Answer, Typed
  <2> QED
    BY <1>2, <1>3, <2>1 DEF Quiet, ghost
<1>4. ASSUME NEW r \in Requests, NEW l, Goto(r, l), Quiet PROVE Fresh'
  BY <1>2, <1>4 DEF Goto, Quiet, ghost
<1>5. ASSUME NEW r \in Requests, NEW row, Commit(r, row) PROVE Fresh'
  <2>1. /\ loaded'[r] = None /\ user' = user
        /\ \A q \in Requests \ {r} :
             /\ loaded'[q] = loaded[q]
             /\ user[q] # user[r] => users'[user[q]] = users[user[q]]
             /\ ~stale'[q] => ~stale[q] /\ (user[q] # user[r] \/ pc[q] \in Outcomes)
    BY <1>5 DEF Commit, Answer, Typed
  <2>2. \A q \in Requests : pc[q] \in Outcomes => loaded[q] = None
    BY DEF CallsOK, OwnCalls
  <2> QED
    BY <2>1, <2>2 DEF Fresh
<1>6. ASSUME NEW r \in Requests, Load(r) PROVE Fresh'
  <2>1. CASE loaded' = [loaded EXCEPT ![r] = users[user[r]]]
             /\ stale' = [stale EXCEPT ![r] = FALSE]
             /\ UNCHANGED <<users, user>>
    <3>1. /\ loaded'[r] = users[user[r]]
          /\ \A q \in Requests \ {r} : /\ loaded'[q] = loaded[q]
                                       /\ stale'[q] = stale[q]
      BY <2>1 DEF Typed
    <3> QED
      BY <2>1, <3>1 DEF Fresh
  <2> QED
    BY <1>3, <1>6, <2>1 DEF Load, Fails
<1>7. CASE UNCHANGED vars
  BY <1>7 DEF vars, ghost, Fresh
<1> QED
  BY <1>1, <1>3, <1>4, <1>5, <1>6, <1>7
  DEF Next, Step, CheckName, CheckEmail, Insert, Save, Deactivate, Fails

(* Lemma: a step that keeps ChangesKept, given fresh copies.                *)
LEMMA ChangesKeptStep ==
  Shape /\ Fresh /\ ChangesKept /\ [Next]_vars => ChangesKept'
<1> SUFFICES ASSUME Shape, Fresh, ChangesKept, [Next]_vars
             PROVE  ChangesKept'
  OBVIOUS
<1>1. CASE UNCHANGED <<users, said, lost>>
  BY <1>1 DEF ChangesKept
<1>2. ASSUME NEW r \in Requests, NEW row, NEW new, NEW gone,
             users' = [users EXCEPT ![user[r]] = row],
             said' = [said EXCEPT ![user[r]] = new],
             lost' = [lost EXCEPT ![user[r]] = gone],
             \A f \in {"name", "email", "active"} \ gone : row[f] = new[f]
      PROVE  ChangesKept'
  BY <1>2 DEF ChangesKept, Shape, TypeOK, Typed
<1>3. ASSUME NEW r \in Requests, Step(r) PROVE ChangesKept'
  <2> DEFINE u == user[r]
             c == changes[r]
  <2>1. CASE pc[r] = "insert" /\ ~UNCHANGED <<users, said, lost>>
    <3>1. /\ users' = [users EXCEPT ![u] = c]
          /\ said' = [said EXCEPT ![u] = c]
          /\ lost' = lost
      BY <1>3, <2>1, CommitOrQuiet DEF Commit
    <3>2. lost' = [lost EXCEPT ![u] = lost[u]]
      BY <3>1 DEF Shape, TypeOK, Typed
    <3>3. \A f \in {"name", "email", "active"} \ lost[u] : c[f] = c[f]
      OBVIOUS
    <3> HIDE DEF u, c
    <3> QED
      BY <1>2, <3>1, <3>2, <3>3 DEF u
  <2>2. CASE pc[r] = "save" /\ ~UNCHANGED <<users, said, lost>>
    <3>1. /\ u \in Users /\ c \in Changes /\ loaded[r] \in User
          /\ users[u] \in User /\ said[u] \in User /\ stale[r] \in BOOLEAN
      BY <2>2 DEF Shape, TypeOK, Typed, LocalsOK, CallsOK, OwnCalls, RowsOK,
                  Outcomes
    <3> DEFINE gone == (IF stale[r] THEN Fields ELSE lost[u]) \ Named(c)
    <3>2. /\ users' = [users EXCEPT ![u] = Saved(r)]
          /\ said' = [said EXCEPT ![u] = Apply(c, said[u])]
          /\ lost' = [lost EXCEPT ![u] = gone]
      BY <1>3, <2>2, CommitOrQuiet DEF Commit
    <3>3. ASSUME NEW f \in {"name", "email", "active"} \ gone
          PROVE  Saved(r)[f] = Apply(c, said[u])[f]
      <4>1. /\ Saved(r)[f] = IF c[f] = None THEN loaded[r][f] ELSE c[f]
            /\ Apply(c, said[u])[f] = IF c[f] = None THEN said[u][f] ELSE c[f]
        BY <3>1 DEF Saved, Apply, Changes, User
      <4>2. c[f] = None => ~stale[r] /\ f \notin lost[u]
        BY DEF Named, Fields
      <4>3. c[f] = None => loaded[r] = users[u] /\ users[u][f] = said[u][f]
        BY <3>1, <4>2, ConstantsAssumption DEF Fresh, ChangesKept
      <4> QED
        BY <4>1, <4>3
    <3> HIDE DEF gone
    <3> QED
      BY <1>2, <3>2, <3>3
  <2>3. CASE pc[r] = "deactivate" /\ ~UNCHANGED <<users, said, lost>>
    <3>1. u \in Users /\ users[u] \in User /\ said[u] \in User
      BY <2>3 DEF Shape, TypeOK, Typed, LocalsOK, CallsOK, OwnCalls, RowsOK,
                  Outcomes
    <3> DEFINE row  == [users[u] EXCEPT !.active = FALSE]
               new  == [said[u] EXCEPT !.active = FALSE]
               gone == lost[u] \ {"active"}
    <3>2. /\ users' = [users EXCEPT ![u] = row]
          /\ said' = [said EXCEPT ![u] = new]
          /\ lost' = [lost EXCEPT ![u] = gone]
      BY <1>3, <2>3, CommitOrQuiet DEF Commit
    <3>3. ASSUME NEW f \in {"name", "email", "active"} \ gone
          PROVE  row[f] = new[f]
      <4>1. CASE f = "active"
        BY <3>1, <4>1 DEF User
      <4>2. CASE f # "active"
        <5>1. users[u][f] = said[u][f]
          BY <3>1, <4>2, ConstantsAssumption DEF ChangesKept
        <5> QED
          BY <3>1, <4>2, <5>1 DEF User
      <4> QED
        BY <4>1, <4>2
    <3> HIDE DEF row, new, gone
    <3> QED
      BY <1>2, <3>2, <3>3
  <2> QED
    BY <1>1, <1>3, <2>1, <2>2, <2>3, CommitOrQuiet
<1> QED
  BY <1>1, <1>3 DEF Next, Start, vars, ghost

Strong == Shape /\ Fresh /\ UniqueColumns

(* Lemma: the strengthened invariant holds always.                          *)
LEMMA StrongAlways == Spec => []Strong
<1>1. Init => Fresh /\ UniqueColumns
  BY DEF Init, Fresh, UniqueColumns
<1> QED
  BY <1>1, ShapeInit, ShapeStep, FreshStep, UniqueStep, PTL DEF Spec, Strong

(* Username, email and activity of a user are what the last committed       *)
(* request that named the field asked for, unless a save wrote the field    *)
(* from an older copy.                                                      *)
THEOREM NothingLost == Spec => []ChangesKept
<1>1. Init => ChangesKept
  BY DEF Init, ChangesKept
<1>2. Strong /\ ChangesKept /\ [Next]_vars => ChangesKept'
  BY ChangesKeptStep DEF Strong
<1> QED
  BY <1>1, <1>2, StrongAlways, PTL DEF Spec

(* A save that changes neither username nor email is refused by a unique    *)
(* column only if it writes back a username or an email that its user has   *)
(* given up.                                                                *)
THEOREM InnocentSaves == Spec => InnocentSavesPass
<1> DEFINE A == \A r \in Requests :
       pc[r] = "save" /\ pc'[r] = "conflict"
       /\ Named(changes[r]) \cap {"name", "email"} = {}
         => WritesBack(r)
<1>1. Strong /\ [Next]_vars => [A]_vars
  <2> SUFFICES ASSUME Strong, Next, NEW r \in Requests,
                      pc[r] = "save", pc'[r] = "conflict",
                      Named(changes[r]) \cap {"name", "email"} = {},
                      ~WritesBack(r)
               PROVE  FALSE
    OBVIOUS
  <2> USE DEF Strong, Shape, TypeOK
  <2>1. /\ user[r] \in Users /\ changes[r] \in Changes
        /\ loaded[r] \in User /\ users[user[r]] # None
        /\ loaded[r].name = users[user[r]].name
        /\ loaded[r].email = users[user[r]].email
    BY DEF Typed, LocalsOK, CallsOK, OwnCalls, RowsOK, WritesBack, Outcomes
  <2>2. changes[r].name = None /\ changes[r].email = None
    BY DEF Named, Fields
  <2>3. /\ Saved(r).name = users[user[r]].name
        /\ Saved(r).email = users[user[r]].email
    BY <2>1, <2>2 DEF Saved, Apply, User
  <2>4. ~Conflicts(user[r], Saved(r))
    BY <2>1, <2>3, ConstantsAssumption DEF UniqueColumns, Conflicts
  <2>5. ASSUME NEW q \in Requests \ {r}, Step(q) PROVE pc'[r] = pc[r]
    BY <2>5 DEF Step, CheckName, CheckEmail, Insert, Load, Save, Deactivate,
                Commit, Fails, Goto, Answer, Typed
  <2>6. ASSUME NEW q \in Requests, NEW o, NEW u, NEW c, Start(q, o, u, c)
        PROVE  pc'[r] # "conflict"
    BY <2>6 DEF Start, Typed, Outcomes
  <2>7. Step(r)
    BY <2>5, <2>6 DEF Next
  <2>8. Save(r)
    BY <2>7 DEF Step, CheckName, CheckEmail, Insert, Load, Deactivate
  <2> QED
    BY <2>4, <2>8 DEF Save, Commit, Answer, Fails, Typed
<1> QED
  BY <1>1, StrongAlways, PTL DEF Spec, InnocentSavesPass
-----------------------------------------------------------------------------
(* Requests about different users                                          *)

(* Requests about the same user come one after the other.                  *)
NoOverlap ==
  \A q, r \in Requests :
    q # r /\ user[q] = user[r] => pc[q] \in Outcomes \/ pc[r] \in Outcomes

(* No copy is overtaken by a commit, and no field is lost.                 *)
Unmarked ==
  /\ \A r \in Requests : stale[r] = FALSE
  /\ \A u \in Users : lost[u] = {}

(* Username, email and activity of every user are what the last committed  *)
(* request that named the field asked for.                                 *)
RowsAsAsked ==
  \A u \in Users : users[u] # None =>
    \A f \in {"name", "email", "active"} : users[u][f] = said[u][f]

(* Lemma: without overlap no step marks a copy or a field.                 *)
LEMMA UnmarkedNext ==
  ASSUME Shape, NoOverlap, Unmarked, [Next]_vars
  PROVE  Unmarked'
<1> USE DEF Shape, TypeOK, Typed, Unmarked, Outcomes
<1>1. ASSUME NEW r \in Requests, NEW row, Commit(r, row),
             pc[r] \in {"insert", "save", "deactivate"}
      PROVE  \A q \in Requests : stale'[q] = FALSE
  BY <1>1 DEF Commit, NoOverlap
<1>2. ASSUME UNCHANGED <<stale, lost>>
      PROVE  Unmarked'
  BY <1>2
<1>3. ASSUME NEW r \in Requests, Insert(r)
      PROVE  Unmarked'
  BY <1>1, <1>2, <1>3 DEF Insert, Quiet, Fails, ghost
<1>4. ASSUME NEW r \in Requests, Save(r)
      PROVE  Unmarked'
  <2>1. CASE UNCHANGED <<stale, lost>>
    BY <1>2, <2>1
  <2>2. CASE Commit(r, Saved(r))
             /\ lost' = [lost EXCEPT ![user[r]] =
                  (IF stale[r] THEN Fields ELSE @) \ Named(changes[r])]
    BY <1>1, <1>4, <2>2 DEF Save
  <2> QED
    BY <1>4, <2>1, <2>2 DEF Save, Quiet, Fails, ghost
<1>5. ASSUME NEW r \in Requests, Deactivate(r)
      PROVE  Unmarked'
  <2>1. CASE UNCHANGED <<stale, lost>>
    BY <1>2, <2>1
  <2>2. CASE Commit(r, [users[user[r]] EXCEPT !.active = FALSE])
             /\ lost' = [lost EXCEPT ![user[r]] = @ \ {"active"}]
    BY <1>1, <1>5, <2>2 DEF Deactivate
  <2> QED
    BY <1>5, <2>1, <2>2 DEF Deactivate, Quiet, Fails, ghost
<1>6. ASSUME NEW r \in Requests, CheckName(r) \/ CheckEmail(r)
      PROVE  Unmarked'
  BY <1>2, <1>6 DEF CheckName, CheckEmail, Quiet, Fails, ghost
<1>7. ASSUME NEW r \in Requests, Load(r)
      PROVE  Unmarked'
  BY <1>7 DEF Load, Quiet, Fails, ghost
<1>8. ASSUME NEW r \in Requests, NEW o, NEW u, NEW c, Start(r, o, u, c)
      PROVE  Unmarked'
  BY <1>8 DEF Start
<1>9. CASE UNCHANGED vars
  BY <1>2, <1>9 DEF vars, ghost
<1> QED
  BY <1>3, <1>4, <1>5, <1>6, <1>7, <1>8, <1>9 DEF Next, Step

(* Only requests about one user that overlap can undo each other: when     *)
(* they do not, username, email and activity are what was asked for last,  *)
(* also after refused, failed and unacknowledged writes.                   *)
THEOREM NoOverlapNoLoss == Spec /\ []NoOverlap => []RowsAsAsked
<1>1. Init => Unmarked
  BY DEF Init, Unmarked
<1>2. Strong /\ NoOverlap /\ Unmarked /\ [Next]_vars => Unmarked'
  BY UnmarkedNext DEF Strong
<1>3. Unmarked /\ ChangesKept => RowsAsAsked
  BY DEF Unmarked, ChangesKept, RowsAsAsked
<1> QED
  BY <1>1, <1>2, <1>3, StrongAlways, NothingLost, PTL DEF Spec
=============================================================================
