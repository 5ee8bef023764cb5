----------------------- MODULE AlertRuleService_proofs -----------------------
(***************************************************************************)
(* Proofs about AlertRuleService, for every set of devices, rules, settings *)
(* and requests, every subset of the failures and every bound.              *)
(***************************************************************************)
EXTENDS AlertRuleService, TLAPS

(* A create has named every field before it is checked, and a rule is       *)
(* there exactly while it has been asked for.                               *)
CallsOK ==
  /\ \A r \in Requests : pc[r] = "check" =>
       changes[r].enabled # None /\ changes[r].setting # None
  /\ \A x \in Rules : rules[x] = None <=> said[x] = None

Shape == TypeOK /\ CallsOK

(* Lemma: a row with validated changes is a row.                            *)
LEMMA ApplyRow ==
  ASSUME NEW c \in Changes, c.setting # Invalid, NEW row \in Row
  PROVE  Apply(c, row) \in Row
  BY DEF Apply, Changes, Row

(* Lemma: what GORM inserts for a row is a row.                             *)
LEMMA InsertedRow ==
  ASSUME NEW row \in Row
  PROVE  Inserted(row) \in Row
  BY DEF Inserted, Row

(* Lemma: the types and the shape hold at the start.                        *)
LEMMA ShapeInit == Init => Shape
<1> SUFFICES ASSUME Init PROVE Shape
  OBVIOUS
<1> USE ConstantsAssumption, RowAssumption DEF Init, Outcomes, Places
<1>1. /\ (CHOOSE x \in Rules : TRUE) \in Rules
      /\ (CHOOSE d \in Devices : TRUE) \in Devices
  OBVIOUS
<1>2. /\ rule \in [Requests -> Rules]
      /\ device \in [Requests -> Devices]
  BY <1>1
<1>3. changes \in [Requests -> Changes]
  BY DEF Changes
<1>4. /\ live \in SUBSET Devices /\ born \in SUBSET Rules
      /\ rules \in [Rules -> Row \cup {None}]
      /\ said \in [Rules -> Row \cup {None}]
      /\ loaded \in [Requests -> Row \cup {None}]
      /\ writes \in 0..MaxWrites
  OBVIOUS
<1>5. Typed
  BY <1>2, <1>3, <1>4 DEF Typed
<1>6. LocalsOK /\ CallsOK
  BY DEF LocalsOK, CallsOK
<1> QED
  BY <1>5, <1>6 DEF Shape, TypeOK

(* Lemma: a commit keeps the types and the shape.                           *)
LEMMA ShapeCommit ==
  ASSUME Shape, NEW r \in Requests, NEW row \in Row \cup {None},
         Commit(r, rule[r], row),
         said' \in [Rules -> Row \cup {None}],
         \A x \in Rules : said'[x] = None <=>
           IF x = rule[r] THEN row = None ELSE said[x] = None,
         lost' \in [Rules -> SUBSET Fields],
         defaulted' \in [Rules -> BOOLEAN],
         UNCHANGED <<live, asked, loaded, born>>
  PROVE  Shape'
<1> USE DEF Shape, Outcomes, Places, asked, Goto
<1>1. Typed
  BY DEF TypeOK
<1>2. rule[r] \in Rules
  BY <1>1 DEF Typed
<1>3. rules' \in [Rules -> Row \cup {None}]
  BY <1>1, <1>2 DEF Typed, Commit
<1>4. writes' \in 0..MaxWrites
  BY <1>1, ConstantsAssumption DEF Typed, Commit
<1>5. pc' \in [Requests -> Outcomes \cup Places]
  BY <1>1 DEF Typed, Commit
<1>6. /\ stale' \in [Requests -> BOOLEAN]
      /\ seen' \in [Requests -> BOOLEAN]
  BY <1>1 DEF Typed, Commit
<1>7. Typed'
  BY <1>1, <1>3, <1>4, <1>5, <1>6 DEF Typed
<1>8. \A q \in Requests : pc'[q] = pc[q] \/ pc'[q] \in {"ok", "error"}
  BY <1>1 DEF Typed, Commit
<1>9. LocalsOK'
  BY <1>8 DEF TypeOK, LocalsOK
<1>10. \A x \in Rules : rules'[x] = IF x = rule[r] THEN row ELSE rules[x]
  BY <1>1, <1>2 DEF Typed, Commit
<1>11. CallsOK'
  BY <1>8, <1>10 DEF CallsOK
<1> QED
  BY <1>7, <1>9, <1>11 DEF TypeOK

(* Lemma: so does a step of a request that commits nothing.                 *)
LEMMA ShapeQuiet ==
  ASSUME Shape, NEW r \in Requests, NEW l \in Outcomes \cup {"upsert"},
         Goto(r, l), l = "upsert" => pc[r] = "save",
         UNCHANGED <<tables, asked, loaded, ghost>>
  PROVE  Shape'
<1> USE DEF Outcomes, Places, tables, asked, ghost, marks, Goto
<1>1. Typed'
  BY DEF Shape, TypeOK, Typed
<1>2. \A q \in Requests : \/ pc'[q] = pc[q] \/ pc'[q] \in Outcomes
                          \/ pc'[q] = "upsert" /\ pc[q] = "save"
  BY DEF Shape, TypeOK, Typed
<1>3. LocalsOK' /\ CallsOK'
  BY <1>2 DEF Shape, TypeOK, LocalsOK, CallsOK
<1> QED
  BY <1>1, <1>3 DEF Shape, TypeOK

(* Lemma: every step keeps the types and the shape.                         *)
LEMMA ShapeStep == Shape /\ [Next]_vars => Shape'
<1> SUFFICES ASSUME Shape, [Next]_vars PROVE Shape'
  OBVIOUS
<1> USE DEF Shape, TypeOK
<1>1. ASSUME NEW r \in Requests, NEW o \in {"create", "update", "delete"},
             NEW x \in Rules, NEW d \in Devices, NEW c \in Changes,
             Start(r, o, x, d, c)
      PROVE  Shape'
  <2> USE DEF Start, Goto, tables, marks
  <2>1. Typed'
    BY <1>1, RowAssumption DEF Typed, Outcomes, Places
  <2>2. /\ changes'[r] = c
        /\ (pc'[r] = "check" /\ o = "create") \/ pc'[r] = "load"
        /\ \A q \in Requests \ {r} : /\ pc'[q] = pc[q]
                                     /\ changes'[q] = changes[q]
                                     /\ loaded'[q] = loaded[q]
    BY <1>1 DEF Typed
  <2>3. LocalsOK'
    BY <2>2 DEF LocalsOK
  <2>4. CallsOK'
    BY <1>1, <2>2 DEF CallsOK
  <2> QED
    BY <2>1, <2>3, <2>4
<1>2. ASSUME NEW r \in Requests, CheckDevice(r) PROVE Shape'
  <2>1. CASE pc'[r] = "insert" /\ ~Fails(r, "postgres")
    <3>1. /\ pc[r] = "check" /\ changes[r].setting # Invalid
          /\ Goto(r, "insert")
          /\ UNCHANGED <<tables, asked, loaded, ghost>>
      BY <1>2, <2>1 DEF CheckDevice, Typed, Goto
    <3> USE DEF tables, asked, ghost, marks, Goto
    <3>2. Typed'
      BY <3>1 DEF Typed, Outcomes, Places
    <3>3. LocalsOK' /\ CallsOK'
      BY <3>1 DEF Typed, LocalsOK, CallsOK
    <3> QED
      BY <3>2, <3>3
  <2>2. CASE ~(pc'[r] = "insert" /\ ~Fails(r, "postgres"))
    <3>1. PICK l \in {"notFound", "invalid", "error"} :
            Goto(r, l) /\ UNCHANGED <<tables, asked, loaded, ghost>>
      BY <1>2, <2>2 DEF CheckDevice, Fails, Typed, Goto
    <3> QED
      BY <3>1, ShapeQuiet DEF Outcomes
  <2> QED
    BY <2>1, <2>2
<1>3. ASSUME NEW r \in Requests, Insert(r) PROVE Shape'
  <2> DEFINE row == [device  |-> device[r],
                     enabled |-> changes[r].enabled,
                     setting |-> changes[r].setting]
             new == Inserted(row)
  <2>1. /\ row \in Row /\ new \in Row /\ rule[r] \in Rules
        /\ row # None /\ new # None /\ row.enabled \in BOOLEAN
    <3>1. /\ changes[r].enabled \in BOOLEAN
          /\ changes[r].setting \in Settings
          /\ device[r] \in Devices
      BY <1>3 DEF Insert, LocalsOK, Typed, Changes
    <3>2. row \in Row /\ row.enabled \in BOOLEAN
      BY <3>1 DEF Row
    <3> HIDE DEF row
    <3> QED
      BY <3>2, InsertedRow, RowAssumption DEF Typed
  <2>2. CASE /\ Commit(r, rule[r], new)
             /\ said' = [said EXCEPT ![rule[r]] = row]
             /\ lost' = [lost EXCEPT ![rule[r]] = {}]
             /\ defaulted' = [defaulted EXCEPT ![rule[r]] = ~row.enabled]
             /\ UNCHANGED <<live, asked, loaded, born>>
    <3> HIDE DEF row, new
    <3> QED
      BY <2>1, <2>2, ShapeCommit DEF Typed, CallsOK
  <2>3. CASE /\ Goto(r, "error")
             /\ UNCHANGED <<tables, asked, loaded, ghost>>
    BY <2>3, ShapeQuiet DEF Outcomes
  <2> QED
    BY <1>3, <2>2, <2>3 DEF Insert, Fails
<1>4. ASSUME NEW r \in Requests, Load(r) PROVE Shape'
  <2>1. CASE /\ rules[rule[r]] # None
             /\ loaded' = [loaded EXCEPT ![r] = rules[rule[r]]]
             /\ stale' = [stale EXCEPT ![r] = FALSE]
             /\ Goto(r, AfterLoad(r))
             /\ UNCHANGED <<tables, asked, born, said, seen, marks>>
    <3> USE <2>1 DEF tables, asked, marks, Goto
    <3>1. /\ AfterLoad(r) \in {"remove", "invalid", "save"}
          /\ AfterLoad(r) = "save" => changes[r].setting # Invalid
      BY DEF AfterLoad
    <3>2. Typed'
      BY <3>1 DEF Typed, Outcomes, Places
    <3>3. LocalsOK' /\ CallsOK'
      BY <3>1 DEF Typed, LocalsOK, CallsOK
    <3> QED
      BY <3>2, <3>3
  <2>2. CASE \E l \in {"notFound", "error"} :
               Goto(r, l) /\ UNCHANGED <<tables, asked, loaded, ghost>>
    BY <2>2, ShapeQuiet DEF Outcomes
  <2> QED
    BY <1>4, <2>1, <2>2 DEF Load, Fails
<1>5. ASSUME NEW r \in Requests, pc[r] \in {"save", "upsert"}
      PROVE  Saved(r) \in Row /\ rule[r] \in Rules
  <2>1. /\ loaded[r] \in Row /\ changes[r] \in Changes
        /\ changes[r].setting # Invalid /\ rule[r] \in Rules
    BY <1>5 DEF Typed, LocalsOK
  <2> QED
    BY <2>1, ApplyRow DEF Saved
<1>6. ASSUME NEW r \in Requests, Save(r) PROVE Shape'
  <2>1. Saved(r) \in Row /\ rule[r] \in Rules
    BY <1>5, <1>6 DEF Save
  <2>2. CASE /\ rules[rule[r]] # None
             /\ Commit(r, rule[r], Saved(r))
             /\ said' = [said EXCEPT ![rule[r]] = Apply(changes[r], @)]
             /\ lost' = [lost EXCEPT ![rule[r]] =
                  (IF stale[r] THEN Fields ELSE @) \ Named(changes[r])]
             /\ defaulted' = [defaulted EXCEPT ![rule[r]] =
                  @ /\ "enabled" \notin Named(changes[r])]
             /\ UNCHANGED <<live, asked, loaded, born>>
    <3>1. /\ said[rule[r]] \in Row /\ changes[r] \in Changes
          /\ changes[r].setting # Invalid
      BY <1>6, <2>1, <2>2 DEF Save, CallsOK, Typed, LocalsOK
    <3>2. Apply(changes[r], said[rule[r]]) \in Row
      BY <3>1, ApplyRow
    <3>3. lost' \in [Rules -> SUBSET Fields] /\ defaulted' \in [Rules -> BOOLEAN]
      BY <2>1, <2>2 DEF Typed
    <3>4. said' \in [Rules -> Row \cup {None}]
      BY <2>1, <2>2, <3>2 DEF Typed
    <3>5. \A x \in Rules : said'[x] = None <=>
            IF x = rule[r] THEN Saved(r) = None ELSE said[x] = None
      BY <2>1, <2>2, <3>2, RowAssumption DEF Typed
    <3> QED
      BY <2>1, <2>2, <3>3, <3>4, <3>5, ShapeCommit
  <2>3. CASE \E l \in {"upsert", "error"} :
               Goto(r, l) /\ UNCHANGED <<tables, asked, loaded, ghost>>
    BY <1>6, <2>3, ShapeQuiet DEF Save, Outcomes
  <2> QED
    BY <1>6, <2>2, <2>3 DEF Save, Fails
<1>7. ASSUME NEW r \in Requests, Upsert(r) PROVE Shape'
  <2>1. /\ Inserted(Saved(r)) \in Row /\ rule[r] \in Rules
        /\ Inserted(Saved(r)) # None
        /\ Saved(r) \in Row /\ Saved(r) # None
    BY <1>5, <1>7, InsertedRow, RowAssumption DEF Upsert
  <2>2. CASE /\ Commit(r, rule[r], Inserted(Saved(r)))
             /\ said' = [said EXCEPT ![rule[r]] = Saved(r)]
             /\ lost' = [lost EXCEPT ![rule[r]] = Fields \ Named(changes[r])]
             /\ defaulted' = [defaulted EXCEPT ![rule[r]] = ~Saved(r).enabled]
             /\ UNCHANGED <<live, asked, loaded, born>>
    BY <2>1, <2>2, ShapeCommit DEF Typed, CallsOK
  <2>3. CASE Goto(r, "error") /\ UNCHANGED <<tables, asked, loaded, ghost>>
    BY <2>3, ShapeQuiet DEF Outcomes
  <2> QED
    BY <1>7, <2>2, <2>3 DEF Upsert, Fails
<1>8. ASSUME NEW r \in Requests, Remove(r) PROVE Shape'
  <2>1. rule[r] \in Rules
    BY DEF Typed
  <2>2. CASE /\ Commit(r, rule[r], None)
             /\ said' = [said EXCEPT ![rule[r]] = None]
             /\ lost' = [lost EXCEPT ![rule[r]] = {}]
             /\ defaulted' = [defaulted EXCEPT ![rule[r]] = FALSE]
             /\ UNCHANGED <<live, asked, loaded, born>>
    BY <2>1, <2>2, ShapeCommit DEF Typed, CallsOK
  <2>3. CASE Goto(r, "error") /\ UNCHANGED <<tables, asked, loaded, ghost>>
    BY <2>3, ShapeQuiet DEF Outcomes
  <2> QED
    BY <1>8, <2>2, <2>3 DEF Remove, Fails
<1>9. ASSUME NEW d \in Devices, DeleteDevice(d) \/ ReviveDevice(d)
      PROVE  Shape'
  <2> USE <1>9, ConstantsAssumption DEF DeleteDevice, ReviveDevice, asked, ghost, marks
  <2>1. /\ live' \in SUBSET Devices
        /\ writes' \in 0..MaxWrites
        /\ rules' \in [Rules -> Row \cup {None}]
        /\ said' \in [Rules -> Row \cup {None}]
    BY DEF Typed
  <2>2. /\ lost' \in [Rules -> SUBSET Fields]
        /\ defaulted' \in [Rules -> BOOLEAN]
        /\ stale' \in [Requests -> BOOLEAN]
    <3>1. CASE DeleteDevice(d)
      BY <3>1, Zenon DEF Typed
    <3>2. CASE ReviveDevice(d)
      BY <3>2, Zenon DEF Typed
    <3> QED
      BY <3>1, <3>2
  <2>3. Typed'
    BY <2>1, <2>2 DEF Typed
  <2>4. LocalsOK' /\ CallsOK'
    BY DEF LocalsOK, CallsOK
  <2> QED
    BY <2>3, <2>4
<1>10. CASE UNCHANGED vars
  BY <1>10 DEF vars, tables, asked, ghost, marks, Typed, LocalsOK, CallsOK
<1> QED
  BY <1>1, <1>2, <1>3, <1>4, <1>6, <1>7, <1>8, <1>9, <1>10 DEF Next, Step

(* Rows hold validated settings only, and no row is saved that was not      *)
(* read.                                                                    *)
THEOREM Typing == Spec => []TypeOK
<1>1. Shape => TypeOK
  BY DEF Shape
<1> QED
  BY <1>1, ShapeInit, ShapeStep, PTL DEF Spec

-----------------------------------------------------------------------------
(* A rule stays with its first device: an id belongs to one create, and     *)
(* until that inserts its row nobody has read it; the row and every copy of *)
(* it name one device.                                                      *)
Creating == {"check", "insert"}
Saving   == {"save", "upsert"}

Home ==
  /\ \A x \in Rules : x \notin born =>
       rules[x] = None /\ \A q \in Requests : rule[q] = x => pc[q] \in Outcomes
  /\ \A r \in Requests : pc[r] \in Creating =>
       /\ rules[rule[r]] = None
       /\ \A q \in Requests \ {r} :
            rule[q] = rule[r] => pc[q] \notin Creating \cup Saving
  /\ \A r \in Requests : pc[r] \in Saving =>
       /\ rules[rule[r]] # None => rules[rule[r]].device = loaded[r].device
       /\ \A q \in Requests : pc[q] \in Saving /\ rule[q] = rule[r]
                              => loaded[q].device = loaded[r].device

(* Lemma: a saved row keeps the device of the row that was read.            *)
LEMMA SavedDevice ==
  ASSUME Shape, NEW r \in Requests, pc[r] \in Saving
  PROVE  /\ Saved(r).device = loaded[r].device
         /\ Inserted(Saved(r)).device = loaded[r].device
<1>1. loaded[r] \in Row
  BY DEF Shape, TypeOK, LocalsOK, Typed, Saving
<1> QED
  BY <1>1 DEF Inserted, Saved, Apply, Row

(* Lemma: a commit keeps Home, whoever made it.                             *)
LEMMA HomeCommit ==
  ASSUME Shape, Home, NEW r \in Requests, NEW row,
         Commit(r, rule[r], row), pc[r] \notin Outcomes,
         row = None \/ pc[r] = "insert"
           \/ (pc[r] \in Saving /\ row.device = loaded[r].device),
         UNCHANGED <<asked, loaded, born>>
  PROVE  Home'
<1> USE DEF Shape, TypeOK, asked, Goto
<1>1. /\ \A q \in Requests \ {r} : pc'[q] = pc[q]
      /\ pc'[r] \in {"ok", "error"}
      /\ \A x \in Rules \ {rule[r]} : rules'[x] = rules[x]
      /\ rules'[rule[r]] = row
  BY DEF Typed, Commit
<1>2. \A x \in Rules : x \notin born =>
        rules'[x] = None /\ \A q \in Requests : rule[q] = x => pc'[q] \in Outcomes
  BY <1>1 DEF Home, Typed
<1>3. \A s \in Requests : pc'[s] \in Creating =>
        /\ rules'[rule[s]] = None
        /\ \A q \in Requests \ {s} :
             rule[q] = rule[s] => pc'[q] \notin Creating \cup Saving
  BY <1>1 DEF Home, Typed, Creating, Saving
<1>4. \A s \in Requests : pc'[s] \in Saving =>
       /\ rules'[rule[s]] # None => rules'[rule[s]].device = loaded[s].device
       /\ \A q \in Requests : pc'[q] \in Saving /\ rule[q] = rule[s]
                              => loaded[q].device = loaded[s].device
  BY <1>1 DEF Home, Typed, Creating, Saving
<1> QED
  BY <1>2, <1>3, <1>4 DEF Home

(* Lemma: every step keeps Home.                                            *)
LEMMA HomeStep == Shape /\ Home /\ [Next]_vars => Home'
<1> SUFFICES ASSUME Shape, Home, [Next]_vars PROVE Home'
  OBVIOUS
<1> USE DEF Shape, TypeOK, Goto
<1>1. ASSUME NEW r \in Requests, NEW o \in {"create", "update", "delete"},
             NEW x \in Rules, NEW d \in Devices, NEW c \in Changes,
             Start(r, o, x, d, c)
      PROVE  Home'
  <2>1. /\ \A q \in Requests \ {r} :
             pc'[q] = pc[q] /\ rule'[q] = rule[q] /\ loaded'[q] = loaded[q]
        /\ rule'[r] = x /\ rules' = rules
        /\ \/ pc'[r] = "check" /\ x \notin born /\ born' = born \cup {x}
           \/ pc'[r] = "load" /\ x \in born /\ born' = born
    BY <1>1 DEF Start, tables, Typed
  <2> QED
    BY <2>1 DEF Home, Typed, Creating, Saving, Outcomes
<1>2. ASSUME NEW r \in Requests,
             UNCHANGED <<rules, rule, loaded, born>>,
             \A q \in Requests \ {r} : pc'[q] = pc[q],
             \/ pc'[r] \in Outcomes
             \/ pc[r] = "check" /\ pc'[r] = "insert"
             \/ pc[r] = "save" /\ pc'[r] = "upsert"
      PROVE  Home'
  BY <1>2 DEF Home, Typed, Creating, Saving, Outcomes
<1>3. ASSUME NEW r \in Requests, Fails(r, "postgres") PROVE Home'
  BY <1>2, <1>3 DEF Fails, tables, asked, ghost, marks, Typed, Outcomes
<1>4. ASSUME NEW r \in Requests, CheckDevice(r) PROVE Home'
  <2>1. CASE ~Fails(r, "postgres")
    BY <1>2, <1>4, <2>1
    DEF CheckDevice, tables, asked, ghost, marks, Typed, Outcomes
  <2> QED
    BY <1>3, <2>1
<1>5. ASSUME NEW r \in Requests, Insert(r) PROVE Home'
  <2>1. CASE device[r] \in live /\ ~Fails(r, "postgres")
    BY <1>5, <2>1, HomeCommit DEF Insert, Outcomes
  <2>2. CASE device[r] \notin live /\ ~Fails(r, "postgres")
    BY <1>2, <1>5, <2>2
    DEF Insert, tables, asked, ghost, marks, Typed, Outcomes
  <2> QED
    BY <1>3, <2>1, <2>2
<1>6. ASSUME NEW r \in Requests, Load(r) PROVE Home'
  <2>1. CASE rules[rule[r]] # None /\ ~Fails(r, "postgres")
    <3>1. /\ \A q \in Requests \ {r} : pc'[q] = pc[q] /\ loaded'[q] = loaded[q]
          /\ loaded'[r] = rules[rule[r]] /\ pc[r] = "load"
          /\ pc'[r] \in {"remove", "invalid", "save"}
          /\ UNCHANGED <<rules, rule, born>>
      BY <1>6, <2>1 DEF Load, AfterLoad, tables, asked, Typed
    <3> QED
      BY <2>1, <3>1 DEF Home, Typed, Creating, Saving, Outcomes
  <2>2. CASE rules[rule[r]] = None /\ ~Fails(r, "postgres")
    BY <1>2, <1>6, <2>2
    DEF Load, tables, asked, ghost, marks, Typed, Outcomes
  <2> QED
    BY <1>3, <2>1, <2>2
<1>7. ASSUME NEW r \in Requests, Save(r) PROVE Home'
  <2>1. CASE rules[rule[r]] # None /\ ~Fails(r, "postgres")
    BY <1>7, <2>1, SavedDevice, HomeCommit DEF Save, Saving, Outcomes
  <2>2. CASE rules[rule[r]] = None /\ ~Fails(r, "postgres")
    BY <1>2, <1>7, <2>2
    DEF Save, tables, asked, ghost, marks, Typed, Outcomes
  <2> QED
    BY <1>3, <2>1, <2>2
<1>8. ASSUME NEW r \in Requests, Upsert(r) PROVE Home'
  <2>1. CASE loaded[r].device \in live /\ ~Fails(r, "postgres")
    BY <1>8, <2>1, SavedDevice, HomeCommit DEF Upsert, Saving, Outcomes
  <2>2. CASE loaded[r].device \notin live /\ ~Fails(r, "postgres")
    BY <1>2, <1>8, <2>2
    DEF Upsert, tables, asked, ghost, marks, Typed, Outcomes
  <2> QED
    BY <1>3, <2>1, <2>2
<1>9. ASSUME NEW r \in Requests, Remove(r) PROVE Home'
  BY <1>3, <1>9, HomeCommit DEF Remove, Outcomes
<1>10. ASSUME NEW d \in Devices, DeleteDevice(d) PROVE Home'
  BY <1>10 DEF DeleteDevice, asked, Home, Typed
<1>11. CASE UNCHANGED <<rules, pc, asked, loaded, born>>
  BY <1>11 DEF asked, Home
<1> QED
  BY <1>1, <1>4, <1>5, <1>6, <1>7, <1>8, <1>9, <1>10, <1>11
  DEF Next, Step, ReviveDevice, ghost, tables, vars

-----------------------------------------------------------------------------
(* Lemma: a commit that writes nothing, or a row of a live device.          *)
LEMMA HaveDevicesCommit ==
  ASSUME Typed, RulesHaveDevices, NEW r \in Requests, NEW row,
         Commit(r, rule[r], row), row # None => row.device \in live,
         UNCHANGED live
  PROVE  RulesHaveDevices'
  BY DEF Typed, RulesHaveDevices, Commit

(* Lemma: no step leaves a rule without its device.                         *)
LEMMA HaveDevicesStep ==
  Shape /\ Home /\ RulesHaveDevices /\ [Next]_vars => RulesHaveDevices'
<1> SUFFICES ASSUME Shape, Home, RulesHaveDevices, [Next]_vars
             PROVE  RulesHaveDevices'
  OBVIOUS
<1> USE DEF Shape, TypeOK
<1>1. CASE UNCHANGED <<live, rules>>
  BY <1>1 DEF RulesHaveDevices
<1>2. ASSUME NEW r \in Requests, Insert(r) PROVE RulesHaveDevices'
  BY <1>1, <1>2, HaveDevicesCommit DEF Insert, Inserted, Fails, tables
<1>3. ASSUME NEW r \in Requests, Save(r) PROVE RulesHaveDevices'
  <2>1. CASE rules[rule[r]] # None /\ ~Fails(r, "postgres")
    <3>1. rule[r] \in Rules /\ pc[r] \in Saving
      BY <1>3 DEF Save, Saving, Typed
    <3>2. Saved(r).device \in live
      BY <2>1, <3>1, SavedDevice DEF Home, RulesHaveDevices
    <3> QED
      BY <1>3, <2>1, <3>2, HaveDevicesCommit DEF Save
  <2> QED
    BY <1>1, <1>3, <2>1 DEF Save, Fails, tables
<1>4. ASSUME NEW r \in Requests, Upsert(r) PROVE RulesHaveDevices'
  <2>1. Inserted(Saved(r)).device = loaded[r].device
    BY <1>4, SavedDevice DEF Upsert, Saving
  <2> QED
    BY <1>1, <1>4, <2>1, HaveDevicesCommit DEF Upsert, Fails, tables
<1>5. ASSUME NEW r \in Requests, Remove(r) PROVE RulesHaveDevices'
  BY <1>1, <1>5, HaveDevicesCommit DEF Remove, Fails, tables
<1>6. ASSUME NEW d \in Devices, DeleteDevice(d) PROVE RulesHaveDevices'
  BY <1>6 DEF DeleteDevice, RulesHaveDevices, Typed
<1>7. ASSUME NEW d \in Devices, ReviveDevice(d) PROVE RulesHaveDevices'
  BY <1>7 DEF ReviveDevice, RulesHaveDevices
<1> QED
  BY <1>1, <1>2, <1>3, <1>4, <1>5, <1>6, <1>7
  DEF Next, Step, Start, CheckDevice, Load, Fails, tables, vars

(* A rule never outlives its device, however creates and updates of the     *)
(* rule interleave with the deletion of the device.                         *)
THEOREM NoOrphans == Spec => []RulesHaveDevices
<1>1. Init => Home /\ RulesHaveDevices
  BY DEF Init, Home, RulesHaveDevices, Outcomes, Creating, Saving
<1> QED
  BY <1>1, ShapeInit, ShapeStep, HomeStep, HaveDevicesStep, PTL DEF Spec

-----------------------------------------------------------------------------
(* A copy about to be saved is the row, unless another commit is marked.    *)
Fresh ==
  \A r \in Requests :
    pc[r] = "save" /\ ~stale[r] => loaded[r] = rules[rule[r]]

(* A request has seen the row it finds or has loaded.                       *)
SeenOK ==
  \A r \in Requests :
    pc[r] \notin Outcomes /\ (rules[rule[r]] # None \/ pc[r] \in Saving)
      => seen[r]

Marked == Fresh /\ SeenOK

(* Lemma: a commit marks the copies it overtakes.                           *)
LEMMA MarkedCommit ==
  ASSUME Shape, Marked, NEW r \in Requests, NEW row,
         Commit(r, rule[r], row), UNCHANGED <<asked, loaded>>
  PROVE  Marked'
<1> USE DEF Shape, TypeOK, asked, Goto
<1>1. /\ \A q \in Requests \ {r} : pc'[q] = pc[q]
      /\ pc'[r] \in {"ok", "error"}
      /\ \A x \in Rules \ {rule[r]} : rules'[x] = rules[x]
      /\ rules'[rule[r]] = row
      /\ \A q \in Requests \ {r} :
           stale'[q] = (stale[q] \/ q \in About(rule[r]))
      /\ \A q \in Requests :
           seen'[q] = (seen[q] \/ (q \in About(rule[r]) /\ row # None))
  BY DEF Typed, Commit
<1>2. Fresh'
  BY <1>1 DEF Marked, Fresh, About, Typed, Outcomes
<1>3. SeenOK'
  BY <1>1 DEF Marked, SeenOK, About, Typed, Outcomes, Saving
<1> QED
  BY <1>2, <1>3 DEF Marked

(* Lemma: every step keeps the marks.                                       *)
LEMMA MarkedStep == Shape /\ Marked /\ [Next]_vars => Marked'
<1> SUFFICES ASSUME Shape, Marked, [Next]_vars PROVE Marked'
  OBVIOUS
<1> USE DEF Shape, TypeOK, Goto
<1>1. ASSUME NEW r \in Requests, NEW o \in {"create", "update", "delete"},
             NEW x \in Rules, NEW d \in Devices, NEW c \in Changes,
             Start(r, o, x, d, c)
      PROVE  Marked'
  <2>1. /\ \A q \in Requests \ {r} :
             /\ pc'[q] = pc[q] /\ rule'[q] = rule[q] /\ loaded'[q] = loaded[q]
             /\ stale'[q] = stale[q] /\ seen'[q] = seen[q]
        /\ rule'[r] = x /\ rules' = rules /\ (rules[x] # None => seen'[r])
        /\ pc'[r] \in {"check", "load"}
    BY <1>1 DEF Start, tables, Typed
  <2>2. Fresh'
    BY <2>1 DEF Marked, Fresh, Typed
  <2>3. SeenOK'
    BY <2>1 DEF Marked, SeenOK, Typed, Saving
  <2> QED
    BY <2>2, <2>3 DEF Marked
<1>2. ASSUME NEW r \in Requests,
             UNCHANGED <<rules, rule, loaded, stale, seen>>,
             \A q \in Requests \ {r} : pc'[q] = pc[q],
             \/ pc'[r] \in Outcomes
             \/ pc[r] = "check" /\ pc'[r] = "insert"
             \/ pc[r] = "save" /\ pc'[r] = "upsert"
      PROVE  Marked'
  BY <1>2 DEF Marked, Fresh, SeenOK, Typed, Saving, Outcomes
<1>3. ASSUME NEW r \in Requests, Fails(r, "postgres") PROVE Marked'
  BY <1>2, <1>3 DEF Fails, tables, asked, ghost, marks, Typed, Outcomes
<1>4. ASSUME NEW r \in Requests, CheckDevice(r) PROVE Marked'
  <2>1. CASE ~Fails(r, "postgres")
    BY <1>2, <1>4, <2>1
    DEF CheckDevice, tables, asked, ghost, marks, Typed, Outcomes
  <2> QED
    BY <1>3, <2>1
<1>5. ASSUME NEW r \in Requests, Insert(r) PROVE Marked'
  <2>1. CASE device[r] \in live /\ ~Fails(r, "postgres")
    BY <1>5, <2>1, MarkedCommit DEF Insert
  <2>2. CASE device[r] \notin live /\ ~Fails(r, "postgres")
    BY <1>2, <1>5, <2>2
    DEF Insert, tables, asked, ghost, marks, Typed, Outcomes
  <2> QED
    BY <1>3, <2>1, <2>2
<1>6. ASSUME NEW r \in Requests, Load(r) PROVE Marked'
  <2>1. CASE rules[rule[r]] # None /\ ~Fails(r, "postgres")
    <3>1. /\ \A q \in Requests \ {r} :
               pc'[q] = pc[q] /\ loaded'[q] = loaded[q] /\ stale'[q] = stale[q]
          /\ loaded'[r] = rules[rule[r]] /\ pc[r] = "load"
          /\ UNCHANGED <<rules, rule, seen>>
      BY <1>6, <2>1 DEF Load, tables, asked, Typed
    <3> QED
      BY <2>1, <3>1 DEF Marked, Fresh, SeenOK, Typed, Saving, Outcomes
  <2>2. CASE rules[rule[r]] = None /\ ~Fails(r, "postgres")
    BY <1>2, <1>6, <2>2
    DEF Load, tables, asked, ghost, marks, Typed, Outcomes
  <2> QED
    BY <1>3, <2>1, <2>2
<1>7. ASSUME NEW r \in Requests, Save(r) PROVE Marked'
  <2>1. CASE rules[rule[r]] # None /\ ~Fails(r, "postgres")
    BY <1>7, <2>1, MarkedCommit DEF Save
  <2>2. CASE rules[rule[r]] = None /\ ~Fails(r, "postgres")
    BY <1>2, <1>7, <2>2
    DEF Save, tables, asked, ghost, marks, Typed, Outcomes
  <2> QED
    BY <1>3, <2>1, <2>2
<1>8. ASSUME NEW r \in Requests, Upsert(r) PROVE Marked'
  <2>1. CASE loaded[r].device \in live /\ ~Fails(r, "postgres")
    BY <1>8, <2>1, MarkedCommit DEF Upsert
  <2>2. CASE loaded[r].device \notin live /\ ~Fails(r, "postgres")
    BY <1>2, <1>8, <2>2
    DEF Upsert, tables, asked, ghost, marks, Typed, Outcomes
  <2> QED
    BY <1>3, <2>1, <2>2
<1>9. ASSUME NEW r \in Requests, Remove(r) PROVE Marked'
  BY <1>3, <1>9, MarkedCommit DEF Remove
<1>10. ASSUME NEW d \in Devices, DeleteDevice(d) PROVE Marked'
  BY <1>10 DEF DeleteDevice, asked, About, Marked, Fresh, SeenOK, Typed,
               Outcomes
<1>11. CASE UNCHANGED <<rules, pc, rule, loaded, stale, seen>>
  BY <1>11 DEF Marked, Fresh, SeenOK
<1> QED
  BY <1>1, <1>4, <1>5, <1>6, <1>7, <1>8, <1>9, <1>10, <1>11
  DEF Next, Step, ReviveDevice, asked, ghost, marks, tables, vars

(* What ChangesKept says of one rule.                                       *)
Kept(x) ==
  rules[x] # None =>
    /\ rules[x].device = said[x].device
    /\ "setting" \notin lost[x] => rules[x].setting = said[x].setting
    /\ "enabled" \notin lost[x] =>
         rules[x].enabled = IF defaulted[x] THEN TRUE ELSE said[x].enabled

(* Lemma: a step that leaves ChangesKept true, given the marks.             *)
LEMMA ChangesKeptStep ==
  Shape /\ Home /\ Marked /\ ChangesKept /\ [Next]_vars => ChangesKept'
<1> SUFFICES ASSUME Shape, Home, Marked, \A x \in Rules : Kept(x), [Next]_vars
             PROVE  \A x \in Rules : Kept(x)'
  BY DEF ChangesKept, Kept
<1> USE DEF Shape, TypeOK
<1>1. CASE UNCHANGED <<rules, said, lost, defaulted>>
  BY <1>1 DEF Kept
<1>2. ASSUME NEW r \in Requests, NEW row, NEW x \in Rules, Commit(r, x, row),
             \A y \in Rules \ {x} :
               said'[y] = said[y] /\ lost'[y] = lost[y] /\ defaulted'[y] = defaulted[y],
             Kept(x)'
      PROVE  \A y \in Rules : Kept(y)'
  BY <1>2 DEF Commit, Typed, Kept
<1>3. ASSUME NEW r \in Requests, Fails(r, "postgres")
      PROVE  \A x \in Rules : Kept(x)'
  BY <1>1, <1>3 DEF Fails, tables, ghost, marks
<1>4. ASSUME NEW r \in Requests, Insert(r)
      PROVE  \A x \in Rules : Kept(x)'
  <2> DEFINE row == [device  |-> device[r],
                     enabled |-> changes[r].enabled,
                     setting |-> changes[r].setting]
  <2>1. CASE device[r] \in live /\ ~Fails(r, "postgres")
    <3>0. PICK x \in Rules : x = rule[r]
      BY DEF Typed
    <3>1. /\ row.enabled \in BOOLEAN
          /\ said' = [said EXCEPT ![x] = row]
          /\ lost' = [lost EXCEPT ![x] = {}]
          /\ defaulted' = [defaulted EXCEPT ![x] = ~row.enabled]
          /\ Commit(r, x, Inserted(row))
      BY <3>0, <1>4, <2>1 DEF Insert, Typed, LocalsOK, Changes
    <3>2. rules'[x] = Inserted(row)
      BY <3>0, <3>1 DEF Commit, Typed
    <3>3. /\ Inserted(row).device = row.device
          /\ Inserted(row).setting = row.setting
          /\ Inserted(row).enabled = TRUE
      BY DEF Inserted
    <3> HIDE DEF row
    <3>4. said'[x] = row /\ defaulted'[x] = ~row.enabled
      BY <3>0, <3>1 DEF Typed
    <3>5. Kept(x)'
      BY <3>0, <3>1, <3>2, <3>3, <3>4 DEF Kept
    <3> QED
      BY <3>0, <1>2, <3>1, <3>5 DEF Typed
  <2> QED
    BY <1>1, <1>3, <1>4, <2>1 DEF Insert, tables, ghost, marks
<1>5. ASSUME NEW r \in Requests, pc[r] \in Saving
      PROVE  /\ rule[r] \in Rules /\ changes[r] \in Changes
             /\ loaded[r] \in Row /\ Saved(r) \in Row
             /\ changes[r].setting # Invalid
  BY <1>5, ApplyRow DEF Saved, Saving, LocalsOK, Typed
<1>6. ASSUME NEW r \in Requests, Save(r)
      PROVE  \A x \in Rules : Kept(x)'
  <2>1. CASE rules[rule[r]] # None /\ ~Fails(r, "postgres")
    <3> DEFINE c == changes[r]
    <3>0. PICK x \in Rules : x = rule[r]
      BY DEF Typed
    <3>1. /\ said' = [said EXCEPT ![x] = Apply(c, @)]
          /\ lost' = [lost EXCEPT ![x] =
               (IF stale[r] THEN Fields ELSE @) \ Named(c)]
          /\ defaulted' = [defaulted EXCEPT ![x] = @ /\ "enabled" \notin Named(c)]
          /\ Commit(r, x, Saved(r))
          /\ pc[r] = "save"
      BY <3>0, <1>6, <2>1 DEF Save
    <3>2. /\ c \in Changes /\ loaded[r] \in Row
          /\ Saved(r) \in Row /\ said[x] \in Row /\ rules[x] \in Row
      BY <3>0, <1>5, <2>1, <3>1 DEF Saving, CallsOK, Typed
    <3>3. rules'[x] = Saved(r) /\ said'[x] = Apply(c, said[x])
      BY <3>0, <3>1, <3>2 DEF Commit, Typed
    <3>4. /\ lost'[x] = (IF stale[r] THEN Fields ELSE lost[x]) \ Named(c)
          /\ defaulted'[x] = (defaulted[x] /\ "enabled" \notin Named(c))
      BY <3>0, <3>1, <3>2 DEF Typed
    <3>5. rules[x].device = loaded[r].device /\ Kept(x)
      BY <3>0, <2>1, <3>1, <3>2 DEF Home, Saving
    <3>6. ~stale[r] => loaded[r] = rules[x]
      BY <3>0, <3>1 DEF Marked, Fresh
    <3>7. /\ "enabled" \in Named(c) <=> c.enabled # None
          /\ "setting" \in Named(c) <=> c.setting # None
      BY DEF Named, Fields
    <3> HIDE DEF c
    <3>8. Saved(r) = Apply(c, loaded[r])
      BY DEF Saved, c
    <3>9. /\ rules'[x].device = loaded[r].device
          /\ said'[x].device = said[x].device
      BY <3>0, <3>2, <3>3, <3>8 DEF Apply, Row
    <3>10. ASSUME "setting" \notin lost'[x]
           PROVE  rules'[x].setting = said'[x].setting
      <4>1. CASE c.setting # None
        BY <3>0, <3>2, <3>3, <3>8, <4>1 DEF Apply, Row
      <4>2. CASE c.setting = None
        <5>1. ~stale[r] /\ "setting" \notin lost[x]
          BY <3>0, <3>4, <3>7, <3>10, <4>2 DEF Fields
        <5> QED
          BY <3>0, <2>1, <3>2, <3>3, <3>5, <3>6, <3>8, <4>2, <5>1 DEF Apply, Row, Kept
      <4> QED
        BY <4>1, <4>2
    <3>11. ASSUME "enabled" \notin lost'[x]
           PROVE  rules'[x].enabled =
                    IF defaulted'[x] THEN TRUE ELSE said'[x].enabled
      <4>1. CASE c.enabled # None
        BY <3>0, <3>2, <3>3, <3>4, <3>7, <3>8, <4>1 DEF Apply, Row
      <4>2. CASE c.enabled = None
        <5>1. ~stale[r] /\ "enabled" \notin lost[x]
          BY <3>0, <3>4, <3>7, <3>11, <4>2 DEF Fields
        <5>2. defaulted'[x] = defaulted[x]
          BY <3>0, <3>2, <3>4, <3>7, <4>2 DEF Typed
        <5>3. /\ rules'[x].enabled = rules[x].enabled
              /\ said'[x].enabled = said[x].enabled
          BY <3>0, <3>2, <3>3, <3>6, <3>8, <4>2, <5>1 DEF Apply, Row
        <5> QED
          BY <3>0, <2>1, <3>5, <5>1, <5>2, <5>3 DEF Kept
      <4> QED
        BY <4>1, <4>2
    <3>12. Kept(x)'
      BY <3>0, <3>5, <2>1, <3>9, <3>10, <3>11 DEF Kept
    <3> QED
      BY <3>0, <1>2, <3>1, <3>2, <3>12 DEF Typed
  <2> QED
    BY <1>1, <1>3, <1>6, <2>1 DEF Save, tables, ghost, marks
<1>7. ASSUME NEW r \in Requests, Upsert(r)
      PROVE  \A x \in Rules : Kept(x)'
  <2>1. CASE loaded[r].device \in live /\ ~Fails(r, "postgres")
    <3>0. PICK x \in Rules : x = rule[r]
      BY DEF Typed
    <3>1. /\ said' = [said EXCEPT ![x] = Saved(r)]
          /\ lost' = [lost EXCEPT ![x] = Fields \ Named(changes[r])]
          /\ defaulted' = [defaulted EXCEPT ![x] = ~Saved(r).enabled]
          /\ Commit(r, x, Inserted(Saved(r)))
          /\ Saved(r) \in Row
      BY <3>0, <1>5, <1>7, <2>1 DEF Upsert, Saving
    <3>2. /\ rules'[x] = Inserted(Saved(r)) /\ said'[x] = Saved(r)
          /\ defaulted'[x] = ~Saved(r).enabled
          /\ Saved(r).enabled \in BOOLEAN
      BY <3>0, <3>1 DEF Commit, Typed, Row
    <3>3. /\ Inserted(Saved(r)).device = Saved(r).device
          /\ Inserted(Saved(r)).setting = Saved(r).setting
          /\ Inserted(Saved(r)).enabled = TRUE
      BY <3>0, <3>1 DEF Inserted, Row
    <3>4. Kept(x)'
      BY <3>0, <3>2, <3>3 DEF Kept
    <3> QED
      BY <3>0, <1>2, <3>1, <3>4 DEF Typed
  <2> QED
    BY <1>1, <1>3, <1>7, <2>1 DEF Upsert, tables, ghost, marks
<1>8. ASSUME NEW r \in Requests, Remove(r)
      PROVE  \A x \in Rules : Kept(x)'
  <2>1. CASE ~Fails(r, "postgres")
    <3>0. PICK x \in Rules : x = rule[r]
      BY DEF Typed
    <3>1. /\ Commit(r, x, None)
          /\ \A y \in Rules \ {x} :
               said'[y] = said[y] /\ lost'[y] = lost[y] /\ defaulted'[y] = defaulted[y]
      BY <3>0, <1>8, <2>1 DEF Remove, Typed
    <3>2. Kept(x)'
      BY <3>0, <3>1 DEF Commit, Kept, Typed
    <3> QED
      BY <3>0, <1>2, <3>1, <3>2
  <2> QED
    BY <1>3, <2>1
<1>9. ASSUME NEW d \in Devices, DeleteDevice(d)
      PROVE  \A x \in Rules : Kept(x)'
  BY <1>9 DEF DeleteDevice, Typed, Kept
<1> QED
  BY <1>1, <1>4, <1>6, <1>7, <1>8, <1>9
  DEF Next, Step, Start, CheckDevice, Load, ReviveDevice, Fails, tables,
      ghost, marks, vars

Strong == Shape /\ Home /\ Marked

(* Lemma: the strengthened invariant holds always.                          *)
LEMMA StrongAlways == Spec => []Strong
<1>1. Init => Home /\ Marked
  BY DEF Init, Home, Marked, Fresh, SeenOK, Outcomes, Creating, Saving
<1> QED
  BY <1>1, ShapeInit, ShapeStep, HomeStep, MarkedStep, PTL DEF Spec, Strong

(* Every field of a rule is what the last committed request that named it   *)
(* asked for, unless a save wrote the field from a copy read before another *)
(* commit, or it is the switch that GORM's default turned on in an insert.  *)
THEOREM NothingLost == Spec => []ChangesKept
<1>1. Init => ChangesKept
  BY DEF Init, ChangesKept
<1>2. Strong /\ ChangesKept /\ [Next]_vars => ChangesKept'
  BY ChangesKeptStep DEF Strong
<1> QED
  BY <1>1, <1>2, StrongAlways, PTL DEF Spec

(* A deleted rule comes back only through an update that ran while it still *)
(* existed.                                                                 *)
THEOREM NoRevival == Spec => NoLateRevival
<1> DEFINE A == \A x \in Rules :
       rules[x] = None /\ rules'[x] # None
         => \E r \in Requests :
              /\ rule[r] = x
              /\ pc[r] = "insert" \/ (pc[r] = "upsert" /\ seen[r])
<1>1. Strong /\ [Next]_vars => [A]_vars
  <2> SUFFICES ASSUME Strong, Next, NEW x \in Rules,
                      rules[x] = None, rules'[x] # None
               PROVE  \E r \in Requests :
                        /\ rule[r] = x
                        /\ pc[r] = "insert" \/ (pc[r] = "upsert" /\ seen[r])
    OBVIOUS
  <2>1. PICK r \in Requests : Step(r)
    BY DEF Next, Start, DeleteDevice, ReviveDevice, tables, Strong, Shape,
           TypeOK, Typed
  <2>2. rule[r] = x /\ pc[r] \in {"insert", "upsert"}
    BY <2>1 DEF Step, CheckDevice, Insert, Load, Save, Upsert, Remove, Commit,
                Fails, tables, Strong, Shape, TypeOK, Typed
  <2>3. pc[r] = "upsert" => seen[r]
    BY DEF Strong, Marked, SeenOK, Saving, Outcomes
  <2> QED
    BY <2>2, <2>3
<1> QED
  BY <1>1, StrongAlways, PTL DEF Spec, NoLateRevival
-----------------------------------------------------------------------------
(* Requests about different rules                                          *)

(* Requests about the same rule come one after the other.                  *)
NoOverlap ==
  \A q, r \in Requests :
    q # r /\ rule[q] = rule[r] => pc[q] \in Outcomes \/ pc[r] \in Outcomes

(* A device is deleted only while no request about one of its rules runs.  *)
InUse(d) ==
  \E r \in Requests : /\ pc[r] \notin Outcomes
                      /\ rules[rule[r]] # None
                      /\ rules[rule[r]].device = d
CalmDeletions == [][\A d \in Devices : DeleteDevice(d) => ~InUse(d)]_vars

(* No copy is overtaken by a commit, and no save finds its row gone.       *)
Unmarked ==
  /\ \A r \in Requests : stale[r] = FALSE /\ pc[r] # "upsert"
  /\ \A x \in Rules : lost[x] = {}

(* Every rule is what the committed requests asked for, but for the switch *)
(* of one that was inserted as disabled: GORM's default turned it on, and  *)
(* no request has named it since.                                          *)
RowsAsAsked ==
  \A x \in Rules : rules[x] # None =>
    rules[x] = [said[x] EXCEPT !.enabled = IF defaulted[x] THEN TRUE ELSE @]

(* Lemma: without overlap no step of a request marks a copy or a row.      *)
LEMMA UnmarkedStep ==
  ASSUME Strong, NoOverlap, Unmarked, NEW r \in Requests, Step(r)
  PROVE  Unmarked'
<1> USE DEF Strong, Shape, TypeOK, Typed, Unmarked, Outcomes, Goto, tables,
        asked, ghost, marks
<1>1. ASSUME NEW row, Commit(r, rule[r], row),
             pc[r] \in {"insert", "save", "remove"}
      PROVE  /\ \A q \in Requests : stale'[q] = FALSE
             /\ \A q \in Requests : pc'[q] # "upsert"
  BY <1>1 DEF Commit, NoOverlap, About
<1>2. ASSUME UNCHANGED <<stale, lost>>, NEW l, l # "upsert", Goto(r, l)
      PROVE  Unmarked'
  BY <1>2
<1>3. ASSUME NEW f, Fails(r, f)
      PROVE  Unmarked'
  BY <1>2, <1>3 DEF Fails
<1>4. CASE CheckDevice(r)
  <2>1. CASE \E l \in {"notFound", "invalid", "insert"} : Goto(r, l)
             /\ UNCHANGED <<stale, lost>>
    BY <1>2, <2>1
  <2> QED
    BY <1>3, <1>4, <2>1 DEF CheckDevice
<1>5. CASE Insert(r)
  <2>1. ASSUME NEW row, Commit(r, rule[r], row),
               lost' = [lost EXCEPT ![rule[r]] = {}]
        PROVE  Unmarked'
    BY <1>1, <1>5, <2>1 DEF Insert
  <2> QED
    BY <1>2, <1>3, <1>5, <2>1 DEF Insert
<1>6. CASE Load(r)
  <2>1. AfterLoad(r) # "upsert"
    BY DEF AfterLoad
  <2>2. ASSUME stale' = [stale EXCEPT ![r] = FALSE], UNCHANGED lost,
               Goto(r, AfterLoad(r))
        PROVE  Unmarked'
    BY <2>1, <2>2
  <2> QED
    BY <1>2, <1>3, <1>6, <2>2 DEF Load
<1>7. CASE Save(r)
  <2>1. rules[rule[r]] # None
    BY <1>7 DEF Save, Marked, Fresh, LocalsOK
  <2>2. ASSUME Commit(r, rule[r], Saved(r)),
               lost' = [lost EXCEPT ![rule[r]] =
                 (IF stale[r] THEN Fields ELSE @) \ Named(changes[r])]
        PROVE  Unmarked'
    BY <1>1, <1>7, <2>2 DEF Save
  <2> QED
    BY <1>3, <1>7, <2>1, <2>2 DEF Save
<1>8. ~Upsert(r)
  BY DEF Upsert
<1>9. CASE Remove(r)
  <2>1. ASSUME Commit(r, rule[r], None),
               lost' = [lost EXCEPT ![rule[r]] = {}]
        PROVE  Unmarked'
    BY <1>1, <1>9, <2>1 DEF Remove
  <2> QED
    BY <1>3, <1>9, <2>1 DEF Remove
<1> QED
  BY <1>4, <1>5, <1>6, <1>7, <1>8, <1>9 DEF Step

(* Lemma: nor does any other step, when deletions of devices keep away.    *)
LEMMA UnmarkedNext ==
  ASSUME Strong, NoOverlap, Unmarked, [Next]_vars,
         [\A d \in Devices : DeleteDevice(d) => ~InUse(d)]_vars
  PROVE  Unmarked'
<1> USE DEF Strong, Shape, TypeOK, Typed, Unmarked, Outcomes, Goto, tables,
        asked, ghost, marks
<1>1. ASSUME NEW r \in Requests, NEW o, NEW x, NEW d, NEW c, Start(r, o, x, d, c)
      PROVE  Unmarked'
  BY <1>1 DEF Start
<1>2. ASSUME NEW r \in Requests, Step(r)
      PROVE  Unmarked'
  BY <1>2, UnmarkedStep
<1>3. ASSUME NEW d \in Devices, DeleteDevice(d)
      PROVE  Unmarked'
  <2>1. writes' # writes
    BY <1>3 DEF DeleteDevice
  <2>2. ~InUse(d)
    BY <1>3, <2>1 DEF vars
  <2>3. \A q \in Requests : stale'[q] = FALSE
    BY <1>3, <2>2 DEF DeleteDevice, InUse, About
  <2>4. \A x \in Rules : lost'[x] = {}
    BY <1>3 DEF DeleteDevice
  <2> QED
    BY <1>3, <2>3, <2>4 DEF DeleteDevice
<1>4. ASSUME NEW d \in Devices, ReviveDevice(d)
      PROVE  Unmarked'
  BY <1>4 DEF ReviveDevice
<1>5. CASE UNCHANGED vars
  BY <1>5 DEF vars
<1> QED
  BY <1>1, <1>2, <1>3, <1>4, <1>5 DEF Next

(* Only requests about one rule that overlap, or the deletion of its       *)
(* device under one, can undo a change: without them every rule is what    *)
(* the committed requests asked for, but for the switch of a rule that was *)
(* inserted as disabled.                                                   *)
THEOREM NoOverlapNoLoss == Spec /\ []NoOverlap /\ CalmDeletions => []RowsAsAsked
<1>1. Init => Unmarked
  BY DEF Init, Unmarked
<1>2. Strong /\ NoOverlap /\ Unmarked /\ [Next]_vars
      /\ [\A d \in Devices : DeleteDevice(d) => ~InUse(d)]_vars => Unmarked'
  BY UnmarkedNext
<1>3. Shape /\ Unmarked /\ ChangesKept => RowsAsAsked
  <2> SUFFICES ASSUME Shape, Unmarked, ChangesKept, NEW x \in Rules,
                      rules[x] # None
               PROVE  rules[x] =
                 [said[x] EXCEPT !.enabled = IF defaulted[x] THEN TRUE ELSE @]
    BY DEF RowsAsAsked
  <2>1. rules[x] \in Row /\ said[x] \in Row
    BY DEF Shape, TypeOK, Typed, CallsOK
  <2> QED
    BY <2>1 DEF ChangesKept, Unmarked, Row
<1>4. Strong => Shape
  BY DEF Strong
<1> QED
  BY <1>1, <1>2, <1>3, <1>4, StrongAlways, NothingLost, PTL DEF Spec, CalmDeletions
=============================================================================
