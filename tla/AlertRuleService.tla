--------------------------- MODULE AlertRuleService ---------------------------
(***************************************************************************)
(* Alert rules in PostgreSQL: Create, Update and Delete of the service, one *)
(* action per call to a repository, beside the deletion of their devices.   *)
(* An update loads a row, changes fields of the copy and saves all of it.   *)
(*                                                                          *)
(* Metric, operator, threshold and severity are one field, the setting.     *)
(***************************************************************************)
EXTENDS Naturals

CONSTANTS
  Devices,
  Rules,       \* ids of rules
  Settings,    \* settings that pass the validation
  Invalid,     \* one that does not
  Requests,
  Faults,      \* "postgres": calls fail; "ack": commits whose answer is lost
  MaxWrites,   \* bound on the commits
  None

ASSUME ConstantsAssumption ==
  /\ Devices # {} /\ Rules # {} /\ Settings # {}
  /\ Invalid \notin Settings
  /\ None \notin Settings \cup {Invalid} \cup BOOLEAN
  /\ MaxWrites \in Nat

Row     == [device : Devices, enabled : BOOLEAN, setting : Settings]
Fields  == {"enabled", "setting"}
Changes == [enabled : BOOLEAN \cup {None},
            setting : Settings \cup {Invalid, None}]

ASSUME RowAssumption == None \notin Row

VARIABLES
  live,     \* rows of devices
  rules,    \* rows of alert_rules
  pc,       \* of each request: its next call, or its outcome
  op,       \* its operation
  rule,     \* the id it is about
  device,   \* the device a create names
  changes,  \* the fields it names
  loaded,   \* the row it has read
  writes,   \* commits so far
  born,     \* history: ids that have been drawn
  said,     \* history: each row as the committed requests asked for it
  stale,    \* history: the row of a request changed after it was read
  seen,     \* history: the row existed while the request ran
  lost,     \* history: fields that a save wrote from an older copy
  defaulted \* history: the switch is the default of an insert that was asked
            \* to store FALSE

tables == <<live, rules, writes>>
asked  == <<op, rule, device, changes>>
marks  == <<lost, defaulted>>
ghost  == <<born, said, stale, seen, marks>>
vars   == <<tables, pc, asked, loaded, ghost>>

Outcomes == {"idle", "ok", "notFound", "invalid", "error"}
Places   == {"check", "insert", "load", "save", "upsert", "remove"}

Goto(r, l) == pc' = [pc EXCEPT ![r] = l]
About(x)   == {q \in Requests : rule[q] = x /\ pc[q] \notin Outcomes}

Named(c)   == {f \in Fields : c[f] # None}

(* The changes of a request applied to a row.                               *)
Apply(c, row) ==
  [row EXCEPT !.enabled = IF c.enabled = None THEN @ ELSE c.enabled,
              !.setting = IF c.setting = None THEN @ ELSE c.setting]

Saved_SkipsZeros(r) ==
  Apply([changes[r] EXCEPT !.enabled = IF @ = FALSE THEN None ELSE @],
        loaded[r])
Saved(r) == Apply(changes[r], loaded[r])

(* GORM inserts the default of a column, here true, for a zero value.       *)
Inserted(row) == [row EXCEPT !.enabled = TRUE]

(* A commit to the rule x: its row becomes row.                             *)
Commit(r, x, row) ==
  /\ writes < MaxWrites /\ writes' = writes + 1
  /\ rules' = [rules EXCEPT ![x] = row]
  /\ stale' = [q \in Requests |-> stale[q] \/ (q # r /\ q \in About(x))]
  /\ seen'  = [q \in Requests |-> seen[q] \/ (q \in About(x) /\ row # None)]
  /\ Goto(r, "ok") \/ ("ack" \in Faults /\ Goto(r, "error"))

Fails(r, fault) ==
  /\ fault \in Faults
  /\ Goto(r, "error")
  /\ UNCHANGED <<tables, asked, loaded, ghost>>

-----------------------------------------------------------------------------
Init ==
  /\ live = Devices
  /\ rules = [x \in Rules |-> None]
  /\ pc = [r \in Requests |-> "idle"]
  /\ op = [r \in Requests |-> "create"]
  /\ rule = [r \in Requests |-> CHOOSE x \in Rules : TRUE]
  /\ device = [r \in Requests |-> CHOOSE d \in Devices : TRUE]
  /\ changes = [r \in Requests |-> [enabled |-> None, setting |-> None]]
  /\ loaded = [r \in Requests |-> None]
  /\ writes = 0
  /\ born = {}
  /\ said = [x \in Rules |-> None]
  /\ stale = [r \in Requests |-> FALSE]
  /\ seen = [r \in Requests |-> FALSE]
  /\ lost = [x \in Rules |-> {}]
  /\ defaulted = [x \in Rules |-> FALSE]

(* A request arrives.  PostgreSQL draws the id of a new rule; clients know  *)
(* only ids that were drawn.  A create names every field.                   *)
Start(r, o, x, d, c) ==
  /\ pc[r] \in Outcomes
  /\ IF o = "create"
       THEN /\ x \notin born /\ born' = born \cup {x}
            /\ c.enabled # None /\ c.setting # None
       ELSE x \in born /\ UNCHANGED born
  /\ o = "delete" => c = [enabled |-> None, setting |-> None]
  /\ op' = [op EXCEPT ![r] = o]
  /\ rule' = [rule EXCEPT ![r] = x]
  /\ device' = [device EXCEPT ![r] = d]
  /\ changes' = [changes EXCEPT ![r] = c]
  /\ loaded' = [loaded EXCEPT ![r] = None]
  /\ stale' = [stale EXCEPT ![r] = FALSE]
  /\ seen' = [seen EXCEPT ![r] = rules[x] # None]
  /\ Goto(r, IF o = "create" THEN "check" ELSE "load")
  /\ UNCHANGED <<tables, said, marks>>

(* Create: the device, then the operator and the severity                   *)
CheckDevice(r) ==
  /\ pc[r] = "check"
  /\ \/ /\ device[r] \notin live
        /\ Goto(r, "notFound")
        /\ UNCHANGED <<tables, asked, loaded, ghost>>
     \/ /\ device[r] \in live
        /\ Goto(r, IF changes[r].setting = Invalid THEN "invalid" ELSE "insert")
        /\ UNCHANGED <<tables, asked, loaded, ghost>>
     \/ Fails(r, "postgres")

(* The foreign key refuses a device that was deleted after the check.       *)
Insert(r) ==
  /\ pc[r] = "insert"
  /\ LET x   == rule[r]
         row == [device  |-> device[r],
                 enabled |-> changes[r].enabled,
                 setting |-> changes[r].setting]
     IN  \/ /\ device[r] \in live
            /\ Commit(r, x, Inserted(row))
            /\ said' = [said EXCEPT ![x] = row]
            /\ lost' = [lost EXCEPT ![x] = {}]
            /\ defaulted' = [defaulted EXCEPT ![x] = ~row.enabled]
            /\ UNCHANGED <<live, asked, loaded, born>>
         \/ /\ device[r] \notin live
            /\ Goto(r, "error")
            /\ UNCHANGED <<tables, asked, loaded, ghost>>
         \/ Fails(r, "postgres")

AfterLoad_NoValidation(r) == IF op[r] = "delete" THEN "remove" ELSE "save"
AfterLoad(r) ==
  CASE op[r] = "delete"             -> "remove"
    [] changes[r].setting = Invalid -> "invalid"
    [] OTHER                        -> "save"

Load_ForgetsMissing(r) ==
  /\ pc[r] = "load"
  /\ loaded' = [loaded EXCEPT ![r] =
       IF rules[rule[r]] # None THEN rules[rule[r]]
       ELSE [device |-> device[r], enabled |-> FALSE,
             setting |-> CHOOSE s \in Settings : TRUE]]
  /\ stale' = [stale EXCEPT ![r] = FALSE]
  /\ Goto(r, AfterLoad(r))
  /\ UNCHANGED <<tables, asked, born, said, seen, marks>>

(* Update and Delete: the row                                               *)
Load(r) ==
  /\ pc[r] = "load"
  /\ \/ /\ rules[rule[r]] # None
        /\ loaded' = [loaded EXCEPT ![r] = rules[rule[r]]]
        /\ stale' = [stale EXCEPT ![r] = FALSE]
        /\ Goto(r, AfterLoad(r))
        /\ UNCHANGED <<tables, asked, born, said, seen, marks>>
     \/ /\ rules[rule[r]] = None
        /\ Goto(r, "notFound")
        /\ UNCHANGED <<tables, asked, loaded, ghost>>
     \/ Fails(r, "postgres")

(* Save: an UPDATE of every column by id; when it hits no row, GORM goes on *)
(* with an INSERT that updates every column on a conflict.                  *)
Save(r) ==
  /\ pc[r] = "save"
  /\ LET x == rule[r]
     IN  \/ /\ rules[x] # None
            /\ Commit(r, x, Saved(r))
            /\ said' = [said EXCEPT ![x] = Apply(changes[r], @)]
            /\ lost' = [lost EXCEPT ![x] =
                 (IF stale[r] THEN Fields ELSE @) \ Named(changes[r])]
            /\ defaulted' = [defaulted EXCEPT ![x] =
                 @ /\ "enabled" \notin Named(changes[r])]
            /\ UNCHANGED <<live, asked, loaded, born>>
         \/ /\ rules[x] = None
            /\ Goto(r, "upsert")
            /\ UNCHANGED <<tables, asked, loaded, ghost>>
         \/ Fails(r, "postgres")

Upsert_NoForeignKey(r) ==
  /\ pc[r] = "upsert"
  /\ LET x == rule[r]
     IN  /\ Commit(r, x, Inserted(Saved(r)))
         /\ said' = [said EXCEPT ![x] = Saved(r)]
         /\ lost' = [lost EXCEPT ![x] = Fields \ Named(changes[r])]
         /\ defaulted' = [defaulted EXCEPT ![x] = ~Saved(r).enabled]
         /\ UNCHANGED <<live, asked, loaded, born>>

Upsert(r) ==
  /\ pc[r] = "upsert"
  /\ LET x == rule[r]
     IN  \/ /\ loaded[r].device \in live
            /\ Commit(r, x, Inserted(Saved(r)))
            /\ said' = [said EXCEPT ![x] = Saved(r)]
            /\ lost' = [lost EXCEPT ![x] = Fields \ Named(changes[r])]
            /\ defaulted' = [defaulted EXCEPT ![x] = ~Saved(r).enabled]
            /\ UNCHANGED <<live, asked, loaded, born>>
         \/ /\ loaded[r].device \notin live
            /\ Goto(r, "error")
            /\ UNCHANGED <<tables, asked, loaded, ghost>>
         \/ Fails(r, "postgres")

(* DELETE by id, which may hit no row.                                      *)
Remove(r) ==
  /\ pc[r] = "remove"
  /\ \/ /\ Commit(r, rule[r], None)
        /\ said' = [said EXCEPT ![rule[r]] = None]
        /\ lost' = [lost EXCEPT ![rule[r]] = {}]
        /\ defaulted' = [defaulted EXCEPT ![rule[r]] = FALSE]
        /\ UNCHANGED <<live, asked, loaded, born>>
     \/ Fails(r, "postgres")

-----------------------------------------------------------------------------
(* The device service deletes a device, and with it, by the foreign key,    *)
(* its rules.                                                               *)
DeleteDevice(d) ==
  /\ d \in live /\ writes < MaxWrites
  /\ live' = live \ {d}
  /\ writes' = writes + 1
  /\ LET gone == {x \in Rules : rules[x] # None /\ rules[x].device = d}
     IN  /\ rules' = [x \in Rules |-> IF x \in gone THEN None ELSE rules[x]]
         /\ said' = [x \in Rules |-> IF x \in gone THEN None ELSE said[x]]
         /\ lost' = [x \in Rules |-> IF x \in gone THEN {} ELSE lost[x]]
         /\ defaulted' = [x \in Rules |-> defaulted[x] /\ x \notin gone]
         /\ stale' = [q \in Requests |->
                        stale[q] \/ \E x \in gone : q \in About(x)]
  /\ UNCHANGED <<pc, asked, loaded, born, seen>>

(* A device update that loaded the device before inserts it again.          *)
ReviveDevice(d) ==
  /\ d \notin live /\ writes < MaxWrites
  /\ live' = live \cup {d}
  /\ writes' = writes + 1
  /\ UNCHANGED <<rules, pc, asked, loaded, ghost>>

Step(r) ==
  \/ CheckDevice(r) \/ Insert(r)
  \/ Load(r) \/ Save(r) \/ Upsert(r) \/ Remove(r)

Next ==
  \/ \E r \in Requests, o \in {"create", "update", "delete"},
        x \in Rules, d \in Devices, c \in Changes : Start(r, o, x, d, c)
  \/ \E r \in Requests : Step(r)
  \/ \E d \in Devices : DeleteDevice(d) \/ ReviveDevice(d)

Spec == Init /\ [][Next]_vars
-----------------------------------------------------------------------------
(* Properties                                                               *)

Typed ==
  /\ live \in SUBSET Devices
  /\ rules \in [Rules -> Row \cup {None}]
  /\ pc \in [Requests -> Outcomes \cup Places]
  /\ op \in [Requests -> {"create", "update", "delete"}]
  /\ rule \in [Requests -> Rules]
  /\ device \in [Requests -> Devices]
  /\ changes \in [Requests -> Changes]
  /\ loaded \in [Requests -> Row \cup {None}]
  /\ writes \in 0..MaxWrites
  /\ born \in SUBSET Rules
  /\ said \in [Rules -> Row \cup {None}]
  /\ stale \in [Requests -> BOOLEAN]
  /\ seen \in [Requests -> BOOLEAN]
  /\ lost \in [Rules -> SUBSET Fields]
  /\ defaulted \in [Rules -> BOOLEAN]

(* What a call relies on: validated fields, and a row that was read.        *)
LocalsOK ==
  \A r \in Requests :
    /\ pc[r] \in {"insert", "save", "upsert"} => changes[r].setting # Invalid
    /\ pc[r] = "insert" => changes[r].enabled # None /\ changes[r].setting # None
    /\ pc[r] \in {"save", "upsert"} => loaded[r] # None

(* Type invariant: rows hold validated settings only, and no row is saved   *)
(* that was not read.                                                       *)
TypeOK == Typed /\ LocalsOK

(* A rule never outlives its device, although a create has checked it, or   *)
(* an update has read the rule, before the device was deleted.              *)
RulesHaveDevices ==
  \A x \in Rules : rules[x] # None => rules[x].device \in live

(* Every field of a rule is what the last committed request that named it   *)
(* asked for, with two exceptions: a save wrote the field from a copy read  *)
(* before another commit; or it is the switch, asked for as off, but the    *)
(* rule was inserted and GORM's default turned it on.                       *)
ChangesKept ==
  \A x \in Rules : rules[x] # None =>
    /\ rules[x].device = said[x].device
    /\ "setting" \notin lost[x] => rules[x].setting = said[x].setting
    /\ "enabled" \notin lost[x] =>
         rules[x].enabled = IF defaulted[x] THEN TRUE ELSE said[x].enabled

(* A deleted rule comes back only through an update that ran while it still *)
(* existed; one that begins afterwards finds nothing to save.               *)
NoLateRevival ==
  [][\A x \in Rules :
       rules[x] = None /\ rules'[x] # None
         => \E r \in Requests :
              /\ rule[r] = x
              /\ pc[r] = "insert" \/ (pc[r] = "upsert" /\ seen[r])]_vars

(* A rule is created as the request asks: disabled when it says so.         *)
CreatedAsAsked ==
  [][\A r \in Requests :
       pc[r] = "insert" /\ pc'[r] = "ok"
         => rules'[rule[r]].enabled = changes[r].enabled]_vars
=============================================================================
