------------------------------ MODULE Telemetry ------------------------------
(***************************************************************************)
(* The telemetry of one device: the ingest pipeline (BatchInsert) through   *)
(* PostgreSQL, ScyllaDB and KeyDB, the latest points that ingests and       *)
(* FindByID both write to KeyDB, DeleteByRange, alert events and their      *)
(* acknowledgement, and the deletion of the device beside all of them.      *)
(* Every call to a store is one step; no step is part of a transaction.     *)
(*                                                                          *)
(* A point is one entry in the list of a request, of one metric: what a     *)
(* sender repeats, in one list or in two, are two points of one time.  A    *)
(* rule's setting is a severity and the points that breach it.  Counters    *)
(* (alert:count) are present or missing.  Left out are their numbers, the   *)
(* window and zones of QueryLatest (TelemetryReads), the TTLs of the tables *)
(* (90 days, events a year), the month in the key of an event, and the      *)
(* operations that only read.                                               *)
(***************************************************************************)
EXTENDS Naturals, FiniteSets

CONSTANTS
  Points,      \* the points devices send, each in one request
  At,          \* recorded_at of each
  DayOf,       \* the day bucket of each
  ChunkSize,   \* points per unlogged batch (100 in the code)
  Rules,       \* alert rules of the device
  Settings,    \* what a rule may say
  Breaches,    \* the points that breach a rule of each setting
  Severities,
  SeverityOf,  \* the severity of each setting
  Requests,    \* request goroutines
  Operations,  \* the operations clients call
  Faults,      \* stores whose calls may fail; "skippedDay", "crash"
  None

Times  == {At[p] : p \in Points}
Alerts == Rules \X Points
Tries  == Rules \X Points \X Settings
Events == Rules \X Times

ASSUME ConstantsAssumption ==
  /\ At \in [Points -> Nat] /\ DayOf \in [Points -> Nat]
  /\ ChunkSize \in Nat \ {0}
  /\ Breaches \in [Settings -> SUBSET Points]
  /\ SeverityOf \in [Settings -> Severities]
  /\ Operations \subseteq {"ingest", "find", "range", "delete"}
  /\ None \notin Times \cup Tries \cup Settings \cup Severities

VARIABLES
  live,      \* PostgreSQL: the device's row exists
  copy,      \* KeyDB device:{id} holds the device
  rule,      \* PostgreSQL: the setting of each rule, None if disabled
  stored,    \* ScyllaDB: the points whose row is in the table
  events,    \* ScyllaDB alert_events, by primary key
  latest,    \* KeyDB telemetry:latest:{id}: its newest point, or None
  online,    \* KeyDB device:online:{id} is present
  counted,   \* KeyDB alert:count:{id}:{severity}: those present
  op, pc,    \* of each request: its operation, its next call or its outcome
  left,      \* the points of a batch or range not yet written or wiped
  batch,     \* the points of an ingest
  got,       \* the newest point a request has read
  todo,      \* the alerts an ingest has still to raise, with their settings
  alert,     \* the one it has just stored
  sent,      \* history: the points that were sent
  excused    \* history: alerts that a failure or a rule change may have lost

stores == <<live, copy, rule, stored, events, latest, online, counted>>
local  == <<op, left, batch, got, todo, alert>>
ghost  == <<sent, excused>>
vars   == <<stores, pc, local, ghost>>

Outcomes == {"idle", "ok", "notFound", "error", "partial"}
Places   == {"check", "chunk", "heartbeat", "newest", "publish", "rules",
             "alert", "count", "wipe", "remove", "clear",
             "copy", "row", "fill", "peek"}

Event == [status : {"none", "open", "acked", "bare"},
          severity : Severities \cup {None}]

KeyOf(a)   == <<a[1], At[a[2]]>>
AlertOf(a) == <<a[1], a[2]>>
Opened(a)  == [events EXCEPT ![KeyOf(a)] =
                 [status |-> "open", severity |-> SeverityOf[a[3]]]]
Raised(k)  == events[k].status \in {"open", "acked"}

IsNewest(t, S) == (\E p \in S : At[p] = t) /\ (\A p \in S : At[p] <= t)
AlertsOf(S)    == {a \in Alerts : a[2] \in S}

Goto(r, l) == pc' = [pc EXCEPT ![r] = l]

-----------------------------------------------------------------------------
Init ==
  /\ live = TRUE /\ copy = FALSE
  /\ rule \in [Rules -> Settings \cup {None}]
  /\ stored = {}
  /\ events = [k \in Events |-> [status |-> "none", severity |-> None]]
  /\ latest = None /\ online = FALSE /\ counted = {}
  /\ op = [r \in Requests |-> "find"]
  /\ pc = [r \in Requests |-> "idle"]
  /\ left = [r \in Requests |-> {}]
  /\ batch = [r \in Requests |-> {}]
  /\ got = [r \in Requests |-> None]
  /\ todo = [r \in Requests |-> {}]
  /\ alert = [r \in Requests |-> None]
  /\ sent = {}
  /\ excused = {}

(* Points of one row: a range deletes both or none.                         *)
SameRow(p, q) == At[p] = At[q] /\ DayOf[p] = DayOf[q]

(* A request arrives, with the points it sends or the range it deletes.     *)
(* An empty list of points passes the binding of the handler.               *)
Start(r, o, S) ==
  /\ pc[r] \in Outcomes
  /\ o \in {"find", "delete"} => S = {}
  /\ o = "ingest" => S \cap sent = {}
  /\ o = "range" => \A p \in S, q \in Points : SameRow(p, q) => q \in S
  /\ op' = [op EXCEPT ![r] = o]
  /\ left' = [left EXCEPT ![r] = S]
  /\ batch' = [batch EXCEPT ![r] = IF o = "ingest" THEN S ELSE {}]
  /\ got' = [got EXCEPT ![r] = None]
  /\ todo' = [todo EXCEPT ![r] = {}]
  /\ alert' = [alert EXCEPT ![r] = None]
  /\ sent' = IF o = "ingest" THEN sent \cup S ELSE sent
  /\ Goto(r, IF o = "find" THEN "copy" ELSE "check")
  /\ UNCHANGED <<stores, excused>>

AfterCheck(r) ==
  CASE op[r] = "delete" -> "remove"
    [] op[r] = "range"  -> IF left[r] = {} THEN "ok" ELSE "wipe"
    [] OTHER            -> IF left[r] = {} THEN "heartbeat" ELSE "chunk"

(* deviceRepo.FindByID, before anything is written                          *)
CheckDevice(r) ==
  /\ pc[r] = "check"
  /\ \/ live /\ Goto(r, AfterCheck(r))
     \/ ~live /\ Goto(r, "notFound")
     \/ "postgres" \in Faults /\ Goto(r, "error")
  /\ UNCHANGED <<stores, local, ghost>>

-----------------------------------------------------------------------------
(* BatchInsert                                                              *)

Chunks(S) ==
  {c \in SUBSET S : IF Cardinality(S) <= ChunkSize
                      THEN c = S ELSE Cardinality(c) = ChunkSize}

WriteChunk_GoesOn(r) ==
  /\ pc[r] = "chunk"
  /\ \E c \in Chunks(left[r]) :
       /\ \/ stored' = stored \cup c
          \/ "scylla" \in Faults /\ \E w \in SUBSET c : stored' = stored \cup w
       /\ left' = [left EXCEPT ![r] = @ \ c]
       /\ Goto(r, IF left[r] = c THEN "heartbeat" ELSE "chunk")
  /\ UNCHANGED <<live, copy, rule, events, latest, online, counted,
                 op, batch, got, todo, alert, ghost>>

(* One unlogged batch of the points; one that fails may be written in part, *)
(* and ends the request with what earlier chunks wrote in place.            *)
WriteChunk(r) ==
  /\ pc[r] = "chunk"
  /\ \E c \in Chunks(left[r]) :
       \/ /\ stored' = stored \cup c
          /\ left' = [left EXCEPT ![r] = @ \ c]
          /\ Goto(r, IF left[r] = c THEN "heartbeat" ELSE "chunk")
          /\ UNCHANGED <<batch, excused>>
       \/ /\ "scylla" \in Faults
          /\ \E w \in SUBSET c : stored' = stored \cup w
          /\ left' = [left EXCEPT ![r] = {}]
          /\ batch' = [batch EXCEPT ![r] = {}]
          /\ excused' = excused \cup AlertsOf(batch[r])
          /\ Goto(r, "error")
  /\ UNCHANGED <<live, copy, rule, events, latest, online, counted,
                 op, got, todo, alert, sent>>

(* SetOnlineStatus; the result is ignored.                                  *)
Heartbeat(r) ==
  /\ pc[r] = "heartbeat"
  /\ \/ online' = TRUE
     \/ "cache" \in Faults /\ UNCHANGED online
  /\ Goto(r, "newest")
  /\ UNCHANGED <<live, copy, rule, stored, events, latest, counted,
                 local, ghost>>

AfterLatest(r) == IF op[r] = "ingest" THEN "rules" ELSE "ok"

ReadNewest_PublishesNothing(r) ==
  /\ pc[r] = "newest"
  /\ \/ \E t \in Times : IsNewest(t, stored) /\ got' = [got EXCEPT ![r] = t]
     \/ stored = {} /\ UNCHANGED got
  /\ Goto(r, "publish")
  /\ UNCHANGED <<stores, op, left, batch, todo, alert, ghost>>

(* QueryLatest reads the days one by one and drops their errors: with a day *)
(* that failed it returns the newest point of the others.                   *)
ReadNewest(r) ==
  /\ pc[r] = "newest"
  /\ \E S \in SUBSET stored :
       /\ S = stored \/ "skippedDay" \in Faults
       /\ \/ /\ \E t \in Times : IsNewest(t, S) /\ got' = [got EXCEPT ![r] = t]
             /\ Goto(r, "publish")
          \/ /\ S = {}
             /\ Goto(r, AfterLatest(r))
             /\ UNCHANGED got
  /\ UNCHANGED <<stores, op, left, batch, todo, alert, ghost>>

(* SetLatestTelemetry; the result is ignored.                               *)
Publish(r) ==
  /\ pc[r] = "publish"
  /\ \/ latest' = got[r]
     \/ "cache" \in Faults /\ UNCHANGED latest
  /\ got' = [got EXCEPT ![r] = None]
  /\ Goto(r, AfterLatest(r))
  /\ UNCHANGED <<live, copy, rule, stored, events, online, counted,
                 op, left, batch, todo, alert, ghost>>

NextAlert(r, rest) == Goto(r, IF rest = {} THEN "ok" ELSE "alert")

(* The enabled rules of the device, each against each point of the list, a  *)
(* repeated one again.  A failure ends the request although its points are  *)
(* stored.                                                                  *)
FindRules(r) ==
  /\ pc[r] = "rules"
  /\ \/ LET due == {a \in Tries : /\ a[3] = rule[a[1]]
                                  /\ a[2] \in batch[r] \cap Breaches[a[3]]}
        IN  /\ todo' = [todo EXCEPT ![r] = due]
            /\ NextAlert(r, due)
            /\ UNCHANGED excused
     \/ /\ "postgres" \in Faults
        /\ excused' = excused \cup AlertsOf(batch[r])
        /\ Goto(r, "error")
        /\ UNCHANGED todo
  /\ batch' = [batch EXCEPT ![r] = {}]
  /\ UNCHANGED <<stores, op, left, got, alert, sent>>

RaiseAlert_StopsAfterError(r) ==
  /\ pc[r] = "alert"
  /\ \E a \in todo[r] :
       \/ /\ events' = Opened(a)
          /\ alert' = [alert EXCEPT ![r] = a]
          /\ todo' = [todo EXCEPT ![r] = @ \ {a}]
          /\ Goto(r, "count")
          /\ UNCHANGED excused
       \/ /\ "scylla" \in Faults
          /\ excused' = excused \cup {AlertOf(a)}
          /\ todo' = [todo EXCEPT ![r] = {}]
          /\ Goto(r, "ok")
          /\ UNCHANGED <<events, alert>>
  /\ UNCHANGED <<live, copy, rule, stored, latest, online, counted,
                 op, left, batch, got, sent>>

RaiseAlert_CountsAnyway(r) ==
  /\ pc[r] = "alert"
  /\ \E a \in todo[r] :
       /\ \/ events' = Opened(a) /\ UNCHANGED excused
          \/ /\ "scylla" \in Faults
             /\ excused' = excused \cup {AlertOf(a)}
             /\ UNCHANGED events
       /\ alert' = [alert EXCEPT ![r] = a]
       /\ todo' = [todo EXCEPT ![r] = @ \ {a}]
       /\ Goto(r, "count")
  /\ UNCHANGED <<live, copy, rule, stored, latest, online, counted,
                 op, left, batch, got, sent>>

RaiseAlert_TriesAgain(r) ==
  /\ pc[r] = "alert"
  /\ \E a \in todo[r] :
       /\ events' = Opened(a)
       /\ \/ /\ alert' = [alert EXCEPT ![r] = a]
             /\ todo' = [todo EXCEPT ![r] = @ \ {a}]
             /\ Goto(r, "count")
          \/ /\ "scylla" \in Faults
             /\ UNCHANGED <<alert, todo, pc>>
  /\ UNCHANGED <<live, copy, rule, stored, latest, online, counted,
                 op, left, batch, got, ghost>>

(* alertRepo.Insert, an upsert by primary key: it opens the event again.    *)
(* An error is only logged, and the request goes on with the next alert.    *)
RaiseAlert(r) ==
  /\ pc[r] = "alert"
  /\ \E a \in todo[r] :
       /\ todo' = [todo EXCEPT ![r] = @ \ {a}]
       /\ \/ /\ events' = Opened(a)
             /\ alert' = [alert EXCEPT ![r] = a]
             /\ Goto(r, "count")
             /\ UNCHANGED excused
          \/ /\ "scylla" \in Faults
             /\ \/ events' = Opened(a)
                \/ UNCHANGED events
             /\ excused' = excused \cup {AlertOf(a)}
             /\ NextAlert(r, todo[r] \ {a})
             /\ UNCHANGED alert
  /\ UNCHANGED <<live, copy, rule, stored, latest, online, counted,
                 op, left, batch, got, sent>>

(* IncrAlertCount, only for an alert that was stored; the result is ignored. *)
CountAlert(r) ==
  /\ pc[r] = "count"
  /\ \/ counted' = counted \cup {SeverityOf[alert[r][3]]}
     \/ "cache" \in Faults /\ UNCHANGED counted
  /\ alert' = [alert EXCEPT ![r] = None]
  /\ NextAlert(r, todo[r])
  /\ UNCHANGED <<live, copy, rule, stored, events, latest, online,
                 op, left, batch, got, todo, ghost>>

-----------------------------------------------------------------------------
(* FindByID, as far as attachLatestTelemetry needs it.  Updates of the row,  *)
(* the marker of a missing device and the flights are in DeviceService.     *)

GetCopy(r) ==
  /\ pc[r] = "copy"
  /\ \/ copy /\ Goto(r, "peek")
     \/ (~copy \/ "cache" \in Faults) /\ Goto(r, "row")
  /\ UNCHANGED <<stores, local, ghost>>

ReadRow_IgnoresMissing(r) ==
  /\ pc[r] = "row"
  /\ Goto(r, "fill")
  /\ UNCHANGED <<stores, local, ghost>>

(* The row, or the answer of a flight that has read it.                     *)
ReadRow(r) ==
  /\ pc[r] = "row"
  /\ \/ live /\ Goto(r, "fill")
     \/ (\E q \in Requests : pc[q] = "fill") /\ Goto(r, "peek")
     \/ ~live /\ Goto(r, "notFound")
     \/ "postgres" \in Faults /\ Goto(r, "error")
  /\ UNCHANGED <<stores, local, ghost>>

FillCopy(r) ==
  /\ pc[r] = "fill"
  /\ \/ copy' = TRUE
     \/ "cache" \in Faults /\ UNCHANGED copy
  /\ Goto(r, "peek")
  /\ UNCHANGED <<live, rule, stored, events, latest, online, counted,
                 local, ghost>>

(* The latest points from KeyDB; on a miss they are queried and written.    *)
PeekLatest(r) ==
  /\ pc[r] = "peek"
  /\ \/ latest # None /\ Goto(r, "ok")
     \/ (latest = None \/ "cache" \in Faults) /\ Goto(r, "newest")
  /\ UNCHANGED <<stores, local, ghost>>

-----------------------------------------------------------------------------
(* DeleteByRange: one DELETE per day, oldest first.  No key is invalidated. *)
WipeDay(r) ==
  /\ pc[r] = "wipe"
  /\ LET day  == {p \in left[r] : \A q \in left[r] : DayOf[p] <= DayOf[q]}
         rest == left[r] \ day
     IN  \/ /\ stored' = stored \ day
            /\ left' = [left EXCEPT ![r] = rest]
            /\ Goto(r, IF rest = {} THEN "ok" ELSE "wipe")
         \/ /\ "scylla" \in Faults
            /\ stored' \in {stored, stored \ day}
            /\ left' = [left EXCEPT ![r] = {}]
            /\ Goto(r, "error")
  /\ UNCHANGED <<live, copy, rule, events, latest, online, counted,
                 op, batch, got, todo, alert, ghost>>

(* Delete of the device: the foreign key removes its rules; the points and  *)
(* events stay.                                                             *)
RemoveRow(r) ==
  /\ pc[r] = "remove"
  /\ \/ /\ live' = FALSE
        /\ rule' = [x \in Rules |-> None]
        /\ excused' = Alerts
        /\ Goto(r, "clear") \/ ("postgres" \in Faults /\ Goto(r, "error"))
     \/ /\ "postgres" \in Faults
        /\ Goto(r, "error")
        /\ UNCHANGED <<live, rule, excused>>
  /\ UNCHANGED <<copy, stored, events, latest, online, counted, local, sent>>

(* InvalidateDeviceAll: one DEL of the device's keys.                       *)
ClearKeys(r) ==
  /\ pc[r] = "clear"
  /\ \/ /\ copy' = FALSE /\ latest' = None /\ online' = FALSE
        /\ counted' = {}
        /\ Goto(r, "ok")
     \/ /\ "cache" \in Faults
        /\ Goto(r, "partial")
        /\ UNCHANGED <<copy, latest, online, counted>>
  /\ UNCHANGED <<live, rule, stored, events, local, ghost>>

-----------------------------------------------------------------------------
(* AcknowledgeAlertEvent: an UPDATE by primary key, which in ScyllaDB       *)
(* writes a bare row when there is none.                                    *)
Acknowledge(k) ==
  /\ events' = [events EXCEPT ![k] =
       [@ EXCEPT !.status = IF Raised(k) THEN "acked" ELSE "bare"]]
  /\ events' # events
  /\ UNCHANGED <<live, copy, rule, stored, latest, online, counted,
                 pc, local, ghost>>

(* The alert rule service enables, disables or changes a rule: alerts of    *)
(* the points sent before are judged by either setting.                     *)
ChangeRule(x) ==
  /\ live
  /\ \E s \in Settings \cup {None} : rule' = [rule EXCEPT ![x] = s]
  /\ excused' = excused \cup ({x} \X sent)
  /\ UNCHANGED <<live, copy, stored, events, latest, online, counted,
                 pc, local, sent>>

ExpireCopy ==
  /\ copy /\ copy' = FALSE
  /\ UNCHANGED <<live, rule, stored, events, latest, online, counted,
                 pc, local, ghost>>
ExpireLatest_NoTTL ==
  /\ FALSE
  /\ UNCHANGED vars
ExpireLatest ==
  /\ latest # None /\ latest' = None
  /\ UNCHANGED <<live, copy, rule, stored, events, online, counted,
                 pc, local, ghost>>
ExpireOnline ==
  /\ online /\ online' = FALSE
  /\ UNCHANGED <<live, copy, rule, stored, events, latest, counted,
                 pc, local, ghost>>
ExpireCount(s) ==
  /\ s \in counted /\ counted' = counted \ {s}
  /\ UNCHANGED <<live, copy, rule, stored, events, latest, online,
                 pc, local, ghost>>

(* The process dies with its requests.                                      *)
Crash ==
  /\ "crash" \in Faults
  /\ \E r \in Requests : pc[r] \notin Outcomes
  /\ LET running == {r \in Requests : pc[r] \notin Outcomes}
     IN  excused' = excused \cup
           UNION {AlertsOf(batch[r]) \cup {AlertOf(a) : a \in todo[r]} : r \in running}
  /\ pc' = [r \in Requests |-> "idle"]
  /\ left' = [r \in Requests |-> {}]
  /\ batch' = [r \in Requests |-> {}]
  /\ got' = [r \in Requests |-> None]
  /\ todo' = [r \in Requests |-> {}]
  /\ alert' = [r \in Requests |-> None]
  /\ UNCHANGED <<stores, op, sent>>

Step(r) ==
  \/ CheckDevice(r)
  \/ WriteChunk(r) \/ Heartbeat(r) \/ ReadNewest(r) \/ Publish(r)
  \/ FindRules(r) \/ RaiseAlert(r) \/ CountAlert(r)
  \/ GetCopy(r) \/ ReadRow(r) \/ FillCopy(r) \/ PeekLatest(r)
  \/ WipeDay(r) \/ RemoveRow(r) \/ ClearKeys(r)

Next ==
  \/ \E r \in Requests, o \in Operations, S \in SUBSET Points : Start(r, o, S)
  \/ \E r \in Requests : Step(r)
  \/ \E k \in Events : Acknowledge(k)
  \/ \E x \in Rules : ChangeRule(x)
  \/ ExpireCopy \/ ExpireLatest \/ ExpireOnline
  \/ \E s \in Severities : ExpireCount(s)
  \/ Crash

Spec == Init /\ [][Next]_vars

(* Goroutines are scheduled; the clients of ScyllaDB and KeyDB give up on a *)
(* call after a time, a call to PostgreSQL may wait for ever.  These keys   *)
(* are always set with a TTL; a counter is not: INCR and EXPIRE are two     *)
(* commands.                                                                *)
PostgresCalls == {"check", "rules", "row", "remove"}
FairSpec ==
  /\ Spec
  /\ \A r \in Requests : WF_vars(pc[r] \notin PostgresCalls /\ Step(r))
  /\ WF_vars(ExpireCopy) /\ WF_vars(ExpireLatest) /\ WF_vars(ExpireOnline)
-----------------------------------------------------------------------------
(* Properties                                                               *)

Typed ==
  /\ live \in BOOLEAN /\ copy \in BOOLEAN /\ online \in BOOLEAN
  /\ rule \in [Rules -> Settings \cup {None}]
  /\ stored \in SUBSET Points
  /\ events \in [Events -> Event]
  /\ latest \in Times \cup {None}
  /\ counted \in SUBSET Severities
  /\ op \in [Requests -> {"ingest", "find", "range", "delete"}]
  /\ pc \in [Requests -> Outcomes \cup Places]
  /\ left \in [Requests -> SUBSET Points]
  /\ batch \in [Requests -> SUBSET Points]
  /\ got \in [Requests -> Times \cup {None}]
  /\ todo \in [Requests -> SUBSET Tries]
  /\ alert \in [Requests -> Tries \cup {None}]
  /\ sent \in SUBSET Points
  /\ excused \in SUBSET Alerts

(* What a request has read or stored, where the code relies on it.          *)
LocalsOK ==
  \A r \in Requests :
    /\ pc[r] = "publish" => got[r] \in Times
    /\ pc[r] = "count" => alert[r] \in Tries
    /\ pc[r] \in {"chunk", "wipe"} => left[r] # {}
    /\ pc[r] = "alert" => todo[r] # {}

(* Type invariant: every variable has its type; SetLatestTelemetry never    *)
(* stores an empty result, and an alert is counted only once it has a key.  *)
TypeOK == Typed /\ LocalsOK

(* An ingest that will still come to the alert a.                           *)
WillRaise(r, a) ==
  /\ op[r] = "ingest"
  /\ \/ /\ pc[r] \in {"chunk", "heartbeat", "newest", "publish", "rules"}
        /\ a[2] \in batch[r]
     \/ pc[r] \in {"alert", "count"} /\ \E b \in todo[r] : AlertOf(b) = a

(* A stored point that breaches an enabled rule has its event, or an ingest *)
(* is still on the way to raise it, or a failed call, a crash or a change   *)
(* of that rule came in between (BatchInsert stores points before it looks  *)
(* at the rules, and swallows the errors of alerts).                        *)
AlertsComplete ==
  \A x \in Rules, p \in stored :
    /\ rule[x] # None
    /\ p \in Breaches[rule[x]]
    /\ <<x, p>> \notin excused
    => Raised(<<x, At[p]>>) \/ \E r \in Requests : WillRaise(r, <<x, p>>)

(* A point of this time was sent twice, in one list or in two.              *)
Redelivered(t) == \E p, q \in sent : p # q /\ At[p] = t /\ At[q] = t

(* The status of a device counts no alert of a severity without an event in *)
(* ScyllaDB that was stored with it: one that has it still, or one that was *)
(* written over when its point came again after a change of its rule        *)
(* (INSERT writes the severity of now, which is not in the key).  Events    *)
(* live a year, a counter that missed its EXPIRE may live longer.           *)
EventOf(k, s) == Raised(k) /\ (events[k].severity = s \/ Redelivered(k[2]))
CountNeedsEvent == \A s \in counted : \E k \in Events : EventOf(k, s)

(* An acknowledged event is opened again only if its point was sent twice,  *)
(* by another list or by a repetition in the same one.                      *)
ReopenedOnlyByRedelivery ==
  [][\A k \in Events :
       events[k].status = "acked" /\ events'[k].status = "open"
         => Redelivered(k[2])]_vars

(* A deleted device whose keys are cleared, when the requests that had seen *)
(* it are through, gets none of them back: whoever comes later, or read     *)
(* its row in vain, writes no copy, mark, point or counter of it.           *)
Forgotten ==
  /\ ~live /\ ~copy /\ ~online /\ latest = None /\ counted = {}
  /\ \A r \in Requests :
       pc[r] \in Outcomes \cup {"check", "copy", "row", "wipe", "remove", "clear"}
ForgottenForGood == [][Forgotten => Forgotten']_vars

(* The calls before a request: ingests go through all stages but the first  *)
(* two, and stay at one while it has points or alerts left.                 *)
StagesLeft ==
  [check |-> 8, chunk |-> 7, heartbeat |-> 6, newest |-> 4, publish |-> 3,
   rules |-> 2, alert |-> 1, count |-> 1, wipe |-> 7, remove |-> 7, clear |-> 6,
   copy |-> 8, row |-> 7, fill |-> 6, peek |-> 5]
StrictSubset(S, T) == S \subseteq T /\ S # T

(* Every call of a request brings it nearer to its answer, whatever fails:  *)
(* no chunk, day or alert is tried twice, and no step of others sends it    *)
(* back (the loops of BatchInsert, DeleteByRange and the alerts).           *)
RequestsAdvance ==
  [][\A r \in Requests : pc[r] \in Places =>
       \/ pc'[r] \in Outcomes
       \/ pc'[r] = pc[r] /\ ~Step(r)
       \/ /\ pc'[r] \in Places
          /\ \/ StagesLeft[pc'[r]] < StagesLeft[pc[r]]
             \/ /\ StagesLeft[pc'[r]] = StagesLeft[pc[r]]
                /\ \/ StrictSubset(left'[r], left[r])
                   \/ StrictSubset(todo'[r], todo[r])
                   \/ pc[r] = "count" /\ pc'[r] = "alert" /\ todo'[r] = todo[r]]_vars

(* Ingests, with their chunks, failures and whatever runs beside them, keep *)
(* the promises of AlertLog: no point is compared with a rule before the    *)
(* whole batch is stored, and no event opens that was not due.              *)
Ingesting(r) ==
  op[r] = "ingest" /\ pc[r] \in {"check", "chunk", "heartbeat", "newest", "publish", "rules"}
Unmatched == [r \in Requests |-> IF Ingesting(r) THEN batch[r] ELSE {}]
Unstored ==
  [r \in Requests |->
     IF Ingesting(r) /\ pc[r] \in {"check", "chunk"} THEN left[r] ELSE {}]
Log == INSTANCE AlertLog WITH batch <- Unmatched, missing <- Unstored, due <- todo
ImplementsLog == Log!Spec

(* When no more points come, the cached latest point is the newest stored   *)
(* one for good, or missing, in spite of late writes and DeleteByRange.     *)
LatestConverges ==
  <>[](latest # None => IsNewest(latest, stored))

(* The copy, online mark and latest point of a deleted device vanish for    *)
(* good, although a FindByID or an ingest that saw the device may write     *)
(* them after the cleanup.                                                  *)
GoneKeysVanish ==
  <>[](~live => ~copy /\ ~online /\ latest = None)
=============================================================================
