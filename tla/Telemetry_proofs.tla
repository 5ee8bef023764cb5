-------------------------- MODULE Telemetry_proofs --------------------------
(***************************************************************************)
(* Proofs about Telemetry, for every set of points, rules, settings and     *)
(* requests and every subset of the failures; and about what TelemetryReads *)
(* says of its points, for all zones and lengths of a day.                  *)
(***************************************************************************)
EXTENDS TelemetryReads, FiniteSetTheorems, WellFoundedInduction, TLAPS

(* A request is at calls of its own operation, and has still to write only  *)
(* points of its batch.                                                     *)
CallsOK ==
  \A r \in Requests :
    /\ pc[r] \in {"chunk", "heartbeat", "rules", "alert", "count"}
         => op[r] = "ingest"
    /\ pc[r] = "check" => op[r] # "find"
    /\ pc[r] \in {"copy", "row", "fill", "peek"} => op[r] = "find"
    /\ pc[r] \in {"check", "chunk"} /\ op[r] = "ingest"
         => left[r] \subseteq batch[r]

Shape == TypeOK /\ CallsOK

-----------------------------------------------------------------------------
(* Lemma: opening the event of an alert changes that event only.            *)
LEMMA OpenedEvent ==
  ASSUME events \in [Events -> Event], NEW a \in Tries
  PROVE  /\ KeyOf(a) \in Events /\ AlertOf(a) \in Alerts
         /\ Opened(a) \in [Events -> Event]
         /\ Opened(a)[KeyOf(a)].status = "open"
         /\ Opened(a)[KeyOf(a)].severity = SeverityOf[a[3]]
         /\ \A k \in Events \ {KeyOf(a)} : Opened(a)[k] = events[k]
<1>1. a[1] \in Rules /\ a[2] \in Points /\ a[3] \in Settings
  BY DEF Tries
<1>2. At[a[2]] \in Times /\ SeverityOf[a[3]] \in Severities
  BY <1>1, ConstantsAssumption DEF Times
<1>3. KeyOf(a) \in Events /\ AlertOf(a) \in Alerts
  BY <1>1, <1>2 DEF KeyOf, AlertOf, Events, Alerts
<1>4. [status |-> "open", severity |-> SeverityOf[a[3]]] \in Event
  BY <1>2 DEF Event
<1> QED
  BY <1>3, <1>4 DEF Opened

(* Lemma: an acknowledgement keeps the severity of an event.                *)
LEMMA AckedEvent ==
  ASSUME events \in [Events -> Event], NEW k \in Events, Acknowledge(k)
  PROVE  /\ events' \in [Events -> Event]
         /\ \A j \in Events :
              /\ events'[j].severity = events[j].severity
              /\ events'[j].status \in {"open", "acked"}
                   <=> events[j].status \in {"open", "acked"}
              /\ events'[j].status = "open" => events[j].status = "open"
<1> DEFINE s == IF events[k].status \in {"open", "acked"} THEN "acked" ELSE "bare"
           e == [events[k] EXCEPT !.status = s]
<1>1. events' = [events EXCEPT ![k] = e]
  BY DEF Acknowledge, Raised
<1>2. s \in {"acked", "bare"} /\ (s = "acked" <=> events[k].status \in {"open", "acked"})
  OBVIOUS
<1> HIDE DEF s
<1>3. e \in Event /\ e.severity = events[k].severity /\ e.status = s
  BY <1>2 DEF Event
<1> HIDE DEF e
<1>4. events' \in [Events -> Event]
  BY <1>1, <1>3
<1>5. \A j \in Events \ {k} : events'[j] = events[j]
  BY <1>1
<1>6. events'[k] = e
  BY <1>1
<1> QED
  BY <1>2, <1>3, <1>4, <1>5, <1>6

(* Lemma: the types and the shape hold at the start.                        *)
LEMMA ShapeInit == Init => Shape
<1> SUFFICES ASSUME Init PROVE Shape
  OBVIOUS
<1> USE ConstantsAssumption DEF Init, Outcomes, Places
<1>1. Typed
  BY DEF Typed, Event
<1>2. LocalsOK /\ CallsOK
  BY DEF LocalsOK, CallsOK
<1> QED
  BY <1>1, <1>2 DEF Shape, TypeOK

(* Lemma: a step of a request keeps the types and the shape.                *)
LEMMA ShapeStep ==
  ASSUME Shape, NEW r \in Requests, Step(r)
  PROVE  Shape'
<1> USE ConstantsAssumption DEF Shape, TypeOK, Typed, LocalsOK, CallsOK,
        Outcomes, Places, Goto, stores, local, ghost
<1>1. CASE CheckDevice(r)
  <2>1. AfterCheck(r) \in {"remove", "ok", "wipe", "heartbeat", "chunk"}
    BY DEF AfterCheck
  <2>2. /\ AfterCheck(r) = "wipe" => left[r] # {}
        /\ AfterCheck(r) \in {"heartbeat", "chunk"} => op[r] = "ingest"
        /\ AfterCheck(r) = "chunk" => left[r] # {}
    BY <1>1 DEF AfterCheck, CheckDevice
  <2> QED
    BY <1>1, <2>1, <2>2 DEF CheckDevice
<1>2. CASE WriteChunk(r)
  <2>1. PICK c \in SUBSET left[r] :
          \/ /\ stored' = stored \cup c
             /\ left' = [left EXCEPT ![r] = @ \ c]
             /\ Goto(r, IF left[r] = c THEN "heartbeat" ELSE "chunk")
             /\ UNCHANGED <<batch, excused>>
          \/ /\ \E w \in SUBSET c : stored' = stored \cup w
             /\ left' = [left EXCEPT ![r] = {}]
             /\ batch' = [batch EXCEPT ![r] = {}]
             /\ excused' = excused \cup AlertsOf(batch[r])
             /\ Goto(r, "error")
    BY <1>2 DEF WriteChunk, Chunks
  <2>2. /\ pc[r] = "chunk"
        /\ UNCHANGED <<live, copy, rule, events, latest, online, counted,
                       op, got, todo, alert, sent>>
    BY <1>2 DEF WriteChunk
  <2>3. stored' \in SUBSET Points
    BY <2>1, c \in SUBSET Points
  <2>4. left' \in [Requests -> SUBSET Points]
    BY <2>1
  <2>5. /\ batch' \in [Requests -> SUBSET Points]
        /\ pc' \in [Requests -> Outcomes \cup Places]
    BY <2>1
  <2>6. excused' \in SUBSET Alerts
    BY <2>1 DEF AlertsOf
  <2>7. Typed'
    BY <2>2, <2>3, <2>4, <2>5, <2>6
  <2>8. left[r] # c => left[r] \ c # {}
    OBVIOUS
  <2>9. LocalsOK'
    BY <2>1, <2>2, <2>8
  <2>10. CallsOK'
    BY <2>1, <2>2
  <2> QED
    BY <2>7, <2>9, <2>10
<1>3. CASE Heartbeat(r)
  BY <1>3 DEF Heartbeat
<1>4. CASE ReadNewest(r)
  BY <1>4 DEF ReadNewest, AfterLatest
<1>5. CASE Publish(r)
  BY <1>5 DEF Publish, AfterLatest
<1>6. CASE FindRules(r)
  BY <1>6 DEF FindRules, NextAlert, AlertsOf
<1>7. CASE RaiseAlert(r)
  <2>1. PICK a \in todo[r] :
          /\ todo' = [todo EXCEPT ![r] = @ \ {a}]
          /\ events' \in {events, Opened(a)}
          /\ excused' \in {excused, excused \cup {AlertOf(a)}}
          /\ \/ alert' = [alert EXCEPT ![r] = a] /\ Goto(r, "count")
             \/ UNCHANGED alert /\ NextAlert(r, todo[r] \ {a})
    BY <1>7 DEF RaiseAlert
  <2>2. a \in Tries
    OBVIOUS
  <2>3. events' \in [Events -> Event] /\ excused' \in SUBSET Alerts
    BY <2>1, <2>2, OpenedEvent
  <2>4. UNCHANGED <<live, copy, rule, stored, latest, online, counted,
                    op, left, batch, got, sent>>
    BY <1>7 DEF RaiseAlert
  <2>5. /\ todo' \in [Requests -> SUBSET Tries]
        /\ alert' \in [Requests -> Tries \cup {None}]
        /\ pc' \in [Requests -> Outcomes \cup Places]
    BY <2>1, <2>2 DEF NextAlert
  <2>6. Typed'
    BY <2>3, <2>4, <2>5
  <2>7. LocalsOK' /\ CallsOK'
    BY <1>7, <2>1, <2>2, <2>4 DEF NextAlert, RaiseAlert
  <2> QED
    BY <2>6, <2>7
<1>8. CASE CountAlert(r)
  BY <1>8 DEF CountAlert, NextAlert, Tries
<1>9. CASE GetCopy(r)
  BY <1>9 DEF GetCopy
<1>10. CASE ReadRow(r)
  BY <1>10 DEF ReadRow
<1>11. CASE FillCopy(r)
  BY <1>11 DEF FillCopy
<1>12. CASE PeekLatest(r)
  BY <1>12 DEF PeekLatest
<1>13. CASE WipeDay(r)
  <2>1. left[r] \in SUBSET Points
    OBVIOUS
  <2>5. stored' \in SUBSET Points
    BY <1>13 DEF WipeDay
  <2>6. left' \in [Requests -> SUBSET Points]
    BY <1>13, <2>1 DEF WipeDay
  <2>2. Typed'
    BY <1>13, <2>5, <2>6 DEF WipeDay
  <2>3. LocalsOK'
    BY <1>13 DEF WipeDay
  <2>4. CallsOK'
    BY <1>13 DEF WipeDay
  <2> QED
    BY <2>2, <2>3, <2>4
<1>14. CASE RemoveRow(r)
  <2>1. rule' \in {rule, [x \in Rules |-> None]} /\ excused' \in {excused, Alerts}
    BY <1>14 DEF RemoveRow
  <2>5. rule' \in [Rules -> Settings \cup {None}] /\ excused' \in SUBSET Alerts
    BY <2>1
  <2>2. Typed'
    BY <1>14, <2>5 DEF RemoveRow
  <2>3. LocalsOK'
    BY <1>14 DEF RemoveRow
  <2>4. CallsOK'
    BY <1>14 DEF RemoveRow
  <2> QED
    BY <2>2, <2>3, <2>4
<1>15. CASE ClearKeys(r)
  <2>2. Typed'
    BY <1>15 DEF ClearKeys
  <2>3. LocalsOK'
    BY <1>15 DEF ClearKeys
  <2>4. CallsOK'
    BY <1>15 DEF ClearKeys
  <2> QED
    BY <2>2, <2>3, <2>4
<1> QED
  BY <1>1, <1>2, <1>3, <1>4, <1>5, <1>6, <1>7, <1>8, <1>9, <1>10, <1>11,
     <1>12, <1>13, <1>14, <1>15 DEF Step

(* Lemma: so does every other step.                                         *)
LEMMA ShapeNext ==
  ASSUME Shape, [Next]_vars
  PROVE  Shape'
<1> USE ConstantsAssumption DEF Shape, TypeOK, Typed, LocalsOK, CallsOK,
        Outcomes, Places, Goto, stores, local, ghost
<1>1. ASSUME NEW r \in Requests, NEW o \in Operations,
             NEW S \in SUBSET Points, Start(r, o, S)
      PROVE  Shape'
  BY <1>1, SMTT(30) DEF Start
<1>2. ASSUME NEW r \in Requests, Step(r)
      PROVE  Shape'
  BY <1>2, ShapeStep
<1>3. ASSUME NEW k \in Events, Acknowledge(k)
      PROVE  Shape'
  <2>1. events' \in [Events -> Event]
    BY <1>3, AckedEvent
  <2> QED
    BY <1>3, <2>1 DEF Acknowledge
<1>4. ASSUME NEW x \in Rules, ChangeRule(x)
      PROVE  Shape'
  BY <1>4 DEF ChangeRule, Alerts
<1>5. CASE ExpireCopy
  BY <1>5 DEF ExpireCopy
<1>6. CASE ExpireLatest
  BY <1>6 DEF ExpireLatest
<1>7. CASE ExpireOnline
  BY <1>7 DEF ExpireOnline
<1>8. ASSUME NEW s \in Severities, ExpireCount(s)
      PROVE  Shape'
  BY <1>8 DEF ExpireCount
<1>9. CASE Crash
  <2>1. \A r \in Requests : {AlertOf(a) : a \in todo[r]} \subseteq Alerts
    BY DEF AlertOf, Alerts, Tries
  <2>2. excused' \in SUBSET Alerts
    BY <1>9, <2>1 DEF Crash, AlertsOf
  <2> QED
    BY <1>9, <2>2 DEF Crash
<1>10. CASE UNCHANGED vars
  BY <1>10 DEF vars
<1> QED
  BY <1>1, <1>2, <1>3, <1>4, <1>5, <1>6, <1>7, <1>8, <1>9, <1>10 DEF Next

(* Theorem: every reachable state is well typed; what a request stores in   *)
(* KeyDB and the alert it counts is one it has read or stored.              *)
THEOREM Typing == Spec => []TypeOK
<1>1. Init => Shape
  BY ShapeInit
<1>2. Shape /\ [Next]_vars => Shape'
  BY ShapeNext
<1>3. Shape => TypeOK
  BY DEF Shape
<1> QED
  BY <1>1, <1>2, <1>3, PTL DEF Spec

(* Theorem: requests are always at calls of their own operation, with what  *)
(* these calls use; the invariants below rest on it.                        *)
THEOREM ShapeAlways == Spec => []Shape
<1>1. Init => Shape
  BY ShapeInit
<1>2. Shape /\ [Next]_vars => Shape'
  BY ShapeNext
<1> QED
  BY <1>1, <1>2, PTL DEF Spec
-----------------------------------------------------------------------------
(* An ingest that may still raise the alert of the point p and the rule x.   *)
Pending(r, x, p) ==
  /\ op[r] = "ingest"
  /\ \/ /\ pc[r] \in {"check", "chunk", "heartbeat", "newest", "publish", "rules"}
        /\ p \in batch[r]
     \/ pc[r] \in {"alert", "count"} /\ \E a \in todo[r] : AlertOf(a) = <<x, p>>

(* A point is sent once, to one ingest, which raises its alert once; an     *)
(* event stands for a point that no ingest will raise again.                *)
Deliveries ==
  /\ stored \subseteq sent
  /\ \A r \in Requests : batch[r] \subseteq sent
  /\ \A r \in Requests : \A a, b \in todo[r] : AlertOf(a) = AlertOf(b) => a = b
  /\ \A r \in Requests, x \in Rules, p \in Points : Pending(r, x, p) => p \in sent
  /\ \A q, r \in Requests, x \in Rules, p \in Points :
       Pending(q, x, p) /\ Pending(r, x, p) => q = r
  /\ \A x \in Rules, t \in Times : Raised(<<x, t>>) =>
       \E p \in sent : At[p] = t /\ \A r \in Requests : ~Pending(r, x, p)

(* Lemma: Deliveries survives a step that sends and raises nothing.         *)
LEMMA DeliveriesQuiet ==
  ASSUME Deliveries, sent \subseteq Points, UNCHANGED sent, stored' \subseteq sent,
         \A q \in Requests : batch'[q] \subseteq batch[q] /\ todo'[q] \subseteq todo[q],
         \A q \in Requests, x \in Rules, p \in Points :
           Pending(q, x, p)' => Pending(q, x, p),
         \A k \in Events : Raised(k)' => Raised(k)
  PROVE  Deliveries'
<1>1. \A x \in Rules, t \in Times : Raised(<<x, t>>)' => Raised(<<x, t>>)
  BY DEF Events
<1>2. \A x \in Rules, t \in Times : Raised(<<x, t>>)' =>
        \E p \in sent' : At[p] = t /\ \A r \in Requests : ~Pending(r, x, p)'
  BY <1>1 DEF Deliveries
<1> QED
  BY <1>2 DEF Deliveries

(* Lemma: every step keeps Deliveries.                                      *)
LEMMA DeliveriesStep ==
  ASSUME Shape, Deliveries, [Next]_vars
  PROVE  Deliveries'
<1> USE DEF Outcomes, Goto, stores, local, ghost
<1>1. Typed /\ LocalsOK /\ CallsOK
  BY DEF Shape, TypeOK
<1>2. /\ pc \in [Requests -> Outcomes \cup Places]
      /\ op \in [Requests -> {"ingest", "find", "range", "delete"}]
      /\ batch \in [Requests -> SUBSET Points]
      /\ todo \in [Requests -> SUBSET Tries]
      /\ events \in [Events -> Event]
      /\ sent \in SUBSET Points /\ stored \in SUBSET Points
      /\ stored \subseteq sent
  BY <1>1 DEF Typed, Deliveries
<1>3. ASSUME NEW r \in Requests, NEW o \in Operations,
             NEW S \in SUBSET Points, Start(r, o, S)
      PROVE  Deliveries'
  <2>1. \A q \in Requests, x \in Rules, p \in Points :
          q # r /\ Pending(q, x, p)' => Pending(q, x, p)
    BY <1>3, <1>2 DEF Start, Pending
  <2>2. UNCHANGED <<events, stored>>
    BY <1>3 DEF Start
  <2>3. /\ \A q \in Requests : batch'[q] \subseteq batch[q] \/ batch'[q] \subseteq sent'
        /\ \A q \in Requests : todo'[q] \subseteq todo[q]
        /\ sent \subseteq sent' /\ sent' \subseteq Points
    BY <1>3, <1>2 DEF Start
  <2>4. \A x \in Rules, p \in Points : Pending(r, x, p)' => p \in sent' \ sent
    BY <1>3, <1>2 DEF Start, Pending
  <2>5. \A x \in Rules, t \in Times : Raised(<<x, t>>)' =>
          \E p \in sent' : At[p] = t /\ \A q \in Requests : ~Pending(q, x, p)'
    <3> SUFFICES ASSUME NEW x \in Rules, NEW t \in Times, Raised(<<x, t>>)'
                 PROVE  \E p \in sent' : /\ At[p] = t
                                         /\ \A q \in Requests : ~Pending(q, x, p)'
      OBVIOUS
    <3>1. PICK p \in sent : At[p] = t /\ \A q \in Requests : ~Pending(q, x, p)
      BY <2>2 DEF Deliveries, Raised
    <3>2. \A q \in Requests : ~Pending(q, x, p)'
      BY <1>2, <2>1, <2>4, <3>1
    <3> QED
      BY <2>3, <3>1, <3>2
  <2>6. /\ \A q \in Requests, x \in Rules, p \in Points : Pending(q, x, p)' => p \in sent'
        /\ \A q, s \in Requests, x \in Rules, p \in Points :
             Pending(q, x, p)' /\ Pending(s, x, p)' => q = s
    BY <2>1, <2>3, <2>4 DEF Deliveries
  <2> QED
    BY <2>2, <2>3, <2>5, <2>6 DEF Deliveries
<1>4. ASSUME NEW r \in Requests, CheckDevice(r)
      PROVE  Deliveries'
  BY <1>4, <1>2, DeliveriesQuiet DEF CheckDevice, Pending, Raised, AfterCheck
<1>5. ASSUME NEW r \in Requests, WriteChunk(r)
      PROVE  Deliveries'
  <2>1. pc[r] = "chunk" /\ left[r] \subseteq batch[r]
    BY <1>5, <1>1 DEF WriteChunk, CallsOK
  <2>2. stored' \subseteq stored \cup left[r]
    BY <1>5 DEF WriteChunk, Chunks
  <2>3. stored' \subseteq sent
    BY <1>2, <2>1, <2>2 DEF Deliveries
  <2> QED
    BY <1>5, <1>2, <2>3, DeliveriesQuiet DEF WriteChunk, Pending, Raised
<1>6. ASSUME NEW r \in Requests, Heartbeat(r)
      PROVE  Deliveries'
  BY <1>6, <1>2, DeliveriesQuiet DEF Heartbeat, Pending, Raised
<1>7. ASSUME NEW r \in Requests, ReadNewest(r)
      PROVE  Deliveries'
  BY <1>7, <1>2, DeliveriesQuiet DEF ReadNewest, Pending, Raised, AfterLatest
<1>8. ASSUME NEW r \in Requests, Publish(r)
      PROVE  Deliveries'
  BY <1>8, <1>2, DeliveriesQuiet DEF Publish, Pending, Raised, AfterLatest
<1>9. ASSUME NEW r \in Requests, FindRules(r)
      PROVE  Deliveries'
  <2>1. /\ pc[r] = "rules" /\ op[r] = "ingest"
        /\ batch' = [batch EXCEPT ![r] = {}]
        /\ UNCHANGED <<op, sent, stored, events>>
    BY <1>9, <1>1 DEF FindRules, CallsOK
  <2>2. PICK l \in {"ok", "alert", "error"} : Goto(r, l)
    BY <1>9 DEF FindRules, NextAlert
  <2>3. CASE UNCHANGED todo /\ Goto(r, "error")
    BY <1>2, <2>1, <2>3, DeliveriesQuiet DEF Pending, Raised
  <2>4. CASE todo' = [todo EXCEPT ![r] =
                 {a \in Tries : /\ a[3] = rule[a[1]]
                               /\ a[2] \in batch[r] \cap Breaches[a[3]]}]
    <3>1. \A a \in todo'[r] : a \in Tries /\ a[3] = rule[a[1]] /\ a[2] \in batch[r]
      BY <1>2, <2>4
    <3>2. \A a, b \in todo'[r] : AlertOf(a) = AlertOf(b) => a = b
      BY <3>1 DEF AlertOf, Tries
    <3>3. \A x \in Rules, p \in Points : Pending(r, x, p)' => Pending(r, x, p)
      BY <1>2, <2>1, <2>2, <3>1 DEF Pending, AlertOf
    <3>4. \A q \in Requests \ {r} : /\ pc'[q] = pc[q] /\ todo'[q] = todo[q]
                                   /\ batch'[q] = batch[q] /\ op'[q] = op[q]
      BY <1>2, <2>1, <2>2, <2>4
    <3>5. \A q \in Requests, x \in Rules, p \in Points : Pending(q, x, p)' => Pending(q, x, p)
      BY <3>3, <3>4 DEF Pending
    <3>6. \A k \in Events : Raised(k)' <=> Raised(k)
      BY <2>1 DEF Raised
    <3>7. \A q \in Requests : batch'[q] \subseteq batch[q]
      BY <1>2, <2>1
    <3>8. \A q \in Requests : \A a, b \in todo'[q] : AlertOf(a) = AlertOf(b) => a = b
      BY <3>2, <3>4 DEF Deliveries
    <3>9. \A x \in Rules, t \in Times : Raised(<<x, t>>)' =>
            \E p \in sent' : At[p] = t /\ \A q \in Requests : ~Pending(q, x, p)'
      BY <1>2, <2>1, <3>5, <3>6 DEF Deliveries, Events
    <3> QED
      BY <2>1, <3>5, <3>7, <3>8, <3>9 DEF Deliveries
  <2> QED
    BY <1>9, <2>3, <2>4 DEF FindRules
<1>10. ASSUME NEW r \in Requests, RaiseAlert(r)
      PROVE  Deliveries'
  <2>1. PICK b \in todo[r] :
          /\ todo' = [todo EXCEPT ![r] = @ \ {b}]
          /\ events' \in {events, Opened(b)}
    BY <1>10 DEF RaiseAlert
  <2>2. b \in Tries /\ UNCHANGED <<sent, stored, batch>>
    BY <1>10, <1>2, <2>1 DEF RaiseAlert
  <2> DEFINE y == b[1]
             n == b[2]
  <2>3. /\ y \in Rules /\ n \in Points /\ AlertOf(b) = <<y, n>>
        /\ KeyOf(b) = <<y, At[n]>>
    BY <2>2 DEF Tries, AlertOf, KeyOf
  <2>4. Pending(r, y, n)
    BY <1>10, <1>1, <2>1, <2>3 DEF RaiseAlert, CallsOK, Pending
  <2>5. \A q \in Requests, x \in Rules, p \in Points : Pending(q, x, p)' => Pending(q, x, p)
    BY <1>10, <1>2, <2>1 DEF RaiseAlert, NextAlert, Pending
  <2>6. \A a \in todo'[r] : AlertOf(a) # AlertOf(b)
    BY <1>2, <2>1 DEF Deliveries
  <2>7. ~ Pending(r, y, n)'
    <3>1. pc'[r] \in {"count", "alert", "ok"}
      BY <1>10, <1>2 DEF RaiseAlert, NextAlert
    <3> QED
      BY <2>3, <2>6, <3>1 DEF Pending
  <2>8. \A q \in Requests : ~Pending(q, y, n)'
    BY <2>3, <2>4, <2>5, <2>7 DEF Deliveries
  <2>9. \A k \in Events : k # KeyOf(b) /\ Raised(k)' => Raised(k)
    BY <1>2, <2>1, <2>2, OpenedEvent DEF Raised
  <2>10. \A x \in Rules, t \in Times : Raised(<<x, t>>)' =>
           \E p \in sent : At[p] = t /\ \A q \in Requests : ~Pending(q, x, p)'
    <3> SUFFICES ASSUME NEW x \in Rules, NEW t \in Times, Raised(<<x, t>>)'
                 PROVE  \E p \in sent : /\ At[p] = t
                                        /\ \A q \in Requests : ~Pending(q, x, p)'
      OBVIOUS
    <3>1. CASE <<x, t>> = KeyOf(b)
      <4>1. x = y /\ At[n] = t /\ n \in sent
        BY <2>3, <2>4, <3>1 DEF Deliveries
      <4> QED
        BY <2>8, <4>1
    <3>2. CASE <<x, t>> # KeyOf(b)
      <4>1. Raised(<<x, t>>)
        BY <2>9, <3>2 DEF Events
      <4> QED
        BY <1>2, <2>5, <4>1 DEF Deliveries
    <3> QED
      BY <3>1, <3>2
  <2>11. \A q \in Requests : todo'[q] \subseteq todo[q]
    BY <1>2, <2>1
  <2> QED
    BY <1>2, <2>2, <2>5, <2>10, <2>11 DEF Deliveries
<1>11. ASSUME NEW r \in Requests, CountAlert(r)
      PROVE  Deliveries'
  BY <1>11, <1>2, DeliveriesQuiet DEF CountAlert, Pending, Raised, NextAlert
<1>12. ASSUME NEW r \in Requests, GetCopy(r)
      PROVE  Deliveries'
  BY <1>12, <1>2, DeliveriesQuiet DEF GetCopy, Pending, Raised
<1>13. ASSUME NEW r \in Requests, ReadRow(r)
      PROVE  Deliveries'
  BY <1>13, <1>2, DeliveriesQuiet DEF ReadRow, Pending, Raised
<1>14. ASSUME NEW r \in Requests, FillCopy(r)
      PROVE  Deliveries'
  BY <1>14, <1>2, DeliveriesQuiet DEF FillCopy, Pending, Raised
<1>15. ASSUME NEW r \in Requests, PeekLatest(r)
      PROVE  Deliveries'
  <2>1. \A q \in Requests, x \in Rules, p \in Points : Pending(q, x, p)' => Pending(q, x, p)
    BY <1>15, <1>1, <1>2 DEF PeekLatest, CallsOK, Pending
  <2> QED
    BY <1>15, <1>2, <2>1, DeliveriesQuiet DEF PeekLatest, Raised
<1>16. ASSUME NEW r \in Requests, WipeDay(r)
      PROVE  Deliveries'
  BY <1>16, <1>2, DeliveriesQuiet DEF WipeDay, Pending, Raised
<1>17. ASSUME NEW r \in Requests, RemoveRow(r)
      PROVE  Deliveries'
  BY <1>17, <1>2, DeliveriesQuiet DEF RemoveRow, Pending, Raised
<1>18. ASSUME NEW r \in Requests, ClearKeys(r)
      PROVE  Deliveries'
  BY <1>18, <1>2, DeliveriesQuiet DEF ClearKeys, Pending, Raised
<1>19. ASSUME NEW k \in Events, Acknowledge(k)
      PROVE  Deliveries'
  <2>1. \A j \in Events : Raised(j)' => Raised(j)
    BY <1>2, <1>19, AckedEvent DEF Acknowledge, Raised
  <2> QED
    BY <1>19, <1>2, <2>1, DeliveriesQuiet DEF Acknowledge, Pending
<1>20. ASSUME NEW x \in Rules, ChangeRule(x)
      PROVE  Deliveries'
  BY <1>20, <1>2, DeliveriesQuiet DEF ChangeRule, Pending, Raised
<1>21. CASE ExpireCopy
  BY <1>21, <1>2, DeliveriesQuiet DEF ExpireCopy, Pending, Raised
<1>22. CASE ExpireLatest
  BY <1>22, <1>2, DeliveriesQuiet DEF ExpireLatest, Pending, Raised
<1>23. CASE ExpireOnline
  BY <1>23, <1>2, DeliveriesQuiet DEF ExpireOnline, Pending, Raised
<1>24. ASSUME NEW s \in Severities, ExpireCount(s)
      PROVE  Deliveries'
  BY <1>24, <1>2, DeliveriesQuiet DEF ExpireCount, Pending, Raised
<1>25. CASE Crash
  BY <1>25, <1>2, DeliveriesQuiet DEF Crash, Pending, Raised
<1>26. CASE UNCHANGED vars
  BY <1>26, <1>2, DeliveriesQuiet DEF vars, Pending, Raised
<1> QED
  BY <1>3, <1>4, <1>5, <1>6, <1>7, <1>8, <1>9, <1>10, <1>11, <1>12,
     <1>13, <1>14, <1>15, <1>16, <1>17, <1>18, <1>19, <1>20, <1>21,
     <1>22, <1>23, <1>24, <1>25, <1>26 DEF Next, Step

(* Lemma: an ingest that comes to an event that is there has a second point  *)
(* of its time.                                                             *)
LEMMA SecondTime ==
  ASSUME Shape, Deliveries, NEW r \in Requests, pc[r] = "alert",
         NEW a \in todo[r], Raised(KeyOf(a))
  PROVE  Redelivered(At[a[2]])
<1>1. a \in Tries /\ op[r] = "ingest" /\ sent \subseteq Points
  BY DEF Shape, TypeOK, Typed, CallsOK
<1>2. /\ a[1] \in Rules /\ a[2] \in Points /\ At[a[2]] \in Times
      /\ AlertOf(a) = <<a[1], a[2]>> /\ KeyOf(a) = <<a[1], At[a[2]]>>
  BY <1>1 DEF Tries, AlertOf, KeyOf, Times
<1>3. Pending(r, a[1], a[2])
  BY <1>1, <1>2 DEF Pending
<1>4. PICK p \in sent : At[p] = At[a[2]] /\ \A q \in Requests : ~Pending(q, a[1], p)
  BY <1>2 DEF Deliveries
<1>5. p # a[2] /\ a[2] \in sent
  BY <1>2, <1>3, <1>4 DEF Deliveries
<1> QED
  BY <1>4, <1>5 DEF Redelivered

(* Theorem: points are always sent once and their alerts raised once.       *)
THEOREM DeliveriesAlways == Spec => []Deliveries
<1>1. Init => Deliveries
  <2> SUFFICES ASSUME Init PROVE Deliveries
    OBVIOUS
  <2>1. \A k \in Events : ~Raised(k)
    BY DEF Init, Raised
  <2>2. \A x \in Rules, t \in Times : ~Raised(<<x, t>>)
    BY <2>1 DEF Events
  <2> QED
    BY <2>2 DEF Init, Deliveries, Pending
<1>2. Shape /\ Deliveries /\ [Next]_vars => Deliveries'
  BY DeliveriesStep
<1> QED
  BY <1>1, <1>2, ShapeAlways, PTL DEF Spec

(* Theorem: an acknowledged event is opened again only when its point was   *)
(* sent twice, by two lists or in one.                                      *)
THEOREM Reopening == Spec => ReopenedOnlyByRedelivery
<1> DEFINE Reopens == \A k \in Events :
             events[k].status = "acked" /\ events'[k].status = "open"
               => Redelivered(k[2])
<1>1. Shape /\ Deliveries /\ [Next]_vars => [Reopens]_vars
  <2> SUFFICES ASSUME Shape, Deliveries, [Next]_vars, NEW k \in Events,
                      events[k].status = "acked", events'[k].status = "open"
               PROVE  Redelivered(k[2])
    OBVIOUS
  <2>1. events \in [Events -> Event] /\ todo \in [Requests -> SUBSET Tries]
    BY DEF Shape, TypeOK, Typed
  <2>2. ASSUME NEW r \in Requests, RaiseAlert(r)
        PROVE  Redelivered(k[2])
    <3>1. PICK a \in todo[r] : events' \in {events, Opened(a)}
      BY <2>2 DEF RaiseAlert
    <3>2. pc[r] = "alert" /\ a \in Tries
      BY <2>1, <2>2 DEF RaiseAlert
    <3>3. k = KeyOf(a)
      BY <2>1, <3>1, <3>2, OpenedEvent
    <3>4. Redelivered(At[a[2]])
      BY <3>2, <3>3, SecondTime DEF Raised
    <3> QED
      BY <3>3, <3>4 DEF KeyOf
  <2>3. ASSUME NEW j \in Events, Acknowledge(j)
        PROVE  FALSE
    BY <2>1, <2>3, AckedEvent DEF Acknowledge, Raised
  <2>4. CASE UNCHANGED events
    BY <2>4
  <2> QED
    BY <2>2, <2>3, <2>4
    DEF Next, Step, vars, stores, Start, CheckDevice, WriteChunk, Heartbeat,
        ReadNewest, Publish, FindRules, CountAlert, GetCopy, ReadRow, FillCopy,
        PeekLatest, WipeDay, RemoveRow, ClearKeys, ChangeRule, ExpireCopy,
        ExpireLatest, ExpireOnline, ExpireCount, Crash
<1> QED
  BY <1>1, ShapeAlways, DeliveriesAlways, PTL DEF Spec, ReopenedOnlyByRedelivery

-----------------------------------------------------------------------------
(* Lemma: an event that is open or acknowledged stays so.                   *)
LEMMA RaisedStays ==
  ASSUME Shape, [Next]_vars, NEW k \in Events, Raised(k)
  PROVE  Raised(k)'
<1> USE DEF stores
<1>0. events \in [Events -> Event] /\ todo \in [Requests -> SUBSET Tries]
  BY DEF Shape, TypeOK, Typed
<1>1. ASSUME NEW r \in Requests, RaiseAlert(r)
      PROVE  Raised(k)'
  <2>1. PICK a \in todo[r] : events' \in {events, Opened(a)}
    BY <1>1 DEF RaiseAlert
  <2> QED
    BY <1>0, <2>1, OpenedEvent DEF Raised
<1>2. ASSUME NEW j \in Events, Acknowledge(j)
      PROVE  Raised(k)'
  BY <1>0, <1>2, AckedEvent DEF Acknowledge, Raised
<1>3. CASE UNCHANGED events
  BY <1>3 DEF Raised
<1> QED
  BY <1>1, <1>2, <1>3
  DEF Next, Step, vars, Start, CheckDevice, WriteChunk, Heartbeat, ReadNewest,
      Publish, FindRules, CountAlert, GetCopy, ReadRow, FillCopy, PeekLatest,
      WipeDay, RemoveRow, ClearKeys, ChangeRule, ExpireCopy, ExpireLatest,
      ExpireOnline, ExpireCount, Crash

(* Lemma: an event keeps its severity until its point comes again.          *)
LEMMA EventStays ==
  ASSUME Shape, Deliveries, [Next]_vars, NEW k \in Events, NEW s, EventOf(k, s)
  PROVE  EventOf(k, s)'
<1> USE DEF stores, ghost
<1>0. /\ events \in [Events -> Event] /\ todo \in [Requests -> SUBSET Tries]
  BY DEF Shape, TypeOK, Typed
<1>1. Raised(k)'
  BY RaisedStays DEF EventOf
<1>2. sent \subseteq sent'
  BY DEF Next, Step, vars, Start, CheckDevice, WriteChunk, Heartbeat, ReadNewest,
     Publish, FindRules, RaiseAlert, CountAlert, GetCopy, ReadRow, FillCopy,
     PeekLatest, WipeDay, RemoveRow, ClearKeys, Acknowledge, ChangeRule,
     ExpireCopy, ExpireLatest, ExpireOnline, ExpireCount, Crash
<1>3. Redelivered(k[2]) => Redelivered(k[2])'
  BY <1>2 DEF Redelivered
<1>4. ASSUME events'[k].severity = events[k].severity
      PROVE  EventOf(k, s)'
  BY <1>1, <1>3, <1>4 DEF EventOf
<1>5. ASSUME NEW r \in Requests, RaiseAlert(r)
      PROVE  EventOf(k, s)'
  <2>1. PICK a \in todo[r] : events' \in {events, Opened(a)}
    BY <1>5 DEF RaiseAlert
  <2>2. pc[r] = "alert" /\ a \in Tries
    BY <1>0, <1>5 DEF RaiseAlert
  <2>3. CASE k = KeyOf(a)
    <3>1. Redelivered(At[a[2]])
      BY <2>2, <2>3, SecondTime DEF EventOf
    <3>2. k[2] = At[a[2]]
      BY <2>3 DEF KeyOf
    <3> QED
      BY <1>1, <1>3, <3>1, <3>2 DEF EventOf
  <2>4. CASE k # KeyOf(a)
    BY <1>0, <1>4, <2>1, <2>2, <2>4, OpenedEvent
  <2> QED
    BY <2>3, <2>4
<1>6. ASSUME NEW j \in Events, Acknowledge(j)
      PROVE  EventOf(k, s)'
  <2>1. events'[k].severity = events[k].severity
    BY <1>0, <1>6, AckedEvent DEF Acknowledge, Raised
  <2> QED
    BY <1>4, <2>1
<1>7. CASE UNCHANGED events
  BY <1>4, <1>7
<1> QED
  BY <1>5, <1>6, <1>7
  DEF Next, Step, vars, Start, CheckDevice, WriteChunk, Heartbeat, ReadNewest,
      Publish, FindRules, CountAlert, GetCopy, ReadRow, FillCopy, PeekLatest,
      WipeDay, RemoveRow, ClearKeys, ChangeRule, ExpireCopy, ExpireLatest,
      ExpireOnline, ExpireCount, Crash

(* CountNeedsEvent is inductive together with the alert that a request has  *)
(* stored and will count.                                                   *)
Counts(a) == EventOf(KeyOf(a), SeverityOf[a[3]])
CountHeld ==
  /\ CountNeedsEvent
  /\ \A r \in Requests : pc[r] = "count" => Counts(alert[r])

(* Lemma: CountHeld survives a step that counts nothing and brings no       *)
(* request to a count.                                                      *)
LEMMA CountQuiet ==
  ASSUME Shape, Deliveries, CountHeld, [Next]_vars,
         counted' \subseteq counted,
         \A q \in Requests :
           pc'[q] = "count" => pc[q] = "count" /\ alert'[q] = alert[q]
  PROVE  CountHeld'
<1>1. \A k \in Events : \A s : EventOf(k, s) => EventOf(k, s)'
  BY EventStays
<1>2. CountNeedsEvent'
  BY <1>1 DEF CountHeld, CountNeedsEvent
<1>3. ASSUME NEW q \in Requests, pc'[q] = "count"
      PROVE  Counts(alert[q])'
  <2>1. alert[q] \in Tries /\ Counts(alert[q]) /\ alert'[q] = alert[q]
    BY <1>3 DEF CountHeld, Shape, TypeOK, LocalsOK
  <2>2. KeyOf(alert[q]) \in Events
    BY <2>1, OpenedEvent DEF Shape, TypeOK, Typed
  <2>3. EventOf(KeyOf(alert[q]), SeverityOf[alert[q][3]])'
    BY <1>1, <2>1, <2>2 DEF Counts, KeyOf
  <2> QED
    BY <2>1, <2>3 DEF Counts, KeyOf
<1> QED
  BY <1>2, <1>3 DEF CountHeld

(* Lemma: every step keeps CountHeld.                                       *)
LEMMA CountStep ==
  ASSUME Shape, Deliveries, CountHeld, [Next]_vars
  PROVE  CountHeld'
<1> USE DEF Outcomes, Goto, stores, local, ghost
<1>1. Typed
  BY DEF Shape, TypeOK
<1>2. /\ pc \in [Requests -> Outcomes \cup Places]
      /\ alert \in [Requests -> Tries \cup {None}]
      /\ counted \in SUBSET Severities
      /\ events \in [Events -> Event]
      /\ todo \in [Requests -> SUBSET Tries]
  BY <1>1 DEF Typed
<1>3. ASSUME NEW r \in Requests, NEW o \in Operations,
             NEW S \in SUBSET Points, Start(r, o, S)
      PROVE  CountHeld'
  BY <1>3, <1>2, CountQuiet DEF Start
<1>4. ASSUME NEW r \in Requests, CheckDevice(r)
      PROVE  CountHeld'
  BY <1>4, <1>2, CountQuiet DEF CheckDevice, AfterCheck
<1>5. ASSUME NEW r \in Requests, WriteChunk(r)
      PROVE  CountHeld'
  BY <1>5, <1>2, CountQuiet DEF WriteChunk
<1>6. ASSUME NEW r \in Requests, Heartbeat(r)
      PROVE  CountHeld'
  BY <1>6, <1>2, CountQuiet DEF Heartbeat
<1>7. ASSUME NEW r \in Requests, ReadNewest(r)
      PROVE  CountHeld'
  BY <1>7, <1>2, CountQuiet DEF ReadNewest, AfterLatest
<1>8. ASSUME NEW r \in Requests, Publish(r)
      PROVE  CountHeld'
  BY <1>8, <1>2, CountQuiet DEF Publish, AfterLatest
<1>9. ASSUME NEW r \in Requests, FindRules(r)
      PROVE  CountHeld'
  BY <1>9, <1>2, CountQuiet DEF FindRules, NextAlert
<1>10. ASSUME NEW r \in Requests, RaiseAlert(r)
      PROVE  CountHeld'
  <2>1. PICK a \in todo[r] :
          \/ /\ events' = Opened(a)
             /\ alert' = [alert EXCEPT ![r] = a]
             /\ Goto(r, "count")
          \/ NextAlert(r, todo[r] \ {a}) /\ UNCHANGED alert
    BY <1>10 DEF RaiseAlert
  <2>2. UNCHANGED counted /\ a \in Tries
    BY <1>2, <1>10 DEF RaiseAlert
  <2>3. CASE NextAlert(r, todo[r] \ {a}) /\ UNCHANGED alert
    BY <1>2, <2>2, <2>3, CountQuiet DEF NextAlert
  <2>4. CASE events' = Opened(a) /\ alert' = [alert EXCEPT ![r] = a] /\ Goto(r, "count")
    <3>1. \A k \in Events : \A s : EventOf(k, s) => EventOf(k, s)'
      BY EventStays
    <3>2. CountNeedsEvent'
      BY <2>2, <3>1 DEF CountHeld, CountNeedsEvent
    <3>3. ASSUME NEW q \in Requests, pc'[q] = "count"
          PROVE  Counts(alert[q])'
      <4>1. CASE q = r
        <5>1. alert'[q] = a
          BY <1>2, <2>4, <4>1
        <5>2. EventOf(KeyOf(a), SeverityOf[a[3]])'
          BY <1>2, <2>2, <2>4, OpenedEvent DEF EventOf, Raised, KeyOf
        <5> QED
          BY <5>1, <5>2 DEF Counts, KeyOf
      <4>2. CASE q # r
        <5>1. pc[q] = "count" /\ alert'[q] = alert[q]
          BY <1>2, <2>4, <3>3, <4>2
        <5>2. alert[q] \in Tries /\ Counts(alert[q])
          BY <5>1 DEF CountHeld, Shape, TypeOK, LocalsOK
        <5>3. KeyOf(alert[q]) \in Events
          BY <1>2, <5>2, OpenedEvent
        <5>4. EventOf(KeyOf(alert[q]), SeverityOf[alert[q][3]])'
          BY <3>1, <5>1, <5>2, <5>3 DEF Counts, KeyOf, EventOf, Raised, Redelivered
        <5> QED
          BY <5>1, <5>4 DEF Counts, KeyOf
      <4> QED
        BY <4>1, <4>2
    <3> QED
      BY <3>2, <3>3 DEF CountHeld
  <2> QED
    BY <2>1, <2>3, <2>4
<1>11. ASSUME NEW r \in Requests, CountAlert(r)
      PROVE  CountHeld'
  <2>1. pc[r] = "count" /\ counted' \subseteq counted \cup {SeverityOf[alert[r][3]]}
    BY <1>11 DEF CountAlert
  <2>2. alert[r] \in Tries /\ Counts(alert[r])
    BY <2>1 DEF Shape, TypeOK, LocalsOK, CountHeld
  <2>3. \A k \in Events : \A s : EventOf(k, s) => EventOf(k, s)'
    BY EventStays
  <2>4. KeyOf(alert[r]) \in Events
    BY <1>2, <2>2, OpenedEvent
  <2>5. \A s \in counted' : \E k \in Events : EventOf(k, s)
    BY <2>1, <2>2, <2>4 DEF CountHeld, CountNeedsEvent, Counts
  <2>6. CountNeedsEvent'
    BY <2>3, <2>5 DEF CountNeedsEvent
  <2>7. \A q \in Requests :
          pc'[q] = "count" => pc[q] = "count" /\ alert'[q] = alert[q]
    BY <1>11, <1>2 DEF CountAlert, NextAlert
  <2>8. ASSUME NEW q \in Requests, pc'[q] = "count"
        PROVE  Counts(alert[q])'
    <3>1. alert[q] \in Tries /\ Counts(alert[q]) /\ alert'[q] = alert[q]
      BY <2>7, <2>8 DEF CountHeld, Shape, TypeOK, LocalsOK
    <3>2. KeyOf(alert[q]) \in Events
      BY <1>2, <3>1, OpenedEvent
    <3>3. EventOf(KeyOf(alert[q]), SeverityOf[alert[q][3]])'
      BY <2>3, <3>1, <3>2 DEF Counts, KeyOf
    <3> QED
      BY <3>1, <3>3 DEF Counts, KeyOf
  <2> QED
    BY <2>6, <2>8 DEF CountHeld
<1>12. ASSUME NEW r \in Requests, GetCopy(r)
      PROVE  CountHeld'
  BY <1>12, <1>2, CountQuiet DEF GetCopy
<1>13. ASSUME NEW r \in Requests, ReadRow(r)
      PROVE  CountHeld'
  BY <1>13, <1>2, CountQuiet DEF ReadRow
<1>14. ASSUME NEW r \in Requests, FillCopy(r)
      PROVE  CountHeld'
  BY <1>14, <1>2, CountQuiet DEF FillCopy
<1>15. ASSUME NEW r \in Requests, PeekLatest(r)
      PROVE  CountHeld'
  BY <1>15, <1>2, CountQuiet DEF PeekLatest
<1>16. ASSUME NEW r \in Requests, WipeDay(r)
      PROVE  CountHeld'
  BY <1>16, <1>2, CountQuiet DEF WipeDay
<1>17. ASSUME NEW r \in Requests, RemoveRow(r)
      PROVE  CountHeld'
  BY <1>17, <1>2, CountQuiet DEF RemoveRow
<1>18. ASSUME NEW r \in Requests, ClearKeys(r)
      PROVE  CountHeld'
  BY <1>18, <1>2, CountQuiet DEF ClearKeys
<1>19. ASSUME NEW k \in Events, Acknowledge(k)
      PROVE  CountHeld'
  BY <1>19, <1>2, CountQuiet DEF Acknowledge
<1>20. ASSUME NEW x \in Rules, ChangeRule(x)
      PROVE  CountHeld'
  BY <1>20, <1>2, CountQuiet DEF ChangeRule
<1>21. CASE ExpireCopy
  BY <1>21, <1>2, CountQuiet DEF ExpireCopy
<1>22. CASE ExpireLatest
  BY <1>22, <1>2, CountQuiet DEF ExpireLatest
<1>23. CASE ExpireOnline
  BY <1>23, <1>2, CountQuiet DEF ExpireOnline
<1>24. ASSUME NEW s \in Severities, ExpireCount(s)
      PROVE  CountHeld'
  BY <1>24, <1>2, CountQuiet DEF ExpireCount
<1>25. CASE Crash
  BY <1>25, <1>2, CountQuiet DEF Crash
<1>26. CASE UNCHANGED vars
  BY <1>26, <1>2, CountQuiet DEF vars
<1> QED
  BY <1>3, <1>4, <1>5, <1>6, <1>7, <1>8, <1>9, <1>10, <1>11, <1>12,
     <1>13, <1>14, <1>15, <1>16, <1>17, <1>18, <1>19, <1>20, <1>21,
     <1>22, <1>23, <1>24, <1>25, <1>26 DEF Next, Step

(* Theorem: no severity of the device is counted without an event that was  *)
(* stored with it, and has it still unless its point came again.            *)
THEOREM CountedStored == Spec => []CountNeedsEvent
<1>1. Init => CountHeld
  BY DEF Init, CountHeld, CountNeedsEvent
<1>2. Shape /\ Deliveries /\ CountHeld /\ [Next]_vars => CountHeld'
  BY CountStep
<1>3. CountHeld => CountNeedsEvent
  BY DEF CountHeld
<1> QED
  BY <1>1, <1>2, <1>3, ShapeAlways, DeliveriesAlways, PTL DEF Spec
-----------------------------------------------------------------------------
(* Lemma: AlertsComplete survives a step that makes only alerts due which   *)
(* an ingest will raise, and drops only alerts that it excuses.             *)
LEMMA CompleteQuiet ==
  ASSUME Shape, AlertsComplete, [Next]_vars,
         \A x \in Rules, p \in stored' :
           <<x, p>> \notin excused' /\ rule'[x] # None /\ p \in Breaches[rule'[x]]
             => /\ <<x, p>> \notin excused /\ rule'[x] = rule[x]
                /\ p \in stored \/ \E q \in Requests : WillRaise(q, <<x, p>>),
         \A q \in Requests, x \in Rules, p \in Points :
           /\ WillRaise(q, <<x, p>>) /\ <<x, p>> \notin excused'
           /\ rule'[x] # None /\ p \in Breaches[rule'[x]]
           => WillRaise(q, <<x, p>>)' \/ Raised(<<x, At[p]>>)'
  PROVE  AlertsComplete'
<1>1. \A k \in Events : Raised(k) => Raised(k)'
  BY RaisedStays
<1>2. stored' \subseteq Points
  BY ShapeNext DEF Shape, TypeOK, Typed
<1>3. ASSUME NEW x \in Rules, NEW p \in stored', rule'[x] # None,
             p \in Breaches[rule'[x]], <<x, p>> \notin excused'
      PROVE  Raised(<<x, At[p]>>)' \/ \E r \in Requests : WillRaise(r, <<x, p>>)'
  <2>1. Raised(<<x, At[p]>>) \/ \E r \in Requests : WillRaise(r, <<x, p>>)
    BY <1>3 DEF AlertsComplete
  <2>2. <<x, At[p]>> \in Events /\ p \in Points
    BY <1>2 DEF Events, Times
  <2> QED
    BY <1>1, <1>3, <2>1, <2>2
<1> QED
  BY <1>3 DEF AlertsComplete

(* Lemma: every step keeps AlertsComplete.                                  *)
LEMMA CompleteStep ==
  ASSUME Shape, Deliveries, AlertsComplete, [Next]_vars
  PROVE  AlertsComplete'
<1> USE DEF Outcomes, Goto, stores, local, ghost
<1>1. Typed /\ LocalsOK /\ CallsOK
  BY DEF Shape, TypeOK
<1>2. /\ pc \in [Requests -> Outcomes \cup Places]
      /\ op \in [Requests -> {"ingest", "find", "range", "delete"}]
      /\ left \in [Requests -> SUBSET Points]
      /\ batch \in [Requests -> SUBSET Points]
      /\ todo \in [Requests -> SUBSET Tries]
      /\ stored \in SUBSET Points /\ rule \in [Rules -> Settings \cup {None}]
      /\ excused \in SUBSET Alerts
      /\ events \in [Events -> Event]
  BY <1>1 DEF Typed
<1>3. ASSUME NEW r \in Requests, NEW o \in Operations,
             NEW S \in SUBSET Points, Start(r, o, S)
      PROVE  AlertsComplete'
  <2>1. \A x \in Rules, p \in stored' :
          <<x, p>> \notin excused' /\ rule'[x] # None /\ p \in Breaches[rule'[x]]
            => /\ <<x, p>> \notin excused /\ rule'[x] = rule[x]
               /\ p \in stored \/ \E q \in Requests : WillRaise(q, <<x, p>>)
    BY <1>3, <1>2 DEF Start
  <2>2. \A q \in Requests, x \in Rules, p \in Points :
          /\ WillRaise(q, <<x, p>>) /\ <<x, p>> \notin excused'
          /\ rule'[x] # None /\ p \in Breaches[rule'[x]]
          => WillRaise(q, <<x, p>>)' \/ Raised(<<x, At[p]>>)'
    BY <1>3, <1>2 DEF Start, WillRaise
  <2> QED
    BY <2>1, <2>2, CompleteQuiet
<1>4. ASSUME NEW r \in Requests, CheckDevice(r)
      PROVE  AlertsComplete'
  BY <1>4, <1>2, CompleteQuiet DEF CheckDevice, WillRaise, AfterCheck
<1>5. ASSUME NEW r \in Requests, WriteChunk(r)
      PROVE  AlertsComplete'
  <2>3. /\ pc[r] = "chunk" /\ op[r] = "ingest" /\ left[r] \subseteq batch[r]
        /\ stored' \subseteq stored \cup left[r]
        /\ excused \subseteq excused' /\ UNCHANGED rule
    BY <1>5, <1>1 DEF WriteChunk, Chunks, CallsOK
  <2>1. \A x \in Rules, p \in stored' :
          <<x, p>> \notin excused' /\ rule'[x] # None /\ p \in Breaches[rule'[x]]
            => /\ <<x, p>> \notin excused /\ rule'[x] = rule[x]
               /\ p \in stored \/ \E q \in Requests : WillRaise(q, <<x, p>>)
    BY <1>5, <1>2, <2>3 DEF WriteChunk, WillRaise, AlertsOf
  <2>2. \A q \in Requests, x \in Rules, p \in Points :
          /\ WillRaise(q, <<x, p>>) /\ <<x, p>> \notin excused'
          /\ rule'[x] # None /\ p \in Breaches[rule'[x]]
          => WillRaise(q, <<x, p>>)' \/ Raised(<<x, At[p]>>)'
    <3>1. /\ UNCHANGED <<op, todo>>
          /\ \/ UNCHANGED batch /\ (Goto(r, "heartbeat") \/ Goto(r, "chunk"))
             \/ /\ excused' = excused \cup AlertsOf(batch[r])
                /\ batch' = [batch EXCEPT ![r] = {}] /\ Goto(r, "error")
      BY <1>5 DEF WriteChunk
    <3>2. ASSUME NEW q \in Requests, NEW x \in Rules, NEW p \in Points,
                 WillRaise(q, <<x, p>>), <<x, p>> \notin excused'
          PROVE  WillRaise(q, <<x, p>>)'
      <4>1. CASE q # r
        BY <1>2, <3>1, <3>2, <4>1 DEF WillRaise
      <4>2. CASE q = r
        <5>1. op[r] = "ingest" /\ p \in batch[r] /\ <<x, p>> \in AlertsOf(batch[r])
          BY <2>3, <3>2, <4>2 DEF WillRaise, AlertsOf, Alerts
        <5> QED
          BY <1>2, <3>1, <3>2, <4>2, <5>1 DEF WillRaise
      <4> QED
        BY <4>1, <4>2
    <3> QED
      BY <3>2
  <2> QED
    BY <2>1, <2>2, CompleteQuiet
<1>6. ASSUME NEW r \in Requests, Heartbeat(r)
      PROVE  AlertsComplete'
  BY <1>6, <1>2, CompleteQuiet DEF Heartbeat, WillRaise
<1>7. ASSUME NEW r \in Requests, ReadNewest(r)
      PROVE  AlertsComplete'
  BY <1>7, <1>2, CompleteQuiet DEF ReadNewest, WillRaise, AfterLatest
<1>8. ASSUME NEW r \in Requests, Publish(r)
      PROVE  AlertsComplete'
  BY <1>8, <1>2, CompleteQuiet DEF Publish, WillRaise, AfterLatest
<1>9. ASSUME NEW r \in Requests, FindRules(r)
      PROVE  AlertsComplete'
  <2>1. \A x \in Rules, p \in stored' :
          <<x, p>> \notin excused' /\ rule'[x] # None /\ p \in Breaches[rule'[x]]
            => /\ <<x, p>> \notin excused /\ rule'[x] = rule[x]
               /\ p \in stored \/ \E q \in Requests : WillRaise(q, <<x, p>>)
    BY <1>9, <1>2 DEF FindRules
  <2>2. \A q \in Requests, x \in Rules, p \in Points :
          /\ WillRaise(q, <<x, p>>) /\ <<x, p>> \notin excused'
          /\ rule'[x] # None /\ p \in Breaches[rule'[x]]
          => WillRaise(q, <<x, p>>)' \/ Raised(<<x, At[p]>>)'
    <3> SUFFICES ASSUME NEW q \in Requests, NEW x \in Rules, NEW p \in Points,
                        WillRaise(q, <<x, p>>), <<x, p>> \notin excused',
                        rule'[x] # None, p \in Breaches[rule'[x]]
                 PROVE  WillRaise(q, <<x, p>>)' \/ Raised(<<x, At[p]>>)'
      OBVIOUS
    <3>0. rule'[x] # None /\ p \in Breaches[rule'[x]]
      OBVIOUS
    <3>1. CASE q # r
      BY <1>2, <1>9, <3>1 DEF FindRules, NextAlert, WillRaise
    <3>2. CASE q = r
      <4>1. pc[r] = "rules" /\ op[r] = "ingest" /\ UNCHANGED <<op, rule>>
        BY <1>1, <1>9 DEF FindRules, CallsOK
      <4>2. p \in batch[r]
        BY <3>2, <4>1 DEF WillRaise
      <4>3. rule[x] \in Settings
        BY <1>2, <3>0, <4>1
      <4>4. CASE excused' = excused \cup AlertsOf(batch[r])
        BY <4>2, <4>4 DEF AlertsOf, Alerts
      <4>5. CASE \E due \in SUBSET Tries :
                   /\ due = {a \in Tries : /\ a[3] = rule[a[1]]
                                          /\ a[2] \in batch[r] \cap Breaches[a[3]]}
                   /\ todo' = [todo EXCEPT ![r] = due]
                   /\ NextAlert(r, due)
        <5> DEFINE a == <<x, p, rule[x]>>
        <5>4. a \in Tries /\ a[1] = x /\ a[2] = p /\ a[3] = rule[x]
          BY <4>3 DEF Tries
        <5>5. p \in Breaches[rule[x]]
          BY <3>0, <4>1
        <5>6. PICK due \in SUBSET Tries :
                /\ due = {b \in Tries : /\ b[3] = rule[b[1]]
                                       /\ b[2] \in batch[r] \cap Breaches[b[3]]}
                /\ todo' = [todo EXCEPT ![r] = due]
                /\ NextAlert(r, due)
          BY <4>5
        <5>7. a \in due
          BY <4>2, <5>4, <5>5, <5>6
        <5>1. <<x, p, rule[x]>> \in todo'[r] /\ Goto(r, "alert")
          BY <1>2, <5>6, <5>7 DEF NextAlert
        <5>2. AlertOf(<<x, p, rule[x]>>) = <<x, p>>
          BY DEF AlertOf
        <5>3. pc'[r] = "alert"
          BY <1>2, <5>1
        <5> QED
          BY <3>2, <4>1, <5>1, <5>2, <5>3 DEF WillRaise
      <4> QED
        BY <1>9, <4>4, <4>5 DEF FindRules
    <3> QED
      BY <3>1, <3>2
  <2> QED
    BY <2>1, <2>2, CompleteQuiet
<1>10. ASSUME NEW r \in Requests, RaiseAlert(r)
      PROVE  AlertsComplete'
  <2>3. PICK b \in todo[r] :
          /\ todo' = [todo EXCEPT ![r] = @ \ {b}]
          /\ \/ events' = Opened(b) /\ Goto(r, "count") /\ excused' = excused
             \/ /\ excused' = excused \cup {AlertOf(b)}
                /\ NextAlert(r, todo[r] \ {b})
    BY <1>10 DEF RaiseAlert
  <2>4. b \in Tries /\ pc[r] = "alert" /\ UNCHANGED <<op, batch, rule, stored>>
    BY <1>2, <1>10 DEF RaiseAlert
  <2>1. \A x \in Rules, p \in stored' :
          <<x, p>> \notin excused' /\ rule'[x] # None /\ p \in Breaches[rule'[x]]
            => /\ <<x, p>> \notin excused /\ rule'[x] = rule[x]
               /\ p \in stored \/ \E q \in Requests : WillRaise(q, <<x, p>>)
    BY <2>3, <2>4
  <2>2. \A q \in Requests, x \in Rules, p \in Points :
          /\ WillRaise(q, <<x, p>>) /\ <<x, p>> \notin excused'
          /\ rule'[x] # None /\ p \in Breaches[rule'[x]]
          => WillRaise(q, <<x, p>>)' \/ Raised(<<x, At[p]>>)'
    <3> SUFFICES ASSUME NEW q \in Requests, NEW x \in Rules, NEW p \in Points,
                        WillRaise(q, <<x, p>>), <<x, p>> \notin excused'
                 PROVE  WillRaise(q, <<x, p>>)' \/ Raised(<<x, At[p]>>)'
      OBVIOUS
    <3>1. CASE q # r
      <4>1. pc'[q] = pc[q] /\ todo'[q] = todo[q]
        BY <1>2, <2>3, <3>1 DEF NextAlert
      <4> QED
        BY <2>4, <4>1 DEF WillRaise
    <3>2. CASE q = r /\ AlertOf(b) = <<x, p>>
      <4>1. events' = Opened(b) /\ KeyOf(b) = <<x, At[p]>>
        BY <2>3, <3>2 DEF AlertOf, KeyOf
      <4> QED
        BY <1>2, <2>4, <4>1, OpenedEvent DEF Raised
    <3>3. CASE q = r /\ AlertOf(b) # <<x, p>>
      <4>1. PICK a \in todo[r] : AlertOf(a) = <<x, p>>
        BY <2>4, <3>3 DEF WillRaise
      <4>2. a \in todo'[r]
        BY <1>2, <2>3, <3>3, <4>1
      <4>3. pc'[r] \in {"alert", "count"}
        BY <1>2, <2>3, <3>3, <4>1 DEF NextAlert
      <4>4. op'[r] = "ingest"
        BY <2>4, <3>3 DEF WillRaise
      <4> QED
        BY <3>3, <4>1, <4>2, <4>3, <4>4 DEF WillRaise
    <3> QED
      BY <3>1, <3>2, <3>3
  <2> QED
    BY <2>1, <2>2, CompleteQuiet
<1>11. ASSUME NEW r \in Requests, CountAlert(r)
      PROVE  AlertsComplete'
  <2>1. \A x \in Rules, p \in stored' :
          <<x, p>> \notin excused' /\ rule'[x] # None /\ p \in Breaches[rule'[x]]
            => /\ <<x, p>> \notin excused /\ rule'[x] = rule[x]
               /\ p \in stored \/ \E q \in Requests : WillRaise(q, <<x, p>>)
    BY <1>11, <1>2 DEF CountAlert
  <2>2. \A q \in Requests, x \in Rules, p \in Points :
          /\ WillRaise(q, <<x, p>>) /\ <<x, p>> \notin excused'
          /\ rule'[x] # None /\ p \in Breaches[rule'[x]]
          => WillRaise(q, <<x, p>>)' \/ Raised(<<x, At[p]>>)'
    BY <1>11, <1>2 DEF CountAlert, WillRaise, NextAlert
  <2> QED
    BY <2>1, <2>2, CompleteQuiet
<1>12. ASSUME NEW r \in Requests, GetCopy(r)
      PROVE  AlertsComplete'
  BY <1>12, <1>2, CompleteQuiet DEF GetCopy, WillRaise
<1>13. ASSUME NEW r \in Requests, ReadRow(r)
      PROVE  AlertsComplete'
  BY <1>13, <1>2, CompleteQuiet DEF ReadRow, WillRaise
<1>14. ASSUME NEW r \in Requests, FillCopy(r)
      PROVE  AlertsComplete'
  BY <1>14, <1>2, CompleteQuiet DEF FillCopy, WillRaise
<1>15. ASSUME NEW r \in Requests, PeekLatest(r)
      PROVE  AlertsComplete'
  BY <1>15, <1>2, CompleteQuiet DEF PeekLatest, WillRaise
<1>16. ASSUME NEW r \in Requests, WipeDay(r)
      PROVE  AlertsComplete'
  BY <1>16, <1>2, CompleteQuiet DEF WipeDay, WillRaise
<1>17. ASSUME NEW r \in Requests, RemoveRow(r)
      PROVE  AlertsComplete'
  <2>1. \A x \in Rules, p \in stored' :
          <<x, p>> \notin excused' /\ rule'[x] # None /\ p \in Breaches[rule'[x]]
            => /\ <<x, p>> \notin excused /\ rule'[x] = rule[x]
               /\ p \in stored \/ \E q \in Requests : WillRaise(q, <<x, p>>)
    BY <1>17, <1>2 DEF RemoveRow
  <2>2. \A q \in Requests, x \in Rules, p \in Points :
          /\ WillRaise(q, <<x, p>>) /\ <<x, p>> \notin excused'
          /\ rule'[x] # None /\ p \in Breaches[rule'[x]]
          => WillRaise(q, <<x, p>>)' \/ Raised(<<x, At[p]>>)'
    BY <1>17, <1>2 DEF RemoveRow, WillRaise
  <2> QED
    BY <2>1, <2>2, CompleteQuiet
<1>18. ASSUME NEW r \in Requests, ClearKeys(r)
      PROVE  AlertsComplete'
  BY <1>18, <1>2, CompleteQuiet DEF ClearKeys, WillRaise
<1>19. ASSUME NEW k \in Events, Acknowledge(k)
      PROVE  AlertsComplete'
  BY <1>19, <1>2, CompleteQuiet DEF Acknowledge, WillRaise
<1>20. ASSUME NEW y \in Rules, ChangeRule(y)
      PROVE  AlertsComplete'
  <2>0. /\ excused' = excused \cup ({y} \X sent)
        /\ \A x \in Rules \ {y} : rule'[x] = rule[x]
        /\ UNCHANGED <<op, pc, batch, todo, stored, sent>>
    BY <1>2, <1>20 DEF ChangeRule
  <2>3. \A q \in Requests, x \in Rules, p \in Points :
          WillRaise(q, <<x, p>>) => p \in sent
    BY DEF WillRaise, Pending, Deliveries
  <2>1. \A x \in Rules, p \in stored' :
          <<x, p>> \notin excused' /\ rule'[x] # None /\ p \in Breaches[rule'[x]]
            => /\ <<x, p>> \notin excused /\ rule'[x] = rule[x]
               /\ p \in stored \/ \E q \in Requests : WillRaise(q, <<x, p>>)
    BY <1>2, <2>0 DEF Deliveries
  <2>2. \A q \in Requests, x \in Rules, p \in Points :
          /\ WillRaise(q, <<x, p>>) /\ <<x, p>> \notin excused'
          /\ rule'[x] # None /\ p \in Breaches[rule'[x]]
          => WillRaise(q, <<x, p>>)' \/ Raised(<<x, At[p]>>)'
    BY <2>0, <2>3 DEF WillRaise
  <2> QED
    BY <2>1, <2>2, CompleteQuiet
<1>21. CASE ExpireCopy
  BY <1>21, <1>2, CompleteQuiet DEF ExpireCopy, WillRaise
<1>22. CASE ExpireLatest
  BY <1>22, <1>2, CompleteQuiet DEF ExpireLatest, WillRaise
<1>23. CASE ExpireOnline
  BY <1>23, <1>2, CompleteQuiet DEF ExpireOnline, WillRaise
<1>24. ASSUME NEW s \in Severities, ExpireCount(s)
      PROVE  AlertsComplete'
  BY <1>24, <1>2, CompleteQuiet DEF ExpireCount, WillRaise
<1>25. CASE Crash
  <2>1. \A x \in Rules, p \in stored' :
          <<x, p>> \notin excused' /\ rule'[x] # None /\ p \in Breaches[rule'[x]]
            => /\ <<x, p>> \notin excused /\ rule'[x] = rule[x]
               /\ p \in stored \/ \E q \in Requests : WillRaise(q, <<x, p>>)
    BY <1>25, <1>2 DEF Crash
  <2>2. \A q \in Requests, x \in Rules, p \in Points :
          /\ WillRaise(q, <<x, p>>) /\ <<x, p>> \notin excused'
          /\ rule'[x] # None /\ p \in Breaches[rule'[x]]
          => WillRaise(q, <<x, p>>)' \/ Raised(<<x, At[p]>>)'
    <3> DEFINE ends(q) == AlertsOf(batch[q]) \cup {AlertOf(a) : a \in todo[q]}
    <3>1. \A q \in Requests : pc[q] \notin Outcomes => ends(q) \subseteq excused'
      BY <1>25 DEF Crash
    <3>2. \A q \in Requests, x \in Rules, p \in Points :
            WillRaise(q, <<x, p>>) => pc[q] \notin Outcomes /\ <<x, p>> \in ends(q)
      BY DEF WillRaise, AlertsOf, Alerts
    <3> QED
      BY <3>1, <3>2
  <2> QED
    BY <2>1, <2>2, CompleteQuiet
<1>26. CASE UNCHANGED vars
  BY <1>26, <1>2, CompleteQuiet DEF vars, WillRaise
<1> QED
  BY <1>3, <1>4, <1>5, <1>6, <1>7, <1>8, <1>9, <1>10, <1>11, <1>12,
     <1>13, <1>14, <1>15, <1>16, <1>17, <1>18, <1>19, <1>20, <1>21,
     <1>22, <1>23, <1>24, <1>25, <1>26 DEF Next, Step

(* Theorem: no stored point that breaches an enabled rule is left without   *)
(* its event by the order of calls, whatever other requests, deletions and  *)
(* acknowledgements run; only failures and rule changes lose one.           *)
THEOREM Completeness == Spec => []AlertsComplete
<1>1. Init => AlertsComplete
  BY DEF Init, AlertsComplete
<1>2. Shape /\ Deliveries /\ AlertsComplete /\ [Next]_vars => AlertsComplete'
  BY CompleteStep
<1> QED
  BY <1>1, <1>2, ShapeAlways, DeliveriesAlways, PTL DEF Spec

-----------------------------------------------------------------------------
(* Day buckets and zones                                                    *)

(* Lemma: an instant lies in its day.                                       *)
LEMMA DayOfInstant ==
  ASSUME NEW t \in Int, NEW zone \in Int
  PROVE  /\ Day(t, zone) \in Int
         /\ Day(t, zone) * DayLength <= t + zone
         /\ t + zone < Day(t, zone) * DayLength + DayLength
BY DayLengthAssumption DEF Day

(* Lemma: a day that starts before another ends is not after it.            *)
LEMMA FewerDays ==
  ASSUME NEW a \in Int, NEW b \in Int, a * DayLength < b * DayLength + DayLength
  PROVE  a <= b
<1>1. DayLength \in Nat /\ DayLength > 0
  BY DayLengthAssumption
<1>2. SUFFICES ASSUME a >= b + 1 PROVE FALSE
  OBVIOUS
<1>3. a * DayLength >= (b + 1) * DayLength
  BY <1>1, <1>2
<1>4. (b + 1) * DayLength = b * DayLength + DayLength
  BY <1>1
<1>5. a * DayLength \in Int /\ b * DayLength \in Int
  BY <1>1
<1> QED BY <1>1, <1>3, <1>4, <1>5

(* Lemma: later days start later.                                           *)
LEMMA LaterDays ==
  ASSUME NEW a \in Int, NEW b \in Int, a <= b
  PROVE  a * DayLength <= b * DayLength
BY DayLengthAssumption

(* Lemma: later instants have later dates.                                  *)
LEMMA DaysInOrder ==
  ASSUME NEW t \in Int, NEW u \in Int, NEW z \in Int, NEW y \in Int, t + z <= u + y
  PROVE  Day(t, z) <= Day(u, y)
<1> DEFINE a == Day(t, z)
           b == Day(u, y)
<1>1. a \in Int /\ b \in Int /\ a * DayLength <= t + z
      /\ u + y < b * DayLength + DayLength
  BY DayOfInstant
<1>2. a * DayLength \in Int /\ b * DayLength \in Int /\ DayLength \in Int
  BY <1>1, DayLengthAssumption
<1> HIDE DEF a, b
<1>3. a * DayLength < b * DayLength + DayLength
  BY <1>1, <1>2
<1>4. a <= b
  BY <1>1, <1>3, FewerDays
<1> QED BY <1>4 DEF a, b

(* Lemma: zones differ by a number of hours.                                *)
LEMMA AheadInt ==
  ASSUME NEW a \in Int, NEW b \in Int
  PROVE  Ahead(a, b) \in Nat /\ Ahead(a, b) >= a - b
BY DEF Ahead

(* Lemma: the loop of Query comes by the day of a point within its bounds.  *)
LEMMA DayVisited ==
  ASSUME NEW t \in Int, NEW zone \in Int,
         NEW sa \in Int, NEW sz \in Int, NEW ea \in Int, NEW ez \in Int,
         sa + Ahead(sz, zone) <= t,
         t + Ahead(zone, ez) + (IF ez > sz THEN DayLength - 1 + (ez - sz) ELSE 0) <= ea
  PROVE  /\ Day(t, zone) >= Day(sa, sz)
         /\ Midnight(Day(t, zone), sz) <= Midnight(Day(ea, ez), ez)
<1> DEFINE a == Day(t, zone)
           b == Day(ea, ez)
<1>0. /\ Ahead(sz, zone) \in Nat /\ Ahead(sz, zone) >= sz - zone
      /\ Ahead(zone, ez) \in Nat /\ Ahead(zone, ez) >= zone - ez
      /\ DayLength \in Nat /\ DayLength > 0
  BY AheadInt, DayLengthAssumption
<1>1. sa + sz <= t + zone /\ t + zone <= ea + ez
  BY <1>0
<1>2. Day(sa, sz) <= a /\ a <= b
  BY <1>1, DaysInOrder
<1>3. /\ a \in Int /\ b \in Int /\ Day(sa, sz) \in Int
      /\ a * DayLength \in Int /\ b * DayLength \in Int
      /\ a * DayLength <= t + zone
      /\ ea + ez < b * DayLength + DayLength
  <2>1. /\ a \in Int /\ b \in Int /\ Day(sa, sz) \in Int
        /\ a * DayLength <= t + zone
        /\ ea + ez < b * DayLength + DayLength
    BY DayOfInstant
  <2> HIDE DEF a, b
  <2> QED BY <1>0, <2>1
<1> HIDE DEF a, b
<1>4. CASE ez <= sz
  <2>1. a * DayLength <= b * DayLength
    BY <1>2, <1>3, LaterDays
  <2>2. a * DayLength - sz <= b * DayLength - ez
    BY <1>3, <1>4, <2>1
  <2> QED BY <1>2, <1>3, <2>2 DEF Midnight, a, b
<1>5. CASE ez > sz
  <2>1. t + zone + DayLength - 1 + (ez - sz) <= ea + ez
    BY <1>0, <1>5
  <2>2. a * DayLength - sz <= b * DayLength - ez
    BY <1>0, <1>3, <2>1
  <2> QED BY <1>2, <1>3, <2>2 DEF Midnight, a, b
<1> QED BY <1>4, <1>5

(* Lemma: QueryMissesOnlyEnds needs only the types of the points.           *)
LEMMA QueriesMissOnlyEnds ==
  ASSUME TypeOK
  PROVE  QueryMissesOnlyEnds
<1> SUFFICES ASSUME NEW p \in stored, NEW zone \in Zones,
                    NEW start \in Bounds, NEW end \in Bounds,
                    start.at + Ahead(start.zone, zone) <= At[p],
                    At[p] + Ahead(zone, end.zone) + EarlyStop(start, end) <= end.at
             PROVE  Row(At[p], zone) \in Query({Row(At[p], zone)}, start, end)
  BY DEF QueryMissesOnlyEnds
<1> DEFINE t == At[p]
<1>1. /\ t \in Int /\ zone \in Int
      /\ start.at \in Int /\ start.zone \in Int
      /\ end.at \in Int /\ end.zone \in Int
  <2>1. At[p] \in Nat
    BY ConstantsAssumption DEF TypeOK, Typed
  <2>2. start.at \in Moments /\ start.zone \in Zones
    BY DEF Bounds
  <2>3. end.at \in Moments /\ end.zone \in Zones
    BY DEF Bounds
  <2>4. \A m \in Moments : m \in Int
    BY ReadsAssumption
  <2>5. \A z \in Zones : z \in Int
    BY ReadsAssumption
  <2>6. t \in Int
    BY <2>1
  <2> QED BY <2>2, <2>3, <2>4, <2>5, <2>6
<1>2. Visited(Day(t, zone), start, end)
  BY <1>1, DayVisited DEF Visited, EarlyStop
<1>3. start.at <= t /\ t <= end.at
  <2>1. Ahead(start.zone, zone) \in Nat /\ Ahead(zone, end.zone) \in Nat
    BY <1>1, AheadInt
  <2>2. EarlyStop(start, end) \in Nat
    BY <1>1, DayLengthAssumption DEF EarlyStop
  <2> QED BY <1>1, <2>1, <2>2
<1> QED BY <1>2, <1>3 DEF Query, Row

(* Lemma: among points of bounded times there is a newest.                  *)
LEMMA NewestOf ==
  ASSUME NEW S \in SUBSET Points, S # {}, NEW n \in Nat, \A p \in S : At[p] <= n
  PROVE  \E q \in S : \A p \in S : At[p] <= At[q]
<1> DEFINE R == OpToRel(<, Nat)
           T == {n - At[p] : p \in S}
<1>0. \A p \in S : At[p] \in Nat
  BY ConstantsAssumption
<1>1. T \subseteq Nat /\ T # {}
  BY <1>0
<1>2. IsWellFoundedOn(R, Nat)
  BY NatLessThanWellFounded
<1>3. \A x, y \in Nat : <<y, x>> \in R <=> y < x
  BY DEF OpToRel
<1> HIDE DEF R, T
<1>4. PICK x \in T : \A y \in T : ~ (<<y, x>> \in R)
  BY <1>1, <1>2, WFMin
<1>5. PICK q \in S : x = n - At[q]
  BY DEF T
<1>6. ASSUME NEW p \in S
      PROVE  At[p] <= At[q]
  <2>1. n - At[p] \in T
    BY DEF T
  <2>2. ~ (n - At[p] < n - At[q])
    BY <1>1, <1>3, <1>4, <1>5, <2>1
  <2> QED BY <1>0, <2>2
<1> QED BY <1>6

(* Lemma: LatestInWindow needs only the types of the points.                *)
LEMMA NewestInWindow ==
  ASSUME TypeOK
  PROVE  LatestInWindow
<1> SUFFICES ASSUME NEW n \in Times, IsNewest(n, stored),
                    NEW zone \in [stored -> Zones], NEW here \in Zones,
                    NEW now \in Moments,
                    NEW p \in stored, Recent(Day(At[p], zone[p]), now, here)
             PROVE  \E q \in stored :
                      /\ QueryLatest({Row(At[u], zone[u]) : u \in stored}, now, here)
                           = {Row(At[q], zone[q])}
                      /\ At[p] <= At[q] \/ At[p] + zone[p] < At[q] + zone[q]
  BY DEF LatestInWindow
<1> DEFINE today == Day(now, here)
           On(d) == {u \in stored : Day(At[u], zone[u]) = d}
           found == IF On(today) # {} THEN On(today) ELSE On(today - 1)
<1>1. /\ stored \in SUBSET Points /\ n \in Nat /\ here \in Int /\ now \in Int
      /\ today \in Int
      /\ \A u \in stored : /\ At[u] \in Nat /\ At[u] <= n /\ zone[u] \in Int
                           /\ Day(At[u], zone[u]) \in Int
  <2>1. \A u \in stored : At[u] \in Nat /\ At[u] <= n /\ zone[u] \in Int
    BY ReadsAssumption, ConstantsAssumption DEF TypeOK, Typed, IsNewest
  <2>2. n \in Nat /\ here \in Int /\ now \in Int /\ stored \in SUBSET Points
    BY ReadsAssumption, ConstantsAssumption DEF TypeOK, Typed, Times
  <2>3. today \in Int
    BY <2>2, DayOfInstant
  <2>4. ASSUME NEW u \in stored
        PROVE  Day(At[u], zone[u]) \in Int
    <3>1. At[u] \in Int /\ zone[u] \in Int
      BY <2>1
    <3> QED BY <3>1, DayOfInstant
  <2> HIDE DEF today
  <2> QED BY <2>1, <2>2, <2>3, <2>4
<1>2. p \in On(today) \/ p \in On(today - 1)
  BY DEF Recent
<1>3. found # {} /\ found \in SUBSET Points
  BY <1>1, <1>2
<1>4. PICK q \in found : \A u \in found : At[u] <= At[q]
  BY <1>1, <1>3, NewestOf
<1>5. QueryLatest({Row(At[u], zone[u]) : u \in stored}, now, here)
        = {Row(At[q], zone[q])}
  <2> DEFINE rows == {Row(At[u], zone[u]) : u \in stored}
             Of(d) == {r \in rows : r.date = d}
             hit == IF Of(today) # {} THEN Of(today) ELSE Of(today - 1)
  <2>1. \A d : Of(d) = {Row(At[u], zone[u]) : u \in On(d)}
    BY DEF Row
  <2>2. hit = {Row(At[u], zone[u]) : u \in found}
    <3>1. On(today) # {} <=> Of(today) # {}
      BY <2>1
    <3> HIDE DEF On, Of
    <3> QED BY <2>1, <3>1
  <2>3. \A u \in found : Day(At[u], zone[u]) = Day(At[q], zone[q])
    OBVIOUS
  <2>4. \A u \in found : /\ Row(At[u], zone[u]).at = At[u]
                         /\ Row(At[u], zone[u]).date = Day(At[u], zone[u])
    BY DEF Row
  <2>5. \A u \in found : At[u] \in Nat /\ At[u] <= At[q]
    BY <1>1, <1>4
  <2>8. QueryLatest(rows, now, here) = {r \in hit : \A s \in hit : s.at <= r.at}
    BY DEF QueryLatest
  <2> HIDE DEF hit, found
  <2>6. Row(At[q], zone[q]) \in hit /\ \A s \in hit : s.at <= At[q]
    BY <1>4, <2>2, <2>4, <2>5
  <2>7. ASSUME NEW r \in hit, \A s \in hit : s.at <= r.at
        PROVE  r = Row(At[q], zone[q])
    <3>1. PICK u \in found : r = Row(At[u], zone[u])
      BY <2>2
    <3>2. At[q] <= At[u]
      BY <2>4, <2>6, <2>7, <3>1
    <3>3. At[u] = At[q]
      BY <2>5, <3>2
    <3> QED BY <2>3, <3>1, <3>3 DEF Row
  <2> QED BY <2>4, <2>6, <2>7, <2>8
<1>6. q \in stored
  OBVIOUS
<1>7. At[p] <= At[q] \/ At[p] + zone[p] < At[q] + zone[q]
  <2>1. CASE p \in found
    BY <1>4, <2>1
  <2>2. CASE p \notin found
    <3>1. Day(At[p], zone[p]) = today - 1 /\ Day(At[q], zone[q]) = today
      BY <1>2, <2>2
    <3>2. ~ (Day(At[q], zone[q]) <= Day(At[p], zone[p]))
      BY <1>1, <3>1
    <3>3. ~ (At[q] + zone[q] <= At[p] + zone[p])
      BY <1>1, <1>6, <3>2, DaysInOrder
    <3> QED BY <1>1, <1>6, <3>3
  <2> QED BY <2>1, <2>2
<1> QED BY <1>5, <1>6, <1>7

(* What a query may miss of a range, for all points, zones and day lengths. *)
THEOREM QueriesComplete == Spec => []QueryMissesOnlyEnds
BY Typing, QueriesMissOnlyEnds, PTL

(* QueryLatest answers the newest point of today and yesterday, but for     *)
(* points that senders in other zones gave an earlier time of day.          *)
THEOREM LatestRead == Spec => []LatestInWindow
BY Typing, NewestInWindow, PTL

-----------------------------------------------------------------------------
(* Requests advance                                                         *)

(* Lemma: there is a first day among the days of some points.               *)
LEMMA FirstDay ==
  ASSUME NEW S \in SUBSET Points, S # {}
  PROVE  \E t \in S : \A u \in S : DayOf[t] <= DayOf[u]
<1> DEFINE R == OpToRel(<, Nat)
           T == {DayOf[t] : t \in S}
<1>1. T \subseteq Nat /\ T # {}
  <2>1. \A t \in S : DayOf[t] \in Nat
    BY ConstantsAssumption
  <2> QED BY <2>1
<1>2. IsWellFoundedOn(R, Nat)
  BY NatLessThanWellFounded
<1>3. \A x, y \in Nat : <<y, x>> \in R <=> y < x
  BY DEF OpToRel
<1> HIDE DEF R, T
<1>4. PICK x \in T : \A y \in T : ~ (<<y, x>> \in R)
  BY <1>1, <1>2, WFMin
<1>5. ASSUME NEW y \in T
      PROVE  x <= y
  <2>1. x \in Nat /\ y \in Nat
    BY <1>1
  <2>2. ~ (y < x)
    BY <1>3, <1>4, <2>1
  <2> QED BY <2>1, <2>2
<1> QED BY <1>4, <1>5 DEF T

(* Lemma: no chunk is empty while there are points to write.                *)
LEMMA ChunkNotEmpty ==
  ASSUME NEW S, S # {}, NEW c \in Chunks(S)
  PROVE  c # {} /\ c \subseteq S
<1>1. Cardinality({}) = 0 /\ ChunkSize # 0
  BY FS_EmptySet, ConstantsAssumption
<1> QED BY <1>1 DEF Chunks

LEMMA StageCounts ==
  /\ StagesLeft["check"] = 8 /\ StagesLeft["chunk"] = 7
  /\ StagesLeft["heartbeat"] = 6 /\ StagesLeft["newest"] = 4
  /\ StagesLeft["publish"] = 3 /\ StagesLeft["rules"] = 2
  /\ StagesLeft["alert"] = 1 /\ StagesLeft["count"] = 1
  /\ StagesLeft["wipe"] = 7 /\ StagesLeft["remove"] = 7
  /\ StagesLeft["clear"] = 6
  /\ StagesLeft["copy"] = 8 /\ StagesLeft["row"] = 7
  /\ StagesLeft["fill"] = 6 /\ StagesLeft["peek"] = 5
BY DEF StagesLeft

(* r is at a call and moves on to an outcome, to a later stage, or within   *)
(* its stage with less to do.                                               *)
Onward(r) ==
  \/ pc'[r] \in Outcomes
  \/ /\ pc'[r] \in Places
     /\ \/ StagesLeft[pc'[r]] < StagesLeft[pc[r]]
        \/ /\ StagesLeft[pc'[r]] = StagesLeft[pc[r]]
           /\ \/ StrictSubset(left'[r], left[r])
              \/ StrictSubset(todo'[r], todo[r])
              \/ pc[r] = "count" /\ pc'[r] = "alert" /\ todo'[r] = todo[r]

(* Lemma: to an outcome, or to a later stage.                               *)
LEMMA OnwardTo ==
  ASSUME Typed, NEW r \in Requests, NEW l, Goto(r, l),
         \/ l \in Outcomes
         \/ l \in Places /\ StagesLeft[l] < StagesLeft[pc[r]]
  PROVE  Onward(r)
BY DEF Onward, Goto, Typed

(* Lemma: the step of a request takes it on and leaves the others where     *)
(* they are.                                                                *)
LEMMA StepOnward ==
  ASSUME Shape, NEW r \in Requests, Step(r)
  PROVE  Onward(r) /\ \A s \in Requests \ {r} : pc'[s] = pc[s]
<1>1. Typed /\ LocalsOK
  BY DEF Shape, TypeOK
<1>2. \A s \in Requests \ {r} : pc'[s] = pc[s]
  BY <1>1 DEF Goto, Typed, Step, CheckDevice, WriteChunk, Heartbeat, ReadNewest,
     Publish, FindRules, RaiseAlert, CountAlert, NextAlert, GetCopy, ReadRow,
     FillCopy, PeekLatest, WipeDay, RemoveRow, ClearKeys
<1> SUFFICES Onward(r)
  BY <1>2
<1>3. /\ "ok" \in Outcomes /\ "notFound" \in Outcomes
      /\ "error" \in Outcomes /\ "partial" \in Outcomes
  BY DEF Outcomes
<1>4. AfterLatest(r) \in {"rules", "ok"}
  BY DEF AfterLatest
<1>5. CASE CheckDevice(r)
  <2>1. PICK l \in {"remove", "wipe", "heartbeat", "chunk", "ok", "notFound", "error"} : Goto(r, l)
    BY <1>5 DEF CheckDevice, AfterCheck
  <2>2. pc[r] = "check"
    BY <1>5 DEF CheckDevice
  <2>3. l \in Outcomes \/ (l \in Places /\ StagesLeft[l] < StagesLeft[pc[r]])
    BY <2>2, <1>3, StageCounts DEF Places
  <2> QED
    BY <1>1, <2>1, <2>3, OnwardTo
<1>6. CASE Heartbeat(r)
  <2>1. PICK l \in {"newest"} : Goto(r, l)
    BY <1>6 DEF Heartbeat
  <2>2. pc[r] = "heartbeat"
    BY <1>6 DEF Heartbeat
  <2>3. l \in Outcomes \/ (l \in Places /\ StagesLeft[l] < StagesLeft[pc[r]])
    BY <2>2, <1>3, StageCounts DEF Places
  <2> QED
    BY <1>1, <2>1, <2>3, OnwardTo
<1>7. CASE ReadNewest(r)
  <2>1. PICK l \in {"publish", "rules", "ok"} : Goto(r, l)
    BY <1>7, <1>4 DEF ReadNewest
  <2>2. pc[r] = "newest"
    BY <1>7 DEF ReadNewest
  <2>3. l \in Outcomes \/ (l \in Places /\ StagesLeft[l] < StagesLeft[pc[r]])
    BY <2>2, <1>3, StageCounts DEF Places
  <2> QED
    BY <1>1, <2>1, <2>3, OnwardTo
<1>8. CASE Publish(r)
  <2>1. PICK l \in {"rules", "ok"} : Goto(r, l)
    BY <1>8, <1>4 DEF Publish
  <2>2. pc[r] = "publish"
    BY <1>8 DEF Publish
  <2>3. l \in Outcomes \/ (l \in Places /\ StagesLeft[l] < StagesLeft[pc[r]])
    BY <2>2, <1>3, StageCounts DEF Places
  <2> QED
    BY <1>1, <2>1, <2>3, OnwardTo
<1>9. CASE FindRules(r)
  <2>1. PICK l \in {"alert", "ok", "error"} : Goto(r, l)
    BY <1>9 DEF FindRules, NextAlert
  <2>2. pc[r] = "rules"
    BY <1>9 DEF FindRules
  <2>3. l \in Outcomes \/ (l \in Places /\ StagesLeft[l] < StagesLeft[pc[r]])
    BY <2>2, <1>3, StageCounts DEF Places
  <2> QED
    BY <1>1, <2>1, <2>3, OnwardTo
<1>10. CASE GetCopy(r)
  <2>1. PICK l \in {"peek", "row"} : Goto(r, l)
    BY <1>10 DEF GetCopy
  <2>2. pc[r] = "copy"
    BY <1>10 DEF GetCopy
  <2>3. l \in Outcomes \/ (l \in Places /\ StagesLeft[l] < StagesLeft[pc[r]])
    BY <2>2, <1>3, StageCounts DEF Places
  <2> QED
    BY <1>1, <2>1, <2>3, OnwardTo
<1>11. CASE ReadRow(r)
  <2>1. PICK l \in {"fill", "peek", "notFound", "error"} : Goto(r, l)
    BY <1>11 DEF ReadRow
  <2>2. pc[r] = "row"
    BY <1>11 DEF ReadRow
  <2>3. l \in Outcomes \/ (l \in Places /\ StagesLeft[l] < StagesLeft[pc[r]])
    BY <2>2, <1>3, StageCounts DEF Places
  <2> QED
    BY <1>1, <2>1, <2>3, OnwardTo
<1>12. CASE FillCopy(r)
  <2>1. PICK l \in {"peek"} : Goto(r, l)
    BY <1>12 DEF FillCopy
  <2>2. pc[r] = "fill"
    BY <1>12 DEF FillCopy
  <2>3. l \in Outcomes \/ (l \in Places /\ StagesLeft[l] < StagesLeft[pc[r]])
    BY <2>2, <1>3, StageCounts DEF Places
  <2> QED
    BY <1>1, <2>1, <2>3, OnwardTo
<1>13. CASE PeekLatest(r)
  <2>1. PICK l \in {"newest", "ok"} : Goto(r, l)
    BY <1>13 DEF PeekLatest
  <2>2. pc[r] = "peek"
    BY <1>13 DEF PeekLatest
  <2>3. l \in Outcomes \/ (l \in Places /\ StagesLeft[l] < StagesLeft[pc[r]])
    BY <2>2, <1>3, StageCounts DEF Places
  <2> QED
    BY <1>1, <2>1, <2>3, OnwardTo
<1>14. CASE RemoveRow(r)
  <2>1. PICK l \in {"clear", "error"} : Goto(r, l)
    BY <1>14 DEF RemoveRow
  <2>2. pc[r] = "remove"
    BY <1>14 DEF RemoveRow
  <2>3. l \in Outcomes \/ (l \in Places /\ StagesLeft[l] < StagesLeft[pc[r]])
    BY <2>2, <1>3, StageCounts DEF Places
  <2> QED
    BY <1>1, <2>1, <2>3, OnwardTo
<1>15. CASE ClearKeys(r)
  <2>1. PICK l \in {"ok", "partial"} : Goto(r, l)
    BY <1>15 DEF ClearKeys
  <2>2. pc[r] = "clear"
    BY <1>15 DEF ClearKeys
  <2>3. l \in Outcomes \/ (l \in Places /\ StagesLeft[l] < StagesLeft[pc[r]])
    BY <2>2, <1>3, StageCounts DEF Places
  <2> QED
    BY <1>1, <2>1, <2>3, OnwardTo
<1>16. CASE WriteChunk(r)
  <2>1. pc[r] = "chunk" /\ left[r] # {}
    BY <1>16, <1>1 DEF WriteChunk, LocalsOK
  <2>2. PICK c \in Chunks(left[r]) :
          \/ Goto(r, "heartbeat") \/ Goto(r, "error")
          \/ Goto(r, "chunk") /\ left' = [left EXCEPT ![r] = @ \ c]
    BY <1>16 DEF WriteChunk
  <2>3. CASE Goto(r, "heartbeat") \/ Goto(r, "error")
    BY <2>1, <2>3, <1>1, <1>3, StageCounts, OnwardTo DEF Places
  <2>4. CASE Goto(r, "chunk") /\ left' = [left EXCEPT ![r] = @ \ c]
    <3>1. c # {} /\ c \subseteq left[r]
      BY <2>1, ChunkNotEmpty
    <3>2. left'[r] = left[r] \ c /\ pc'[r] = "chunk"
      BY <2>4, <1>1 DEF Goto, Typed
    <3>3. StrictSubset(left'[r], left[r])
      BY <3>1, <3>2 DEF StrictSubset
    <3> QED
      BY <2>1, <3>2, <3>3 DEF Onward, Places
  <2> QED
    BY <2>2, <2>3, <2>4
<1>17. CASE RaiseAlert(r)
  <2>1. pc[r] = "alert"
    BY <1>17 DEF RaiseAlert
  <2>2. PICK a \in todo[r] :
          /\ todo' = [todo EXCEPT ![r] = @ \ {a}]
          /\ Goto(r, "count") \/ NextAlert(r, todo[r] \ {a})
    BY <1>17 DEF RaiseAlert
  <2>3. PICK l \in {"count", "alert", "ok"} : Goto(r, l)
    BY <2>2 DEF NextAlert
  <2>4. todo'[r] = todo[r] \ {a} /\ pc'[r] = l
    BY <2>2, <2>3, <1>1 DEF Goto, Typed
  <2>5. StrictSubset(todo'[r], todo[r])
    BY <2>2, <2>4 DEF StrictSubset
  <2> QED
    BY <2>1, <2>4, <2>5, <1>3, StageCounts DEF Onward, Places
<1>18. CASE CountAlert(r)
  <2>1. pc[r] = "count" /\ UNCHANGED todo
    BY <1>18 DEF CountAlert
  <2>2. PICK l \in {"alert", "ok"} : Goto(r, l)
    BY <1>18 DEF CountAlert, NextAlert
  <2>3. pc'[r] = l
    BY <2>2, <1>1 DEF Goto, Typed
  <2> QED
    BY <2>1, <2>3, <1>3, StageCounts DEF Onward, Places
<1>19. CASE WipeDay(r)
  <2> DEFINE day == {t \in left[r] : \A u \in left[r] : DayOf[t] <= DayOf[u]}
  <2>1. pc[r] = "wipe" /\ left[r] # {} /\ left[r] \in SUBSET Points
    BY <1>19, <1>1 DEF WipeDay, LocalsOK, Typed
  <2>2. \/ Goto(r, "ok") \/ Goto(r, "error")
        \/ Goto(r, "wipe") /\ left' = [left EXCEPT ![r] = left[r] \ day]
    BY <1>19 DEF WipeDay
  <2>3. day # {} /\ day \subseteq left[r]
    BY <2>1, FirstDay
  <2> HIDE DEF day
  <2>4. CASE Goto(r, "ok") \/ Goto(r, "error")
    BY <2>4, <1>1, <1>3, OnwardTo
  <2>5. CASE Goto(r, "wipe") /\ left' = [left EXCEPT ![r] = left[r] \ day]
    <3>1. left'[r] = left[r] \ day /\ pc'[r] = "wipe"
      BY <2>5, <1>1 DEF Goto, Typed
    <3>2. StrictSubset(left'[r], left[r])
      BY <2>3, <3>1 DEF StrictSubset
    <3> QED
      BY <2>1, <3>1, <3>2 DEF Onward, Places
  <2> QED
    BY <2>2, <2>4, <2>5
<1> QED
  BY <1>5, <1>6, <1>7, <1>8, <1>9, <1>10, <1>11,
     <1>12, <1>13, <1>14, <1>15, <1>16, <1>17, <1>18, <1>19 DEF Step

(* Theorem: no request is sent back, and none tries a chunk, a day or an    *)
(* alert twice, whatever fails: its loops end.                              *)
THEOREM Advancing == Spec => RequestsAdvance
<1> DEFINE Advance(r) ==
      \/ pc'[r] \in Outcomes
      \/ pc'[r] = pc[r] /\ ~Step(r)
      \/ /\ pc'[r] \in Places
         /\ \/ StagesLeft[pc'[r]] < StagesLeft[pc[r]]
            \/ /\ StagesLeft[pc'[r]] = StagesLeft[pc[r]]
               /\ \/ StrictSubset(left'[r], left[r])
                  \/ StrictSubset(todo'[r], todo[r])
                  \/ pc[r] = "count" /\ pc'[r] = "alert" /\ todo'[r] = todo[r]
<1>1. ASSUME Shape, [Next]_vars, NEW r \in Requests, pc[r] \in Places
      PROVE  Advance(r)
  <2>0. Typed
    BY <1>1 DEF Shape, TypeOK
  <2>1. CASE Step(r)
    BY <2>1, <1>1, StepOnward DEF Onward
  <2>2. CASE ~Step(r)
    <3> SUFFICES pc'[r] = pc[r] \/ pc'[r] \in Outcomes
      BY <2>2
    <3>1. ASSUME NEW s \in Requests, Step(s)
          PROVE  pc'[r] = pc[r]
      BY <3>1, <2>2, <1>1, StepOnward
    <3>2. ASSUME NEW s \in Requests, NEW o \in Operations,
                 NEW S \in SUBSET Points, Start(s, o, S)
          PROVE  pc'[r] = pc[r]
      <4>1. pc[s] \in Outcomes
        BY <3>2 DEF Start
      <4>2. s # r
        BY <4>1, <1>1 DEF Outcomes, Places
      <4> QED
        BY <3>2, <4>2, <2>0 DEF Start, Goto, Typed
    <3>3. CASE Crash
      BY <3>3 DEF Crash, Outcomes
    <3>4. CASE UNCHANGED pc
      BY <3>4
    <3> QED
      BY <1>1, <3>1, <3>2, <3>3, <3>4
      DEF Next, vars, Acknowledge, ChangeRule, ExpireCopy, ExpireLatest,
          ExpireOnline, ExpireCount
  <2> QED
    BY <2>1, <2>2
<1>2. Shape /\ [Next]_vars =>
        [\A r \in Requests : pc[r] \in Places => Advance(r)]_vars
  BY <1>1
<1> HIDE DEF Advance
<1> QED
  BY <1>2, ShapeAlways, PTL DEF Spec, RequestsAdvance, Advance

-----------------------------------------------------------------------------
(* What is forgotten stays forgotten                                       *)

(* The calls that come before a request has seen the device, or that write *)
(* none of its keys.                                                       *)
Blind == Outcomes \cup {"check", "copy", "row", "wipe", "remove", "clear"}

(* Lemma: a step of a request that has not seen the forgotten device       *)
(* writes no key and leaves it as blind as before.                         *)
LEMMA ForgottenStep ==
  ASSUME Shape, Forgotten, NEW r \in Requests, Step(r)
  PROVE  Forgotten'
<1> USE DEF Forgotten, Blind, Outcomes, Goto, stores, local, ghost
<1>1. /\ pc \in [Requests -> Outcomes \cup Places]
      /\ \A q \in Requests : pc[q] \in Blind
  BY DEF Shape, TypeOK, Typed
<1>2. ASSUME NEW l \in Blind, Goto(r, l),
             ~live', ~copy', ~online', latest' = None, counted' = {}
      PROVE  Forgotten'
  BY <1>1, <1>2
<1>3. CASE CheckDevice(r)
  BY <1>3, <1>2 DEF CheckDevice
<1>4. CASE GetCopy(r)
  BY <1>4, <1>2 DEF GetCopy
<1>5. CASE ReadRow(r)
  <2>1. ~\E q \in Requests : pc[q] = "fill"
    BY <1>1
  <2> QED
    BY <1>5, <1>2, <2>1 DEF ReadRow
<1>6. CASE WipeDay(r)
  <2>1. \E l \in {"ok", "wipe", "error"} : Goto(r, l)
    BY <1>6 DEF WipeDay
  <2> QED
    BY <1>6, <1>2, <2>1 DEF WipeDay
<1>7. CASE RemoveRow(r)
  BY <1>7, <1>2 DEF RemoveRow
<1>8. CASE ClearKeys(r)
  BY <1>8, <1>2 DEF ClearKeys
<1>9. pc[r] \notin {"chunk", "heartbeat", "newest", "publish", "rules",
                    "alert", "count", "fill", "peek"}
  BY <1>1
<1> QED
  BY <1>3, <1>4, <1>5, <1>6, <1>7, <1>8, <1>9
     DEF Step, WriteChunk, Heartbeat, ReadNewest, Publish, FindRules,
         RaiseAlert, CountAlert, FillCopy, PeekLatest

(* Theorem: once the keys of a deleted device are cleared and the requests *)
(* that had seen it are through, none of its keys is ever written again:   *)
(* every write of a key comes after a look at the row, at a copy of it or  *)
(* at a flight that has read it.                                           *)
THEOREM Forgetting == Spec => ForgottenForGood
<1>1. ASSUME Shape, Forgotten, [Next]_vars
      PROVE  Forgotten'
  <2> USE DEF Forgotten, Outcomes, Goto, stores, local, ghost
  <2>1. pc \in [Requests -> Outcomes \cup Places]
    BY <1>1 DEF Shape, TypeOK, Typed
  <2>2. ASSUME NEW r \in Requests, NEW o \in Operations,
               NEW S \in SUBSET Points, Start(r, o, S)
        PROVE  Forgotten'
    BY <1>1, <2>1, <2>2 DEF Start
  <2>3. ASSUME NEW r \in Requests, Step(r)
        PROVE  Forgotten'
    BY <1>1, <2>3, ForgottenStep
  <2>4. ASSUME NEW k \in Events, Acknowledge(k)
        PROVE  Forgotten'
    BY <1>1, <2>4 DEF Acknowledge
  <2>5. ASSUME NEW x \in Rules, ChangeRule(x)
        PROVE  Forgotten'
    BY <1>1, <2>5 DEF ChangeRule
  <2>6. CASE ExpireCopy \/ ExpireLatest \/ ExpireOnline
    BY <1>1, <2>6 DEF ExpireCopy, ExpireLatest, ExpireOnline
  <2>7. ASSUME NEW s \in Severities, ExpireCount(s)
        PROVE  Forgotten'
    BY <1>1, <2>7 DEF ExpireCount
  <2>8. CASE Crash
    BY <1>1, <2>8 DEF Crash
  <2>9. CASE UNCHANGED vars
    BY <1>1, <2>9 DEF vars
  <2> QED
    BY <1>1, <2>2, <2>3, <2>4, <2>5, <2>6, <2>7, <2>8, <2>9 DEF Next
<1>2. Shape /\ [Next]_vars => [Forgotten => Forgotten']_vars
  BY <1>1
<1> QED
  BY <1>2, ShapeAlways, PTL DEF Spec, ForgottenForGood

-----------------------------------------------------------------------------
(* Alerts when nothing fails                                               *)

(* No rule changes, and the device is not deleted.                         *)
Still ==
  /\ \A x \in Rules : ~ChangeRule(x)
  /\ \A r \in Requests : ~RemoveRow(r)
RulesStay == [][Still]_vars

(* Nothing explains a missing event.                                       *)
NoExcuse == excused = {}

(* Whenever no request runs, every stored point that breaches an enabled   *)
(* rule has its event.                                                     *)
AllRaised ==
  (\A r \in Requests : pc[r] \in Outcomes) =>
    \A x \in Rules, p \in stored :
      rule[x] # None /\ p \in Breaches[rule[x]] => Raised(<<x, At[p]>>)

(* Theorem: the exceptions of AlertsComplete are failures, changes of rules *)
(* and the deletion of the device: without them BatchInsert leaves no      *)
(* breach without its event, however ingests, their chunks and range       *)
(* deletions interleave.                                                   *)
THEOREM NothingMissed ==
  ASSUME Faults = {}
  PROVE  Spec /\ RulesStay => []AllRaised
<1>1. Init => NoExcuse
  BY DEF Init, NoExcuse
<1>2. NoExcuse /\ [Next]_vars /\ [Still]_vars => NoExcuse'
  <2> SUFFICES ASSUME NoExcuse, [Next]_vars, [Still]_vars
               PROVE  NoExcuse'
    OBVIOUS
  <2> USE DEF ghost, NoExcuse
  <2>1. ASSUME NEW r \in Requests, Step(r), ~RemoveRow(r)
        PROVE  UNCHANGED excused
    <3>1. CASE CheckDevice(r) \/ WriteChunk(r) \/ Heartbeat(r) \/ ReadNewest(r)
      BY <3>1 DEF CheckDevice, WriteChunk, Heartbeat, ReadNewest
    <3>2. CASE Publish(r) \/ FindRules(r) \/ RaiseAlert(r) \/ CountAlert(r)
      BY <3>2 DEF Publish, FindRules, RaiseAlert, CountAlert
    <3>3. CASE GetCopy(r) \/ ReadRow(r) \/ FillCopy(r) \/ PeekLatest(r)
      BY <3>3 DEF GetCopy, ReadRow, FillCopy, PeekLatest
    <3>4. CASE WipeDay(r) \/ ClearKeys(r)
      BY <3>4 DEF WipeDay, ClearKeys
    <3> QED
      BY <2>1, <3>1, <3>2, <3>3, <3>4 DEF Step
  <2>2. CASE UNCHANGED vars
    BY <2>2 DEF vars
  <2>3. CASE Next /\ ~UNCHANGED vars
    <3>1. /\ \A x \in Rules : ~ChangeRule(x)
          /\ \A r \in Requests : ~RemoveRow(r)
      BY <2>3 DEF Still
    <3> QED
      BY <2>1, <2>3, <3>1
         DEF Next, Start, Acknowledge, ExpireCopy, ExpireLatest, ExpireOnline,
             ExpireCount, Crash
  <2> QED
    BY <2>2, <2>3
<1>3. AlertsComplete /\ NoExcuse => AllRaised
  BY DEF NoExcuse, AlertsComplete, AllRaised, WillRaise, Outcomes
<1> QED
  BY <1>1, <1>2, <1>3, Completeness, PTL DEF Spec, RulesStay

-----------------------------------------------------------------------------
(* Telemetry implements AlertLog                                            *)

LogStep == [Log!Next]_(Log!log)

(* Alerts are left to raise only while they are being raised.               *)
TodoOK == \A r \in Requests : pc[r] \notin {"alert", "count"} => todo[r] = {}

(* Lemma: every step keeps TodoOK.                                          *)
LEMMA TodoNext ==
  ASSUME Shape, TodoOK, [Next]_vars
  PROVE  TodoOK'
<1> USE DEF TodoOK, Goto, stores, local, ghost
<1>1. /\ pc \in [Requests -> Outcomes \cup Places]
      /\ todo \in [Requests -> SUBSET Tries]
  BY DEF Shape, TypeOK, Typed
<1>2. ASSUME UNCHANGED todo,
             \A q \in Requests :
               pc[q] \in {"alert", "count"} => pc'[q] = pc[q] \/ todo[q] = {}
      PROVE  TodoOK'
  BY <1>2
<1>3. ASSUME NEW r \in Requests, NEW o \in Operations,
             NEW S \in SUBSET Points, Start(r, o, S)
      PROVE  TodoOK'
  BY <1>3, <1>1 DEF Start
<1>4. ASSUME NEW r \in Requests, Step(r)
      PROVE  TodoOK'
  <2>1. CASE FindRules(r)
    BY <2>1, <1>1 DEF FindRules, NextAlert
  <2>2. CASE RaiseAlert(r)
    <3>1. PICK a \in todo[r] :
            /\ todo' = [todo EXCEPT ![r] = @ \ {a}]
            /\ Goto(r, "count") \/ NextAlert(r, todo[r] \ {a})
      BY <2>2 DEF RaiseAlert
    <3>2. todo'[r] = todo[r] \ {a}
          /\ \A q \in Requests \ {r} : todo'[q] = todo[q] /\ pc'[q] = pc[q]
      BY <3>1, <1>1 DEF NextAlert
    <3>3. pc'[r] \in {"count", "alert"} \/ todo[r] \ {a} = {}
      BY <3>1, <1>1 DEF NextAlert
    <3> QED BY <3>2, <3>3
  <2>3. CASE CountAlert(r)
    BY <2>3, <1>1 DEF CountAlert, NextAlert
  <2>4. ASSUME UNCHANGED todo, pc[r] \notin {"alert", "count"},
               \A q \in Requests \ {r} : pc'[q] = pc[q]
        PROVE  TodoOK'
    BY <2>4, <1>2
  <2>5. CASE CheckDevice(r) \/ Heartbeat(r) \/ ReadNewest(r) \/ Publish(r)
    BY <2>5, <2>4, <1>1 DEF CheckDevice, Heartbeat, ReadNewest, Publish
  <2>6. CASE GetCopy(r) \/ ReadRow(r) \/ FillCopy(r) \/ PeekLatest(r)
    BY <2>6, <2>4, <1>1 DEF GetCopy, ReadRow, FillCopy, PeekLatest
  <2>7. CASE WriteChunk(r) \/ WipeDay(r) \/ RemoveRow(r) \/ ClearKeys(r)
    BY <2>7, <2>4, <1>1 DEF WriteChunk, WipeDay, RemoveRow, ClearKeys
  <2> QED
    BY <1>4, <2>1, <2>2, <2>3, <2>5, <2>6, <2>7 DEF Step
<1>5. CASE Crash
  BY <1>5 DEF Crash
<1>6. CASE UNCHANGED <<pc, todo>>
  BY <1>6
<1> QED
  BY <1>3, <1>4, <1>5, <1>6
  DEF Next, vars, Acknowledge, ChangeRule, ExpireCopy, ExpireLatest,
      ExpireOnline, ExpireCount

(* What a request at call l holds of its batch and has still to store.      *)
HeldAt(o, l, points) ==
  IF o = "ingest" /\ l \in {"check", "chunk", "heartbeat", "newest", "publish", "rules"}
    THEN points ELSE {}
MissingAt(o, l, points) ==
  IF o = "ingest" /\ l \in {"check", "chunk"} THEN points ELSE {}

LEMMA Mapping ==
  /\ Unmatched = [s \in Requests |-> HeldAt(op[s], pc[s], batch[s])]
  /\ Unstored = [s \in Requests |-> MissingAt(op[s], pc[s], left[s])]
  /\ Unmatched' = [s \in Requests |-> HeldAt(op'[s], pc'[s], batch'[s])]
  /\ Unstored' = [s \in Requests |-> MissingAt(op'[s], pc'[s], left'[s])]
BY DEF Unmatched, Unstored, Ingesting, HeldAt, MissingAt

(* The step changes of the requests only r, to a batch B and missing M.     *)
Maps(r, B, M) ==
  /\ Unmatched' = [Unmatched EXCEPT ![r] = B]
  /\ Unstored' = [Unstored EXCEPT ![r] = M]

(* Lemma: how a step of r moves it in the log.                              *)
LEMMA MapsTo ==
  ASSUME Typed, NEW r \in Requests, NEW l, Goto(r, l), UNCHANGED op,
         NEW b, batch' = [batch EXCEPT ![r] = b],
         NEW m, left' = [left EXCEPT ![r] = m]
  PROVE  Maps(r, HeldAt(op[r], l, b), MissingAt(op[r], l, m))
<1>1. \A s \in Requests :
        /\ pc'[s] = IF s = r THEN l ELSE pc[s]
        /\ batch'[s] = IF s = r THEN b ELSE batch[s]
        /\ left'[s] = IF s = r THEN m ELSE left[s]
        /\ op'[s] = op[s]
  BY DEF Typed, Goto
<1>2. Unmatched' = [Unmatched EXCEPT ![r] = HeldAt(op[r], l, b)]
  BY <1>1, Mapping
<1>3. Unstored' = [Unstored EXCEPT ![r] = MissingAt(op[r], l, m)]
  BY <1>1, Mapping
<1> QED BY <1>2, <1>3 DEF Maps

LEMMA MapsQuiet ==
  ASSUME Typed, NEW r \in Requests, NEW l, Goto(r, l), UNCHANGED <<op, batch, left>>
  PROVE  Maps(r, HeldAt(op[r], l, batch[r]), MissingAt(op[r], l, left[r]))
<1>1. batch' = [batch EXCEPT ![r] = batch[r]] /\ left' = [left EXCEPT ![r] = left[r]]
  BY DEF Typed
<1> QED BY <1>1, MapsTo

(* Lemma: a step that changes nothing of the log stutters.                  *)
LEMMA LogStays ==
  ASSUME NEW r \in Requests, UNCHANGED <<rule, stored, events, todo>>,
         Maps(r, Unmatched[r], Unstored[r])
  PROVE  LogStep
<1>1. Unmatched' = Unmatched /\ Unstored' = Unstored
  BY Mapping DEF Maps
<1> QED BY <1>1 DEF LogStep, Log!log

(* Lemma: a request without alerts that drops its batch gives up.           *)
LEMMA LogGivesUp ==
  ASSUME Typed, NEW r \in Requests, UNCHANGED <<rule, stored, events, todo>>,
         todo[r] = {}, Maps(r, {}, {})
  PROVE  LogStep
<1>1. /\ Unmatched' = [s \in Requests |-> IF s \in {r} THEN {} ELSE Unmatched[s]]
      /\ Unstored' = [s \in Requests |-> IF s \in {r} THEN {} ELSE Unstored[s]]
  BY Mapping DEF Maps
<1>2. todo' = [s \in Requests |-> IF s \in {r} THEN {} ELSE todo[s]]
  BY DEF Typed
<1>3. Log!GiveUp({r})
  BY <1>1, <1>2 DEF Log!GiveUp
<1> QED BY <1>3 DEF LogStep, Log!Next

(* Lemma: the step of a request is a step of the log, or a stutter.         *)
LEMMA LogRequest ==
  ASSUME Shape, TodoOK, NEW r \in Requests, Step(r)
  PROVE  LogStep
<1> USE DEF stores, local, ghost
<1>1. Typed /\ CallsOK
  BY DEF Shape, TypeOK
<1>2. /\ Unmatched[r] = HeldAt(op[r], pc[r], batch[r])
      /\ Unstored[r] = MissingAt(op[r], pc[r], left[r])
  BY Mapping
<1>3. ASSUME NEW l, Goto(r, l), UNCHANGED <<op, batch, left>>,
             UNCHANGED <<rule, stored, events, todo>>,
             HeldAt(op[r], l, batch[r]) = Unmatched[r],
             MissingAt(op[r], l, left[r]) = Unstored[r]
      PROVE  LogStep
  BY <1>1, <1>3, MapsQuiet, LogStays
<1>4. ASSUME NEW l, Goto(r, l), UNCHANGED <<op, batch, left>>,
             UNCHANGED <<rule, stored, events, todo>>, todo[r] = {},
             HeldAt(op[r], l, batch[r]) = {},
             MissingAt(op[r], l, left[r]) = {}
      PROVE  LogStep
  BY <1>1, <1>4, MapsQuiet, LogGivesUp
<1>5. CASE CheckDevice(r)
  <2>1. pc[r] = "check" /\ todo[r] = {}
    BY <1>5 DEF CheckDevice, TodoOK
  <2>2. UNCHANGED <<op, batch, left, rule, stored, events, todo>>
    BY <1>5 DEF CheckDevice
  <2>3. CASE Goto(r, AfterCheck(r))
    <3>1. HeldAt(op[r], AfterCheck(r), batch[r]) = Unmatched[r]
      BY <1>2, <2>1 DEF HeldAt, AfterCheck
    <3>2. MissingAt(op[r], AfterCheck(r), left[r]) = Unstored[r]
      BY <1>2, <2>1 DEF MissingAt, AfterCheck
    <3> QED BY <1>3, <2>2, <2>3, <3>1, <3>2
  <2>4. CASE Goto(r, "notFound") \/ Goto(r, "error")
    BY <1>4, <2>1, <2>2, <2>4 DEF HeldAt, MissingAt
  <2> QED BY <1>5, <2>3, <2>4 DEF CheckDevice
<1>6. CASE WriteChunk(r)
  <2>1. pc[r] = "chunk" /\ op[r] = "ingest"
        /\ UNCHANGED <<op, rule, events, todo>>
    BY <1>1, <1>6 DEF WriteChunk, CallsOK
  <2>2. Unmatched[r] = batch[r] /\ Unstored[r] = left[r]
    BY <1>2, <2>1 DEF HeldAt, MissingAt
  <2>3. PICK c \in SUBSET left[r] :
          \/ /\ stored' = stored \cup c
             /\ left' = [left EXCEPT ![r] = left[r] \ c]
             /\ Goto(r, IF left[r] = c THEN "heartbeat" ELSE "chunk")
             /\ UNCHANGED batch
          \/ /\ \E w \in SUBSET c : stored' = stored \cup w
             /\ left' = [left EXCEPT ![r] = {}]
             /\ batch' = [batch EXCEPT ![r] = {}]
             /\ Goto(r, "error")
    BY <1>6 DEF WriteChunk, Chunks
  <2>4. left[r] \in SUBSET Points
    BY <1>1 DEF Typed
  <2>5. CASE /\ stored' = stored \cup c
             /\ left' = [left EXCEPT ![r] = left[r] \ c]
             /\ Goto(r, IF left[r] = c THEN "heartbeat" ELSE "chunk")
             /\ UNCHANGED batch
    <3> DEFINE l == IF left[r] = c THEN "heartbeat" ELSE "chunk"
    <3>1. batch' = [batch EXCEPT ![r] = batch[r]]
      BY <1>1, <2>5 DEF Typed
    <3>2. Maps(r, HeldAt(op[r], l, batch[r]), MissingAt(op[r], l, left[r] \ c))
      BY <1>1, <2>1, <2>5, <3>1, MapsTo
    <3>3. HeldAt(op[r], l, batch[r]) = batch[r]
      BY <2>1 DEF HeldAt
    <3>4. MissingAt(op[r], l, left[r] \ c) = left[r] \ c
      BY <2>1 DEF MissingAt
    <3>5. Unmatched' = Unmatched
      BY <2>2, <3>2, <3>3, Mapping DEF Maps
    <3>6. Unstored' = [Unstored EXCEPT ![r] = @ \ c]
      BY <2>2, <3>2, <3>4 DEF Maps
    <3>7. Log!Store(r, c)
      BY <2>1, <2>2, <2>5, <3>5, <3>6 DEF Log!Store
    <3>8. c \in SUBSET Points
      BY <2>4
    <3> QED BY <3>7, <3>8 DEF LogStep, Log!Next
  <2>6. ASSUME NEW w \in SUBSET c, stored' = stored \cup w,
               left' = [left EXCEPT ![r] = {}], batch' = [batch EXCEPT ![r] = {}],
               Goto(r, "error")
        PROVE  LogStep
    <3>1. Maps(r, {}, {})
      <4>1. Maps(r, HeldAt(op[r], "error", {}), MissingAt(op[r], "error", {}))
        BY <1>1, <2>1, <2>6, MapsTo
      <4> QED BY <4>1 DEF HeldAt, MissingAt
    <3>2. Log!StoreInPart(r, w)
      BY <2>1, <2>2, <2>6, <3>1 DEF Maps, Log!StoreInPart
    <3>3. w \in SUBSET Points
      BY <2>4
    <3> QED BY <3>2, <3>3 DEF LogStep, Log!Next
  <2> QED BY <2>3, <2>5, <2>6
<1>7. CASE Heartbeat(r)
  BY <1>2, <1>3, <1>7 DEF Heartbeat, HeldAt, MissingAt
<1>8. CASE ReadNewest(r)
  <2>1. PICK l \in {"publish", AfterLatest(r)} : Goto(r, l)
    BY <1>8 DEF ReadNewest
  <2>2. pc[r] = "newest"
    BY <1>8 DEF ReadNewest
  <2>3. /\ HeldAt(op[r], l, batch[r]) = Unmatched[r]
        /\ MissingAt(op[r], l, left[r]) = Unstored[r]
    BY <1>2, <2>2 DEF HeldAt, MissingAt, AfterLatest
  <2> QED BY <1>3, <1>8, <2>1, <2>3 DEF ReadNewest
<1>9. CASE Publish(r)
  <2>1. pc[r] = "publish" /\ Goto(r, AfterLatest(r))
    BY <1>9 DEF Publish
  <2>2. /\ HeldAt(op[r], AfterLatest(r), batch[r]) = Unmatched[r]
        /\ MissingAt(op[r], AfterLatest(r), left[r]) = Unstored[r]
    BY <1>2, <2>1 DEF HeldAt, MissingAt, AfterLatest
  <2> QED BY <1>3, <1>9, <2>1, <2>2 DEF Publish
<1>10. CASE FindRules(r)
  <2>1. pc[r] = "rules" /\ op[r] = "ingest" /\ todo[r] = {}
        /\ UNCHANGED <<op, left, rule, stored, events>>
    BY <1>1, <1>10 DEF FindRules, CallsOK, TodoOK
  <2>2. Unmatched[r] = batch[r] /\ Unstored[r] = {}
    BY <1>2, <2>1 DEF HeldAt, MissingAt
  <2>3. PICK l \in {"ok", "alert", "error"} : Goto(r, l)
    BY <1>10 DEF FindRules, NextAlert
  <2>4. batch' = [batch EXCEPT ![r] = {}] /\ left' = [left EXCEPT ![r] = left[r]]
    BY <1>1, <1>10, <2>1 DEF FindRules, Typed
  <2>5. Maps(r, {}, {})
    <3>1. Maps(r, HeldAt(op[r], l, {}), MissingAt(op[r], l, left[r]))
      BY <1>1, <2>1, <2>3, <2>4, MapsTo
    <3> QED BY <3>1 DEF HeldAt, MissingAt
  <2>6. CASE UNCHANGED todo
    BY <1>1, <2>1, <2>5, <2>6, LogGivesUp
  <2>7. CASE todo' = [todo EXCEPT ![r] =
                 {a \in Tries : /\ a[3] = rule[a[1]]
                               /\ a[2] \in batch[r] \cap Breaches[a[3]]}]
    <3>1. Unstored' = Unstored
      BY <2>2, <2>5, Mapping DEF Maps
    <3>2. Log!Match(r)
      BY <2>1, <2>2, <2>5, <2>7, <3>1 DEF Maps, Log!Match, Log!Tries, Tries
    <3> QED BY <3>2 DEF LogStep, Log!Next
  <2> QED BY <1>10, <2>6, <2>7 DEF FindRules
<1>11. CASE RaiseAlert(r)
  <2>1. pc[r] = "alert" /\ UNCHANGED <<op, batch, left, rule, stored>>
    BY <1>11 DEF RaiseAlert
  <2>2. PICK a \in todo[r] :
          /\ todo' = [todo EXCEPT ![r] = @ \ {a}]
          /\ events' \in {events, Opened(a)}
          /\ Goto(r, "count") \/ NextAlert(r, todo[r] \ {a})
    BY <1>11 DEF RaiseAlert
  <2>3. PICK l \in {"count", "alert", "ok"} : Goto(r, l)
    BY <2>2 DEF NextAlert
  <2>4. Maps(r, Unmatched[r], Unstored[r])
    <3>1. Maps(r, HeldAt(op[r], l, batch[r]), MissingAt(op[r], l, left[r]))
      BY <1>1, <2>1, <2>3, MapsQuiet
    <3> QED BY <1>2, <2>1, <3>1 DEF HeldAt, MissingAt
  <2>5. Unmatched' = Unmatched /\ Unstored' = Unstored
    BY <2>4, Mapping DEF Maps
  <2>6. Log!Raise(r, a)
    BY <2>1, <2>2, <2>5 DEF Log!Raise, Log!KeyOf, KeyOf, Opened
  <2>7. a \in Log!Tries
    BY <1>1 DEF Typed, Tries, Log!Tries
  <2> QED BY <2>6, <2>7 DEF LogStep, Log!Next
<1>12. CASE CountAlert(r)
  <2>1. PICK l \in {"alert", "ok"} : Goto(r, l)
    BY <1>12 DEF CountAlert, NextAlert
  <2>2. pc[r] = "count"
    BY <1>12 DEF CountAlert
  <2>3. /\ HeldAt(op[r], l, batch[r]) = Unmatched[r]
        /\ MissingAt(op[r], l, left[r]) = Unstored[r]
    BY <1>2, <2>2 DEF HeldAt, MissingAt
  <2> QED BY <1>3, <1>12, <2>1, <2>3 DEF CountAlert
<1>13. CASE GetCopy(r) \/ ReadRow(r) \/ FillCopy(r) \/ PeekLatest(r)
  <2>1. op[r] = "find" /\ UNCHANGED <<op, batch, left, rule, stored, events, todo>>
    BY <1>1, <1>13 DEF CallsOK, GetCopy, ReadRow, FillCopy, PeekLatest
  <2>2. PICK l \in {"peek", "row", "fill", "notFound", "error", "ok", "newest"} : Goto(r, l)
    BY <1>13 DEF GetCopy, ReadRow, FillCopy, PeekLatest
  <2> QED BY <1>2, <1>3, <2>1, <2>2 DEF HeldAt, MissingAt
<1>14. CASE WipeDay(r)
  <2>1. PICK l \in {"ok", "wipe", "error"} : Goto(r, l)
    BY <1>14 DEF WipeDay
  <2>2. /\ pc[r] = "wipe" /\ stored' \in SUBSET stored
        /\ UNCHANGED <<op, batch, rule, events, todo>>
    BY <1>14 DEF WipeDay
  <2>3. PICK m : left' = [left EXCEPT ![r] = m]
    BY <1>14 DEF WipeDay
  <2>4. batch' = [batch EXCEPT ![r] = batch[r]]
    BY <1>1, <2>2 DEF Typed
  <2>5. Maps(r, HeldAt(op[r], l, batch[r]), MissingAt(op[r], l, m))
    BY <1>1, <2>1, <2>2, <2>3, <2>4, MapsTo
  <2>6. Unmatched' = Unmatched /\ Unstored' = Unstored
    BY <1>2, <2>2, <2>5, Mapping DEF Maps, HeldAt, MissingAt
  <2>7. Log!Wipe
    BY <2>2, <2>6 DEF Log!Wipe
  <2> QED BY <2>7 DEF LogStep, Log!Next
<1>15. CASE RemoveRow(r) \/ ClearKeys(r)
  <2>1. PICK l \in {"clear", "error", "ok", "partial"} : Goto(r, l)
    BY <1>15 DEF RemoveRow, ClearKeys
  <2>2. /\ pc[r] \in {"remove", "clear"} /\ rule' \in {rule, [x \in Rules |-> None]}
        /\ UNCHANGED <<op, batch, left, stored, events, todo>>
    BY <1>15 DEF RemoveRow, ClearKeys
  <2>3. Maps(r, HeldAt(op[r], l, batch[r]), MissingAt(op[r], l, left[r]))
    BY <1>1, <2>1, <2>2, MapsQuiet
  <2>4. Unmatched' = Unmatched /\ Unstored' = Unstored
    BY <1>2, <2>2, <2>3, Mapping DEF Maps, HeldAt, MissingAt
  <2>5. rule' \in [Rules -> Settings \cup {None}]
    BY <1>1, <2>2 DEF Typed
  <2>6. Log!ChangeRules
    BY <2>2, <2>4, <2>5 DEF Log!ChangeRules
  <2> QED BY <2>6 DEF LogStep, Log!Next
<1> QED
  BY <1>5, <1>6, <1>7, <1>8, <1>9, <1>10, <1>11, <1>12, <1>13, <1>14, <1>15
  DEF Step

(* Lemma: so is every other step.                                           *)
LEMMA LogNext ==
  ASSUME Shape, TodoOK, [Next]_vars
  PROVE  LogStep
<1>1. Typed
  BY DEF Shape, TypeOK
<1>2. ASSUME UNCHANGED <<op, pc, batch, left, todo>>
      PROVE  Unmatched' = Unmatched /\ Unstored' = Unstored
  BY <1>2, Mapping
<1>3. ASSUME NEW r \in Requests, NEW o \in Operations,
             NEW S \in SUBSET Points, Start(r, o, S)
      PROVE  LogStep
  <2>1. pc[r] \in Outcomes /\ todo[r] = {}
    BY <1>3 DEF Start, TodoOK, Outcomes
  <2>2. Unmatched[r] = {} /\ Unstored[r] = {}
    BY <2>1, Mapping DEF HeldAt, MissingAt, Outcomes
  <2>3. todo' = todo /\ UNCHANGED <<rule, stored, events>>
    BY <1>1, <1>3, <2>1 DEF Start, Typed, stores
  <2>4. \A s \in Requests \ {r} :
          op'[s] = op[s] /\ pc'[s] = pc[s] /\ batch'[s] = batch[s] /\ left'[s] = left[s]
    BY <1>1, <1>3 DEF Start, Goto, Typed
  <2>5. op'[r] = o /\ left'[r] = S
        /\ batch'[r] = (IF o = "ingest" THEN S ELSE {})
        /\ pc'[r] = (IF o = "find" THEN "copy" ELSE "check")
    BY <1>1, <1>3 DEF Start, Goto, Typed
  <2>6. CASE o = "ingest"
    <3>1. HeldAt(op'[r], pc'[r], batch'[r]) = S /\ MissingAt(op'[r], pc'[r], left'[r]) = S
      BY <2>5, <2>6 DEF HeldAt, MissingAt
    <3>2. Unmatched' = [Unmatched EXCEPT ![r] = S] /\ Unstored' = [Unstored EXCEPT ![r] = S]
      BY <2>4, <3>1, Mapping
    <3>3. Log!Deliver(r, S)
      BY <2>1, <2>2, <2>3, <3>2 DEF Log!Deliver
    <3> QED BY <3>3 DEF LogStep, Log!Next
  <2>7. CASE o # "ingest"
    <3>1. HeldAt(op'[r], pc'[r], batch'[r]) = {} /\ MissingAt(op'[r], pc'[r], left'[r]) = {}
      BY <2>5, <2>7 DEF HeldAt, MissingAt
    <3>2. Unmatched' = Unmatched /\ Unstored' = Unstored
      BY <2>2, <2>4, <3>1, Mapping
    <3> QED BY <2>3, <3>2 DEF LogStep, Log!log
  <2> QED BY <2>6, <2>7
<1>4. ASSUME NEW k \in Events, Acknowledge(k)
      PROVE  LogStep
  <2>1. Log!Acknowledge(k) /\ k \in Log!Events
    BY <1>2, <1>4
       DEF Acknowledge, Raised, local, Log!Acknowledge, Events, Times, Log!Events, Log!Times
  <2> QED BY <2>1 DEF LogStep, Log!Next
<1>5. ASSUME NEW x \in Rules, ChangeRule(x)
      PROVE  LogStep
  <2>1. rule' \in [Rules -> Settings \cup {None}]
    BY <1>1, <1>5 DEF ChangeRule, Typed
  <2>2. Log!ChangeRules
    BY <1>2, <1>5, <2>1 DEF ChangeRule, local, Log!ChangeRules
  <2> QED BY <2>2 DEF LogStep, Log!Next
<1>6. CASE Crash
  <2>1. /\ pc' = [r \in Requests |-> "idle"] /\ todo' = [r \in Requests |-> {}]
        /\ UNCHANGED <<rule, stored, events>>
    BY <1>6 DEF Crash, stores
  <2>2. \A s \in Requests :
          HeldAt(op'[s], pc'[s], batch'[s]) = {} /\ MissingAt(op'[s], pc'[s], left'[s]) = {}
    BY <2>1 DEF HeldAt, MissingAt
  <2>3. Unmatched' = [s \in Requests |-> IF s \in Requests THEN {} ELSE Unmatched[s]]
        /\ Unstored' = [s \in Requests |-> IF s \in Requests THEN {} ELSE Unstored[s]]
    BY <2>2, Mapping
  <2>4. Log!GiveUp(Requests)
    BY <2>1, <2>3 DEF Log!GiveUp
  <2> QED BY <2>4 DEF LogStep, Log!Next
<1>7. CASE UNCHANGED <<op, pc, batch, left, todo, rule, stored, events>>
  BY <1>2, <1>7 DEF LogStep, Log!log
<1> QED
  BY <1>3, <1>4, <1>5, <1>6, <1>7, LogRequest
  DEF Next, vars, stores, local, ExpireCopy, ExpireLatest, ExpireOnline, ExpireCount

(* Theorem: whatever fails or runs beside it, an ingest compares its points *)
(* with the rules once, after all of them are stored, and opens no event    *)
(* but those that were due then.                                            *)
THEOREM Implements == Spec => ImplementsLog
<1>1. Init => Log!Init /\ TodoOK
  <2> SUFFICES ASSUME Init PROVE Log!Init /\ TodoOK
    OBVIOUS
  <2>1. TodoOK
    BY DEF Init, TodoOK
  <2>2. /\ Unmatched = [r \in Requests |-> {}]
        /\ Unstored = [r \in Requests |-> {}]
    BY Mapping DEF Init, HeldAt, MissingAt
  <2> QED BY <2>1, <2>2 DEF Init, Log!Init, Events, Times, Log!Events, Log!Times
<1>2. Shape /\ TodoOK /\ [Next]_vars => TodoOK'
  BY TodoNext
<1>3. Shape /\ TodoOK /\ [Next]_vars => [Log!Next]_(Log!log)
  BY LogNext DEF LogStep
<1> QED
  BY <1>1, <1>2, <1>3, ShapeAlways, PTL DEF Spec, ImplementsLog, Log!Spec
=============================================================================
