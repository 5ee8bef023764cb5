------------------------------- MODULE AlertLog -------------------------------
(***************************************************************************)
(* What an ingest promises of the alert events of a device, without checks, *)
(* heartbeats, cached points or counters: a request holds the batch it was *)
(* sent until all of its points are stored; only then, at one instant, are *)
(* all of them compared with the rules that are enabled; each alert that   *)
(* is due is tried once, after that instant, and opens its event, with the *)
(* severity the rule had then, or is lost; a request that is given up      *)
(* leaves what it had stored and raised.                                   *)
(* Telemetry implements it.                                                *)
(***************************************************************************)
EXTENDS Naturals

CONSTANTS Points, At, Rules, Settings, Breaches, Severities, SeverityOf,
          Requests, None

Times  == {At[p] : p \in Points}
Tries  == Rules \X Points \X Settings
Events == Rules \X Times
KeyOf(a) == <<a[1], At[a[2]]>>

VARIABLES
  rule,      \* the setting of each rule, None if disabled
  stored,    \* the points in the table
  events,    \* the alert events, by primary key
  batch,     \* of each request: the points not yet compared with the rules
  missing,   \* those of them not yet stored
  due        \* the alerts it has still to raise

log == <<rule, stored, events, batch, missing, due>>

Init ==
  /\ rule \in [Rules -> Settings \cup {None}]
  /\ stored = {}
  /\ events = [k \in Events |-> [status |-> "none", severity |-> None]]
  /\ batch = [r \in Requests |-> {}]
  /\ missing = [r \in Requests |-> {}]
  /\ due = [r \in Requests |-> {}]

(* A request with nothing under way is sent points.                        *)
Deliver(r, S) ==
  /\ batch[r] = {} /\ missing[r] = {} /\ due[r] = {}
  /\ batch' = [batch EXCEPT ![r] = S]
  /\ missing' = [missing EXCEPT ![r] = S]
  /\ UNCHANGED <<rule, stored, events, due>>

(* Some of its points are stored.                                          *)
Store(r, w) ==
  /\ w \subseteq missing[r]
  /\ stored' = stored \cup w
  /\ missing' = [missing EXCEPT ![r] = @ \ w]
  /\ UNCHANGED <<rule, events, batch, due>>

(* Some of them may be, and the request is given up.                       *)
StoreInPart(r, w) ==
  /\ w \subseteq missing[r]
  /\ stored' = stored \cup w
  /\ batch' = [batch EXCEPT ![r] = {}]
  /\ missing' = [missing EXCEPT ![r] = {}]
  /\ UNCHANGED <<rule, events, due>>

(* Every point is stored: the rules enabled now decide which alerts are due. *)
Match(r) ==
  /\ missing[r] = {}
  /\ due' = [due EXCEPT ![r] =
       {a \in Tries : a[3] = rule[a[1]] /\ a[2] \in batch[r] \cap Breaches[a[3]]}]
  /\ batch' = [batch EXCEPT ![r] = {}]
  /\ UNCHANGED <<rule, stored, events, missing>>

(* The one try of an alert: its event is opened, again if it was there.    *)
Raise(r, a) ==
  /\ a \in due[r]
  /\ due' = [due EXCEPT ![r] = @ \ {a}]
  /\ events' \in {events, [events EXCEPT ![KeyOf(a)] =
                   [status |-> "open", severity |-> SeverityOf[a[3]]]]}
  /\ UNCHANGED <<rule, stored, batch, missing>>

(* Requests are given up: refused before they stored anything, stopped by a *)
(* failure, or ended with the process.                                     *)
GiveUp(R) ==
  /\ batch' = [r \in Requests |-> IF r \in R THEN {} ELSE batch[r]]
  /\ missing' = [r \in Requests |-> IF r \in R THEN {} ELSE missing[r]]
  /\ due' = [r \in Requests |-> IF r \in R THEN {} ELSE due[r]]
  /\ UNCHANGED <<rule, stored, events>>

Acknowledge(k) ==
  /\ events' = [events EXCEPT ![k] = [@ EXCEPT !.status =
       IF events[k].status \in {"open", "acked"} THEN "acked" ELSE "bare"]]
  /\ UNCHANGED <<rule, stored, batch, missing, due>>

ChangeRules ==
  /\ rule' \in [Rules -> Settings \cup {None}]
  /\ UNCHANGED <<stored, events, batch, missing, due>>

Wipe ==
  /\ stored' \in SUBSET stored
  /\ UNCHANGED <<rule, events, batch, missing, due>>

Next ==
  \/ ChangeRules \/ Wipe
  \/ \E k \in Events : Acknowledge(k)
  \/ \E r \in Requests : Match(r)
  \/ \E r \in Requests, a \in Tries : Raise(r, a)
  \/ \E r \in Requests, S \in SUBSET Points :
       Deliver(r, S) \/ Store(r, S) \/ StoreInPart(r, S)
  \/ \E R \in SUBSET Requests : GiveUp(R)

Spec == Init /\ [][Next]_log
=============================================================================
