----------------------------- MODULE KeyCounters -----------------------------
(***************************************************************************)
(* Presence marks and alert counters in KeyDB: SetOnlineStatus,            *)
(* IncrAlertCount, the DEL of a deleted device, and the TTLs of the keys.  *)
(*                                                                         *)
(* Both writers send a pipeline.  The server runs its commands one by one; *)
(* commands of other clients and expiries fall in between, and a lost      *)
(* connection leaves the rest undone or makes the client library send the  *)
(* whole pipeline again.  pc[r] is the next command of the pipeline of r.  *)
(*                                                                         *)
(* Time is discrete: a key that expires has some ticks left, 0 when it is  *)
(* missing, Forever when it has no TTL.  Counters of different severities  *)
(* are different keys that never meet: the module has those of one.        *)
(***************************************************************************)
EXTENDS Naturals, FiniteSets

CONSTANTS
  Devices,
  Requests,     \* goroutines that run a pipeline
  Traffics,     \* who calls what in one behaviour
  OnlineTTL, SetTTL, CountTTL,  \* in ticks
  Faults,       \* "connection": pipelines lose theirs
  MaxAlerts,    \* bound on a counter
  MaxQuiet      \* bound on the history variable quiet

(* A traffic: the devices that report, those that raise alerts, and the    *)
(* goroutines that send their pipelines.                                   *)
ASSUME KeyCountersAssumption ==
  /\ Devices # {} /\ IsFiniteSet(Requests)
  /\ OnlineTTL \in Nat \ {0} /\ SetTTL \in Nat /\ CountTTL \in Nat \ {0}
  /\ SetTTL >= OnlineTTL
  /\ MaxAlerts \in Nat /\ MaxQuiet \in Nat /\ MaxQuiet >= SetTTL
  /\ \A t \in Traffics : /\ t.beat \in SUBSET Devices
                         /\ t.alert \in SUBSET Devices
                         /\ t.send \in SUBSET Requests

VARIABLES
  traffic,              \* the clients of this behaviour, chosen once
  online,               \* device:online:{id}
  members, setLeft,     \* dashboard:online_set and its ticks
  count, countLeft,     \* alert:count:{id}:{severity}
  total, totalLeft,     \* alert:count:global:{severity}
  pc, dev,              \* of each request: its next command, its device
  torn,    \* history: a heartbeat of the device broke off or met an expiry
  split,   \* history: the same for a pipeline of the counters
  quiet    \* history: ticks since a heartbeat last touched the set (if any)

presence == <<online, members, setLeft, torn, quiet>>
counters == <<count, countLeft, total, totalLeft, split>>
counterVars == <<traffic, presence, counters, pc, dev>>

Forever == OnlineTTL + SetTTL + CountTTL + 1

Beating  == {"set", "sadd", "expireSet"}
Counting == {"incr", "expire", "incrAll", "expireAll"}
Commands == Beating \cup Counting

Goto(r, l) == pc' = [pc EXCEPT ![r] = l]

(* Pipelines run in part: after their first command, before their last.    *)
BeatOpen(r)  == pc[r] \in Beating \ {"set"}
CountOpen(r) == pc[r] \in Counting \ {"incr"}

-----------------------------------------------------------------------------
CountersInit ==
  /\ traffic \in Traffics
  /\ online = [d \in Devices |-> 0]
  /\ members = {} /\ setLeft = 0
  /\ count = [d \in Devices |-> 0] /\ countLeft = [d \in Devices |-> 0]
  /\ total = 0 /\ totalLeft = 0
  /\ pc = [r \in Requests |-> "idle"]
  /\ dev = [r \in Requests |-> CHOOSE d \in Devices : TRUE]
  /\ torn = [d \in Devices |-> FALSE]
  /\ split = FALSE
  /\ quiet = MaxQuiet

Send(r, d, command) ==
  /\ r \in traffic.send /\ pc[r] = "idle"
  /\ Goto(r, command)
  /\ dev' = [dev EXCEPT ![r] = d]
  /\ UNCHANGED <<traffic, presence, counters>>

SetOnlineStatus(r, d) == d \in traffic.beat /\ Send(r, d, "set")

IncrAlertCount(r, d) ==
  /\ d \in traffic.alert
  /\ count[d] < MaxAlerts /\ total < MaxAlerts
  /\ Send(r, d, "incr")

-----------------------------------------------------------------------------
(* SET device:online:{id} 1 EX, SADD online_set, EXPIRE online_set         *)

(* A command that creates a key leaves it without TTL; EXPIRE of a missing *)
(* key does nothing.                                                       *)
Created(left) == IF left = 0 THEN Forever ELSE left
Renewed(left, ttl) == IF left = 0 THEN 0 ELSE ttl
Renewed_OnlyNew(left, ttl) == IF left = Forever THEN ttl ELSE left

Set_LivesAsTheSet(r) ==
  /\ pc[r] = "set"
  /\ online' = [online EXCEPT ![dev[r]] = SetTTL]
  /\ Goto(r, "sadd")
  /\ UNCHANGED <<traffic, members, setLeft, torn, quiet, counters, dev>>

Set(r) ==
  /\ pc[r] = "set"
  /\ online' = [online EXCEPT ![dev[r]] = OnlineTTL]
  /\ Goto(r, "sadd")
  /\ UNCHANGED <<traffic, members, setLeft, torn, quiet, counters, dev>>

SAdd(r) ==
  /\ pc[r] = "sadd"
  /\ members' = members \cup {dev[r]}
  /\ setLeft' = Created(setLeft)
  /\ quiet' = 0
  /\ Goto(r, "expireSet")
  /\ UNCHANGED <<traffic, online, torn, counters, dev>>

ExpireSet_OnlyNew(r) ==
  /\ pc[r] = "expireSet"
  /\ setLeft' = Renewed_OnlyNew(setLeft, SetTTL)
  /\ torn' = [torn EXCEPT ![dev[r]] = @ /\ dev[r] \notin members]
  /\ quiet' = 0
  /\ Goto(r, "idle")
  /\ UNCHANGED <<traffic, online, members, counters, dev>>

ExpireSet(r) ==
  /\ pc[r] = "expireSet"
  /\ setLeft' = Renewed(setLeft, SetTTL)
  /\ torn' = [torn EXCEPT ![dev[r]] = @ /\ dev[r] \notin members]
  /\ quiet' = 0
  /\ Goto(r, "idle")
  /\ UNCHANGED <<traffic, online, members, counters, dev>>

-----------------------------------------------------------------------------
(* INCR and EXPIRE of the device's counter, then of the global one         *)

Incr(r) ==
  /\ pc[r] = "incr"
  /\ count' = [count EXCEPT ![dev[r]] = @ + 1]
  /\ countLeft' = [countLeft EXCEPT ![dev[r]] = Created(@)]
  /\ Goto(r, "expire")
  /\ UNCHANGED <<traffic, presence, total, totalLeft, split, dev>>

ExpireCount(r) ==
  /\ pc[r] = "expire"
  /\ countLeft' = [countLeft EXCEPT ![dev[r]] = Renewed(@, CountTTL)]
  /\ Goto(r, "incrAll")
  /\ UNCHANGED <<traffic, presence, count, total, totalLeft, split, dev>>

IncrGlobal(r) ==
  /\ pc[r] = "incrAll"
  /\ total' = total + 1
  /\ totalLeft' = Created(totalLeft)
  /\ Goto(r, "expireAll")
  /\ UNCHANGED <<traffic, presence, count, countLeft, split, dev>>

ExpireGlobal_OfTheDevice(r) ==
  /\ pc[r] = "expireAll"
  /\ countLeft' = [countLeft EXCEPT ![dev[r]] = Renewed(@, CountTTL)]
  /\ Goto(r, "idle")
  /\ UNCHANGED <<traffic, presence, count, total, totalLeft, split, dev>>

ExpireGlobal_OnlyNew(r) ==
  /\ pc[r] = "expireAll"
  /\ totalLeft' = Renewed_OnlyNew(totalLeft, CountTTL)
  /\ Goto(r, "idle")
  /\ UNCHANGED <<traffic, presence, count, countLeft, total, split, dev>>

ExpireGlobal(r) ==
  /\ pc[r] = "expireAll"
  /\ totalLeft' = Renewed(totalLeft, CountTTL)
  /\ Goto(r, "idle")
  /\ UNCHANGED <<traffic, presence, count, countLeft, total, split, dev>>

-----------------------------------------------------------------------------
(* The connection of a pipeline is lost: go-redis gives up, or sends all   *)
(* of it once more.  (A resend of a finished pipeline is one sent anew.)   *)
Lose(r) ==
  /\ "connection" \in Faults /\ pc[r] # "idle"
  /\ \/ Goto(r, "idle")
     \/ pc[r] \in Beating /\ Goto(r, "set")
     \/ /\ pc[r] \in Counting
        /\ count[dev[r]] < MaxAlerts /\ total < MaxAlerts
        /\ Goto(r, "incr")
  /\ torn' = [torn EXCEPT ![dev[r]] = @ \/ BeatOpen(r)]
  /\ split' = (split \/ CountOpen(r))
  /\ UNCHANGED <<traffic, online, members, setLeft, quiet,
                 count, countLeft, total, totalLeft, dev>>

(* Delete of a device: one DEL of its own keys, not of its membership and  *)
(* not of its share of the global counters.                                *)
InvalidateDeviceAll(d) ==
  /\ d \in traffic.beat \cup traffic.alert
  /\ online' = [online EXCEPT ![d] = 0]
  /\ count' = [count EXCEPT ![d] = 0]
  /\ countLeft' = [countLeft EXCEPT ![d] = 0]
  /\ UNCHANGED <<traffic, members, setLeft, torn, quiet, total, totalLeft,
                 split, pc, dev>>

-----------------------------------------------------------------------------
Left(t) == IF t \in {0, Forever} THEN t ELSE t - 1

(* A tick passes.  If a shared key dies inside a pipeline that counts on   *)
(* it, the pipeline has met an expiry.                                     *)
AgeKeys ==
  /\ online' = [d \in Devices |-> Left(online[d])]
  /\ setLeft' = Left(setLeft)
  /\ members' = IF setLeft = 1 THEN {} ELSE members
  /\ countLeft' = [d \in Devices |-> Left(countLeft[d])]
  /\ count' = [d \in Devices |-> IF countLeft[d] = 1 THEN 0 ELSE count[d]]
  /\ totalLeft' = Left(totalLeft)
  /\ total' = IF totalLeft = 1 THEN 0 ELSE total
  /\ torn' = [d \in Devices |-> torn[d] \/
       (setLeft = 1 /\ \E r \in Requests : pc[r] = "expireSet" /\ dev[r] = d)]
  /\ split' = IF \E r \in Requests : CountOpen(r)
              THEN split \/ totalLeft = 1
              ELSE split /\ (totalLeft' > 0 \/ \E d \in Devices : countLeft'[d] > 0)
  /\ quiet' = IF quiet < MaxQuiet THEN quiet + 1 ELSE quiet
  /\ UNCHANGED <<traffic, pc, dev>>

Command(r) ==
  \/ Set(r) \/ SAdd(r) \/ ExpireSet(r)
  \/ Incr(r) \/ ExpireCount(r) \/ IncrGlobal(r) \/ ExpireGlobal(r)

Write ==
  \/ \E r \in Requests, d \in Devices : SetOnlineStatus(r, d) \/ IncrAlertCount(r, d)
  \/ \E r \in Requests : Command(r) \/ Lose(r)
  \/ \E d \in Devices : InvalidateDeviceAll(d)

CountersSpec == CountersInit /\ [][Write \/ AgeKeys]_counterVars
-----------------------------------------------------------------------------
(* What GET /devices/{id}/status and the dashboard read; the latest points *)
(* of a status are those of module Telemetry.                              *)

IsOnline(d) == online[d] > 0
GetAlertCounts(d) == count[d]
GetDeviceStatus(d) ==
  [isOnline |-> IsOnline(d), alertCounts |-> GetAlertCounts(d)]

CountOnline == Cardinality(members)
GetGlobalAlertCounts == total
-----------------------------------------------------------------------------
(* Properties                                                              *)

CountersTyped ==
  /\ traffic \in Traffics
  /\ online \in [Devices -> 0 .. OnlineTTL]
  /\ members \in SUBSET Devices
  /\ setLeft \in 0 .. SetTTL \cup {Forever}
  /\ count \in [Devices -> Nat]
  /\ countLeft \in [Devices -> 0 .. CountTTL \cup {Forever}]
  /\ total \in Nat
  /\ totalLeft \in 0 .. CountTTL \cup {Forever}
  /\ pc \in [Requests -> Commands \cup {"idle"}]
  /\ dev \in [Requests -> Devices]
  /\ torn \in [Devices -> BOOLEAN]
  /\ split \in BOOLEAN
  /\ quiet \in 0 .. MaxQuiet

(* A key is there exactly while it has ticks left.                         *)
KeysOK ==
  /\ setLeft = 0 <=> members = {}
  /\ \A d \in Devices : countLeft[d] = 0 <=> count[d] = 0
  /\ totalLeft = 0 <=> total = 0

(* What the dashboard counts misses no device that /status shows online:   *)
(* a device with an online key is a member of the set, except inside its   *)
(* heartbeat or after one that broke off or met the expiry of the set.     *)
OnlineIsCounted ==
  \A d \in Devices :
    GetDeviceStatus(d).isOnline =>
      \/ d \in members
      \/ torn[d]
      \/ \E r \in Requests : BeatOpen(r) /\ dev[r] = d

(* SADD and INCR create keys without TTL: such a key is about to get one,  *)
(* or its pipeline broke off between the two commands.                     *)
NoLooseKeys ==
  /\ setLeft = Forever =>
       \/ \E r \in Requests : pc[r] = "expireSet"
       \/ \E d \in Devices : torn[d]
  /\ \A d \in Devices : countLeft[d] = Forever =>
       split \/ \E r \in Requests : pc[r] = "expire" /\ dev[r] = d
  /\ totalLeft = Forever =>
       split \/ \E r \in Requests : pc[r] = "expireAll"

(* Every alert that the status of some device shows, and the pipelines     *)
(* that have counted one for its device and not yet for all.               *)
AlertsShown ==
  UNION {{d} \X (1 .. GetDeviceStatus(d).alertCounts) : d \in Devices}
OnTheirWay == {r \in Requests : pc[r] \in {"expire", "incrAll"}}

(* The dashboard's global count of a severity covers what /status shows    *)
(* for all devices together, up to alerts whose pipeline is on its way,    *)
(* though the keys expire and are deleted independently of each other.     *)
GlobalCoversDevices ==
  split \/ Cardinality(AlertsShown)
             <= GetGlobalAlertCounts + Cardinality(OnTheirWay)
=============================================================================
