------------------------------ MODULE Dashboard ------------------------------
(***************************************************************************)
(* GET /dashboard/overview over the keys of KeyCounters.  GetOverview      *)
(* answers from dashboard:overview; on a miss it reads the size of the     *)
(* online set and dashboard:device_total, counts the device rows if that   *)
(* total is missing or zero, and stores both numbers again.  Nothing that  *)
(* changes the devices (the rows of DevicePages, here without a filter)    *)
(* touches either key: they age out.                                       *)
(*                                                                         *)
(* The alert counts of an overview are read and cached like its online     *)
(* count and left out here; so is the mode without KeyDB, which counts the *)
(* rows for every request.                                                 *)
(***************************************************************************)
EXTENDS KeyCounters, DevicePages

CONSTANTS
  Viewers,                 \* goroutines that ask for the dashboard
  TotalTTL, DashboardTTL   \* in ticks

(* A traffic also names who asks for the dashboard, who pages through the  *)
(* devices, and the rows that come and go.                                 *)
ASSUME DashboardAssumption ==
  /\ TotalTTL \in Nat \ {0} /\ DashboardTTL \in Nat \ {0}
  /\ MaxQuiet >= SetTTL + DashboardTTL
  /\ \A t \in Traffics : /\ t.view \in SUBSET Viewers
                         /\ t.walk \in SUBSET Walkers
                         /\ t.churn \in SUBSET Positions

VARIABLES
  deviceTotal, deviceTotalLeft,   \* dashboard:device_total and its ticks
  overview, overviewLeft,    \* dashboard:overview and its ticks
  call, seen,                \* of each viewer: its next call, its numbers
  settled                    \* history: ticks since the rows changed

dashboardVars ==
  <<deviceTotal, deviceTotalLeft, overview, overviewLeft, call, seen, settled>>
vars == <<counterVars, pageVars, dashboardVars>>

(* counted: the total stems from a COUNT that did not fail.                *)
(* late, history: the figures that a request has held over a tick.         *)
Figures  == {"online", "total"}
Numbers  == [online : Nat, total : Nat, counted : BOOLEAN, late : SUBSET Figures]
Nothing  == [online |-> 0, total |-> 0, counted |-> FALSE, late |-> {}]
Calls    == {"idle", "get", "metrics", "count", "setTotal", "setOverview"}

Call(v, c)  == call' = [call EXCEPT ![v] = c]
Failing     == "connection" \in Faults
MaxSettled  == TotalTTL + DashboardTTL

Init ==
  /\ CountersInit
  /\ PagesInit
  /\ deviceTotal = Nothing /\ deviceTotalLeft = 0
  /\ overview = Nothing /\ overviewLeft = 0
  /\ call = [v \in Viewers |-> "idle"]
  /\ seen = [v \in Viewers |-> Nothing]
  /\ settled = MaxSettled

Ask(v) ==
  /\ v \in traffic.view /\ call[v] = "idle"
  /\ Call(v, "get")
  /\ UNCHANGED <<deviceTotal, deviceTotalLeft, overview, overviewLeft, seen, settled>>

(* A hit is the answer; an error counts as a miss.                         *)
GetDashboard(v) ==
  /\ call[v] = "get"
  /\ \/ overviewLeft > 0 /\ Call(v, "idle")
     \/ (overviewLeft = 0 \/ Failing) /\ Call(v, "metrics")
  /\ UNCHANGED <<deviceTotal, deviceTotalLeft, overview, overviewLeft, seen, settled>>

(* One round trip for both numbers; its failure leaves zeros.  A total of  *)
(* zero counts as none.                                                    *)
GetDashboardMetricsPipeline(v) ==
  /\ call[v] = "metrics"
  /\ \/ /\ seen' = [seen EXCEPT ![v] =
             [deviceTotal EXCEPT !.online = CountOnline,
                                 !.counted = deviceTotal.total > 0]]
        /\ Call(v, IF deviceTotal.total > 0 THEN "setOverview" ELSE "count")
     \/ Failing /\ Call(v, "count") /\ UNCHANGED seen
  /\ UNCHANGED <<deviceTotal, deviceTotalLeft, overview, overviewLeft, settled>>

(* A COUNT of the devices; its failure leaves the total zero.             *)
Count(v) ==
  /\ call[v] = "count"
  /\ \/ /\ seen' = [seen EXCEPT ![v] =
             [seen[v] EXCEPT !.total = Cardinality(rows), !.counted = TRUE,
                             !.late = @ \ {"total"}]]
        /\ Call(v, "setTotal")
     \/ Call(v, "setOverview") /\ UNCHANGED seen
  /\ UNCHANGED <<deviceTotal, deviceTotalLeft, overview, overviewLeft, settled>>

SetDeviceTotalCount(v) ==
  /\ call[v] = "setTotal"
  /\ \/ /\ deviceTotal' = [Nothing EXCEPT !.total = seen[v].total,
                                          !.late = seen[v].late \ {"online"}]
        /\ deviceTotalLeft' = TotalTTL
     \/ Failing /\ UNCHANGED <<deviceTotal, deviceTotalLeft>>
  /\ Call(v, "setOverview")
  /\ UNCHANGED <<overview, overviewLeft, seen, settled>>

SetDashboard_RenewsTotal(v) ==
  /\ call[v] = "setOverview"
  /\ overview' = seen[v] /\ overviewLeft' = DashboardTTL
  /\ deviceTotalLeft' = Renewed(deviceTotalLeft, TotalTTL)
  /\ Call(v, "idle")
  /\ seen' = [seen EXCEPT ![v] = Nothing]
  /\ UNCHANGED <<deviceTotal, settled>>

SetDashboard_NoTTL(v) ==
  /\ call[v] = "setOverview"
  /\ overview' = seen[v] /\ overviewLeft' = Forever
  /\ Call(v, "idle")
  /\ seen' = [seen EXCEPT ![v] = Nothing]
  /\ UNCHANGED <<deviceTotal, deviceTotalLeft, settled>>

SetDashboard(v) ==
  /\ call[v] = "setOverview"
  /\ \/ overview' = seen[v] /\ overviewLeft' = DashboardTTL
     \/ Failing /\ UNCHANGED <<overview, overviewLeft>>
  /\ Call(v, "idle")
  /\ seen' = [seen EXCEPT ![v] = Nothing]
  /\ UNCHANGED <<deviceTotal, deviceTotalLeft, settled>>

View(v) ==
  \/ Ask(v) \/ GetDashboard(v) \/ GetDashboardMetricsPipeline(v)
  \/ Count(v) \/ SetDeviceTotalCount(v) \/ SetDashboard(v)

-----------------------------------------------------------------------------
(* Devices are created and deleted; neither key is invalidated.            *)
ChangeDevices ==
  /\ \E p \in traffic.churn : InsertRow(p) \/ DeleteRow(p)
  /\ settled' = 0
  /\ UNCHANGED <<deviceTotal, deviceTotalLeft, overview, overviewLeft, call, seen>>

(* SET with a TTL: these keys always have one.                             *)
Less(t) == IF t = 0 THEN 0 ELSE t - 1

Tick ==
  /\ AgeKeys
  /\ deviceTotalLeft' = Less(deviceTotalLeft)
  /\ deviceTotal' = IF deviceTotalLeft = 1 THEN Nothing ELSE deviceTotal
  /\ overviewLeft' = Less(overviewLeft)
  /\ overview' = IF overviewLeft = 1 THEN Nothing ELSE overview
  /\ seen' = [v \in Viewers |->
       IF call[v] \in {"count", "setTotal", "setOverview"}
       THEN [seen[v] EXCEPT !.late = Figures] ELSE seen[v]]
  /\ settled' = IF settled < MaxSettled THEN settled + 1 ELSE settled
  /\ UNCHANGED <<call, pageVars>>

Next ==
  \/ Write /\ UNCHANGED <<pageVars, dashboardVars>>
  \/ ChangeDevices /\ UNCHANGED counterVars
  \/ /\ \E w \in traffic.walk : List(w) \/ \E n \in Limits : BeginWalk(w, n)
     /\ UNCHANGED <<counterVars, dashboardVars>>
  \/ (\E v \in Viewers : View(v)) /\ UNCHANGED <<counterVars, pageVars>>
  \/ Tick

Spec == Init /\ [][Next]_vars
-----------------------------------------------------------------------------
(* Properties                                                              *)

DashboardTyped ==
  /\ deviceTotal \in Numbers /\ deviceTotalLeft \in 0 .. TotalTTL
  /\ overview \in Numbers /\ overviewLeft \in 0 .. DashboardTTL
  /\ call \in [Viewers -> Calls]
  /\ seen \in [Viewers -> Numbers]
  /\ settled \in 0 .. MaxSettled

(* Type invariant of the keys, rows, walks and the dashboard; a key is there  *)
(* exactly while it has ticks left.                                        *)
TypeOK ==
  /\ CountersTyped /\ KeysOK /\ PagesTyped
  /\ DashboardTyped
  /\ deviceTotalLeft = 0 => deviceTotal = Nothing
  /\ overviewLeft = 0 => overview = Nothing

(* A change of the inventory shows although no write invalidates the       *)
(* dashboard: a cached overview with another total is younger than the     *)
(* change by at most both TTLs, and than DashboardTTL alone if it says     *)
(* zero, which is never taken from the cached total; unless the COUNT      *)
(* failed or a request held the number over a tick.                        *)
ChangeShows ==
  overviewLeft > 0 /\ overview.total # Cardinality(rows) =>
    \/ ~overview.counted \/ "total" \in overview.late
    \/ settled < IF overview.total = 0 THEN DashboardTTL ELSE MaxSettled

(* A fleet that falls silent is shown offline after the TTLs of the set    *)
(* and of the overview, although members never leave the set one by one;   *)
(* unless a heartbeat broke off, or a request held the number over a tick. *)
SilenceShows ==
  overview.online > 0 =>
    \/ quiet < SetTTL + DashboardTTL
    \/ "online" \in overview.late
    \/ \E d \in Devices : torn[d]
    \/ \E r \in Requests : pc[r] = "expireSet"
=============================================================================
