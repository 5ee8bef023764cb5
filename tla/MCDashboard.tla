----------------------------- MODULE MCDashboard -----------------------------
(***************************************************************************)
(* A finite instance of Dashboard with KeyCounters and DevicePages.        *)
(***************************************************************************)
EXTENDS Dashboard, TLC

CONSTANTS d1, d2, r1, r2, v1, v2, w1

Silent == [beat |-> {}, alert |-> {}, send |-> {},
           view |-> {}, walk |-> {}, churn |-> {}]

(* Heartbeats, alerts and walks share no key, so each has behaviours of    *)
(* its own; the dashboard is asked by two viewers while devices come and   *)
(* go, or by one beside a heartbeat.                                       *)
Mixes ==
  {[Silent EXCEPT !.beat = {d1, d2}, !.send = {r1, r2}],
   [Silent EXCEPT !.alert = {d1, d2}, !.send = {r1, r2}],
   [Silent EXCEPT !.view = {v1, v2}, !.churn = {1, 2}],
   [Silent EXCEPT !.beat = {d1}, !.send = {r1}, !.view = {v1}],
   [Silent EXCEPT !.walk = {w1}, !.churn = {1, 2, 3, 4}]}

(* Next does not tell devices, requests or viewers apart.                  *)
Symmetry ==
  Permutations(Devices) \cup Permutations(Requests) \cup Permutations(Viewers)
=============================================================================
