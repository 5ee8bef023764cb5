---------------------------- MODULE TelemetryReads ----------------------------
(***************************************************************************)
(* What the queries answer on the points that Telemetry has stored, laid   *)
(* out in the buckets of TelemetryBuckets.  Telemetry takes a query for a  *)
(* look at the set of stored points; here is when that is right.           *)
(***************************************************************************)
EXTENDS Telemetry, TelemetryBuckets

CONSTANTS
  Zones,      \* the offsets that senders, clients and the server use
  Moments     \* the instants that are asked for

ASSUME ReadsAssumption == Zones \subseteq Int /\ Moments \subseteq Int

Bounds == [at : Moments, zone : Zones]

Ahead(a, b) == IF a > b THEN a - b ELSE 0

(* A query in one zone returns every stored point of its range.  With      *)
(* other zones it misses only points near an end, nearer than the zones    *)
(* differ; but if the end is written in a zone ahead of the start's, the   *)
(* loop stops early and misses up to a day more.                           *)
EarlyStop(start, end) ==
  IF end.zone > start.zone THEN DayLength - 1 + (end.zone - start.zone) ELSE 0
QueryMissesOnlyEnds ==
  \A p \in stored, zone \in Zones, start \in Bounds, end \in Bounds :
    /\ start.at + Ahead(start.zone, zone) <= At[p]
    /\ At[p] + Ahead(zone, end.zone) + EarlyStop(start, end) <= end.at
    => Row(At[p], zone) \in Query({Row(At[p], zone)}, start, end)

(* QueryLatest sees the points whose dates, as their senders gave them, are *)
(* today or yesterday in the zone of the server (a sender ahead of it hides *)
(* its newest points until the server's midnight), and answers one of them. *)
(* It is the newest of them, or else one whose sender's clock showed a      *)
(* later time than the newer point's sender's: with senders in one zone     *)
(* nothing newer is passed over, with others a point may be that is newer   *)
(* by less than the zones differ (QueryLatest goes by the dates).           *)
Recent(date, now, here) == date \in {Day(now, here), Day(now, here) - 1}
LatestInWindow ==
  (\E t \in Times : IsNewest(t, stored)) =>
    \A zone \in [stored -> Zones], here \in Zones, now \in Moments :
      LET answer == QueryLatest({Row(At[u], zone[u]) : u \in stored}, now, here)
      IN  \A p \in stored : Recent(Day(At[p], zone[p]), now, here) =>
            \E q \in stored :
              /\ answer = {Row(At[q], zone[q])}
              /\ At[p] <= At[q] \/ At[p] + zone[p] < At[q] + zone[q]
=============================================================================
