--------------------------- MODULE TelemetryBuckets ---------------------------
(***************************************************************************)
(* The day buckets of the telemetry table.  A point is stored under the    *)
(* date of its recorded_at as its sender wrote it; Query and DeleteByRange *)
(* visit the days from the date of start to the date of end, each in the   *)
(* zone its own bound was written in; QueryLatest visits today and         *)
(* yesterday of the server.  Three zones that nothing makes agree.         *)
(*                                                                         *)
(* Instants are numbers, a zone is its offset: RFC 3339 times carry fixed  *)
(* offsets, so every day has DayLength.  A bound is an instant in a zone.  *)
(* Rows are those of one device and one metric, so the LIMIT of 100 rows   *)
(* per day never hides the newest, and sorting a result is left out.       *)
(***************************************************************************)
EXTENDS Integers

CONSTANT DayLength

ASSUME DayLengthAssumption == DayLength \in Nat \ {0}

(* Format("2006-01-02") in a zone, and time.Date(.., 0, 0, 0, 0, zone).    *)
Day(t, zone)        == (t + zone) \div DayLength
Midnight(day, zone) == day * DayLength - zone

Row(t, zone) == [date |-> Day(t, zone), at |-> t]

(* The loop compares instants: midnights of the start's zone, one day      *)
(* after the other, with the last midnight of the end's zone.              *)
Visited_BeforeTheLast(day, start, end) ==
  /\ day >= Day(start.at, start.zone)
  /\ Midnight(day, start.zone) < Midnight(Day(end.at, end.zone), end.zone)
Visited(day, start, end) ==
  /\ day >= Day(start.at, start.zone)
  /\ Midnight(day, start.zone) <= Midnight(Day(end.at, end.zone), end.zone)

(* What Query returns, and what DeleteByRange removes.                     *)
Query(rows, start, end) ==
  {r \in rows : Visited(r.date, start, end) /\ start.at <= r.at /\ r.at <= end.at}

QueryLatest_YesterdayFirst(rows, now, zone) ==
  LET today     == {r \in rows : r.date = Day(now, zone)}
      yesterday == {r \in rows : r.date = Day(now, zone) - 1}
      found     == IF yesterday # {} THEN yesterday ELSE today
  IN  {r \in found : \A q \in found : q.at <= r.at}

(* The newest row of today, or else of yesterday; no row, or one.          *)
QueryLatest(rows, now, zone) ==
  LET today     == {r \in rows : r.date = Day(now, zone)}
      yesterday == {r \in rows : r.date = Day(now, zone) - 1}
      found     == IF today # {} THEN today ELSE yesterday
  IN  {r \in found : \A q \in found : q.at <= r.at}
=============================================================================
