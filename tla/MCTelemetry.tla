------------------------------ MODULE MCTelemetry ------------------------------
(***************************************************************************)
(* Finite instances of Telemetry and TelemetryReads: days of two hours, two *)
(* points of two days or of one instant.  A rule has two settings, of two   *)
(* severities; the second point breaches one of them only.                  *)
(***************************************************************************)
EXTENDS TelemetryReads, TLC

CONSTANTS a1, p1, p2, r1, r2

TwoPoints == {p1, p2}
TwoDays   == [p \in Points |-> IF p = p1 THEN 1 ELSE 2]
OneHour   == [p \in Points |-> 1]
DayOfAt   == [p \in Points |-> Day(At[p], 0)]
TwoZones  == {0, 1}
Hours     == 1 .. 3
OneRule   == {a1}
NoRule    == {}
Limits    == {"low", "high"}
OverLimit == [s \in Settings |-> IF s = "low" THEN Points ELSE {p1}]
Grade     == [s \in Settings |-> IF s = "low" THEN "warning" ELSE "critical"]
Two       == {r1, r2}
AllFaults == {"postgres", "scylla", "skippedDay", "cache", "crash"}

(* Requests run the same code on the same service.                          *)
RequestSymmetry == Permutations(Requests)
=============================================================================
