--------------------------- MODULE MCDeviceService ---------------------------
(***************************************************************************)
(* Finite instances of DeviceService for TLC.                               *)
(***************************************************************************)
EXTENDS DeviceService, TLC

CONSTANTS d1, d2, q1, r1, r2, r3

OneDevice  == {d1}
TwoDevices == {d1, d2}
SameCode   == [d \in Devices |-> "code"]
Two        == {r1, r2}
Three      == {r1, r2, r3}
AllOperations == Readers \cup Writers
AllFaults     == {"cache", "ack", "crash"}

(* Requests run the same code on the same service.                          *)
RequestSymmetry == Permutations(Requests)
=============================================================================
