--------------------------- MODULE DeviceDirectory ---------------------------
(***************************************************************************)
(* What the device service promises of the device table, without caches,   *)
(* flights, lookups or lost answers: a request that is being worked on     *)
(* writes at most once, one row, in one step; a create a new row, an       *)
(* update and a delete the row they were asked for; and no two devices of  *)
(* one code live at a time.  DeviceService implements it.                  *)
(***************************************************************************)
EXTENDS Naturals

CONSTANTS Devices, CodeOf, Requests

VARIABLES
  row,       \* the version of each device
  op, dev,   \* of each request: its operation and its device
  phase      \* of each request: "idle", "asked" or "written"

directory == <<row, op, dev, phase>>

Init ==
  /\ row = [d \in Devices |-> [n |-> 0, live |-> FALSE]]
  /\ op \in [Requests -> {"find", "list", "create", "update", "delete"}]
  /\ dev \in [Requests -> Devices]
  /\ phase = [r \in Requests |-> "idle"]

Ask(r) ==
  /\ phase[r] = "idle"
  /\ phase' = [phase EXCEPT ![r] = "asked"]
  /\ \E o \in {"find", "list", "create", "update", "delete"}, d \in Devices :
       op' = [op EXCEPT ![r] = o] /\ dev' = [dev EXCEPT ![r] = d]
  /\ UNCHANGED row

(* The one write of a request; what follows may fail.                      *)
Write(r, d, live) ==
  /\ phase[r] = "asked"
  /\ row' = [row EXCEPT ![d] = [n |-> @.n + 1, live |-> live]]
  /\ \E p \in {"written", "idle"} : phase' = [phase EXCEPT ![r] = p]
  /\ UNCHANGED op

CodeFree(d) == \A e \in Devices \ {d} : row[e].live => CodeOf[e] # CodeOf[d]

Create(r, d) ==
  /\ op[r] = "create" /\ row[d].n = 0 /\ CodeFree(d)
  /\ CodeOf[d] = CodeOf[dev[r]]
  /\ Write(r, d, TRUE)
  /\ dev' = [dev EXCEPT ![r] = d]

Update(r) ==
  /\ op[r] = "update" /\ CodeFree(dev[r])
  /\ Write(r, dev[r], TRUE)
  /\ UNCHANGED dev

Delete(r) ==
  /\ op[r] = "delete" /\ row[dev[r]].live
  /\ Write(r, dev[r], FALSE)
  /\ UNCHANGED dev

(* A delete finds no row.                                                  *)
DeleteNothing(r) ==
  /\ op[r] = "delete" /\ ~row[dev[r]].live /\ phase[r] = "asked"
  /\ phase' = [phase EXCEPT ![r] = "written"]
  /\ UNCHANGED <<row, op, dev>>

(* Requests are answered, or die with the process.                         *)
Answer(R) ==
  /\ phase' = [r \in Requests |-> IF r \in R THEN "idle" ELSE phase[r]]
  /\ UNCHANGED <<row, op, dev>>

Next ==
  \/ \E r \in Requests : \/ Ask(r) \/ Update(r) \/ Delete(r) \/ DeleteNothing(r)
                         \/ \E d \in Devices : Create(r, d)
  \/ \E R \in SUBSET Requests : Answer(R)

Spec == Init /\ [][Next]_directory
=============================================================================
