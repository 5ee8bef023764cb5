----------------------- MODULE DeviceDirectory_proofs -----------------------
(***************************************************************************)
(* What DeviceService promises of the rows: no two live devices share a    *)
(* code, and the service implements DeviceDirectory, for every number of   *)
(* devices and requests, every set of operations and faults.               *)
(***************************************************************************)
EXTENDS DeviceService_proofs

DirectoryStep == [Directory!Next]_(Directory!directory)

(* The phase of a request by its next call.                                *)
PhaseAt(l) ==
  CASE l \in Outcomes -> "idle"
    [] l \in {"reload", "del", "scan", "sweep"} -> "written"
    [] OTHER -> "asked"

LEMMA PhaseMove ==
  ASSUME Typed, NEW r \in Requests, NEW l, Goto(r, l)
  PROVE  /\ Phase[r] = PhaseAt(pc[r])
         /\ Phase' = [Phase EXCEPT ![r] = PhaseAt(l)]
<1>1. Phase = [s \in Requests |-> PhaseAt(pc[s])]
  BY DEF Phase, PhaseAt
<1>2. Phase' = [s \in Requests |-> PhaseAt(pc'[s])]
  BY DEF Phase, PhaseAt
<1>3. \A s \in Requests : pc'[s] = IF s = r THEN l ELSE pc[s]
  BY DEF Goto, Typed
<1>4. Phase' = [s \in Requests |-> IF s = r THEN PhaseAt(l) ELSE PhaseAt(pc[s])]
  BY <1>2, <1>3
<1>5. [Phase EXCEPT ![r] = PhaseAt(l)]
        = [s \in Requests |-> IF s = r THEN PhaseAt(l) ELSE PhaseAt(pc[s])]
  BY <1>1
<1> QED BY <1>1, <1>4, <1>5

LEMMA PhaseValues ==
  /\ \A l \in Outcomes : PhaseAt(l) = "idle"
  /\ \A l \in {"reload", "del", "scan", "sweep"} : PhaseAt(l) = "written"
  /\ \A l \in Places \ {"reload", "del", "scan", "sweep"} : PhaseAt(l) = "asked"
BY DEF PhaseAt, Outcomes, Places

(* A request that stays in its phase, or is answered, changes no row.      *)
LEMMA ReadStep ==
  ASSUME Typed, NEW r \in Requests, NEW l, Goto(r, l), UNCHANGED <<row, op, dev>>,
         PhaseAt(l) \in {PhaseAt(pc[r]), "idle"}
  PROVE  DirectoryStep
<1>1. Phase' = [Phase EXCEPT ![r] = PhaseAt(l)] /\ Phase[r] = PhaseAt(pc[r])
  BY PhaseMove
<1>2. CASE PhaseAt(l) = PhaseAt(pc[r])
  <2>1. Phase' = Phase
    BY <1>1, <1>2 DEF Phase
  <2> QED
    BY <2>1 DEF DirectoryStep, Directory!directory
<1>3. CASE PhaseAt(l) = "idle"
  <2>1. Phase' = [s \in Requests |-> IF s \in {r} THEN "idle" ELSE Phase[s]]
    BY <1>1, <1>3 DEF Phase
  <2>2. Directory!Answer({r})
    BY <2>1 DEF Directory!Answer
  <2> QED
    BY <2>2 DEF DirectoryStep, Directory!Next
<1> QED BY <1>2, <1>3

(* A commit is the one write of its request.                               *)
LEMMA CommitStep ==
  ASSUME Typed, NEW r \in Requests, NEW d \in Devices, NEW live \in BOOLEAN,
         NEW acked \in BOOLEAN, NEW l \in {"reload", "del", "scan", "error"},
         PhaseAt(pc[r]) = "asked", Commit(d, live, acked), Goto(r, l), UNCHANGED op
  PROVE  Directory!Write(r, d, live)
<1>1. Phase[r] = "asked" /\ Phase' = [Phase EXCEPT ![r] = PhaseAt(l)]
  BY PhaseMove
<1>2. PhaseAt(l) \in {"written", "idle"}
  BY PhaseValues DEF Outcomes
<1>3. row' = [row EXCEPT ![d] = [n |-> @.n + 1, live |-> live]]
  BY DEF Commit
<1> QED
  BY <1>1, <1>2, <1>3 DEF Directory!Write

-----------------------------------------------------------------------------
LEMMA DirectoryRequest ==
  ASSUME Typed, ShapeOK, NEW r \in Requests, Step(r)
  PROVE  DirectoryStep
<1> USE DEF store, local
<1>0. /\ "ok" \in Outcomes /\ "notFound" \in Outcomes /\ "error" \in Outcomes
      /\ "duplicate" \in Outcomes /\ "partial" \in Outcomes
      /\ \A v : Outcome(v) \in Outcomes
  BY DEF Outcomes, Outcome
<1>1. CASE GetDevice(r)
  <2>1. PICK l \in Outcomes \cup {"do"} : Goto(r, l)
    BY <1>1, <1>0 DEF GetDevice
  <2>2. PhaseAt(l) \in {PhaseAt("get"), "idle"}
    BY PhaseValues DEF Places
  <2> QED
    BY <1>1, <2>1, <2>2, ReadStep DEF GetDevice
<1>2. CASE Do(r)
  <2>1. PICK l \in {"query", "wait"} : Goto(r, l)
    BY <1>2 DEF Do
  <2>2. PhaseAt(l) = PhaseAt("do")
    BY PhaseValues DEF Places
  <2> QED
    BY <1>2, <2>1, <2>2, ReadStep DEF Do
<1>3. CASE QueryDevice(r)
  <2>1. PICK l \in {"fill", "finish"} : Goto(r, l)
    BY <1>3 DEF QueryDevice
  <2>2. PhaseAt(l) = PhaseAt("query")
    BY PhaseValues DEF Places
  <2> QED
    BY <1>3, <2>1, <2>2, ReadStep DEF QueryDevice
<1>4. CASE FillDevice(r)
  <2>1. PhaseAt("finish") = PhaseAt("fill")
    BY PhaseValues DEF Places
  <2> QED
    BY <1>4, <2>1, ReadStep DEF FillDevice
<1>5. CASE FinishFlight(r)
  <2> DEFINE sharers == {r} \cup {s \in Requests : pc[s] = "wait" /\ dev[s] = dev[r]}
  <2>1. pc' = [s \in Requests |-> IF s \in sharers THEN Outcome(got[r]) ELSE pc[s]]
    BY <1>5 DEF FinishFlight
  <2>2. Phase' = [s \in Requests |-> PhaseAt(pc'[s])]
        /\ Phase = [s \in Requests |-> PhaseAt(pc[s])]
    BY DEF Phase, PhaseAt
  <2>3. \A s \in Requests :
          PhaseAt(pc'[s]) = IF s \in sharers THEN "idle" ELSE Phase[s]
    BY <2>1, <2>2, <1>0, PhaseValues
  <2>4. Phase' = [s \in Requests |-> IF s \in sharers THEN "idle" ELSE Phase[s]]
    BY <2>2, <2>3
  <2>5. Directory!Answer(sharers)
    BY <1>5, <2>4 DEF FinishFlight, Directory!Answer
  <2>6. sharers \in SUBSET Requests
    OBVIOUS
  <2> QED
    BY <2>5, <2>6 DEF DirectoryStep, Directory!Next
<1>6. CASE GetDeviceList(r)
  <2>1. PICK l \in {"ok", "listRead"} : Goto(r, l)
    BY <1>6 DEF GetDeviceList
  <2>2. PhaseAt(l) \in {PhaseAt("listGet"), "idle"}
    BY PhaseValues, <1>0 DEF Places
  <2> QED
    BY <1>6, <2>1, <2>2, ReadStep DEF GetDeviceList
<1>7. CASE ReadList(r)
  <2>1. PICK l \in {"error", "listSet"} : Goto(r, l)
    BY <1>7 DEF ReadList
  <2>2. PhaseAt(l) \in {PhaseAt("listRead"), "idle"}
    BY PhaseValues, <1>0 DEF Places
  <2> QED
    BY <1>7, <2>1, <2>2, ReadStep DEF ReadList
<1>8. CASE SetDeviceList(r)
  <2>1. PhaseAt("ok") = "idle"
    BY PhaseValues, <1>0
  <2> QED
    BY <1>8, <2>1, ReadStep DEF SetDeviceList
<1>9. CASE CheckCode(r)
  <2>1. PICK l \in {"insert", "duplicate", "error"} : Goto(r, l)
    BY <1>9 DEF CheckCode
  <2>2. PhaseAt(l) \in {PhaseAt("code"), "idle"}
    BY PhaseValues, <1>0 DEF Places
  <2> QED
    BY <1>9, <2>1, <2>2, ReadStep DEF CheckCode
<1>10. CASE Insert(r)
  <2>1. PhaseAt("insert") = "asked" /\ PhaseAt("error") = "idle"
    BY PhaseValues, <1>0 DEF Places
  <2>2. op[r] = "create" /\ pc[r] = "insert"
    BY <1>10 DEF Insert, ShapeOK, CallsOK
  <2>3. ASSUME NEW d \in Devices, NEW acked \in Acks,
               row[d].n = 0, CodeOf[d] = CodeOf[dev[r]], CodeFree(d),
               Commit(d, TRUE, acked), dev' = [dev EXCEPT ![r] = d],
               IF acked THEN Goto(r, "reload") \/ Goto(r, "scan") ELSE Goto(r, "error")
        PROVE  DirectoryStep
    <3>1. Directory!Write(r, d, TRUE)
      <4>1. PICK l \in {"reload", "del", "scan", "error"} : Goto(r, l)
        BY <2>3
      <4> QED
        BY <1>10, <2>1, <2>2, <2>3, <4>1, CommitStep, AcksBoolean DEF Insert
    <3>2. Directory!Create(r, d)
      BY <2>2, <2>3, <3>1 DEF Directory!Create, Directory!CodeFree, CodeFree
    <3> QED
      BY <3>2 DEF DirectoryStep, Directory!Next
  <2>4. CASE Goto(r, "error") /\ UNCHANGED <<row, dev>>
    BY <1>10, <2>1, <2>2, <2>4, ReadStep DEF Insert
  <2> QED
    BY <1>10, <2>3, <2>4 DEF Insert
<1>11. CASE Load(r)
  <2>1. PICK l \in {"save", "remove", "notFound", "error"} : Goto(r, l)
    BY <1>11 DEF Load
  <2>2. PhaseAt(l) \in {PhaseAt("load"), "idle"}
    BY PhaseValues, <1>0 DEF Places
  <2> QED
    BY <1>11, <2>1, <2>2, ReadStep DEF Load
<1>12. CASE Save(r)
  <2>1. PhaseAt("save") = "asked" /\ PhaseAt("error") = "idle"
    BY PhaseValues, <1>0 DEF Places
  <2>2. op[r] = "update" /\ pc[r] = "save" /\ dev[r] \in Devices
    BY <1>12 DEF Save, ShapeOK, CallsOK, Typed
  <2>3. ASSUME NEW acked \in Acks, CodeFree(dev[r]), Commit(dev[r], TRUE, acked),
               Goto(r, IF acked THEN "reload" ELSE "error")
        PROVE  DirectoryStep
    <3>1. Directory!Write(r, dev[r], TRUE)
      BY <1>12, <2>1, <2>2, <2>3, CommitStep, AcksBoolean DEF Save
    <3>2. Directory!Update(r)
      BY <1>12, <2>2, <2>3, <3>1
         DEF Save, Directory!Update, Directory!CodeFree, CodeFree
    <3> QED
      BY <3>2 DEF DirectoryStep, Directory!Next
  <2>4. CASE Goto(r, "error") /\ UNCHANGED row
    BY <1>12, <2>1, <2>2, <2>4, ReadStep DEF Save
  <2> QED
    BY <1>12, <2>3, <2>4 DEF Save
<1>13. CASE Remove(r)
  <2>1. /\ PhaseAt("remove") = "asked" /\ PhaseAt("error") = "idle"
        /\ PhaseAt("del") = "written"
    BY PhaseValues, <1>0 DEF Places
  <2>2. op[r] = "delete" /\ pc[r] = "remove" /\ dev[r] \in Devices
    BY <1>13 DEF Remove, ShapeOK, CallsOK, Typed
  <2>3. ASSUME NEW acked \in Acks, row[dev[r]].live, Commit(dev[r], FALSE, acked),
               Goto(r, IF acked THEN "del" ELSE "error")
        PROVE  DirectoryStep
    <3>1. Directory!Write(r, dev[r], FALSE)
      BY <1>13, <2>1, <2>2, <2>3, CommitStep, AcksBoolean DEF Remove
    <3>2. Directory!Delete(r)
      BY <1>13, <2>2, <2>3, <3>1 DEF Remove, Directory!Delete
    <3> QED
      BY <3>2 DEF DirectoryStep, Directory!Next
  <2>4. CASE ~row[dev[r]].live /\ Goto(r, "del") /\ UNCHANGED row
    <3>1. Phase[r] = "asked" /\ Phase' = [Phase EXCEPT ![r] = "written"]
      BY <2>1, <2>2, <2>4, PhaseMove
    <3>2. Directory!DeleteNothing(r)
      BY <1>13, <2>2, <2>4, <3>1 DEF Remove, Directory!DeleteNothing
    <3> QED
      BY <3>2 DEF DirectoryStep, Directory!Next
  <2>5. CASE Goto(r, "error") /\ UNCHANGED row
    BY <1>13, <2>1, <2>2, <2>5, ReadStep DEF Remove
  <2> QED
    BY <1>13, <2>3, <2>4, <2>5 DEF Remove
<1>14. CASE Reload(r)
  <2>1. PICK l \in {"del", "scan"} : Goto(r, l)
    BY <1>14 DEF Reload
  <2>2. PhaseAt(l) = PhaseAt("reload")
    BY PhaseValues
  <2> QED
    BY <1>14, <2>1, <2>2, ReadStep DEF Reload
<1>15. CASE DelDevice(r)
  <2>1. PICK l \in {"scan", "partial"} : Goto(r, l)
    BY <1>15 DEF DelDevice, Failed
  <2>2. PhaseAt(l) \in {PhaseAt("del"), "idle"}
    BY PhaseValues, <1>0
  <2> QED
    BY <1>15, <2>1, <2>2, ReadStep DEF DelDevice
<1>16. CASE ScanLists(r)
  <2>1. PICK l \in {"sweep", "ok", "partial"} : Goto(r, l)
    BY <1>16 DEF ScanLists, Failed
  <2>2. PhaseAt(l) \in {PhaseAt("scan"), "idle"}
    BY PhaseValues, <1>0
  <2> QED
    BY <1>16, <2>1, <2>2, ReadStep DEF ScanLists
<1>17. CASE SweepLists(r)
  <2>1. PICK l \in {"ok", "partial"} : Goto(r, l)
    BY <1>17 DEF SweepLists, Failed
  <2>2. PhaseAt(l) = "idle"
    BY PhaseValues, <1>0
  <2> QED
    BY <1>17, <2>1, <2>2, ReadStep DEF SweepLists
<1> QED
  BY <1>1, <1>2, <1>3, <1>4, <1>5, <1>6, <1>7, <1>8, <1>9, <1>10, <1>11,
     <1>12, <1>13, <1>14, <1>15, <1>16, <1>17 DEF Step

LEMMA DirectoryNext ==
  ASSUME Typed, ShapeOK, [Next]_vars
  PROVE  DirectoryStep
<1> USE DEF store, local
<1>1. ASSUME NEW r \in Requests, NEW o \in Operations, NEW d \in Devices,
             NEW q \in Queries, Start(r, o, d, q)
      PROVE  DirectoryStep
  <2>1. o \in {"find", "list", "create", "update", "delete"}
    BY ConstantsAssumption
  <2>2. PhaseAt(pc[r]) = "idle"
    BY <1>1, PhaseValues DEF Start
  <2>3. PhaseAt(FirstCall(o)) = "asked"
    BY <2>1, PhaseValues DEF FirstCall, Places
  <2>4. Phase[r] = "idle" /\ Phase' = [Phase EXCEPT ![r] = "asked"]
    BY <1>1, <2>2, <2>3, PhaseMove DEF Start
  <2>5. Directory!Ask(r)
    BY <1>1, <2>1, <2>4 DEF Start, Directory!Ask
  <2> QED
    BY <2>5 DEF DirectoryStep, Directory!Next
<1>2. ASSUME UNCHANGED <<row, op, dev, pc>>
      PROVE  DirectoryStep
  BY <1>2 DEF DirectoryStep, Directory!directory, Phase
<1>3. ASSUME NEW r \in Requests, FillResent(r)
      PROVE  DirectoryStep
  BY <1>2, <1>3 DEF FillResent
<1>3a. ASSUME NEW r \in Requests, ListResent(r)
      PROVE  DirectoryStep
  BY <1>2, <1>3a DEF ListResent
<1>4. ASSUME NEW d \in Devices, ExpireDevice(d)
      PROVE  DirectoryStep
  BY <1>2, <1>4 DEF ExpireDevice
<1>5. ASSUME NEW q \in Queries, ExpireList(q)
      PROVE  DirectoryStep
  BY <1>2, <1>5 DEF ExpireList
<1>6. CASE Crash
  <2>1. Phase' = [r \in Requests |-> "idle"]
    BY <1>6 DEF Crash, Phase, Outcomes
  <2>2. Directory!Answer(Requests)
    BY <1>6, <2>1 DEF Crash, Directory!Answer
  <2> QED
    BY <2>2 DEF DirectoryStep, Directory!Next
<1>7. CASE UNCHANGED vars
  BY <1>2, <1>7 DEF vars
<1> QED
  BY <1>1, <1>3, <1>3a, <1>4, <1>5, <1>6, <1>7, DirectoryRequest DEF Next

LEMMA DirectoryInit == Init => Directory!Init
<1> SUFFICES ASSUME Init PROVE Directory!Init
  OBVIOUS
<1>1. Phase = [r \in Requests |-> "idle"]
  BY DEF Init, Phase, Outcomes
<1>2. (CHOOSE d \in Devices : TRUE) \in Devices
  BY ConstantsAssumption
<1> QED
  BY <1>1, <1>2 DEF Init, Directory!Init

(* The device service implements the directory: whatever the caches, the   *)
(* flights, the crashes and the lost answers do, each request writes the   *)
(* device table at most once, in one step, as its operation may.           *)
THEOREM Implements == Spec => ImplementsDirectory
<1>1. Typed /\ ShapeOK /\ [Next]_vars => (Typed /\ ShapeOK)'
  BY TypeNext, ShapeNext DEF ShapeOK
<1>2. Typed /\ ShapeOK /\ [Next]_vars => [Directory!Next]_(Directory!directory)
  BY DirectoryNext DEF DirectoryStep
<1> QED
  BY <1>1, <1>2, InitOK, DirectoryInit, PTL DEF Spec, ImplementsDirectory, Directory!Spec

-----------------------------------------------------------------------------
(* The unique code                                                         *)

(* A device that comes to life in the directory takes a free code.         *)
LEMMA CodesNext ==
  ASSUME Typed, CodesUnique, DirectoryStep
  PROVE  CodesUnique'
<1>1. ASSUME NEW r \in Requests, NEW d \in Devices, Directory!CodeFree(d),
             Directory!Write(r, d, TRUE)
      PROVE  CodesUnique'
  <2>1. row' = [row EXCEPT ![d] = [n |-> row[d].n + 1, live |-> TRUE]]
    BY <1>1 DEF Directory!Write
  <2>2. \A e \in Devices \ {d} : row'[e] = row[e]
    BY <2>1 DEF Typed
  <2> QED
    BY <1>1, <2>2 DEF CodesUnique, Directory!CodeFree
<1>2. ASSUME NEW r \in Requests, NEW d \in Devices, Directory!Write(r, d, FALSE)
      PROVE  CodesUnique'
  <2>1. row' = [row EXCEPT ![d] = [n |-> row[d].n + 1, live |-> FALSE]]
    BY <1>2 DEF Directory!Write
  <2>2. /\ \A e \in Devices \ {d} : row'[e] = row[e]
        /\ ~row'[d].live
    BY <2>1 DEF Typed
  <2> QED
    BY <2>2 DEF CodesUnique
<1>3. CASE UNCHANGED row
  BY <1>3 DEF CodesUnique
<1>4. ASSUME NEW r \in Requests, Directory!Update(r)
      PROVE  CodesUnique'
  BY <1>1, <1>4 DEF Directory!Update, Typed
<1>5. ASSUME NEW r \in Requests, Directory!Delete(r)
      PROVE  CodesUnique'
  BY <1>2, <1>5 DEF Directory!Delete, Typed
<1>6. ASSUME NEW r \in Requests, NEW d \in Devices, Directory!Create(r, d)
      PROVE  CodesUnique'
  BY <1>1, <1>6 DEF Directory!Create
<1>7. ASSUME NEW r \in Requests, Directory!Ask(r) \/ Directory!DeleteNothing(r)
      PROVE  CodesUnique'
  BY <1>3, <1>7 DEF Directory!Ask, Directory!DeleteNothing
<1>8. ASSUME NEW R \in SUBSET Requests, Directory!Answer(R)
      PROVE  CodesUnique'
  BY <1>3, <1>8 DEF Directory!Answer
<1>9. CASE UNCHANGED Directory!directory
  BY <1>3, <1>9 DEF Directory!directory
<1> QED
  BY <1>4, <1>5, <1>6, <1>7, <1>8, <1>9 DEF DirectoryStep, Directory!Next

(* No two live devices share a device_code, though Create and Update check *)
(* and write in two calls: the directory writes only free codes.           *)
THEOREM UniqueCodes == Spec => []CodesUnique
<1>1. Typed /\ ShapeOK /\ CodesUnique /\ [Next]_vars => (Typed /\ ShapeOK /\ CodesUnique)'
  BY TypeNext, ShapeNext, DirectoryNext, CodesNext DEF ShapeOK
<1>2. Init => CodesUnique
  BY DEF Init, CodesUnique
<1> QED
  BY <1>1, <1>2, InitOK, PTL DEF Spec
=============================================================================
