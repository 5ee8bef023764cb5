------------------------ MODULE DeviceService_proofs ------------------------
(***************************************************************************)
(* Proofs about DeviceService for every number of devices, queries and      *)
(* requests, every set of operations and faults and every bound.            *)
(***************************************************************************)
EXTENDS DeviceService, TLAPS

-----------------------------------------------------------------------------
(* The inductive invariant                                                  *)

(* The calls of each operation.                                             *)
CallsOK ==
  \A r \in Requests :
    /\ pc[r] \in {"get", "do", "wait", "query", "fill", "finish"} => op[r] = "find"
    /\ pc[r] \in {"listGet", "listRead", "listSet"} => op[r] = "list"
    /\ pc[r] \in {"code", "insert"} => op[r] = "create"
    /\ pc[r] \in {"load", "save", "remove", "del"} => op[r] \in {"update", "delete"}
    /\ pc[r] = "save" => op[r] = "update"
    /\ pc[r] = "remove" => op[r] = "delete"
    /\ pc[r] = "reload" => op[r] \in {"create", "update"}
    /\ pc[r] \in {"scan", "sweep"} => op[r] \in Writers

(* The singleflight group holds exactly the running leaders.                *)
FlightsOwned ==
  /\ \A d \in Devices : flight[d] # None =>
       /\ dev[flight[d]] = d
       /\ pc[flight[d]] \in {"query", "fill", "finish"}
  /\ \A r \in Requests :
       /\ pc[r] \in {"query", "fill", "finish"} => flight[dev[r]] = r
       /\ pc[r] = "wait" => flight[dev[r]] # None

LEMMA CommitType ==
  ASSUME Typed, NEW d \in Devices, NEW live \in BOOLEAN, NEW acked \in BOOLEAN,
         Commit(d, live, acked)
  PROVE  /\ row' \in [Devices -> Version]
         /\ spoiled' \in [Devices -> BOOLEAN]
         /\ listSpoiled' \in [Queries -> BOOLEAN]
<1>1. row[d].n + 1 \in Nat
  BY DEF Typed, Version
<1>2. [n |-> row[d].n + 1, live |-> live] \in Version
  BY <1>1 DEF Version
<1>3. row' \in [Devices -> Version]
  BY <1>2 DEF Commit, Typed
<1>4. spoiled' \in [Devices -> BOOLEAN]
  BY DEF Commit, Typed, FillHeld
<1>5. listSpoiled' \in [Queries -> BOOLEAN]
  BY DEF Commit, Typed, ListHeld
<1> QED BY <1>3, <1>4, <1>5

LEMMA ListTypes ==
  ASSUME Typed, NEW qs \in SUBSET Queries
  PROVE  /\ SpoilLists(qs) => listSpoiled' \in [Queries -> BOOLEAN]
         /\ DropLists(qs) => /\ lists' \in [Queries -> Page \cup {None}]
                            /\ listSpoiled' \in [Queries -> BOOLEAN]
<1>1. SpoilLists(qs) => listSpoiled' \in [Queries -> BOOLEAN]
  BY DEF SpoilLists
<1>2. DropLists(qs) => listSpoiled' \in [Queries -> BOOLEAN]
  BY DEF DropLists
<1>3. DropLists(qs) => lists' \in [Queries -> Page \cup {None}]
  BY DEF DropLists, Typed
<1> QED BY <1>1, <1>2, <1>3

LEMMA AcksBoolean == Acks \subseteq BOOLEAN
BY DEF Acks

(* The grouping of the variables, for the steps that leave some alone.      *)
LEMMA TypeStep ==
  ASSUME Typed, LocalsOK, NEW r \in Requests, Step(r)
  PROVE  Typed'
<1> USE DEF Typed, store, local, ghost, Goto
<1>0. Outcomes \subseteq Labels /\ Places \subseteq Labels
  BY DEF Labels
<1>1. /\ "ok" \in Labels /\ "notFound" \in Labels /\ "error" \in Labels
      /\ "duplicate" \in Labels /\ "partial" \in Labels
      /\ "do" \in Labels /\ "wait" \in Labels /\ "query" \in Labels
      /\ "fill" \in Labels /\ "finish" \in Labels
      /\ "listRead" \in Labels /\ "listSet" \in Labels
      /\ "insert" \in Labels /\ "save" \in Labels /\ "remove" \in Labels
      /\ "reload" \in Labels /\ "del" \in Labels
      /\ "scan" \in Labels /\ "sweep" \in Labels
      /\ \A v : Outcome(v) \in Labels
  <2>1. /\ "ok" \in Labels /\ "notFound" \in Labels /\ "error" \in Labels
        /\ "duplicate" \in Labels /\ "partial" \in Labels
    BY <1>0 DEF Outcomes
  <2>2. \A v : Outcome(v) \in Labels
    BY <2>1 DEF Outcome
  <2> QED
    BY <1>0, <2>1, <2>2 DEF Places
<1>2. CASE GetDevice(r)
  BY <1>2, <1>1 DEF GetDevice
<1>3. CASE Do(r)
  BY <1>3, <1>1 DEF Do
<1>4. CASE QueryDevice(r)
  BY <1>4, <1>1 DEF QueryDevice
<1>5. CASE FillDevice(r)
  BY <1>5, <1>1 DEF FillDevice, LocalsOK
<1>6. CASE FinishFlight(r)
  BY <1>6, <1>1 DEF FinishFlight
<1>7. CASE GetDeviceList(r)
  BY <1>7, <1>1 DEF GetDeviceList
<1>8. CASE ReadList(r)
  BY <1>8, <1>1 DEF ReadList, Page
<1>9. CASE SetDeviceList(r)
  BY <1>9, <1>1 DEF SetDeviceList, LocalsOK
<1>10. CASE CheckCode(r)
  BY <1>10, <1>1 DEF CheckCode
<1>11. CASE Insert(r)
  <2>1. pc' \in [Requests -> Labels] /\ dev' \in [Requests -> Devices]
    BY <1>11, <1>1 DEF Insert
  <2>2. /\ row' \in [Devices -> Version]
        /\ spoiled' \in [Devices -> BOOLEAN]
        /\ listSpoiled' \in [Queries -> BOOLEAN]
    <3>1. CASE UNCHANGED <<row, spoiled, listSpoiled>>
      BY <3>1
    <3>2. CASE \E d \in Devices, acked \in Acks : Commit(d, TRUE, acked)
      BY <3>2, CommitType, AcksBoolean
    <3> QED
      BY <1>11, <3>1, <3>2 DEF Insert
  <2> QED
    BY <1>11, <2>1, <2>2 DEF Insert
<1>12. CASE Load(r)
  BY <1>12, <1>1 DEF Load
<1>13. CASE Save(r)
  <2>1. pc' \in [Requests -> Labels]
    BY <1>13, <1>1 DEF Save
  <2>2. /\ row' \in [Devices -> Version]
        /\ spoiled' \in [Devices -> BOOLEAN]
        /\ listSpoiled' \in [Queries -> BOOLEAN]
    <3>1. CASE UNCHANGED <<row, spoiled, listSpoiled>>
      BY <3>1
    <3>2. CASE \E acked \in Acks : Commit(dev[r], TRUE, acked)
      BY <3>2, CommitType, AcksBoolean
    <3> QED
      BY <1>13, <3>1, <3>2 DEF Save
  <2> QED
    BY <1>13, <2>1, <2>2 DEF Save
<1>14. CASE Remove(r)
  <2>1. pc' \in [Requests -> Labels]
    BY <1>14, <1>1 DEF Remove
  <2>2. /\ row' \in [Devices -> Version]
        /\ spoiled' \in [Devices -> BOOLEAN]
        /\ listSpoiled' \in [Queries -> BOOLEAN]
    <3>1. CASE UNCHANGED <<row, spoiled, listSpoiled>>
      BY <3>1
    <3>2. CASE \E acked \in Acks : Commit(dev[r], FALSE, acked)
      BY <3>2, CommitType, AcksBoolean
    <3> QED
      BY <1>14, <3>1, <3>2 DEF Remove
  <2> QED
    BY <1>14, <2>1, <2>2 DEF Remove
<1>15. CASE Reload(r)
  BY <1>15, <1>1 DEF Reload
<1>16. CASE DelDevice(r)
  <2>1. cache' \in [Devices -> Version \cup {None}] /\ spoiled' \in [Devices -> BOOLEAN]
    BY <1>16 DEF DelDevice, DropDevice, FillHeld
  <2>2. listSpoiled' \in [Queries -> BOOLEAN]
    BY <1>16, ListTypes DEF DelDevice
  <2>3. pc' \in [Requests -> Labels]
    BY <1>16, <1>1 DEF DelDevice, Failed
  <2> QED
    BY <1>16, <2>1, <2>2, <2>3 DEF DelDevice
<1>17. CASE ScanLists(r)
  <2>1. keys' \in [Requests -> SUBSET Queries] /\ listSpoiled' \in [Queries -> BOOLEAN]
    BY <1>17, ListTypes DEF ScanLists
  <2>2. pc' \in [Requests -> Labels]
    BY <1>17, <1>1 DEF ScanLists, Failed
  <2> QED
    BY <1>17, <2>1, <2>2 DEF ScanLists
<1>18. CASE SweepLists(r)
  <2>0. keys[r] \in SUBSET Queries
    OBVIOUS
  <2>1. lists' \in [Queries -> Page \cup {None}]
    BY <1>18, <2>0, ListTypes DEF SweepLists
  <2>2. listSpoiled' \in [Queries -> BOOLEAN]
    BY <1>18, <2>0, ListTypes DEF SweepLists
  <2>3. pc' \in [Requests -> Labels] /\ keys' \in [Requests -> SUBSET Queries]
    BY <1>18, <1>1 DEF SweepLists, Failed
  <2> QED
    BY <1>18, <2>1, <2>2, <2>3 DEF SweepLists
<1> QED
  BY <1>2, <1>3, <1>4, <1>5, <1>6, <1>7, <1>8, <1>9, <1>10, <1>11, <1>12,
     <1>13, <1>14, <1>15, <1>16, <1>17, <1>18 DEF Step

LEMMA TypeNext ==
  ASSUME Typed, LocalsOK, [Next]_vars
  PROVE  Typed'
<1> USE DEF Typed, store, local, ghost, Goto
<1>1. ASSUME NEW r \in Requests, NEW o \in Operations, NEW d \in Devices,
             NEW q \in Queries, Start(r, o, d, q)
      PROVE  Typed'
  <2>1. o \in Readers \cup Writers
    BY ConstantsAssumption DEF Readers, Writers
  <2>2. FirstCall(o) \in Labels
    BY DEF FirstCall, Labels, Places
  <2>3. row[d].n \in Nat
    BY DEF Version
  <2> QED
    BY <1>1, <2>1, <2>2, <2>3 DEF Start
<1>2. ASSUME NEW r \in Requests, FillResent(r)
      PROVE  Typed'
  BY <1>2 DEF FillResent, LocalsOK
<1>2a. ASSUME NEW r \in Requests, ListResent(r)
      PROVE  Typed'
  BY <1>2a DEF ListResent, LocalsOK
<1>3. ASSUME NEW d \in Devices, ExpireDevice(d)
      PROVE  Typed'
  BY <1>3 DEF ExpireDevice, DropDevice, FillHeld
<1>4. ASSUME NEW q \in Queries, ExpireList(q)
      PROVE  Typed'
  <2>1. lists' \in [Queries -> Page \cup {None}]
    BY <1>4, ListTypes DEF ExpireList
  <2>2. listSpoiled' \in [Queries -> BOOLEAN]
    BY <1>4, ListTypes DEF ExpireList
  <2> QED
    BY <1>4, <2>1, <2>2 DEF ExpireList
<1>5. CASE Crash
  <2>1. spoiled' \in [Devices -> BOOLEAN] /\ listSpoiled' \in [Queries -> BOOLEAN]
    BY <1>5 DEF Crash, DevicePending, ListPending
  <2> QED
    BY <1>5, <2>1 DEF Crash, Labels, Outcomes
<1>6. CASE UNCHANGED vars
  BY <1>6 DEF vars
<1> QED
  BY <1>1, <1>2, <1>2a, <1>3, <1>4, <1>5, <1>6, TypeStep DEF Next

-----------------------------------------------------------------------------
(* The shape of a request and of the singleflight group                     *)

ShapeOK == LocalsOK /\ CallsOK /\ FlightsOwned

LEMMA ShapeStep ==
  ASSUME Typed, ShapeOK, NEW r \in Requests, Step(r)
  PROVE  ShapeOK'
<1> USE DEF Typed, ShapeOK, LocalsOK, CallsOK, FlightsOwned, store, local, ghost, Goto
<1>0. None \notin Version /\ None \notin Page /\ None \notin Requests
  BY ConstantsAssumption DEF Version, Page
<1>2. CASE GetDevice(r)
  BY <1>2, <1>0 DEF GetDevice, Outcome
<1>3. CASE Do(r)
  BY <1>3, <1>0 DEF Do
<1>4. CASE QueryDevice(r)
  BY <1>4, <1>0 DEF QueryDevice
<1>5. CASE FillDevice(r)
  BY <1>5, <1>0 DEF FillDevice
<1>6. CASE FinishFlight(r)
  BY <1>6, <1>0 DEF FinishFlight, Outcome
<1>7. CASE GetDeviceList(r)
  BY <1>7, <1>0 DEF GetDeviceList
<1>8. CASE ReadList(r)
  BY <1>8, <1>0 DEF ReadList, Page
<1>9. CASE SetDeviceList(r)
  BY <1>9, <1>0 DEF SetDeviceList
<1>10. CASE CheckCode(r)
  BY <1>10, <1>0 DEF CheckCode
<1>11. CASE Insert(r)
  BY <1>11, <1>0, AcksBoolean DEF Insert, Commit, Writers
<1>12. CASE Load(r)
  BY <1>12, <1>0 DEF Load
<1>13. CASE Save(r)
  BY <1>13, <1>0, AcksBoolean DEF Save, Commit
<1>14. CASE Remove(r)
  BY <1>14, <1>0, AcksBoolean DEF Remove, Commit
<1>15. CASE Reload(r)
  BY <1>15, <1>0 DEF Reload, Writers
<1>16. CASE DelDevice(r)
  BY <1>16, <1>0 DEF DelDevice, DropDevice, Failed, Writers
<1>17. CASE ScanLists(r)
  <2>1. PICK l \in {"sweep", "ok", "partial"} : pc' = [pc EXCEPT ![r] = l]
    BY <1>17 DEF ScanLists, Failed
  <2>2. op[r] \in Writers /\ UNCHANGED <<flight, op, dev, got, snap>>
    BY <1>17 DEF ScanLists
  <2> QED
    BY <1>17, <2>1, <2>2, <1>0 DEF ScanLists, Writers
<1>18. CASE SweepLists(r)
  <2>1. PICK l \in {"ok", "partial"} : pc' = [pc EXCEPT ![r] = l]
    BY <1>18 DEF SweepLists, Failed
  <2>2. op[r] \in Writers /\ UNCHANGED <<flight, op, dev, got, snap>>
    BY <1>18 DEF SweepLists
  <2> QED
    BY <1>18, <2>1, <2>2, <1>0 DEF SweepLists, Writers
<1> QED
  BY <1>2, <1>3, <1>4, <1>5, <1>6, <1>7, <1>8, <1>9, <1>10, <1>11, <1>12,
     <1>13, <1>14, <1>15, <1>16, <1>17, <1>18 DEF Step

LEMMA ShapeNext ==
  ASSUME Typed, ShapeOK, [Next]_vars
  PROVE  ShapeOK'
<1> USE DEF Typed, ShapeOK, LocalsOK, CallsOK, FlightsOwned, store, local, ghost, Goto
<1>1. ASSUME NEW r \in Requests, NEW o \in Operations, NEW d \in Devices,
             NEW q \in Queries, Start(r, o, d, q)
      PROVE  ShapeOK'
  <2>1. /\ o \in {"find", "list", "create", "update", "delete"}
        /\ pc[r] \in Outcomes
    BY <1>1, ConstantsAssumption DEF Start
  <2>2. /\ pc' = [pc EXCEPT ![r] = FirstCall(o)]
        /\ op' = [op EXCEPT ![r] = o]
        /\ dev' = [dev EXCEPT ![r] = d]
        /\ \A s \in Requests \ {r} : got'[s] = got[s]
        /\ UNCHANGED <<flight, snap>>
    BY <1>1 DEF Start
  <2>3. \A e \in Devices : flight[e] # r
    BY <2>1, ConstantsAssumption DEF Outcomes
  <2>4. LocalsOK'
    BY <2>1, <2>2 DEF FirstCall
  <2>5. CallsOK'
    BY <2>1, <2>2 DEF FirstCall
  <2>6. FlightsOwned'
    BY <2>1, <2>2, <2>3 DEF FirstCall
  <2> QED
    BY <2>4, <2>5, <2>6
<1>2. ASSUME NEW r \in Requests, FillResent(r)
      PROVE  ShapeOK'
  BY <1>2 DEF FillResent
<1>2a. ASSUME NEW r \in Requests, ListResent(r)
      PROVE  ShapeOK'
  BY <1>2a DEF ListResent
<1>3. ASSUME NEW d \in Devices, ExpireDevice(d)
      PROVE  ShapeOK'
  BY <1>3 DEF ExpireDevice
<1>4. ASSUME NEW q \in Queries, ExpireList(q)
      PROVE  ShapeOK'
  BY <1>4 DEF ExpireList
<1>5. CASE Crash
  BY <1>5 DEF Crash
<1>6. CASE UNCHANGED vars
  BY <1>6 DEF vars
<1> QED
  BY <1>1, <1>2, <1>2a, <1>3, <1>4, <1>5, <1>6, ShapeStep DEF Next

LEMMA InitOK == Init => Typed /\ ShapeOK
<1> SUFFICES ASSUME Init PROVE Typed /\ ShapeOK
  OBVIOUS
<1>1. /\ (CHOOSE d \in Devices : TRUE) \in Devices
      /\ (CHOOSE q \in Queries : TRUE) \in Queries
  BY ConstantsAssumption
<1>2. "idle" \in Labels /\ "find" \in Readers \cup Writers
  BY DEF Labels, Outcomes, Readers
<1>3. [n |-> 0, live |-> FALSE] \in Version
  BY DEF Version
<1>4. Typed
  BY <1>1, <1>2, <1>3 DEF Init, Typed
<1>5. ShapeOK
  BY DEF Init, ShapeOK, LocalsOK, CallsOK, FlightsOwned
<1> QED BY <1>4, <1>5

(* The state of the service always has its type, and no request goes on     *)
(* with something it has not read.                                          *)
THEOREM Typing == Spec => []TypeOK
<1>1. Typed /\ ShapeOK /\ [Next]_vars => (Typed /\ ShapeOK)'
  BY TypeNext, ShapeNext DEF ShapeOK
<1>2. Typed /\ ShapeOK => TypeOK
  BY DEF ShapeOK, TypeOK
<1> QED BY <1>1, <1>2, InitOK, PTL DEF Spec

(* singleflight never has two leaders for a device or a waiter without a    *)
(* leader (FindByID's sf.Do).                                               *)
THEOREM SingleFlight == Spec => []OneFlightPerDevice
<1>1. Typed /\ ShapeOK /\ [Next]_vars => (Typed /\ ShapeOK)'
  BY TypeNext, ShapeNext DEF ShapeOK
<1>2. Typed /\ ShapeOK => OneFlightPerDevice
  BY DEF Typed, ShapeOK, FlightsOwned, OneFlightPerDevice
<1> QED BY <1>1, <1>2, InitOK, PTL DEF Spec

-----------------------------------------------------------------------------
(* Coherence of device:{id}                                                 *)

(* Only ids that were inserted are asked for, cached or held by a flight.   *)
Born ==
  /\ \A d \in Devices : row[d].n \in Nat
  /\ \A r \in Requests :
       op[r] \in {"find", "update", "delete"} /\ pc[r] \notin Outcomes =>
         row[dev[r]].n > 0
  /\ \A d \in Devices : cache[d] # None => row[d].n > 0

(* A fill that holds an old version is known to have been overtaken.        *)
HeldFresh ==
  \A d \in Devices :
    FillHeld(d) /\ got[flight[d]] # None => got[flight[d]] = row[d] \/ spoiled[d]

(* What Insert, Save and Remove have in common: at most one row changes, and *)
(* then either the history or a pending invalidation accounts for the old   *)
(* version wherever it is.                                                  *)
WriteEffect(r, d, l) ==
  /\ pc[r] \in {"insert", "save", "remove"}
  /\ pc' = [pc EXCEPT ![r] = l]
  /\ dev' = [dev EXCEPT ![r] = d]
  /\ op[r] # "create" => d = dev[r]
  /\ UNCHANGED <<cache, lists, flight, op, qry, got, snap, keys, floor>>
  /\ \A e \in Devices : e # d => row'[e] = row[e] /\ spoiled'[e] = spoiled[e]
  /\ \/ UNCHANGED <<row, spoiled, listSpoiled>>
     \/ /\ row'[d].n = row[d].n + 1
        /\ spoiled[d] \/ FillHeld(d) => spoiled'[d]
        /\ \/ spoiled'[d] \/ cache[d] = None \/ row[d].n = 0
           \/ op[r] \in {"update", "delete"} /\ l \in {"reload", "del"}
        /\ \A q \in Queries :
             /\ listSpoiled[q] \/ ListHeld(q) => listSpoiled'[q]
             /\ listSpoiled'[q] \/ lists[q] = None \/ l \in {"reload", "del", "scan"}

LEMMA CommitEffect ==
  ASSUME Typed, NEW d \in Devices, NEW live \in BOOLEAN, NEW acked \in BOOLEAN,
         Commit(d, live, acked)
  PROVE  /\ row'[d].n = row[d].n + 1
         /\ \A e \in Devices : e # d => row'[e] = row[e] /\ spoiled'[e] = spoiled[e]
         /\ spoiled[d] \/ FillHeld(d) \/ (~acked /\ cache[d] # None) => spoiled'[d]
         /\ \A q \in Queries :
              listSpoiled[q] \/ ListHeld(q) \/ (~acked /\ lists[q] # None)
                => listSpoiled'[q]
<1>1. row' = [row EXCEPT ![d] = [n |-> row[d].n + 1, live |-> live]]
  BY DEF Commit
<1>2. row'[d].n = row[d].n + 1 /\ \A e \in Devices : e # d => row'[e] = row[e]
  BY <1>1 DEF Typed
<1>3. \A e \in Devices : e # d => spoiled'[e] = spoiled[e]
  BY DEF Commit, Typed
<1>4. spoiled[d] \/ FillHeld(d) \/ (~acked /\ cache[d] # None) => spoiled'[d]
  BY DEF Commit, Typed
<1>5. \A q \in Queries :
        listSpoiled[q] \/ ListHeld(q) \/ (~acked /\ lists[q] # None) => listSpoiled'[q]
  BY DEF Commit
<1> QED BY <1>2, <1>3, <1>4, <1>5

LEMMA WriteStep ==
  ASSUME Typed, ShapeOK, NEW r \in Requests, Insert(r) \/ Save(r) \/ Remove(r)
  PROVE  \E d \in Devices, l \in {"reload", "del", "scan", "error"} :
           WriteEffect(r, d, l)
<1> USE DEF Goto, local
<1>0. dev[r] \in Devices /\ [dev EXCEPT ![r] = dev[r]] = dev
  BY DEF Typed
<1>1. ASSUME NEW d \in Devices, NEW live \in BOOLEAN, NEW acked \in BOOLEAN,
             NEW l \in {"reload", "del", "scan", "error"},
             Commit(d, live, acked),
             pc[r] \in {"insert", "save", "remove"}, pc' = [pc EXCEPT ![r] = l],
             dev' = [dev EXCEPT ![r] = d], op[r] # "create" => d = dev[r],
             UNCHANGED <<cache, lists, flight, op, qry, got, snap, keys, floor>>,
             acked => l # "error",
             row[d].n = 0 \/ (op[r] \in {"update", "delete"} /\ l # "scan")
      PROVE  WriteEffect(r, d, l)
  <2>1. acked => l \in {"reload", "del", "scan"}
    BY <1>1
  <2>2. acked \/ ~acked
    BY <1>1
  <2> QED
    BY <1>1, <2>1, <2>2, CommitEffect DEF WriteEffect
<1>2. ASSUME pc[r] \in {"insert", "save", "remove"},
             UNCHANGED <<row, spoiled, listSpoiled, dev>>,
             UNCHANGED <<cache, lists, flight, op, qry, got, snap, keys, floor>>,
             NEW l \in {"del", "error"}, pc' = [pc EXCEPT ![r] = l]
      PROVE  WriteEffect(r, dev[r], l)
  BY <1>0, <1>2 DEF WriteEffect
<1>3. CASE Insert(r)
  <2>1. ASSUME NEW d \in Devices, NEW acked \in Acks, row[d].n = 0,
               Commit(d, TRUE, acked), dev' = [dev EXCEPT ![r] = d],
               IF acked THEN Goto(r, "reload") \/ Goto(r, "scan") ELSE Goto(r, "error")
        PROVE  \E l \in {"reload", "del", "scan", "error"} : WriteEffect(r, d, l)
    <3>1. PICK l \in {"reload", "scan", "error"} :
            pc' = [pc EXCEPT ![r] = l] /\ (acked => l # "error")
      BY <2>1
    <3>2. op[r] = "create" /\ acked \in BOOLEAN
      BY <1>3, AcksBoolean DEF Insert, ShapeOK, CallsOK
    <3> QED
      BY <1>1, <1>3, <2>1, <3>1, <3>2 DEF Insert
  <2>2. CASE Goto(r, "error") /\ UNCHANGED <<row, dev, spoiled, listSpoiled>>
    BY <1>0, <1>2, <1>3, <2>2 DEF Insert
  <2> QED
    BY <1>3, <2>1, <2>2 DEF Insert
<1>4. CASE Save(r)
  <2>0. op[r] = "update" /\ dev' = [dev EXCEPT ![r] = dev[r]]
    BY <1>0, <1>4 DEF Save, ShapeOK, CallsOK
  <2>1. ASSUME NEW acked \in Acks, Commit(dev[r], TRUE, acked),
               Goto(r, IF acked THEN "reload" ELSE "error")
        PROVE  \E l \in {"reload", "del", "scan", "error"} : WriteEffect(r, dev[r], l)
    <3>1. PICK l \in {"reload", "error"} :
            pc' = [pc EXCEPT ![r] = l] /\ (acked => l # "error")
      BY <2>1
    <3> QED
      BY <1>0, <1>1, <1>4, <2>0, <2>1, <3>1, AcksBoolean DEF Save
  <2>2. CASE Goto(r, "error") /\ UNCHANGED <<row, spoiled, listSpoiled>>
    BY <1>0, <1>2, <1>4, <2>2 DEF Save
  <2> QED
    BY <1>0, <1>4, <2>1, <2>2 DEF Save
<1>5. CASE Remove(r)
  <2>0. op[r] = "delete" /\ dev' = [dev EXCEPT ![r] = dev[r]]
    BY <1>0, <1>5 DEF Remove, ShapeOK, CallsOK
  <2>1. ASSUME NEW acked \in Acks, Commit(dev[r], FALSE, acked),
               Goto(r, IF acked THEN "del" ELSE "error")
        PROVE  \E l \in {"reload", "del", "scan", "error"} : WriteEffect(r, dev[r], l)
    <3>1. PICK l \in {"del", "error"} :
            pc' = [pc EXCEPT ![r] = l] /\ (acked => l # "error")
      BY <2>1
    <3> QED
      BY <1>0, <1>1, <1>5, <2>0, <2>1, <3>1, AcksBoolean DEF Remove
  <2>2. ASSUME NEW l \in {"del", "error"}, Goto(r, l),
               UNCHANGED <<row, spoiled, listSpoiled>>
        PROVE  WriteEffect(r, dev[r], l)
    BY <1>0, <1>2, <1>5, <2>2 DEF Remove
  <2> QED
    BY <1>0, <1>5, <2>1, <2>2 DEF Remove
<1> QED
  BY <1>3, <1>4, <1>5

LEMMA BornNext ==
  ASSUME Typed, ShapeOK, Born, [Next]_vars
  PROVE  Born'
<1> USE DEF Typed, ShapeOK, CallsOK, Born, Outcomes, store, local, ghost, Goto
<1>0. None \notin Version /\ None \notin Page /\ None \notin Requests
  BY ConstantsAssumption DEF Version, Page
<1>1. ASSUME NEW r \in Requests, NEW o \in Operations, NEW d \in Devices,
             NEW q \in Queries, Start(r, o, d, q)
      PROVE  Born'
  BY <1>1, <1>0, ConstantsAssumption DEF Start, FirstCall, Outcomes
<1>2. ASSUME NEW r \in Requests, Step(r)
      PROVE  Born'
  <2>1. CASE GetDevice(r)
    BY <2>1, <1>0 DEF GetDevice, Outcome
  <2>2. CASE Do(r)
    BY <2>2, <1>0 DEF Do
  <2>3. CASE QueryDevice(r)
    BY <2>3, <1>0 DEF QueryDevice
  <2>4. CASE FillDevice(r)
    BY <2>4, <1>0 DEF FillDevice
  <2>5. CASE FinishFlight(r)
    BY <2>5, <1>0 DEF FinishFlight, Outcome
  <2>6. CASE GetDeviceList(r)
    BY <2>6, <1>0 DEF GetDeviceList
  <2>7. CASE ReadList(r)
    BY <2>7, <1>0 DEF ReadList
  <2>8. CASE SetDeviceList(r)
    BY <2>8, <1>0 DEF SetDeviceList
  <2>9. CASE CheckCode(r)
    BY <2>9, <1>0 DEF CheckCode
  <2>10. CASE Insert(r) \/ Save(r) \/ Remove(r)
    <3>1. PICK d \in Devices, l \in {"reload", "del", "scan", "error"} :
            WriteEffect(r, d, l)
      BY <2>10, WriteStep
    <3>2. \A e \in Devices : row'[e].n \in Nat /\ row'[e].n >= row[e].n
      BY <3>1 DEF WriteEffect
    <3>3. \A s \in Requests :
            op'[s] \in {"find", "update", "delete"} /\ pc'[s] \notin Outcomes =>
              row[dev'[s]].n > 0 /\ dev'[s] \in Devices
      BY <3>1 DEF WriteEffect
    <3> QED
      BY <3>1, <3>2, <3>3 DEF WriteEffect
  <2>11. CASE Load(r)
    BY <2>11, <1>0 DEF Load
  <2>14. CASE Reload(r)
    BY <2>14, <1>0 DEF Reload
  <2>15. CASE DelDevice(r)
    BY <2>15, <1>0 DEF DelDevice, DropDevice, Failed, SpoilLists
  <2>16. CASE ScanLists(r)
    BY <2>16, <1>0 DEF ScanLists, Failed, SpoilLists
  <2>17. CASE SweepLists(r)
    BY <2>17, <1>0 DEF SweepLists, DropLists, Failed, SpoilLists
  <2> QED
    BY <1>2, <2>1, <2>2, <2>3, <2>4, <2>5, <2>6, <2>7, <2>8,
       <2>9, <2>10, <2>11, <2>14, <2>15, <2>16, <2>17 DEF Step
<1>3. ASSUME NEW r \in Requests, FillResent(r)
      PROVE  Born'
  BY <1>3, <1>0 DEF FillResent
<1>3a. ASSUME NEW r \in Requests, ListResent(r)
      PROVE  Born'
  BY <1>3a, <1>0 DEF ListResent
<1>4. ASSUME NEW d \in Devices, ExpireDevice(d)
      PROVE  Born'
  BY <1>4, <1>0 DEF ExpireDevice, DropDevice
<1>5. ASSUME NEW q \in Queries, ExpireList(q)
      PROVE  Born'
  BY <1>5, <1>0 DEF ExpireList, DropLists
<1>6. CASE Crash
  BY <1>6, <1>0 DEF Crash, Outcomes
<1>7. CASE UNCHANGED vars
  BY <1>7 DEF vars
<1> QED
  BY <1>1, <1>2, <1>3, <1>3a, <1>4, <1>5, <1>6, <1>7 DEF Next

LEMMA HeldNext ==
  ASSUME Typed, ShapeOK, Born, HeldFresh, [Next]_vars
  PROVE  HeldFresh'
<1> USE DEF Typed, ShapeOK, CallsOK, FlightsOwned, HeldFresh, FillHeld, store, local, ghost, Goto
<1>0. None \notin Version /\ None \notin Page /\ None \notin Requests
  BY ConstantsAssumption DEF Version, Page
<1>1. ASSUME NEW r \in Requests, NEW o \in Operations, NEW d \in Devices,
             NEW q \in Queries, Start(r, o, d, q)
      PROVE  HeldFresh'
  BY <1>1, <1>0, ConstantsAssumption DEF Start, FirstCall, Outcomes
<1>2. ASSUME NEW r \in Requests, Step(r)
      PROVE  HeldFresh'
  <2>1. CASE GetDevice(r)
    BY <2>1, <1>0 DEF GetDevice, Outcome
  <2>2. CASE Do(r)
    BY <2>2, <1>0 DEF Do
  <2>3. CASE QueryDevice(r)
    BY <2>3, <1>0 DEF QueryDevice
  <2>4. CASE FillDevice(r)
    BY <2>4, <1>0 DEF FillDevice
  <2>5. CASE FinishFlight(r)
    BY <2>5, <1>0 DEF FinishFlight, Outcome
  <2>6. CASE GetDeviceList(r)
    BY <2>6, <1>0 DEF GetDeviceList
  <2>7. CASE ReadList(r)
    BY <2>7, <1>0 DEF ReadList
  <2>8. CASE SetDeviceList(r)
    BY <2>8, <1>0 DEF SetDeviceList
  <2>9. CASE CheckCode(r)
    BY <2>9, <1>0 DEF CheckCode
  <2>10. CASE Insert(r) \/ Save(r) \/ Remove(r)
    <3>1. PICK d \in Devices, l \in {"reload", "del", "scan", "error"} :
            WriteEffect(r, d, l)
      BY <2>10, WriteStep
    <3> QED
      BY <3>1, <1>0 DEF WriteEffect
  <2>11. CASE Load(r)
    BY <2>11, <1>0 DEF Load
  <2>14. CASE Reload(r)
    BY <2>14, <1>0 DEF Reload
  <2>15. CASE DelDevice(r)
    BY <2>15, <1>0 DEF DelDevice, DropDevice, Failed, SpoilLists
  <2>16. CASE ScanLists(r)
    BY <2>16, <1>0 DEF ScanLists, Failed, SpoilLists
  <2>17. CASE SweepLists(r)
    BY <2>17, <1>0 DEF SweepLists, DropLists, Failed, SpoilLists
  <2> QED
    BY <1>2, <2>1, <2>2, <2>3, <2>4, <2>5, <2>6, <2>7, <2>8,
       <2>9, <2>10, <2>11, <2>14, <2>15, <2>16, <2>17 DEF Step
<1>3. ASSUME NEW r \in Requests, FillResent(r)
      PROVE  HeldFresh'
  BY <1>3, <1>0 DEF FillResent
<1>3a. ASSUME NEW r \in Requests, ListResent(r)
      PROVE  HeldFresh'
  BY <1>3a, <1>0 DEF ListResent
<1>4. ASSUME NEW d \in Devices, ExpireDevice(d)
      PROVE  HeldFresh'
  BY <1>4, <1>0 DEF ExpireDevice, DropDevice
<1>5. ASSUME NEW q \in Queries, ExpireList(q)
      PROVE  HeldFresh'
  BY <1>5, <1>0 DEF ExpireList, DropLists
<1>6. CASE Crash
  BY <1>6, <1>0 DEF Crash, Outcomes
<1>7. CASE UNCHANGED vars
  BY <1>7 DEF vars
<1> QED
  BY <1>1, <1>2, <1>3, <1>3a, <1>4, <1>5, <1>6, <1>7 DEF Next

LEMMA DeviceCoherentNext ==
  ASSUME Typed, ShapeOK, Born, HeldFresh, DeviceCoherent, [Next]_vars
  PROVE  DeviceCoherent'
<1> USE DEF Typed, ShapeOK, CallsOK, FlightsOwned, LocalsOK, DeviceCoherent, Stale, DevicePending, FillHeld, store, local, ghost, Goto
<1>0. None \notin Version /\ None \notin Page /\ None \notin Requests
  BY ConstantsAssumption DEF Version, Page
<1>1. ASSUME NEW r \in Requests, NEW o \in Operations, NEW d \in Devices,
             NEW q \in Queries, Start(r, o, d, q)
      PROVE  DeviceCoherent'
  BY <1>1, <1>0, ConstantsAssumption DEF Start, FirstCall, Outcomes
<1>2. ASSUME NEW r \in Requests, Step(r)
      PROVE  DeviceCoherent'
  <2>1. CASE GetDevice(r)
    BY <2>1, <1>0 DEF GetDevice, Outcome
  <2>2. CASE Do(r)
    BY <2>2, <1>0 DEF Do
  <2>3. CASE QueryDevice(r)
    BY <2>3, <1>0 DEF QueryDevice
  <2>4. CASE FillDevice(r)
    BY <2>4, <1>0 DEF FillDevice, HeldFresh
  <2>5. CASE FinishFlight(r)
    BY <2>5, <1>0 DEF FinishFlight, Outcome
  <2>6. CASE GetDeviceList(r)
    BY <2>6, <1>0 DEF GetDeviceList
  <2>7. CASE ReadList(r)
    BY <2>7, <1>0 DEF ReadList
  <2>8. CASE SetDeviceList(r)
    BY <2>8, <1>0 DEF SetDeviceList
  <2>9. CASE CheckCode(r)
    BY <2>9, <1>0 DEF CheckCode
  <2>10. CASE Insert(r) \/ Save(r) \/ Remove(r)
    <3>1. PICK d \in Devices, l \in {"reload", "del", "scan", "error"} :
            WriteEffect(r, d, l)
      BY <2>10, WriteStep
    <3>2. \A e \in Devices : DevicePending(e) => DevicePending(e)'
      BY <3>1 DEF WriteEffect
    <3>3. ASSUME NEW e \in Devices, e # d, Stale(e)'
          PROVE  DevicePending(e)' \/ spoiled'[e]
      BY <3>1, <3>2, <3>3 DEF WriteEffect
    <3>4. ASSUME Stale(d)', UNCHANGED <<row, spoiled>>
          PROVE  DevicePending(d)' \/ spoiled'[d]
      BY <3>1, <3>2, <3>4 DEF WriteEffect
    <3>5. ASSUME Stale(d)', ~UNCHANGED <<row, spoiled, listSpoiled>>, ~spoiled'[d]
          PROVE  DevicePending(d)'
      <4>1. cache[d] # None /\ row[d].n # 0
        BY <3>1, <3>5 DEF WriteEffect, Born
      <4>2. op[r] \in {"update", "delete"} /\ l \in {"reload", "del"}
        BY <3>1, <3>5, <4>1 DEF WriteEffect
      <4> QED
        BY <3>1, <4>2 DEF WriteEffect
    <3> QED
      BY <3>3, <3>4, <3>5
  <2>11. CASE Load(r)
    BY <2>11, <1>0 DEF Load
  <2>14. CASE Reload(r)
    BY <2>14, <1>0 DEF Reload
  <2>15. CASE DelDevice(r)
    <3>1. /\ \A e \in Devices : e # dev[r] => cache'[e] = cache[e] /\ spoiled'[e] = spoiled[e]
          /\ cache'[dev[r]] = None \/ (cache' = cache /\ (cache[dev[r]] # None => spoiled'[dev[r]]))
      <4>1. CASE DropDevice(dev[r])
        BY <4>1 DEF DropDevice
      <4>2. CASE UNCHANGED cache /\ spoiled' = [spoiled EXCEPT ![dev[r]] = @ \/ cache[dev[r]] # None]
        <5>1. spoiled'[dev[r]] = (spoiled[dev[r]] \/ cache[dev[r]] # None)
          BY <4>2
        <5>2. \A e \in Devices : e # dev[r] => spoiled'[e] = spoiled[e]
          BY <4>2
        <5> QED
          BY <4>2, <5>1, <5>2
      <4> QED
        BY <2>15, <4>1, <4>2 DEF DelDevice
    <3>2. \A e \in Devices : e # dev[r] /\ DevicePending(e) => DevicePending(e)'
      <4>1. PICK l \in {"scan", "partial"} : pc' = [pc EXCEPT ![r] = l]
        BY <2>15 DEF DelDevice, Failed
      <4> QED
        BY <2>15, <4>1 DEF DelDevice
    <3> QED
      BY <2>15, <3>1, <3>2 DEF DelDevice
  <2>16. CASE ScanLists(r)
    BY <2>16, <1>0 DEF ScanLists, Failed, SpoilLists
  <2>17. CASE SweepLists(r)
    BY <2>17, <1>0 DEF SweepLists, DropLists, Failed, SpoilLists
  <2> QED
    BY <1>2, <2>1, <2>2, <2>3, <2>4, <2>5, <2>6, <2>7, <2>8,
       <2>9, <2>10, <2>11, <2>14, <2>15, <2>16, <2>17 DEF Step
<1>3. ASSUME NEW r \in Requests, FillResent(r)
      PROVE  DeviceCoherent'
  BY <1>3, <1>0 DEF FillResent, HeldFresh
<1>3a. ASSUME NEW r \in Requests, ListResent(r)
      PROVE  DeviceCoherent'
  BY <1>3a, <1>0 DEF ListResent, HeldFresh
<1>4. ASSUME NEW d \in Devices, ExpireDevice(d)
      PROVE  DeviceCoherent'
  BY <1>4, <1>0 DEF ExpireDevice, DropDevice
<1>5. ASSUME NEW q \in Queries, ExpireList(q)
      PROVE  DeviceCoherent'
  BY <1>5, <1>0 DEF ExpireList, DropLists
<1>6. CASE Crash
  BY <1>6, <1>0 DEF Crash, Outcomes
<1>7. CASE UNCHANGED vars
  BY <1>7 DEF vars
<1> QED
  BY <1>1, <1>2, <1>3, <1>3a, <1>4, <1>5, <1>6, <1>7 DEF Next
DeviceInv == Typed /\ ShapeOK /\ Born /\ HeldFresh /\ DeviceCoherent

LEMMA DeviceInvInit == Init => DeviceInv
<1>1. Init => Born /\ HeldFresh /\ DeviceCoherent
  BY ConstantsAssumption
     DEF Init, Born, HeldFresh, DeviceCoherent, Stale, FillHeld, Outcomes
<1> QED BY <1>1, InitOK DEF DeviceInv

LEMMA DeviceInvNext == DeviceInv /\ [Next]_vars => DeviceInv'
BY TypeNext, ShapeNext, BornNext, HeldNext, DeviceCoherentNext DEF DeviceInv, ShapeOK

(* A cached device is out of date only under a pending invalidation or      *)
(* after a race or a failure that the history records.                      *)
THEOREM Coherence == Spec => []DeviceCoherent
<1>1. DeviceInv => DeviceCoherent
  BY DEF DeviceInv
<1> QED BY <1>1, DeviceInvInit, DeviceInvNext, PTL DEF Spec


-----------------------------------------------------------------------------
(* Coherence of devices:list:{hash}                                         *)

(* A List that holds an old page is known to have been overtaken.           *)
ListHeldFresh ==
  \A r \in Requests : pc[r] = "listSet" => snap[r] = row \/ listSpoiled[qry[r]]

LEMMA ListHeldNext ==
  ASSUME Typed, ShapeOK, ListHeldFresh, [Next]_vars
  PROVE  ListHeldFresh'
<1> USE DEF Typed, ShapeOK, CallsOK, ListHeldFresh, ListHeld, store, local, ghost, Goto
<1>0. None \notin Version /\ None \notin Page /\ None \notin Requests
  BY ConstantsAssumption DEF Version, Page
<1>1. ASSUME NEW r \in Requests, NEW o \in Operations, NEW d \in Devices,
             NEW q \in Queries, Start(r, o, d, q)
      PROVE  ListHeldFresh'
  BY <1>1, <1>0, ConstantsAssumption DEF Start, FirstCall, Outcomes
<1>2. ASSUME NEW r \in Requests, Step(r)
      PROVE  ListHeldFresh'
  <2>1. CASE GetDevice(r)
    BY <2>1, <1>0 DEF GetDevice, Outcome
  <2>2. CASE Do(r)
    BY <2>2, <1>0 DEF Do
  <2>3. CASE QueryDevice(r)
    BY <2>3, <1>0 DEF QueryDevice
  <2>4. CASE FillDevice(r)
    BY <2>4, <1>0 DEF FillDevice
  <2>5. CASE FinishFlight(r)
    BY <2>5, <1>0 DEF FinishFlight, Outcome
  <2>6. CASE GetDeviceList(r)
    BY <2>6, <1>0 DEF GetDeviceList
  <2>7. CASE ReadList(r)
    BY <2>7, <1>0 DEF ReadList
  <2>8. CASE SetDeviceList(r)
    BY <2>8, <1>0 DEF SetDeviceList
  <2>9. CASE CheckCode(r)
    BY <2>9, <1>0 DEF CheckCode
  <2>10. CASE Insert(r) \/ Save(r) \/ Remove(r)
    <3>1. PICK d \in Devices, l \in {"reload", "del", "scan", "error"} :
            WriteEffect(r, d, l)
      BY <2>10, WriteStep DEF DeviceInv
    <3> QED
      BY <3>1, <1>0 DEF WriteEffect
  <2>11. CASE Load(r)
    BY <2>11, <1>0 DEF Load
  <2>12. CASE Reload(r)
    BY <2>12, <1>0 DEF Reload
  <2>13. CASE DelDevice(r)
    BY <2>13, <1>0 DEF DelDevice, DropDevice, Failed, SpoilLists
  <2>14. CASE ScanLists(r)
    BY <2>14, <1>0 DEF ScanLists, Failed, SpoilLists
  <2>15. CASE SweepLists(r)
    BY <2>15, <1>0 DEF SweepLists, DropLists, Failed, SpoilLists
  <2> QED
    BY <1>2, <2>1, <2>2, <2>3, <2>4, <2>5, <2>6, <2>7, <2>8,
       <2>9, <2>10, <2>11, <2>12, <2>13, <2>14, <2>15 DEF Step
<1>3. ASSUME NEW r \in Requests, FillResent(r)
      PROVE  ListHeldFresh'
  BY <1>3, <1>0 DEF FillResent
<1>3a. ASSUME NEW r \in Requests, ListResent(r)
      PROVE  ListHeldFresh'
  BY <1>3a, <1>0 DEF ListResent
<1>4. ASSUME NEW d \in Devices, ExpireDevice(d)
      PROVE  ListHeldFresh'
  BY <1>4, <1>0 DEF ExpireDevice, DropDevice
<1>5. ASSUME NEW q \in Queries, ExpireList(q)
      PROVE  ListHeldFresh'
  BY <1>5, <1>0 DEF ExpireList, DropLists
<1>6. CASE Crash
  BY <1>6, <1>0 DEF Crash, Outcomes
<1>7. CASE UNCHANGED vars
  BY <1>7 DEF vars
<1> QED
  BY <1>1, <1>2, <1>3, <1>3a, <1>4, <1>5, <1>6, <1>7 DEF Next

LEMMA ListCoherentNext ==
  ASSUME Typed, ShapeOK, ListHeldFresh, ListCoherent, [Next]_vars
  PROVE  ListCoherent'
<1> USE DEF Typed, ShapeOK, CallsOK, LocalsOK, ListHeldFresh, ListCoherent, StaleList, ListPending, ListHeld, store, local, ghost, Goto
<1>0. None \notin Version /\ None \notin Page /\ None \notin Requests
  BY ConstantsAssumption DEF Version, Page
<1>1. ASSUME NEW r \in Requests, NEW o \in Operations, NEW d \in Devices,
             NEW q \in Queries, Start(r, o, d, q)
      PROVE  ListCoherent'
  BY <1>1, <1>0, ConstantsAssumption DEF Start, FirstCall, Outcomes
<1>2. ASSUME NEW r \in Requests, Step(r)
      PROVE  ListCoherent'
  <2>1. CASE GetDevice(r)
    BY <2>1, <1>0 DEF GetDevice, Outcome
  <2>2. CASE Do(r)
    BY <2>2, <1>0 DEF Do
  <2>3. CASE QueryDevice(r)
    BY <2>3, <1>0 DEF QueryDevice
  <2>4. CASE FillDevice(r)
    BY <2>4, <1>0 DEF FillDevice
  <2>5. CASE FinishFlight(r)
    BY <2>5, <1>0 DEF FinishFlight, Outcome
  <2>6. CASE GetDeviceList(r)
    BY <2>6, <1>0 DEF GetDeviceList
  <2>7. CASE ReadList(r)
    BY <2>7, <1>0 DEF ReadList
  <2>8. CASE SetDeviceList(r)
    BY <2>8, <1>0 DEF SetDeviceList
  <2>9. CASE CheckCode(r)
    BY <2>9, <1>0 DEF CheckCode
  <2>10. CASE Insert(r) \/ Save(r) \/ Remove(r)
    <3>1. PICK d \in Devices, l \in {"reload", "del", "scan", "error"} :
            WriteEffect(r, d, l)
      BY <2>10, WriteStep DEF DeviceInv
    <3> QED
      BY <3>1, <1>0 DEF WriteEffect
  <2>11. CASE Load(r)
    BY <2>11, <1>0 DEF Load
  <2>12. CASE Reload(r)
    BY <2>12, <1>0 DEF Reload
  <2>13. CASE DelDevice(r)
    <3>1. CASE pc' = [pc EXCEPT ![r] = "scan"]
      <4>1. \A q \in Queries : ListPending(q)'
        BY <3>1
      <4> QED
        BY <4>1 DEF ListCoherent
    <3>2. CASE SpoilLists(Queries)
      <4>1. \A q \in Queries : lists[q] # None => listSpoiled'[q]
        BY <3>2 DEF SpoilLists
      <4> QED
        BY <2>13, <4>1 DEF DelDevice
    <3> QED
      BY <2>13, <3>1, <3>2 DEF DelDevice, Failed
  <2>14. CASE ScanLists(r)
    <3>1. CASE /\ keys' = [keys EXCEPT ![r] = {q \in Queries : lists[q] # None}]
               /\ pc' = [pc EXCEPT ![r] = "sweep"]
      <4>1. \A q \in Queries : lists[q] # None => ListPending(q)'
        BY <3>1
      <4> QED
        BY <2>14, <4>1 DEF ScanLists
    <3>2. CASE SpoilLists(Queries)
      <4>1. \A q \in Queries : lists[q] # None => listSpoiled'[q]
        BY <3>2 DEF SpoilLists
      <4> QED
        BY <2>14, <4>1 DEF ScanLists
    <3> QED
      BY <2>14, <3>1, <3>2 DEF ScanLists
  <2>15. CASE SweepLists(r)
    <3>1. PICK l \in {"ok", "partial"} : pc' = [pc EXCEPT ![r] = l]
      BY <2>15 DEF SweepLists, Failed
    <3>2. \A q \in Queries : q \notin keys[r] /\ ListPending(q) => ListPending(q)'
      BY <2>15, <3>1 DEF SweepLists
    <3>3. \A q \in Queries : q \notin keys[r] =>
            lists'[q] = lists[q] /\ (listSpoiled[q] => listSpoiled'[q])
      BY <2>15 DEF SweepLists, DropLists, SpoilLists
    <3>4. ASSUME NEW q \in Queries, q \in keys[r]
          PROVE  lists'[q] \in {None, lists[q]} /\ (lists'[q] = None \/ listSpoiled'[q])
      <4>1. CASE DropLists(keys[r])
        BY <3>4, <4>1 DEF DropLists
      <4>2. CASE UNCHANGED lists /\ SpoilLists(keys[r])
        BY <3>4, <4>2 DEF SpoilLists
      <4> QED
        BY <2>15, <4>1, <4>2 DEF SweepLists
    <3> QED
      BY <2>15, <3>2, <3>3, <3>4 DEF SweepLists
  <2> QED
    BY <1>2, <2>1, <2>2, <2>3, <2>4, <2>5, <2>6, <2>7, <2>8,
       <2>9, <2>10, <2>11, <2>12, <2>13, <2>14, <2>15 DEF Step
<1>3. ASSUME NEW r \in Requests, FillResent(r)
      PROVE  ListCoherent'
  BY <1>3, <1>0 DEF FillResent
<1>3a. ASSUME NEW r \in Requests, ListResent(r)
      PROVE  ListCoherent'
  BY <1>3a, <1>0 DEF ListResent
<1>4. ASSUME NEW d \in Devices, ExpireDevice(d)
      PROVE  ListCoherent'
  BY <1>4, <1>0 DEF ExpireDevice, DropDevice
<1>5. ASSUME NEW q \in Queries, ExpireList(q)
      PROVE  ListCoherent'
  BY <1>5, <1>0 DEF ExpireList, DropLists
<1>6. CASE Crash
  BY <1>6, <1>0 DEF Crash, Outcomes
<1>7. CASE UNCHANGED vars
  BY <1>7 DEF vars
<1> QED
  BY <1>1, <1>2, <1>3, <1>3a, <1>4, <1>5, <1>6, <1>7 DEF Next

ListInv == Typed /\ ShapeOK /\ ListHeldFresh /\ ListCoherent

LEMMA ListInvInit == Init => ListInv
<1>1. Init => ListHeldFresh /\ ListCoherent
  BY DEF Init, ListHeldFresh, ListCoherent, StaleList
<1> QED BY <1>1, InitOK DEF ListInv

LEMMA ListInvNext == ListInv /\ [Next]_vars => ListInv'
BY TypeNext, ShapeNext, ListHeldNext, ListCoherentNext DEF ListInv, ShapeOK

(* A cached page is out of date only under a pending invalidation or after  *)
(* a race or a failure that the history records.                            *)
THEOREM ListCoherence == Spec => []ListCoherent
<1>1. ListInv => ListCoherent
  BY DEF ListInv
<1> QED BY <1>1, ListInvInit, ListInvNext, PTL DEF Spec

-----------------------------------------------------------------------------
(* Reads that begin in quiet                                                *)

(* While such a read runs, nothing it may be answered with is too old.      *)
FloorHeld ==
  /\ \A r \in Requests : op[r] = "find" => floor[r] <= row[dev[r]].n
  /\ \A r \in Requests :
       op[r] = "find" /\ pc[r] \notin Outcomes =>
         /\ cache[dev[r]] # None => cache[dev[r]].n >= floor[r]
         /\ FillHeld(dev[r]) /\ got[flight[dev[r]]] # None
              => got[flight[dev[r]]].n >= floor[r]

LEMMA FloorNext ==
  ASSUME DeviceInv, FloorHeld, [Next]_vars
  PROVE  FloorHeld'
<1> USE DEF Typed, DeviceInv, ShapeOK, CallsOK, FlightsOwned, LocalsOK, Born, FloorHeld, FillHeld, Outcomes, store, local, ghost, Goto
<1>0. None \notin Version /\ None \notin Page /\ None \notin Requests
  BY ConstantsAssumption DEF Version, Page
<1>1. ASSUME NEW r \in Requests, NEW o \in Operations, NEW d \in Devices,
             NEW q \in Queries, Start(r, o, d, q)
      PROVE  FloorHeld'
  <2>1. /\ UNCHANGED <<row, cache, flight>>
        /\ op' = [op EXCEPT ![r] = o] /\ dev' = [dev EXCEPT ![r] = d]
        /\ got' = [got EXCEPT ![r] = None]
        /\ floor' = [floor EXCEPT ![r] =
             IF o = "find" /\ Quiet(d) THEN row[d].n ELSE 0]
    BY <1>1 DEF Start
  <2>2. \A e \in Devices : FillHeld(e)' => FillHeld(e) /\ flight[e] # r
    BY <1>1, <1>0 DEF Start, FirstCall, Outcomes
  <2>3. \A e \in Devices : FillHeld(e)' /\ got'[flight'[e]] # None
          => got'[flight'[e]] = got[flight[e]] /\ got[flight[e]] \in Version
    BY <2>1, <2>2, <1>0
  <2>4. CASE o = "find" /\ Quiet(d)
    <3>1. cache[d] # None => cache[d] = row[d]
      BY <2>4 DEF Quiet, DeviceCoherent, Stale
    <3>2. FillHeld(d)' /\ got'[flight'[d]] # None => got'[flight'[d]] = row[d]
      BY <2>2, <2>3, <2>4 DEF Quiet, HeldFresh
    <3>3. floor'[r] = row[d].n /\ row[d].n \in Nat
      BY <2>1, <2>4
    <3>4. \A s \in Requests : s # r =>
            floor'[s] = floor[s] /\ dev'[s] = dev[s] /\ op'[s] = op[s] /\ pc'[s] = pc[s]
      BY <1>1 DEF Start
    <3> QED
      BY <2>1, <2>3, <3>1, <3>2, <3>3, <3>4, <2>2
  <2>5. CASE ~(o = "find" /\ Quiet(d))
    <3>1. floor'[r] = 0 /\ row[d].n \in Nat /\ row[d].n >= 0
      BY <2>1, <2>5
    <3>2. \A s \in Requests : s # r =>
            floor'[s] = floor[s] /\ dev'[s] = dev[s] /\ op'[s] = op[s] /\ pc'[s] = pc[s]
      BY <1>1 DEF Start
    <3>3. cache[d] # None => cache[d].n \in Nat /\ cache[d].n >= 0
      BY DEF Version
    <3>4. FillHeld(d)' /\ got'[flight'[d]] # None
            => got'[flight'[d]].n \in Nat /\ got'[flight'[d]].n >= 0
      BY <2>3 DEF Version
    <3> QED
      BY <2>1, <2>2, <2>3, <3>1, <3>2, <3>3, <3>4
  <2> QED
    BY <2>4, <2>5
<1>2. ASSUME NEW r \in Requests, Step(r)
      PROVE  FloorHeld'
  <2>1. CASE GetDevice(r)
    BY <2>1, <1>0 DEF GetDevice, Outcome
  <2>2. CASE Do(r)
    <3>1. UNCHANGED <<row, cache, op, dev, got, floor>>
      BY <2>2 DEF Do
    <3>2. PICK l \in {"query", "wait"} : pc' = [pc EXCEPT ![r] = l]
      BY <2>2 DEF Do
    <3>3. ASSUME NEW e \in Devices, FillHeld(e)'
          PROVE  FillHeld(e) /\ flight'[e] = flight[e]
      <4>1. flight'[e] # r
        BY <3>2, <3>3
      <4>2. flight'[e] = flight[e]
        BY <2>2, <4>1 DEF Do
      <4> QED
        BY <3>2, <3>3, <4>1, <4>2
    <3>4. \A s \in Requests : pc'[s] \notin Outcomes => pc[s] \notin Outcomes
      BY <2>2, <3>2 DEF Do
    <3>5. \A s \in Requests : dev'[s] \in Devices
      BY <3>1
    <3> QED
      BY <3>1, <3>3, <3>4, <3>5
  <2>3. CASE QueryDevice(r)
    BY <2>3, <1>0 DEF QueryDevice
  <2>4. CASE FillDevice(r)
    BY <2>4, <1>0 DEF FillDevice
  <2>5. CASE FinishFlight(r)
    BY <2>5, <1>0 DEF FinishFlight, Outcome
  <2>6. CASE GetDeviceList(r)
    BY <2>6, <1>0 DEF GetDeviceList
  <2>7. CASE ReadList(r)
    BY <2>7, <1>0 DEF ReadList
  <2>8. CASE SetDeviceList(r)
    BY <2>8, <1>0 DEF SetDeviceList
  <2>9. CASE CheckCode(r)
    BY <2>9, <1>0 DEF CheckCode
  <2>10. CASE Insert(r) \/ Save(r) \/ Remove(r)
    <3>1. PICK d \in Devices, l \in {"reload", "del", "scan", "error"} :
            WriteEffect(r, d, l)
      BY <2>10, WriteStep DEF DeviceInv
    <3> QED
      BY <3>1, <1>0 DEF WriteEffect
  <2>11. CASE Load(r)
    BY <2>11, <1>0 DEF Load
  <2>12. CASE Reload(r)
    BY <2>12, <1>0 DEF Reload
  <2>13. CASE DelDevice(r)
    BY <2>13, <1>0 DEF DelDevice, DropDevice, Failed, SpoilLists
  <2>14. CASE ScanLists(r)
    BY <2>14, <1>0 DEF ScanLists, Failed, SpoilLists
  <2>15. CASE SweepLists(r)
    BY <2>15, <1>0 DEF SweepLists, DropLists, Failed, SpoilLists
  <2> QED
    BY <1>2, <2>1, <2>2, <2>3, <2>4, <2>5, <2>6, <2>7, <2>8,
       <2>9, <2>10, <2>11, <2>12, <2>13, <2>14, <2>15 DEF Step
<1>3. ASSUME NEW r \in Requests, FillResent(r)
      PROVE  FloorHeld'
  BY <1>3, <1>0 DEF FillResent
<1>3a. ASSUME NEW r \in Requests, ListResent(r)
      PROVE  FloorHeld'
  BY <1>3a, <1>0 DEF ListResent
<1>4. ASSUME NEW d \in Devices, ExpireDevice(d)
      PROVE  FloorHeld'
  BY <1>4, <1>0 DEF ExpireDevice, DropDevice
<1>5. ASSUME NEW q \in Queries, ExpireList(q)
      PROVE  FloorHeld'
  BY <1>5, <1>0 DEF ExpireList, DropLists
<1>6. CASE Crash
  BY <1>6, <1>0 DEF Crash, Outcomes
<1>7. CASE UNCHANGED vars
  BY <1>7 DEF vars
<1> QED
  BY <1>1, <1>2, <1>3, <1>3a, <1>4, <1>5, <1>6, <1>7 DEF Next

LEMMA QuietNext ==
  ASSUME DeviceInv, FloorHeld, QuietReadsAreFresh, [Next]_vars
  PROVE  QuietReadsAreFresh'
<1> USE DEF Typed, DeviceInv, ShapeOK, CallsOK, FlightsOwned, QuietReadsAreFresh, store, local, ghost, Goto
<1>0. None \notin Version /\ None \notin Page /\ None \notin Requests
  BY ConstantsAssumption DEF Version, Page
<1>1. ASSUME NEW r \in Requests, NEW o \in Operations, NEW d \in Devices,
             NEW q \in Queries, Start(r, o, d, q)
      PROVE  QuietReadsAreFresh'
  BY <1>1, <1>0, ConstantsAssumption DEF Start, FirstCall, Outcomes
<1>2. ASSUME NEW r \in Requests, Step(r)
      PROVE  QuietReadsAreFresh'
  <2>1. CASE GetDevice(r)
    <3>1. op[r] = "find" /\ cache[dev[r]] # None => cache[dev[r]].n >= floor[r]
      BY <2>1 DEF GetDevice, FloorHeld, Outcomes
    <3>2. CASE /\ cache[dev[r]] # None
               /\ got' = [got EXCEPT ![r] = cache[dev[r]]]
               /\ pc' = [pc EXCEPT ![r] = Outcome(cache[dev[r]])]
      BY <2>1, <3>1, <3>2 DEF GetDevice
    <3>3. CASE UNCHANGED got /\ pc' = [pc EXCEPT ![r] = "do"]
      BY <2>1, <3>3 DEF GetDevice
    <3> QED
      BY <2>1, <3>2, <3>3 DEF GetDevice
  <2>2. CASE Do(r)
    BY <2>2, <1>0 DEF Do
  <2>3. CASE QueryDevice(r)
    BY <2>3, <1>0 DEF QueryDevice
  <2>4. CASE FillDevice(r)
    BY <2>4, <1>0 DEF FillDevice
  <2>5. CASE FinishFlight(r)
    <3>1. flight[dev[r]] = r /\ FillHeld(dev[r])
      BY <2>5, <1>0 DEF FinishFlight, FillHeld
    <3>2. \A s \in Requests :
            (s = r \/ (pc[s] = "wait" /\ dev[s] = dev[r])) /\ got[r] # None
              => got[r].n >= floor[s]
      BY <2>5, <3>1 DEF FinishFlight, FloorHeld, Outcomes
    <3>3. got[r] = None => Outcome(got[r]) = "error"
      BY DEF Outcome
    <3>4. ASSUME NEW s \in Requests, s = r \/ (pc[s] = "wait" /\ dev[s] = dev[r])
          PROVE  pc'[s] = Outcome(got[r]) /\ got'[s] = got[r] /\ floor'[s] = floor[s]
      BY <2>5, <3>4 DEF FinishFlight
    <3>5. ASSUME NEW s \in Requests, ~(s = r \/ (pc[s] = "wait" /\ dev[s] = dev[r]))
          PROVE  pc'[s] = pc[s] /\ got'[s] = got[s] /\ floor'[s] = floor[s]
      BY <2>5, <3>5 DEF FinishFlight
    <3>6. op' = op
      BY <2>5 DEF FinishFlight
    <3> QED
      BY <3>2, <3>3, <3>4, <3>5, <3>6
  <2>6. CASE GetDeviceList(r)
    BY <2>6, <1>0 DEF GetDeviceList
  <2>7. CASE ReadList(r)
    BY <2>7, <1>0 DEF ReadList
  <2>8. CASE SetDeviceList(r)
    BY <2>8, <1>0 DEF SetDeviceList
  <2>9. CASE CheckCode(r)
    BY <2>9, <1>0 DEF CheckCode
  <2>10. CASE Insert(r) \/ Save(r) \/ Remove(r)
    <3>1. PICK d \in Devices, l \in {"reload", "del", "scan", "error"} :
            WriteEffect(r, d, l)
      BY <2>10, WriteStep DEF DeviceInv
    <3> QED
      BY <3>1, <1>0 DEF WriteEffect
  <2>11. CASE Load(r)
    BY <2>11, <1>0 DEF Load
  <2>12. CASE Reload(r)
    BY <2>12, <1>0 DEF Reload
  <2>13. CASE DelDevice(r)
    BY <2>13, <1>0 DEF DelDevice, DropDevice, Failed, SpoilLists
  <2>14. CASE ScanLists(r)
    <3>1. PICK l \in {"sweep", "ok", "partial"} : pc' = [pc EXCEPT ![r] = l]
      BY <2>14 DEF ScanLists, Failed
    <3>2. op[r] \in Writers /\ UNCHANGED <<op, got, floor>>
      BY <2>14 DEF ScanLists
    <3> QED
      BY <2>14, <3>1, <3>2 DEF Writers
  <2>15. CASE SweepLists(r)
    <3>1. PICK l \in {"ok", "partial"} : pc' = [pc EXCEPT ![r] = l]
      BY <2>15 DEF SweepLists, Failed
    <3>2. op[r] \in Writers /\ UNCHANGED <<op, got, floor>>
      BY <2>15 DEF SweepLists
    <3> QED
      BY <2>15, <3>1, <3>2 DEF Writers
  <2> QED
    BY <1>2, <2>1, <2>2, <2>3, <2>4, <2>5, <2>6, <2>7, <2>8,
       <2>9, <2>10, <2>11, <2>12, <2>13, <2>14, <2>15 DEF Step
<1>3. ASSUME NEW r \in Requests, FillResent(r)
      PROVE  QuietReadsAreFresh'
  BY <1>3, <1>0 DEF FillResent
<1>3a. ASSUME NEW r \in Requests, ListResent(r)
      PROVE  QuietReadsAreFresh'
  BY <1>3a, <1>0 DEF ListResent
<1>4. ASSUME NEW d \in Devices, ExpireDevice(d)
      PROVE  QuietReadsAreFresh'
  BY <1>4, <1>0 DEF ExpireDevice, DropDevice
<1>5. ASSUME NEW q \in Queries, ExpireList(q)
      PROVE  QuietReadsAreFresh'
  BY <1>5, <1>0 DEF ExpireList, DropLists
<1>6. CASE Crash
  BY <1>6, <1>0 DEF Crash, Outcomes
<1>7. CASE UNCHANGED vars
  BY <1>7 DEF vars
<1> QED
  BY <1>1, <1>2, <1>3, <1>3a, <1>4, <1>5, <1>6, <1>7 DEF Next

FloorInv == DeviceInv /\ FloorHeld /\ QuietReadsAreFresh

LEMMA FloorInvInit == Init => FloorInv
<1>1. Init => FloorHeld /\ QuietReadsAreFresh
  <2>1. Init => \A r \in Requests : /\ pc[r] = "idle" /\ floor[r] = 0
                                   /\ dev[r] \in Devices /\ row[dev[r]].n = 0
    BY ConstantsAssumption DEF Init
  <2> QED
    BY <2>1 DEF FloorHeld, QuietReadsAreFresh, Outcomes
<1> QED BY <1>1, DeviceInvInit DEF FloorInv

LEMMA FloorInvNext == FloorInv /\ [Next]_vars => FloorInv'
BY DeviceInvNext, FloorNext, QuietNext DEF FloorInv

(* A read that begins in quiet is never answered with less than what was    *)
(* committed when it began.                                                 *)
THEOREM FreshReads == Spec => []QuietReadsAreFresh
<1>1. FloorInv => QuietReadsAreFresh
  BY DEF FloorInv
<1> QED BY <1>1, FloorInvInit, FloorInvNext, PTL DEF Spec
-----------------------------------------------------------------------------
(* Requests advance                                                         *)

LEMMA CallCounts ==
  /\ CallsLeft["get"] = 5 /\ CallsLeft["do"] = 4 /\ CallsLeft["query"] = 3
  /\ CallsLeft["fill"] = 2 /\ CallsLeft["finish"] = 1 /\ CallsLeft["wait"] = 1
  /\ CallsLeft["listGet"] = 3 /\ CallsLeft["listRead"] = 2
  /\ CallsLeft["listSet"] = 1
  /\ CallsLeft["code"] = 6 /\ CallsLeft["insert"] = 5
  /\ CallsLeft["load"] = 6 /\ CallsLeft["save"] = 5 /\ CallsLeft["remove"] = 5
  /\ CallsLeft["reload"] = 4 /\ CallsLeft["del"] = 3
  /\ CallsLeft["scan"] = 2 /\ CallsLeft["sweep"] = 1
BY DEF CallsLeft

(* r is at a call and moves on to l, an outcome or a call nearer to one.    *)
Nearer(r, l) ==
  /\ pc[r] \in Places
  /\ l \in Outcomes \/ (l \in Places /\ CallsLeft[l] < CallsLeft[pc[r]])

(* The step of a request takes it on, and whom else it moves it answers.    *)
LEMMA StepAdvances ==
  ASSUME Typed, NEW r \in Requests, Step(r)
  PROVE  /\ Nearer(r, pc'[r])
         /\ \A s \in Requests \ {r} : pc'[s] = pc[s] \/ pc'[s] \in Outcomes
<1>1. \A v : Outcome(v) \in Outcomes
  BY DEF Outcome, Outcomes
<1>2. CASE FinishFlight(r)
  <2>1. pc[r] = "finish" /\ pc'[r] = Outcome(got[r])
    BY <1>2 DEF FinishFlight, Typed
  <2>2. \A s \in Requests : pc'[s] = pc[s] \/ pc'[s] \in Outcomes
    BY <1>2, <1>1 DEF FinishFlight
  <2> QED
    BY <2>1, <2>2, <1>1 DEF Nearer, Places
<1>3. ASSUME NEW l, pc' = [pc EXCEPT ![r] = l], Nearer(r, l)
      PROVE  /\ Nearer(r, pc'[r])
             /\ \A s \in Requests \ {r} : pc'[s] = pc[s] \/ pc'[s] \in Outcomes
  BY <1>3 DEF Typed
<1>4. CASE \E l \in Outcomes : Goto(r, l) /\ pc[r] \in Places
  BY <1>4, <1>3 DEF Goto, Nearer
<1>5. CASE GetDevice(r)
  <2>1. pc[r] = "get" /\ pc[r] \in Places
    BY <1>5 DEF GetDevice, Places
  <2>2. \/ \E l \in {"do"} : Goto(r, l)
        \/ \E l \in Outcomes : Goto(r, l)
    BY <1>5, <1>1 DEF GetDevice, Outcomes
  <2>3. \A l \in {"do"} : Nearer(r, l)
    BY <2>1, CallCounts DEF Nearer, Places
  <2> QED
    BY <2>1, <2>2, <2>3, <1>3, <1>4 DEF Goto
<1>6. CASE Do(r)
  <2>1. pc[r] = "do" /\ pc[r] \in Places
    BY <1>6 DEF Do, Places
  <2>2. \E l \in {"query", "wait"} : Goto(r, l)
    BY <1>6, <1>1 DEF Do, Outcomes
  <2>3. \A l \in {"query", "wait"} : Nearer(r, l)
    BY <2>1, CallCounts DEF Nearer, Places
  <2> QED
    BY <2>1, <2>2, <2>3, <1>3, <1>4 DEF Goto
<1>7. CASE QueryDevice(r)
  <2>1. pc[r] = "query" /\ pc[r] \in Places
    BY <1>7 DEF QueryDevice, Places
  <2>2. \E l \in {"fill", "finish"} : Goto(r, l)
    BY <1>7, <1>1 DEF QueryDevice, Outcomes
  <2>3. \A l \in {"fill", "finish"} : Nearer(r, l)
    BY <2>1, CallCounts DEF Nearer, Places
  <2> QED
    BY <2>1, <2>2, <2>3, <1>3, <1>4 DEF Goto
<1>8. CASE FillDevice(r)
  <2>1. pc[r] = "fill" /\ pc[r] \in Places
    BY <1>8 DEF FillDevice, Places
  <2>2. \E l \in {"finish"} : Goto(r, l)
    BY <1>8, <1>1 DEF FillDevice, Outcomes
  <2>3. \A l \in {"finish"} : Nearer(r, l)
    BY <2>1, CallCounts DEF Nearer, Places
  <2> QED
    BY <2>1, <2>2, <2>3, <1>3, <1>4 DEF Goto
<1>9. CASE GetDeviceList(r)
  <2>1. pc[r] = "listGet" /\ pc[r] \in Places
    BY <1>9 DEF GetDeviceList, Places
  <2>2. \/ \E l \in {"listRead"} : Goto(r, l)
        \/ \E l \in Outcomes : Goto(r, l)
    BY <1>9, <1>1 DEF GetDeviceList, Outcomes
  <2>3. \A l \in {"listRead"} : Nearer(r, l)
    BY <2>1, CallCounts DEF Nearer, Places
  <2> QED
    BY <2>1, <2>2, <2>3, <1>3, <1>4 DEF Goto
<1>10. CASE ReadList(r)
  <2>1. pc[r] = "listRead" /\ pc[r] \in Places
    BY <1>10 DEF ReadList, Places
  <2>2. \/ \E l \in {"listSet"} : Goto(r, l)
        \/ \E l \in Outcomes : Goto(r, l)
    BY <1>10, <1>1 DEF ReadList, Outcomes
  <2>3. \A l \in {"listSet"} : Nearer(r, l)
    BY <2>1, CallCounts DEF Nearer, Places
  <2> QED
    BY <2>1, <2>2, <2>3, <1>3, <1>4 DEF Goto
<1>11. CASE SetDeviceList(r)
  <2>1. pc[r] = "listSet" /\ pc[r] \in Places
    BY <1>11 DEF SetDeviceList, Places
  <2>2. \E l \in Outcomes : Goto(r, l)
    BY <1>11, <1>1 DEF SetDeviceList, Outcomes
  <2> QED
    BY <2>1, <2>2, <1>4
<1>12. CASE CheckCode(r)
  <2>1. pc[r] = "code" /\ pc[r] \in Places
    BY <1>12 DEF CheckCode, Places
  <2>2. \/ \E l \in {"insert"} : Goto(r, l)
        \/ \E l \in Outcomes : Goto(r, l)
    BY <1>12, <1>1 DEF CheckCode, Outcomes
  <2>3. \A l \in {"insert"} : Nearer(r, l)
    BY <2>1, CallCounts DEF Nearer, Places
  <2> QED
    BY <2>1, <2>2, <2>3, <1>3, <1>4 DEF Goto
<1>13. CASE Insert(r)
  <2>1. pc[r] = "insert" /\ pc[r] \in Places
    BY <1>13 DEF Insert, Places
  <2>2. \/ \E l \in {"reload", "scan"} : Goto(r, l)
        \/ \E l \in Outcomes : Goto(r, l)
    BY <1>13, <1>1 DEF Insert, Outcomes
  <2>3. \A l \in {"reload", "scan"} : Nearer(r, l)
    BY <2>1, CallCounts DEF Nearer, Places
  <2> QED
    BY <2>1, <2>2, <2>3, <1>3, <1>4 DEF Goto
<1>14. CASE Load(r)
  <2>1. pc[r] = "load" /\ pc[r] \in Places
    BY <1>14 DEF Load, Places
  <2>2. \/ \E l \in {"save", "remove"} : Goto(r, l)
        \/ \E l \in Outcomes : Goto(r, l)
    BY <1>14, <1>1 DEF Load, Outcomes
  <2>3. \A l \in {"save", "remove"} : Nearer(r, l)
    BY <2>1, CallCounts DEF Nearer, Places
  <2> QED
    BY <2>1, <2>2, <2>3, <1>3, <1>4 DEF Goto
<1>15. CASE Save(r)
  <2>1. pc[r] = "save" /\ pc[r] \in Places
    BY <1>15 DEF Save, Places
  <2>2. \/ \E l \in {"reload"} : Goto(r, l)
        \/ \E l \in Outcomes : Goto(r, l)
    BY <1>15, <1>1 DEF Save, Outcomes
  <2>3. \A l \in {"reload"} : Nearer(r, l)
    BY <2>1, CallCounts DEF Nearer, Places
  <2> QED
    BY <2>1, <2>2, <2>3, <1>3, <1>4 DEF Goto
<1>16. CASE Remove(r)
  <2>1. pc[r] = "remove" /\ pc[r] \in Places
    BY <1>16 DEF Remove, Places
  <2>2. \/ \E l \in {"del"} : Goto(r, l)
        \/ \E l \in Outcomes : Goto(r, l)
    BY <1>16, <1>1 DEF Remove, Outcomes
  <2>3. \A l \in {"del"} : Nearer(r, l)
    BY <2>1, CallCounts DEF Nearer, Places
  <2> QED
    BY <2>1, <2>2, <2>3, <1>3, <1>4 DEF Goto
<1>17. CASE Reload(r)
  <2>1. pc[r] = "reload" /\ pc[r] \in Places
    BY <1>17 DEF Reload, Places
  <2>2. \E l \in {"del", "scan"} : Goto(r, l)
    BY <1>17, <1>1 DEF Reload, Outcomes
  <2>3. \A l \in {"del", "scan"} : Nearer(r, l)
    BY <2>1, CallCounts DEF Nearer, Places
  <2> QED
    BY <2>1, <2>2, <2>3, <1>3, <1>4 DEF Goto
<1>18. CASE DelDevice(r)
  <2>1. pc[r] = "del" /\ pc[r] \in Places
    BY <1>18 DEF DelDevice, Places
  <2>2. \/ \E l \in {"scan"} : Goto(r, l)
        \/ \E l \in Outcomes : Goto(r, l)
    BY <1>18, <1>1 DEF DelDevice, Outcomes, Failed
  <2>3. \A l \in {"scan"} : Nearer(r, l)
    BY <2>1, CallCounts DEF Nearer, Places
  <2> QED
    BY <2>1, <2>2, <2>3, <1>3, <1>4 DEF Goto
<1>19. CASE ScanLists(r)
  <2>1. pc[r] = "scan" /\ pc[r] \in Places
    BY <1>19 DEF ScanLists, Places
  <2>2. \/ \E l \in {"sweep"} : Goto(r, l)
        \/ \E l \in Outcomes : Goto(r, l)
    BY <1>19, <1>1 DEF ScanLists, Outcomes, Failed
  <2>3. \A l \in {"sweep"} : Nearer(r, l)
    BY <2>1, CallCounts DEF Nearer, Places
  <2> QED
    BY <2>1, <2>2, <2>3, <1>3, <1>4 DEF Goto
<1>20. CASE SweepLists(r)
  <2>1. pc[r] = "sweep" /\ pc[r] \in Places
    BY <1>20 DEF SweepLists, Places
  <2>2. \E l \in Outcomes : Goto(r, l)
    BY <1>20, <1>1 DEF SweepLists, Outcomes, Failed
  <2> QED
    BY <2>1, <2>2, <1>4
<1> QED
  BY <1>2, <1>5, <1>6, <1>7, <1>8, <1>9, <1>10, <1>11, <1>12, <1>13,
     <1>14, <1>15, <1>16, <1>17, <1>18, <1>19, <1>20 DEF Step

(* No request is sent back or tries a call again, whatever fails (every     *)
(* method of device_service.go returns or goes on after an error).          *)
THEOREM Advancing == Spec => RequestsAdvance
<1> DEFINE Advance(r) ==
      \/ pc'[r] \in Outcomes
      \/ pc'[r] = pc[r] /\ ~Step(r)
      \/ pc'[r] \in Places /\ CallsLeft[pc'[r]] < CallsLeft[pc[r]]
<1>1. ASSUME Typed, [Next]_vars, NEW r \in Requests, pc[r] \in Places
      PROVE  Advance(r)
  <2>1. CASE Step(r)
    BY <2>1, <1>1, StepAdvances DEF Nearer
  <2>2. CASE ~Step(r)
    <3> SUFFICES pc'[r] = pc[r] \/ pc'[r] \in Outcomes
      BY <2>2
    <3>1. ASSUME NEW s \in Requests, Step(s)
          PROVE  pc'[r] = pc[r] \/ pc'[r] \in Outcomes
      BY <3>1, <2>2, <1>1, StepAdvances
    <3>2. ASSUME NEW s \in Requests, NEW o \in Operations, NEW d \in Devices,
                 NEW q \in Queries, Start(s, o, d, q)
          PROVE  pc'[r] = pc[r]
      <4>1. pc[s] \in Outcomes
        BY <3>2 DEF Start
      <4>2. s # r
        BY <4>1, <1>1 DEF Outcomes, Places
      <4> QED
        BY <3>2, <4>2, <1>1 DEF Start, Goto, Typed
    <3>3. CASE Crash
      BY <3>3 DEF Crash, Outcomes
    <3>4. ASSUME NEW s \in Requests, FillResent(s)
          PROVE  pc' = pc
      BY <3>4 DEF FillResent
    <3>4a. ASSUME NEW s \in Requests, ListResent(s)
          PROVE  pc' = pc
      BY <3>4a DEF ListResent
    <3>5. ASSUME NEW d \in Devices, ExpireDevice(d)
          PROVE  pc' = pc
      BY <3>5 DEF ExpireDevice
    <3>6. ASSUME NEW q \in Queries, ExpireList(q)
          PROVE  pc' = pc
      BY <3>6 DEF ExpireList
    <3>7. CASE UNCHANGED vars
      BY <3>7 DEF vars
    <3> QED
      BY <1>1, <3>1, <3>2, <3>3, <3>4, <3>4a, <3>5, <3>6, <3>7 DEF Next
  <2> QED
    BY <2>1, <2>2
<1>2. Typed /\ [Next]_vars =>
        [\A r \in Requests : pc[r] \in Places => Advance(r)]_vars
  BY <1>1
<1>3. TypeOK => Typed
  BY DEF TypeOK
<1> HIDE DEF Advance
<1> QED
  BY <1>2, <1>3, Typing, PTL DEF Spec, RequestsAdvance, Advance

-----------------------------------------------------------------------------
(* Deleted devices                                                          *)

(* A row that is gone is not changed, and no request comes to save it.      *)
LEMMA GoneStep ==
  ASSUME Typed, NEW d \in Devices, Gone(d), NEW r \in Requests, Step(r)
  PROVE  /\ row'[d] = row[d]
         /\ \A s \in Requests : pc'[s] = "save" /\ dev'[s] = d =>
              pc[s] = "save" /\ dev[s] = d
<1> USE DEF Typed, Gone, store, local, Goto
<1>1. \A v : Outcome(v) # "save"
  BY DEF Outcome
<1>2. CASE GetDevice(r)
  BY <1>2, <1>1 DEF GetDevice
<1>3. CASE Do(r)
  BY <1>3, <1>1 DEF Do
<1>4. CASE QueryDevice(r)
  BY <1>4, <1>1 DEF QueryDevice
<1>5. CASE FillDevice(r)
  BY <1>5, <1>1 DEF FillDevice
<1>6. CASE FinishFlight(r)
  BY <1>6, <1>1 DEF FinishFlight
<1>7. CASE GetDeviceList(r)
  BY <1>7, <1>1 DEF GetDeviceList
<1>8. CASE ReadList(r)
  BY <1>8, <1>1 DEF ReadList
<1>9. CASE SetDeviceList(r)
  BY <1>9, <1>1 DEF SetDeviceList
<1>10. CASE CheckCode(r)
  BY <1>10, <1>1 DEF CheckCode
<1>11. CASE Reload(r)
  BY <1>11, <1>1 DEF Reload
<1>12. CASE DelDevice(r)
  BY <1>12, <1>1 DEF DelDevice, Failed
<1>13. CASE ScanLists(r)
  BY <1>13, <1>1 DEF ScanLists, Failed
<1>14. CASE SweepLists(r)
  BY <1>14, <1>1 DEF SweepLists, Failed
<1>15. CASE Load(r)
  <2>1. pc'[r] = "save" => row[dev[r]].live
    BY <1>15 DEF Load
  <2>2. UNCHANGED <<row, dev>> /\ \A s \in Requests \ {r} : pc'[s] = pc[s]
    BY <1>15 DEF Load
  <2> QED
    BY <2>1, <2>2
<1>16. CASE Insert(r)
  <2>1. /\ \A e \in Devices : row[e].n # 0 => row'[e] = row[e]
        /\ pc'[r] # "save"
        /\ \A s \in Requests \ {r} : pc'[s] = pc[s] /\ dev'[s] = dev[s]
    BY <1>16 DEF Insert, Commit
  <2>2. row[d].n # 0
    BY DEF Version
  <2> QED
    BY <2>1, <2>2
<1>17. CASE Save(r)
  <2>1. dev[r] # d /\ pc'[r] # "save"
    BY <1>17 DEF Save
  <2>2. \A e \in Devices : e # dev[r] => row'[e] = row[e]
    BY <1>17 DEF Save, Commit
  <2> QED
    BY <1>17, <2>1, <2>2 DEF Save
<1>18. CASE Remove(r)
  <2>1. \A e \in Devices : ~row[e].live => row'[e] = row[e]
    BY <1>18 DEF Remove, Commit
  <2>2. pc'[r] # "save"
    BY <1>18 DEF Remove
  <2> QED
    BY <1>18, <2>1, <2>2 DEF Remove
<1> QED
  BY <1>2, <1>3, <1>4, <1>5, <1>6, <1>7, <1>8, <1>9, <1>10,
     <1>11, <1>12, <1>13, <1>14, <1>15, <1>16, <1>17, <1>18 DEF Step

(* No request brings a deleted device back unless it had loaded it before   *)
(* (Update's and Delete's FindByID go to PostgreSQL; Create draws new ids). *)
THEOREM GoneStays == Spec => GoneForGood
<1>1. ASSUME Typed, [Next]_vars, NEW d \in Devices, Gone(d)
      PROVE  Gone(d)'
  <2> SUFFICES /\ row'[d] = row[d]
               /\ \A s \in Requests : pc'[s] = "save" /\ dev'[s] = d =>
                    pc[s] = "save" /\ dev[s] = d
    BY <1>1 DEF Gone
  <2>1. ASSUME NEW s \in Requests, NEW o \in Operations, NEW e \in Devices,
               NEW q \in Queries, Start(s, o, e, q)
        PROVE  /\ row' = row
               /\ pc'[s] # "save"
               /\ \A t \in Requests \ {s} : pc'[t] = pc[t] /\ dev'[t] = dev[t]
    <3>1. FirstCall(o) # "save"
      BY DEF FirstCall
    <3> QED
      BY <1>1, <2>1, <3>1 DEF Start, Goto, Typed, store
  <2>2. ASSUME NEW s \in Requests, FillResent(s)
        PROVE  UNCHANGED <<row, pc, dev>>
    BY <2>2 DEF FillResent, local
  <2>2a. ASSUME NEW s \in Requests, ListResent(s)
        PROVE  UNCHANGED <<row, pc, dev>>
    BY <2>2a DEF ListResent, local
  <2>3. ASSUME NEW e \in Devices, ExpireDevice(e)
        PROVE  UNCHANGED <<row, pc, dev>>
    BY <2>3 DEF ExpireDevice, local
  <2>4. ASSUME NEW q \in Queries, ExpireList(q)
        PROVE  UNCHANGED <<row, pc, dev>>
    BY <2>4 DEF ExpireList, local
  <2>5. CASE Crash
    BY <2>5 DEF Crash, store
  <2>6. CASE UNCHANGED vars
    BY <2>6 DEF vars, store, local
  <2> QED
    BY <1>1, <2>1, <2>2, <2>2a, <2>3, <2>4, <2>5, <2>6, GoneStep DEF Next
<1>2. Typed /\ [Next]_vars => [\A d \in Devices : Gone(d) => Gone(d)']_vars
  BY <1>1
<1>3. TypeOK => Typed
  BY DEF TypeOK
<1> QED
  BY <1>2, <1>3, Typing, PTL DEF Spec, GoneForGood
-----------------------------------------------------------------------------
(* One client at a time                                                    *)

(* Requests come one after the other.                                      *)
Serial ==
  \A q, r \in Requests : q = r \/ pc[q] \in Outcomes \/ pc[r] \in Outcomes

(* No race and no failure is recorded.                                     *)
NothingSpoiled ==
  /\ \A d \in Devices : ~spoiled[d]
  /\ \A q \in Queries : ~listSpoiled[q]

(* Whenever no request runs, KeyDB agrees with PostgreSQL.                  *)
CoherentAtRest ==
  (\A r \in Requests : pc[r] \in Outcomes) =>
    /\ \A d \in Devices : ~Stale(d)
    /\ \A q \in Queries : ~StaleList(q)

(* No fill runs beside the request that commits.                           *)
LEMMA LoneCommit ==
  ASSUME Typed, NothingSpoiled, Serial, NEW r \in Requests,
         pc[r] \in {"insert", "save", "remove"},
         NEW d \in Devices, NEW live, NEW acked, acked = TRUE, Commit(d, live, acked)
  PROVE  NothingSpoiled'
<1>0. \A q \in Requests : pc[q] \notin {"fill", "finish", "listSet"}
  BY DEF Serial, Outcomes
<1>1. ~FillHeld(d)
  BY <1>0 DEF FillHeld, Typed
<1>2. \A q \in Queries : ~ListHeld(q)
  BY <1>0 DEF ListHeld
<1> QED
  BY <1>1, <1>2 DEF Commit, NothingSpoiled, Typed

(* A step of a request that runs alone records nothing.                     *)
LEMMA LoneStep ==
  ASSUME Typed, NothingSpoiled, Serial, Faults = {}, NEW r \in Requests, Step(r)
  PROVE  NothingSpoiled'
<1> USE DEF NothingSpoiled, Typed, ghost
<1>1. Acks = {TRUE}
  BY DEF Acks
<1>2. CASE Insert(r)
  BY <1>1, <1>2, LoneCommit DEF Insert
<1>3. CASE Save(r)
  BY <1>1, <1>3, LoneCommit DEF Save
<1>4. CASE Remove(r)
  BY <1>1, <1>4, LoneCommit DEF Remove
<1>5. CASE DelDevice(r)
  BY <1>5 DEF DelDevice, DropDevice
<1>6. CASE ScanLists(r)
  BY <1>6 DEF ScanLists
<1>7. CASE SweepLists(r)
  BY <1>7 DEF SweepLists, DropLists
<1>8. CASE FinishFlight(r)
  BY <1>8 DEF FinishFlight
<1>9. CASE SetDeviceList(r)
  BY <1>9 DEF SetDeviceList
<1>10. CASE GetDevice(r) \/ Do(r) \/ QueryDevice(r) \/ FillDevice(r)
  BY <1>10 DEF GetDevice, Do, QueryDevice, FillDevice
<1>11. CASE GetDeviceList(r) \/ ReadList(r) \/ CheckCode(r) \/ Load(r) \/ Reload(r)
  BY <1>11 DEF GetDeviceList, ReadList, CheckCode, Load, Reload
<1> QED
  BY <1>2, <1>3, <1>4, <1>5, <1>6, <1>7, <1>8, <1>9, <1>10, <1>11 DEF Step

(* Nor does any other step without failures.                               *)
LEMMA LoneNext ==
  ASSUME Typed, NothingSpoiled, Serial, Faults = {}, [Next]_vars
  PROVE  NothingSpoiled'
<1> USE DEF NothingSpoiled, Typed
<1>1. ASSUME NEW r \in Requests, NEW o \in Operations, NEW d \in Devices,
             NEW q \in Queries, Start(r, o, d, q)
      PROVE  NothingSpoiled'
  BY <1>1 DEF Start
<1>2. ASSUME NEW r \in Requests, Step(r)
      PROVE  NothingSpoiled'
  BY <1>2, LoneStep
<1>3. ASSUME NEW r \in Requests, FillResent(r)
      PROVE  NothingSpoiled'
  BY <1>3 DEF FillResent
<1>3a. ASSUME NEW r \in Requests, ListResent(r)
      PROVE  NothingSpoiled'
  BY <1>3a DEF ListResent
<1>4. ASSUME NEW d \in Devices, ExpireDevice(d)
      PROVE  NothingSpoiled'
  BY <1>4 DEF ExpireDevice, DropDevice
<1>5. ASSUME NEW q \in Queries, ExpireList(q)
      PROVE  NothingSpoiled'
  BY <1>5 DEF ExpireList, DropLists
<1>6. ~Crash
  BY DEF Crash
<1>7. CASE UNCHANGED vars
  BY <1>7 DEF vars, ghost
<1> QED
  BY <1>1, <1>2, <1>3, <1>3a, <1>4, <1>5, <1>6, <1>7 DEF Next

(* When requests come one after the other and nothing fails, the exceptions *)
(* of DeviceCoherent and ListCoherent never apply: whenever no request runs, *)
(* every cached device and page agrees with its rows.                       *)
THEOREM OneByOne ==
  ASSUME Faults = {}
  PROVE  Spec /\ []Serial => []CoherentAtRest
<1>1. Init => DeviceInv /\ ListInv /\ NothingSpoiled
  BY DeviceInvInit, ListInvInit DEF Init, NothingSpoiled
<1>2. DeviceInv /\ ListInv /\ NothingSpoiled /\ Serial /\ [Next]_vars
        => (DeviceInv /\ ListInv /\ NothingSpoiled)'
  BY DeviceInvNext, ListInvNext, LoneNext DEF DeviceInv
<1>3. ASSUME DeviceInv, ListInv, NothingSpoiled
      PROVE  CoherentAtRest
  <2> SUFFICES ASSUME \A r \in Requests : pc[r] \in Outcomes
               PROVE  /\ \A d \in Devices : ~Stale(d)
                      /\ \A q \in Queries : ~StaleList(q)
    BY DEF CoherentAtRest
  <2>1. \A d \in Devices : ~DevicePending(d)
    BY DEF DevicePending, Outcomes
  <2>2. \A q \in Queries : ~ListPending(q)
    BY DEF ListPending, Outcomes
  <2> QED
    BY <1>3, <2>1, <2>2 DEF DeviceInv, ListInv, NothingSpoiled, DeviceCoherent,
       ListCoherent
<1> QED
  BY <1>1, <1>2, <1>3, PTL DEF Spec
=============================================================================
