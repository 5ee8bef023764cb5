---------------------------- MODULE DeviceService ----------------------------
(***************************************************************************)
(* The device service: reads of one device through a cache-aside copy with *)
(* singleflight (FindByID), cached list pages (List), and the three writers *)
(* that change the PostgreSQL row first and invalidate KeyDB afterwards     *)
(* (Create, Update, Delete).  Each HTTP request runs in a goroutine of its  *)
(* own; every call to PostgreSQL or KeyDB is one step, so requests          *)
(* interleave between any two calls.                                        *)
(*                                                                          *)
(* The contents of a row are abstracted to n, the number of commits made to *)
(* that id: two reads of a device return the same contents iff they return  *)
(* the same n.  A deleted row is a version with live = FALSE, which is also *)
(* what the "null" marker in the cache says.  TTLs are Expire actions.      *)
(*                                                                          *)
(* Out of this module: the telemetry attached to a read, the online and     *)
(* alert keys cleared by a delete, and the mode without a cache.            *)
(***************************************************************************)
EXTENDS Naturals

CONSTANTS
  Devices,      \* device ids (UUIDs), born when Create inserts them
  CodeOf,       \* device_code of each id; no request changes it
  Queries,      \* hashes of List parameters
  Requests,     \* request goroutines of one server process
  Operations,   \* the operations clients call
  Faults,       \* which failures happen: "cache", "ack", "crash"
  MaxCommits,   \* bound on the commits to one row
  None          \* a missing key, an empty slot, a failed call

ASSUME ConstantsAssumption ==
  /\ Devices # {} /\ Queries # {}
  /\ Operations \subseteq {"find", "list", "create", "update", "delete"}
  /\ MaxCommits \in Nat
  /\ None \notin [n : Nat, live : BOOLEAN]
  /\ None \notin [Devices -> [n : Nat, live : BOOLEAN]]
  /\ None \notin Requests

VARIABLES
  row,      \* PostgreSQL: the committed version of each device
  cache,    \* KeyDB device:{id}: a version, or None
  lists,    \* KeyDB devices:list:{hash}: the versions a page was built from
  flight,   \* singleflight.Group: the leader of the call for each id
  op, pc,   \* of each request: its operation, its next call or its outcome
  dev,      \* the device a request is about
  qry,      \* the query a List request is about
  got,      \* the version a FindByID has read
  snap,     \* the page a List has read
  keys,     \* the list keys a writer's SCAN returned
  spoiled,     \* history: a race or a failure may have left device:{id} stale
  listSpoiled, \* history: the same for devices:list:{hash}
  floor        \* history: the least commit a read may return

store == <<row, cache, lists>>
local == <<dev, qry, got, snap, keys>>
ghost == <<spoiled, listSpoiled, floor>>
vars  == <<store, flight, op, pc, local, ghost>>

Version == [n : Nat, live : BOOLEAN]
Page    == [Devices -> Version]

Outcomes == {"idle", "ok", "notFound", "duplicate", "error", "partial"}
Readers  == {"find", "list"}
Writers  == {"create", "update", "delete"}
Places   == {"get", "do", "wait", "query", "fill", "finish",
             "listGet", "listRead", "listSet",
             "code", "insert", "load", "save", "remove",
             "reload", "del", "scan", "sweep"}
Labels   == Outcomes \cup Places

-----------------------------------------------------------------------------
(* A fill has read the database and may still write or hand out its value.  *)
FillHeld(d)    == flight[d] # None /\ pc[flight[d]] \in {"fill", "finish"}
ListHeld(q)    == \E r \in Requests : pc[r] = "listSet" /\ qry[r] = q

(* A writer has committed and has not yet invalidated the key.              *)
DevicePending(d) ==
  \E r \in Requests : /\ op[r] \in {"update", "delete"}
                      /\ pc[r] \in {"reload", "del"}
                      /\ dev[r] = d
ListPending(q) ==
  \E r \in Requests : \/ pc[r] \in {"reload", "del", "scan"}
                      \/ pc[r] = "sweep" /\ q \in keys[r]

Stale(d)     == cache[d] \notin {None, row[d]}
StaleList(q) == lists[q] \notin {None, row}
Quiet(d)     == ~spoiled[d] /\ ~DevicePending(d)

Goto(r, l) == pc' = [pc EXCEPT ![r] = l]

(* One commit to row d.  Without the acknowledgement the service sees an    *)
(* error and returns without invalidating anything.                         *)
Commit(d, live, acked) ==
  /\ row[d].n < MaxCommits
  /\ row' = [row EXCEPT ![d] = [n |-> @.n + 1, live |-> live]]
  /\ spoiled' = [spoiled EXCEPT ![d] =
       @ \/ FillHeld(d) \/ (~acked /\ cache[d] # None)]
  /\ listSpoiled' = [q \in Queries |->
       listSpoiled[q] \/ ListHeld(q) \/ (~acked /\ lists[q] # None)]

Acks == IF "ack" \in Faults THEN BOOLEAN ELSE {TRUE}

(* Removing a key settles its history, up to fills still in flight.         *)
DropDevice(d) ==
  /\ cache' = [cache EXCEPT ![d] = None]
  /\ spoiled' = [spoiled EXCEPT ![d] = @ /\ FillHeld(d)]
DropLists(qs) ==
  /\ lists' = [q \in Queries |-> IF q \in qs THEN None ELSE lists[q]]
  /\ listSpoiled' = [q \in Queries |->
       listSpoiled[q] /\ (q \in qs => ListHeld(q))]

(* An invalidation that failed leaves whatever the keys hold.               *)
SpoilLists(qs) ==
  listSpoiled' = [q \in Queries |->
    listSpoiled[q] \/ (q \in qs /\ lists[q] # None)]

-----------------------------------------------------------------------------
Init ==
  /\ row = [d \in Devices |-> [n |-> 0, live |-> FALSE]]
  /\ cache = [d \in Devices |-> None]
  /\ lists = [q \in Queries |-> None]
  /\ flight = [d \in Devices |-> None]
  /\ op = [r \in Requests |-> "find"]
  /\ pc = [r \in Requests |-> "idle"]
  /\ dev = [r \in Requests |-> CHOOSE d \in Devices : TRUE]
  /\ qry = [r \in Requests |-> CHOOSE q \in Queries : TRUE]
  /\ got = [r \in Requests |-> None]
  /\ snap = [r \in Requests |-> None]
  /\ keys = [r \in Requests |-> {}]
  /\ spoiled = [d \in Devices |-> FALSE]
  /\ listSpoiled = [q \in Queries |-> FALSE]
  /\ floor = [r \in Requests |-> 0]

FirstCall(o) == CASE o = "find"   -> "get"
                  [] o = "list"   -> "listGet"
                  [] o = "create" -> "code"
                  [] OTHER        -> "load"

(* A request arrives.  Only ids that were handed to a client are asked for. *)
Start(r, o, d, q) ==
  /\ pc[r] \in Outcomes
  /\ o = "list" \/ q = qry[r]
  /\ CASE o = "list"   -> d = dev[r]
       [] o = "create" -> row[d].n = 0
       [] OTHER        -> row[d].n > 0
  /\ op' = [op EXCEPT ![r] = o]
  /\ dev' = [dev EXCEPT ![r] = d]
  /\ qry' = [qry EXCEPT ![r] = q]
  /\ got' = [got EXCEPT ![r] = None]
  /\ floor' = [floor EXCEPT ![r] =
       IF o = "find" /\ Quiet(d) THEN row[d].n ELSE 0]
  /\ Goto(r, FirstCall(o))
  /\ UNCHANGED <<store, flight, snap, keys, spoiled, listSpoiled>>

-----------------------------------------------------------------------------
(* FindByID                                                                 *)

Outcome(v) == IF v = None THEN "error"
              ELSE IF v.live THEN "ok" ELSE "notFound"

(* GET device:{id}; an error or an unreadable value counts as a miss.       *)
GetDevice(r) ==
  /\ pc[r] = "get"
  /\ \/ /\ cache[dev[r]] # None
        /\ got' = [got EXCEPT ![r] = cache[dev[r]]]
        /\ Goto(r, Outcome(cache[dev[r]]))
     \/ /\ cache[dev[r]] = None \/ "cache" \in Faults
        /\ Goto(r, "do")
        /\ UNCHANGED got
  /\ UNCHANGED <<store, flight, op, dev, qry, snap, keys, ghost>>

Do_AlwaysLeads(r) ==
  /\ pc[r] = "do"
  /\ flight' = [flight EXCEPT ![dev[r]] = r]
  /\ Goto(r, "query")
  /\ UNCHANGED <<store, op, local, ghost>>

(* singleflight Do: lead a new call, or wait for the one in the group.      *)
Do(r) ==
  /\ pc[r] = "do"
  /\ \/ /\ flight[dev[r]] = None
        /\ flight' = [flight EXCEPT ![dev[r]] = r]
        /\ Goto(r, "query")
     \/ /\ flight[dev[r]] # None
        /\ Goto(r, "wait")
        /\ UNCHANGED flight
  /\ UNCHANGED <<store, op, local, ghost>>

QueryDevice_FillsAfterError(r) ==
  /\ pc[r] = "query"
  /\ got' \in {[got EXCEPT ![r] = v] : v \in {row[dev[r]], None}}
  /\ Goto(r, "fill")
  /\ UNCHANGED <<store, flight, op, dev, qry, snap, keys, ghost>>

(* The leader reads the row; an error skips the write to the cache.         *)
QueryDevice(r) ==
  /\ pc[r] = "query"
  /\ \/ /\ got' = [got EXCEPT ![r] = row[dev[r]]]
        /\ Goto(r, "fill")
     \/ /\ got' = [got EXCEPT ![r] = None]
        /\ Goto(r, "finish")
  /\ UNCHANGED <<store, flight, op, dev, qry, snap, keys, ghost>>

(* SetDevice or SetDeviceNull; the result is ignored.                       *)
FillDevice(r) ==
  /\ pc[r] = "fill"
  /\ \/ cache' = [cache EXCEPT ![dev[r]] = got[r]]
     \/ "cache" \in Faults /\ UNCHANGED cache
  /\ Goto(r, "finish")
  /\ UNCHANGED <<row, lists, flight, op, local, ghost>>

(* The SET is applied but its answer is lost: the client library resends it. *)
FillResent(r) ==
  /\ pc[r] = "fill" /\ "cache" \in Faults
  /\ cache' = [cache EXCEPT ![dev[r]] = got[r]]
  /\ UNCHANGED <<row, lists, flight, op, pc, local, ghost>>

FinishFlight_ForgetsWaiters(r) ==
  /\ pc[r] = "finish"
  /\ Goto(r, Outcome(got[r]))
  /\ flight' = [flight EXCEPT ![dev[r]] = None]
  /\ UNCHANGED <<store, op, local, ghost>>

(* The call leaves the group; leader and waiters share its result.          *)
FinishFlight(r) ==
  /\ pc[r] = "finish"
  /\ LET d == dev[r]
         sharers == {r} \cup {s \in Requests : pc[s] = "wait" /\ dev[s] = d}
     IN  /\ got' = [s \in Requests |->
                      IF s \in sharers THEN got[r] ELSE got[s]]
         /\ pc' = [s \in Requests |->
                      IF s \in sharers THEN Outcome(got[r]) ELSE pc[s]]
         /\ flight' = [flight EXCEPT ![d] = None]
         /\ spoiled' = [spoiled EXCEPT ![d] = @ /\ cache[d] # None]
  /\ UNCHANGED <<store, op, dev, qry, snap, keys, listSpoiled, floor>>

-----------------------------------------------------------------------------
(* List: no singleflight, so several requests may fill one key.             *)

GetDeviceList(r) ==
  /\ pc[r] = "listGet"
  /\ \/ lists[qry[r]] # None /\ Goto(r, "ok")
     \/ /\ lists[qry[r]] = None \/ "cache" \in Faults
        /\ Goto(r, "listRead")
  /\ UNCHANGED <<store, flight, op, local, ghost>>

ReadList(r) ==
  /\ pc[r] = "listRead"
  /\ \/ /\ snap' = [snap EXCEPT ![r] = row]
        /\ Goto(r, "listSet")
     \/ /\ Goto(r, "error")
        /\ UNCHANGED snap
  /\ UNCHANGED <<store, flight, op, dev, qry, got, keys, ghost>>

SetDeviceList(r) ==
  /\ pc[r] = "listSet"
  /\ \/ lists' = [lists EXCEPT ![qry[r]] = snap[r]]
     \/ "cache" \in Faults /\ UNCHANGED lists
  /\ snap' = [snap EXCEPT ![r] = None]
  /\ Goto(r, "ok")
  /\ listSpoiled' = [listSpoiled EXCEPT ![qry[r]] =
       @ /\ (lists'[qry[r]] # None
              \/ \E s \in Requests \ {r} : pc[s] = "listSet" /\ qry[s] = qry[r])]
  /\ UNCHANGED <<row, cache, flight, op, dev, qry, got, keys, spoiled, floor>>

(* As for a device: the client library resends a SET of unknown outcome.    *)
ListResent(r) ==
  /\ pc[r] = "listSet" /\ "cache" \in Faults
  /\ lists' = [lists EXCEPT ![qry[r]] = snap[r]]
  /\ UNCHANGED <<row, cache, flight, op, pc, local, ghost>>

-----------------------------------------------------------------------------
(* Create                                                                   *)

CodeFree_NoConstraint(d) == TRUE

(* The unique constraint on device_code.                                    *)
CodeFree(d) == \A e \in Devices \ {d} : row[e].live => CodeOf[e] # CodeOf[d]

(* FindByDeviceCode, and FindByIDs of the users to bind.                    *)
CheckCode(r) ==
  /\ pc[r] = "code"
  /\ \/ /\ ~\E e \in Devices : row[e].live /\ CodeOf[e] = CodeOf[dev[r]]
        /\ Goto(r, "insert")
     \/ /\ \E e \in Devices : row[e].live /\ CodeOf[e] = CodeOf[dev[r]]
        /\ Goto(r, "duplicate")
     \/ Goto(r, "error")
  /\ UNCHANGED <<store, flight, op, local, ghost>>

(* The INSERT draws a fresh id and fails on the unique device_code.  With   *)
(* users to bind the device is read back before the lists are invalidated.  *)
Insert(r) ==
  /\ pc[r] = "insert"
  /\ \/ \E d \in Devices, acked \in Acks :
          /\ row[d].n = 0
          /\ CodeOf[d] = CodeOf[dev[r]]
          /\ CodeFree(d)
          /\ Commit(d, TRUE, acked)
          /\ dev' = [dev EXCEPT ![r] = d]
          /\ IF acked THEN Goto(r, "reload") \/ Goto(r, "scan")
                      ELSE Goto(r, "error")
     \/ /\ Goto(r, "error")
        /\ UNCHANGED <<row, dev, spoiled, listSpoiled>>
  /\ UNCHANGED <<cache, lists, flight, op, qry, got, snap, keys, floor>>

-----------------------------------------------------------------------------
(* Update and Delete                                                        *)

Load_ThroughTheCache(r) ==
  /\ pc[r] = "load"
  /\ LET v == IF cache[dev[r]] = None THEN row[dev[r]] ELSE cache[dev[r]]
     IN  Goto(r, IF ~v.live THEN "notFound"
                 ELSE IF op[r] = "update" THEN "save" ELSE "remove")
  /\ UNCHANGED <<store, flight, op, local, ghost>>

(* repo.FindByID before the write; an update may also name unknown users.   *)
Load(r) ==
  /\ pc[r] = "load"
  /\ \/ /\ row[dev[r]].live
        /\ Goto(r, IF op[r] = "update" THEN "save" ELSE "remove")
     \/ /\ ~row[dev[r]].live
        /\ Goto(r, "notFound")
     \/ Goto(r, "error")
  /\ UNCHANGED <<store, flight, op, local, ghost>>

Save_TriesAgain(r) ==
  /\ pc[r] = "save"
  /\ \/ \E acked \in Acks :
          /\ CodeFree(dev[r])
          /\ Commit(dev[r], TRUE, acked)
          /\ Goto(r, IF acked THEN "reload" ELSE "save")
     \/ /\ Goto(r, "error")
        /\ UNCHANGED <<row, spoiled, listSpoiled>>
  /\ UNCHANGED <<cache, lists, flight, op, local, floor>>

(* GORM Save: UPDATE by id, and if no row was hit an upsert that inserts it *)
(* again.  Only that insert can meet the unique device_code.                *)
Save(r) ==
  /\ pc[r] = "save"
  /\ \/ \E acked \in Acks :
          /\ CodeFree(dev[r])
          /\ Commit(dev[r], TRUE, acked)
          /\ Goto(r, IF acked THEN "reload" ELSE "error")
     \/ /\ Goto(r, "error")
        /\ UNCHANGED <<row, spoiled, listSpoiled>>
  /\ UNCHANGED <<cache, lists, flight, op, local, floor>>

(* DELETE by id; hitting no row is not an error.                            *)
Remove(r) ==
  /\ pc[r] = "remove"
  /\ \/ \E acked \in Acks :
          /\ row[dev[r]].live
          /\ Commit(dev[r], FALSE, acked)
          /\ Goto(r, IF acked THEN "del" ELSE "error")
     \/ /\ ~row[dev[r]].live
        /\ Goto(r, "del")
        /\ UNCHANGED <<row, spoiled, listSpoiled>>
     \/ /\ Goto(r, "error")
        /\ UNCHANGED <<row, spoiled, listSpoiled>>
  /\ UNCHANGED <<cache, lists, flight, op, local, floor>>

Reload_SkipsTheDevice(r) ==
  /\ pc[r] = "reload"
  /\ Goto(r, "scan")
  /\ UNCHANGED <<store, flight, op, local, ghost>>

(* The read back for the response: its failure is ignored.                  *)
Reload(r) ==
  /\ pc[r] = "reload"
  /\ Goto(r, IF op[r] = "update" THEN "del" ELSE "scan")
  /\ UNCHANGED <<store, flight, op, local, ghost>>

-----------------------------------------------------------------------------
(* Invalidation: InvalidateDevice / InvalidateDeviceAll, InvalidateAllLists *)

(* What a failed invalidation means to the caller: Update and Create log it *)
(* and go on, Delete answers 207 and skips the rest.                        *)
Failed(r, next) == Goto(r, IF op[r] = "delete" THEN "partial" ELSE next)

DelDevice_AnotherKey(r) ==
  /\ pc[r] = "del"
  /\ Goto(r, "scan")
  /\ spoiled' = [spoiled EXCEPT ![dev[r]] = @ /\ FillHeld(dev[r])]
  /\ UNCHANGED <<store, flight, op, local, listSpoiled, floor>>

DelDevice(r) ==
  /\ pc[r] = "del"
  /\ \/ /\ DropDevice(dev[r])
        /\ Goto(r, "scan")
        /\ UNCHANGED listSpoiled
     \/ /\ "cache" \in Faults
        /\ UNCHANGED cache
        /\ spoiled' = [spoiled EXCEPT ![dev[r]] = @ \/ cache[dev[r]] # None]
        /\ IF op[r] = "delete" THEN SpoilLists(Queries) ELSE UNCHANGED listSpoiled
        /\ Failed(r, "scan")
  /\ UNCHANGED <<row, lists, flight, op, local, floor>>

ScanLists_AnotherPattern(r) ==
  /\ pc[r] = "scan"
  /\ Goto(r, "sweep")
  /\ UNCHANGED <<store, flight, op, local, ghost>>

(* SCAN devices:list:*                                                      *)
ScanLists(r) ==
  /\ pc[r] = "scan"
  /\ \/ /\ keys' = [keys EXCEPT ![r] = {q \in Queries : lists[q] # None}]
        /\ Goto(r, "sweep")
        /\ UNCHANGED listSpoiled
     \/ /\ "cache" \in Faults
        /\ SpoilLists(Queries)
        /\ Failed(r, "ok")
        /\ UNCHANGED keys
  /\ UNCHANGED <<store, flight, op, dev, qry, got, snap, spoiled, floor>>

(* DEL of the keys the SCAN returned                                        *)
SweepLists(r) ==
  /\ pc[r] = "sweep"
  /\ \/ /\ DropLists(keys[r])
        /\ Goto(r, "ok")
     \/ /\ "cache" \in Faults /\ keys[r] # {}
        /\ UNCHANGED lists
        /\ SpoilLists(keys[r])
        /\ Failed(r, "ok")
  /\ keys' = [keys EXCEPT ![r] = {}]
  /\ UNCHANGED <<row, cache, flight, op, dev, qry, got, snap, spoiled, floor>>

-----------------------------------------------------------------------------
(* The environment                                                          *)

ExpireDevice_OnlyNulls(d) ==
  /\ cache[d] # None
  /\ ~cache[d].live
  /\ DropDevice(d)
  /\ UNCHANGED <<row, lists, flight, op, pc, local, listSpoiled, floor>>

(* The TTL of a key runs out.                                               *)
ExpireDevice(d) ==
  /\ cache[d] # None
  /\ DropDevice(d)
  /\ UNCHANGED <<row, lists, flight, op, pc, local, listSpoiled, floor>>

ExpireList(q) ==
  /\ lists[q] # None
  /\ DropLists({q})
  /\ UNCHANGED <<row, cache, flight, op, pc, local, spoiled, floor>>

(* The process dies: every request and the singleflight group are lost.     *)
Crash ==
  /\ "crash" \in Faults
  /\ \E r \in Requests : pc[r] \notin Outcomes
  /\ pc' = [r \in Requests |-> "idle"]
  /\ flight' = [d \in Devices |-> None]
  /\ spoiled' = [d \in Devices |->
       cache[d] # None /\ (spoiled[d] \/ DevicePending(d))]
  /\ listSpoiled' = [q \in Queries |->
       lists[q] # None /\ (listSpoiled[q] \/ ListPending(q))]
  /\ snap' = [r \in Requests |-> None]
  /\ keys' = [r \in Requests |-> {}]
  /\ UNCHANGED <<store, op, dev, qry, got, floor>>

Step(r) ==
  \/ GetDevice(r) \/ Do(r) \/ QueryDevice(r) \/ FillDevice(r) \/ FinishFlight(r)
  \/ GetDeviceList(r) \/ ReadList(r) \/ SetDeviceList(r)
  \/ CheckCode(r) \/ Insert(r)
  \/ Load(r) \/ Save(r) \/ Remove(r) \/ Reload(r)
  \/ DelDevice(r) \/ ScanLists(r) \/ SweepLists(r)

Next ==
  \/ \E r \in Requests, o \in Operations, d \in Devices, q \in Queries :
       Start(r, o, d, q)
  \/ \E r \in Requests : Step(r) \/ FillResent(r) \/ ListResent(r)
  \/ \E d \in Devices : ExpireDevice(d)
  \/ \E q \in Queries : ExpireList(q)
  \/ Crash

Spec == Init /\ [][Next]_vars

(* A runnable goroutine is scheduled, the client library gives up on a call *)
(* to KeyDB after a time, and every key the service writes carries a TTL.   *)
(* Nothing limits a call to PostgreSQL or the wait for a connection.        *)
PostgresCalls ==
  {"query", "listRead", "code", "insert", "load", "save", "remove", "reload"}
FairSpec ==
  /\ Spec
  /\ \A r \in Requests : WF_vars(pc[r] \notin PostgresCalls /\ Step(r))
  /\ \A d \in Devices : WF_vars(ExpireDevice(d))
  /\ \A q \in Queries : WF_vars(ExpireList(q))
-----------------------------------------------------------------------------
(* Properties                                                               *)

Typed ==
  /\ row \in [Devices -> Version]
  /\ cache \in [Devices -> Version \cup {None}]
  /\ lists \in [Queries -> Page \cup {None}]
  /\ flight \in [Devices -> Requests \cup {None}]
  /\ op \in [Requests -> Readers \cup Writers]
  /\ pc \in [Requests -> Labels]
  /\ dev \in [Requests -> Devices]
  /\ qry \in [Requests -> Queries]
  /\ got \in [Requests -> Version \cup {None}]
  /\ snap \in [Requests -> Page \cup {None}]
  /\ keys \in [Requests -> SUBSET Queries]
  /\ spoiled \in [Devices -> BOOLEAN]
  /\ listSpoiled \in [Queries -> BOOLEAN]
  /\ floor \in [Requests -> Nat]

(* What a request has read, at the points of the code that rely on it.      *)
LocalsOK ==
  \A r \in Requests :
    /\ pc[r] = "fill" => got[r] \in Version
    /\ pc[r] = "listSet" => snap[r] \in Page
    /\ pc[r] \in {"ok", "notFound"} /\ op[r] = "find" => got[r] \in Version

(* Type invariant: every variable has its type, and no request goes on with *)
(* a device or a page it has not read (the early returns of FindByID and    *)
(* List).                                                                   *)
TypeOK == Typed /\ LocalsOK

(* device:{id} differs from the PostgreSQL row only between a writer's      *)
(* commit and its DEL, or after a fill that had read the row before the     *)
(* commit, a failed or unacknowledged call or a crash (FindByID's           *)
(* read-then-SET against the write-then-DEL of Update and Delete).          *)
DeviceCoherent == \A d \in Devices : Stale(d) => DevicePending(d) \/ spoiled[d]

(* The same for a cached list page, which any write to any device makes     *)
(* stale and which only the SCAN-then-DEL of InvalidateAllLists removes.    *)
ListCoherent == \A q \in Queries : StaleList(q) => ListPending(q) \/ listSpoiled[q]

(* singleflight: at most one request per device is between its database     *)
(* read and its SET, and whoever waits, waits for a running leader.         *)
OneFlightPerDevice ==
  \A r \in Requests :
    /\ pc[r] \in {"query", "fill", "finish"} => flight[dev[r]] = r
    /\ pc[r] = "wait" =>
         \E s \in Requests : /\ flight[dev[r]] = s
                             /\ dev[s] = dev[r]
                             /\ pc[s] \in {"query", "fill", "finish"}

(* A FindByID that begins when no writer is between commit and DEL and no   *)
(* race or failure has hit the key answers with a version at least as new   *)
(* as the row was then, through hits, shared flights and null markers.      *)
QuietReadsAreFresh ==
  \A r \in Requests :
    op[r] = "find" /\ pc[r] \in {"ok", "notFound"} => got[r].n >= floor[r]

(* Two live devices never share a device_code, whatever Creates race and    *)
(* whichever deleted device an Update inserts again.                        *)
CodesUnique ==
  \A d, e \in Devices :
    row[d].live /\ row[e].live /\ CodeOf[d] = CodeOf[e] => d = e

(* A deleted device stays deleted unless an Update had loaded it before: no  *)
(* request that begins later, through stale copies or fresh ids, brings it  *)
(* back (the row is loaded from PostgreSQL, never from KeyDB).              *)
Gone(d) ==
  /\ row[d].n > 0 /\ ~row[d].live
  /\ ~\E r \in Requests : pc[r] = "save" /\ dev[r] = d
GoneForGood == [][\A d \in Devices : Gone(d) => Gone(d)']_vars

(* The service is a DeviceDirectory, whatever the caches, the flights and   *)
(* the failures do: a request that waits, looks up or invalidates stutters, *)
(* its only effect on the rows is the one write of its commit.              *)
Phase ==
  [r \in Requests |-> CASE pc[r] \in Outcomes -> "idle"
                      [] pc[r] \in {"reload", "del", "scan", "sweep"} -> "written"
                      [] OTHER -> "asked"]
Directory == INSTANCE DeviceDirectory WITH phase <- Phase
ImplementsDirectory == Directory!Spec

(* The calls before a request, at most; a waiter has the leader's.          *)
CallsLeft ==
  [get |-> 5, do |-> 4, query |-> 3, fill |-> 2, finish |-> 1, wait |-> 1,
   listGet |-> 3, listRead |-> 2, listSet |-> 1,
   code |-> 6, insert |-> 5, load |-> 6, save |-> 5, remove |-> 5,
   reload |-> 4, del |-> 3, scan |-> 2, sweep |-> 1]

(* Every call of a request brings it nearer to its answer, and no step of   *)
(* others sends it back: nothing is tried again, whatever fails.  A request *)
(* whose calls return therefore ends (EveryRequestEnds), waiters by         *)
(* OneFlightPerDevice.                                                      *)
RequestsAdvance ==
  [][\A r \in Requests : pc[r] \in Places =>
       \/ pc'[r] \in Outcomes
       \/ pc'[r] = pc[r] /\ ~Step(r)
       \/ pc'[r] \in Places /\ CallsLeft[pc'[r]] < CallsLeft[pc[r]]]_vars

(* Every request is answered, dies with the process, or hangs in a call to  *)
(* PostgreSQL, its own or the leader's it waits for: no waiter of a flight  *)
(* is left behind by a leader that has its row, and no call to KeyDB or     *)
(* other request holds one up.                                              *)
Hung(r) ==
  \/ pc[r] \in PostgresCalls
  \/ pc[r] = "wait" /\ \E s \in Requests : flight[dev[r]] = s /\ pc[s] = "query"
EveryRequestEnds ==
  \A r \in Requests : []<>(pc[r] \in Outcomes) \/ <>[]Hung(r)

(* Writes stop after MaxCommits per row; whatever raced or failed, device   *)
(* copies and list pages then agree with PostgreSQL for good, by the TTLs.  *)
CachesConverge ==
  <>[](/\ \A d \in Devices : ~Stale(d)
       /\ \A q \in Queries : ~StaleList(q))

(* DELETE removes the device from PostgreSQL for good: a deleted id never   *)
(* becomes live again.                                                      *)
DeletedStaysDeleted ==
  [][\A d \in Devices :
       row[d].n > 0 /\ ~row[d].live => ~row'[d].live]_vars
=============================================================================
