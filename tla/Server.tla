------------------------------- MODULE Server -------------------------------
(***************************************************************************)
(* The life of one API server process: main opens the stores one after the *)
(* other, serves, and shuts down on a signal; beside it run the handlers.  *)
(*                                                                         *)
(* PostgreSQL must be there at the start.  ScyllaDB and KeyDB need not: a  *)
(* store that is not opened then stays a nil handle for the life of the    *)
(* process.  Stores fail and recover at any time.  A handler calls one     *)
(* store after the other; its effects are those of the other modules, its  *)
(* connection, its waiting and its answer are here.  Nothing bounds how    *)
(* long a handler takes: its context has no deadline.                      *)
(*                                                                         *)
(* GET /health gives its three pings one deadline of two seconds, which a  *)
(* ping may use up whether it fails or succeeds.                           *)
(***************************************************************************)
EXTENDS Naturals, FiniteSets

CONSTANTS
  Requests,     \* handler goroutines
  MaxConns      \* connections in the pool of PostgreSQL (DB_MAX_CONNS)

ASSUME ServerAssumption ==
  /\ IsFiniteSet(Requests)
  /\ MaxConns \in Nat \ {0}

VARIABLES
  up,        \* the stores that answer in time when they are given the time
  phase,     \* of main
  handles,   \* the stores main has opened
  closed,    \* those it has closed again
  kind, pc,  \* of each request: its operation, its next call or its answer
  spent,     \* the store whose ping used up a health request's deadline
  ill,       \* the stores that it reports unhealthy
  wasUp, wasIll  \* history: the stores that answered, and those that did not
                 \* or had no connection for it, until a health request pinged them

main     == <<phase, handles, closed>>
requests == <<kind, pc, spent, ill>>
history  == <<wasUp, wasIll>>
vars     == <<up, main, requests, history>>

Stores  == {"postgres", "scylla", "keydb"}
Kinds   == {"device", "ingest", "health"}
Opening == {"openPostgres", "openScylla", "openKeyDB"}
Closing == {"closeKeyDB", "closeScylla", "closePostgres"}
Serving == {"serve", "shutdown"}
Ended   == {"down", "failed", "stopped"}
Calls   == {"connect", "postgres", "scylla", "keydb",
            "connectAgain", "rules", "alerts"}
Answers == {"none", "answered", "healthy", "degraded"}

Running(r)   == pc[r] \in Calls
Alive        == phase \notin Ended
Borrowed     == {r \in Requests : pc[r] \in {"postgres", "rules"}}
PoolFull     == Cardinality(Borrowed) >= MaxConns
Answering    == up \cap handles

(* The stores that do not answer, and PostgreSQL while the other requests  *)
(* hold all connections.                                                   *)
Crowded(r)   == Cardinality(Borrowed \ {r}) >= MaxConns
Unwell(r)    == (Stores \ Answering)
                  \cup (IF Crowded(r) THEN {"postgres"} ELSE {})
OnTime(r)    == spent[r] = "none"
Goto(r, l)   == pc' = [pc EXCEPT ![r] = l]

(* A health request remembers how the stores it has not pinged yet were,   *)
(* and of a store it has pinged what bears on the outcome.                 *)
Unpinged(r) ==
  CASE kind[r] # "health"                -> {}
    [] pc[r] \in {"connect", "postgres"} -> Stores
    [] pc[r] = "scylla"                  -> {"scylla", "keydb"}
    [] pc[r] = "keydb"                   -> {"keydb"}
    [] OTHER                             -> {}
Observe ==
  /\ wasUp' = [r \in Requests |->
       (wasUp[r] \cup (Answering \cap Unpinged(r))') \ ill'[r]]
  /\ wasIll' = [r \in Requests |->
       (wasIll[r] \cap ill'[r])
         \cup ((wasIll[r] \cup Unwell(r)') \cap Unpinged(r)')]

-----------------------------------------------------------------------------
Init ==
  /\ up \in SUBSET Stores
  /\ phase = "down" /\ handles = {} /\ closed = {}
  /\ kind = [r \in Requests |-> "device"]
  /\ pc = [r \in Requests |-> "none"]
  /\ spent = [r \in Requests |-> "none"]
  /\ ill = [r \in Requests |-> {}]
  /\ wasUp = [r \in Requests |-> {}] /\ wasIll = [r \in Requests |-> {}]

(* Stores come and go.                                                     *)
Flap(s) ==
  /\ up' = IF s \in up THEN up \ {s} ELSE up \cup {s}
  /\ UNCHANGED <<main, requests>>
  /\ Observe

(* The process ends, and all its goroutines with it.                       *)
End(how) ==
  /\ phase' = how
  /\ kind' = [r \in Requests |-> "device"]
  /\ pc' = [r \in Requests |-> "none"]
  /\ spent' = [r \in Requests |-> "none"]
  /\ ill' = [r \in Requests |-> {}]
  /\ wasUp' = [r \in Requests |-> {}] /\ wasIll' = [r \in Requests |-> {}]
  /\ UNCHANGED <<up, handles>>

Exit == End("failed") /\ UNCHANGED closed

StartProcess ==
  /\ phase \in Ended
  /\ phase' = "openPostgres" /\ handles' = {} /\ closed' = {}
  /\ UNCHANGED <<up, requests, history>>

(* gorm.Open and AutoMigrate: without PostgreSQL the process exits.        *)
InitPostgres ==
  /\ phase = "openPostgres"
  /\ \/ /\ "postgres" \in up
        /\ phase' = "openScylla" /\ handles' = {"postgres"}
        /\ UNCHANGED <<up, closed, requests, history>>
     \/ "postgres" \notin up /\ Exit

(* NewClient of ScyllaDB, then of KeyDB; an error leaves the handle nil.   *)
OpenOptional(s, here, next) ==
  /\ phase = here /\ phase' = next
  /\ handles' \in IF s \in up THEN {handles \cup {s}} ELSE {handles}
  /\ UNCHANGED <<up, closed, requests, history>>

InitScylla == OpenOptional("scylla", "openScylla", "openKeyDB")
InitKeyDB  == OpenOptional("keydb", "openKeyDB", "serve")

-----------------------------------------------------------------------------
(* Requests                                                                *)

(* A request is accepted, even after the signal on a connection that was   *)
(* opened before.                                                          *)
Accept(r, k) ==
  /\ phase \in Serving /\ ~Running(r)
  /\ kind' = [kind EXCEPT ![r] = k]
  /\ Goto(r, "connect")
  /\ spent' = [spent EXCEPT ![r] = "none"]
  /\ ill' = [ill EXCEPT ![r] = {}]
  /\ wasUp' = [wasUp EXCEPT ![r] = IF k = "health" THEN Answering ELSE {}]
  /\ wasIll' = [wasIll EXCEPT ![r] = IF k = "health" THEN Unwell(r) ELSE {}]
  /\ UNCHANGED <<up, main>>

Connect_Unlimited(r) ==
  /\ \/ pc[r] = "connect" /\ Goto(r, "postgres")
     \/ pc[r] = "connectAgain" /\ Goto(r, "rules")
  /\ UNCHANGED <<up, main, kind, spent, ill>>
  /\ Observe

(* A connection is taken from the pool, as soon as one is free.            *)
Connect(r) ==
  /\ ~PoolFull
  /\ \/ pc[r] = "connect" /\ Goto(r, "postgres")
     \/ pc[r] = "connectAgain" /\ Goto(r, "rules")
  /\ UNCHANGED <<up, main, kind, spent, ill>>
  /\ Observe

(* The query of a device request or an ingest returns its connection.      *)
QueryPostgres(r) ==
  /\ pc[r] = "postgres" /\ kind[r] # "health"
  /\ Goto(r, IF "postgres" \notin up THEN "answered"
             ELSE IF kind[r] = "ingest" THEN "scylla" ELSE "keydb")
  /\ UNCHANGED <<up, main, kind, spent, ill>>
  /\ Observe

(* Without a handle the answer is 503, after a failed call 500.            *)
WriteScylla(r) ==
  /\ pc[r] = "scylla" /\ kind[r] = "ingest"
  /\ Goto(r, IF "scylla" \in Answering THEN "keydb" ELSE "answered")
  /\ UNCHANGED <<up, main, kind, spent, ill>>
  /\ Observe

(* The cache is skipped or its errors are ignored; an ingest goes on to    *)
(* its alert rules.                                                        *)
UseKeyDB(r) ==
  /\ pc[r] = "keydb" /\ kind[r] # "health"
  /\ Goto(r, IF kind[r] = "ingest" THEN "connectAgain" ELSE "answered")
  /\ UNCHANGED <<up, main, kind, spent, ill>>
  /\ Observe

(* FindByDeviceID: none, one or more rules of the device, or an error      *)
QueryRules(r) ==
  /\ pc[r] = "rules"
  /\ Goto(r, "answered") \/ ("postgres" \in up /\ Goto(r, "alerts"))
  /\ UNCHANGED <<up, main, kind, spent, ill>>
  /\ Observe

(* The alerts: inserted in ScyllaDB and counted in KeyDB, errors ignored   *)
RaiseAlerts(r) ==
  /\ pc[r] = "alerts"
  /\ Goto(r, "answered")
  /\ UNCHANGED <<up, main, kind, spent, ill>>
  /\ Observe

-----------------------------------------------------------------------------
(* GET /health: the outcome of one ping decides what is reported of its    *)
(* store.  A slow one, whatever its outcome, leaves the pings after it too *)
(* little of the deadline they share.                                      *)

Pinged(r, s, ok, slow, next) ==
  /\ ill' = [ill EXCEPT ![r] = IF ok THEN @ ELSE @ \cup {s}]
  /\ spent' = [spent EXCEPT ![r] = IF slow THEN s ELSE @]
  /\ Goto(r, next)
  /\ UNCHANGED <<up, main, kind>>
  /\ Observe

Ping_IgnoresNil(r, s, good, bad) ==
  /\ kind[r] = "health" /\ pc[r] = s
  /\ \/ /\ s \in up \/ s \notin handles
        /\ \E slow \in BOOLEAN : Pinged(r, s, TRUE, slow, good)
     \/ /\ s \in handles \ up
        /\ \E slow \in BOOLEAN : Pinged(r, s, FALSE, slow, bad)

(* A nil handle is unhealthy; after the deadline every ping fails at once. *)
Ping(r, s, good, bad) ==
  /\ kind[r] = "health" /\ pc[r] = s
  /\ \/ /\ s \in Answering /\ OnTime(r)
        /\ \E slow \in BOOLEAN : Pinged(r, s, TRUE, slow, good)
     \/ /\ s \in handles \ up /\ OnTime(r)
        /\ \E slow \in BOOLEAN : Pinged(r, s, FALSE, slow, bad)
     \/ /\ s \notin handles \/ ~OnTime(r)
        /\ Pinged(r, s, FALSE, FALSE, bad)

(* Ping needs a connection of the pool; waiting for one may use up the     *)
(* deadline, or most of it.                                                *)
PingPostgres(r) ==
  \/ Ping(r, "postgres", "scylla", "scylla")
  \/ /\ kind[r] = "health" /\ pc[r] = "connect" /\ PoolFull
     /\ Pinged(r, "postgres", FALSE, TRUE, "scylla")

PingScylla(r) == Ping(r, "scylla", "keydb", "keydb")
PingKeyDB(r) ==
  Ping(r, "keydb", IF ill[r] = {} THEN "healthy" ELSE "degraded", "degraded")

Handle(r) ==
  \/ Connect(r) \/ QueryPostgres(r) \/ WriteScylla(r) \/ UseKeyDB(r)
  \/ QueryRules(r) \/ RaiseAlerts(r)
  \/ PingPostgres(r) \/ PingScylla(r) \/ PingKeyDB(r)

-----------------------------------------------------------------------------
(* Shutdown                                                                *)

(* SIGINT or SIGTERM: kills a process that has not called Notify yet, and  *)
(* is lost in the channel's buffer once main no longer reads it.           *)
Signal ==
  \/ phase \in Opening /\ Exit
  \/ /\ phase = "serve" /\ phase' = "shutdown"
     /\ UNCHANGED <<up, handles, closed, requests, history>>

(* ListenAndServe ends with an error, at the start or later.               *)
ListenFails == phase = "serve" /\ Exit

Drained_AtOnce == TRUE

(* Shutdown waits until no handler runs.                                   *)
Drained == \A r \in Requests : ~Running(r)

Shutdown ==
  /\ phase = "shutdown" /\ Drained
  /\ phase' = "closeKeyDB"
  /\ UNCHANGED <<up, handles, closed, requests, history>>

ShutdownTimeout_WaitsOn ==
  phase = "shutdown" /\ Drained /\ Exit

(* After five seconds main gives up and exits without closing anything.    *)
ShutdownTimeout == phase = "shutdown" /\ Exit

Close(s) == closed' = closed \cup (handles \cap {s})
CloseNext(s, here, next) ==
  /\ phase = here /\ phase' = next
  /\ Close(s)
  /\ UNCHANGED <<up, handles, requests, history>>

CloseKeyDB    == CloseNext("keydb", "closeKeyDB", "closeScylla")
CloseScylla   == CloseNext("scylla", "closeScylla", "closePostgres")
ClosePostgres == phase = "closePostgres" /\ Close("postgres") /\ End("stopped")

Main ==
  \/ InitPostgres \/ InitScylla \/ InitKeyDB
  \/ Shutdown \/ ShutdownTimeout
  \/ CloseKeyDB \/ CloseScylla \/ ClosePostgres

Next ==
  \/ StartProcess \/ Main \/ Signal \/ ListenFails
  \/ \E r \in Requests, k \in Kinds : Accept(r, k)
  \/ \E r \in Requests : Handle(r)
  \/ \E s \in Stores : Flap(s)

(* Only main is scheduled fairly: a handler may hang in PostgreSQL.        *)
Spec == Init /\ [][Next]_vars /\ WF_vars(Main)
-----------------------------------------------------------------------------
(* Properties                                                              *)

Typed ==
  /\ up \in SUBSET Stores
  /\ phase \in Opening \cup Serving \cup Closing \cup Ended
  /\ handles \in SUBSET Stores /\ closed \in SUBSET handles
  /\ kind \in [Requests -> Kinds]
  /\ pc \in [Requests -> Calls \cup Answers]
  /\ spent \in [Requests -> Stores \cup {"none"}]
  /\ ill \in [Requests -> SUBSET Stores]
  /\ wasUp \in [Requests -> SUBSET Stores]
  /\ wasIll \in [Requests -> SUBSET Stores]

(* Type invariant; the pool lends no more connections than it has.         *)
TypeOK == Typed /\ Cardinality(Borrowed) <= MaxConns

(* No handler runs before PostgreSQL is opened or after any store is       *)
(* closed, though requests are still accepted during the shutdown; and a   *)
(* process that stopped in good order has closed all that it opened.       *)
StoresOutliveHandlers ==
  /\ (\E r \in Requests : Running(r)) => "postgres" \in handles /\ closed = {}
  /\ phase = "stopped" => closed = handles

(* The ping of s comes after one that used up the deadline.                *)
BlamedForAnother(r, s) ==
  \/ spent[r] = "postgres" /\ s \in {"scylla", "keydb"}
  \/ spent[r] = "scylla" /\ s = "keydb"

(* The report of GET /health: a store that is not called unhealthy was     *)
(* opened and answered at some moment before its ping ended, and one that  *)
(* is called unhealthy was at some such moment not open, unreachable or,   *)
(* being PostgreSQL, out of connections to others; or the slow ping of a   *)
(* store before it, which may itself have succeeded, left it no time.      *)
HealthIsTrue ==
  \A r \in Requests : kind[r] = "health" /\ pc[r] \in {"healthy", "degraded"} =>
    /\ pc[r] = "healthy" <=> ill[r] = {}
    /\ Stores \ ill[r] \subseteq wasUp[r]
    /\ \A s \in ill[r] : s \in wasIll[r] \/ BlamedForAnother(r, s)

(* After a signal the process ends, whatever hangs in its handlers.        *)
SignalStops == phase = "shutdown" ~> ~Alive
=============================================================================
