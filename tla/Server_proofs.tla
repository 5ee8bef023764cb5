---------------------------- MODULE Server_proofs ----------------------------
(***************************************************************************)
(* Proofs about Server for every number of handlers and every size of the  *)
(* connection pool.                                                        *)
(***************************************************************************)
EXTENDS Server, FiniteSetTheorems, TLAPS

-----------------------------------------------------------------------------
(* The inductive invariant                                                 *)

(* Handlers run only while main serves, over stores that are open.         *)
LifeOK ==
  /\ \A r \in Requests : Running(r) => phase \in Serving
  /\ phase \in {"openScylla", "openKeyDB"} \cup Serving \cup Closing =>
       "postgres" \in handles
  /\ phase \in Opening \cup Serving \cup {"closeKeyDB"} => closed = {}
  /\ phase = "closeScylla" => closed = handles \cap {"keydb"}
  /\ phase = "closePostgres" => closed = handles \cap {"keydb", "scylla"}
  /\ phase = "stopped" => closed = handles

(* What a health request knows at each of its pings, and of those behind   *)
(* it.                                                                     *)
Watched(r) ==
  /\ Answering \cap Unpinged(r) \subseteq wasUp[r]
  /\ Unwell(r) \cap Unpinged(r) \subseteq wasIll[r]

Reported(r) ==
  /\ (ill[r] \cup {spent[r]}) \cap Unpinged(r) = {}
  /\ Stores \ (ill[r] \cup Unpinged(r)) \subseteq wasUp[r]
  /\ \A s \in ill[r] : s \in wasIll[r] \/ BlamedForAnother(r, s)
  /\ pc[r] \in {"healthy", "degraded"} => (pc[r] = "healthy" <=> ill[r] = {})
  /\ pc[r] \notin {"connectAgain", "rules", "alerts"}

HealthAt(r) == kind[r] = "health" => Watched(r) /\ Reported(r)

HealthOK == \A r \in Requests : HealthAt(r)

-----------------------------------------------------------------------------
(* Types                                                                   *)

LEMMA ObserveType ==
  ASSUME Typed, Observe, up' \in SUBSET Stores, handles' \in SUBSET Stores
  PROVE  /\ wasUp' \in [Requests -> SUBSET Stores]
         /\ wasIll' \in [Requests -> SUBSET Stores]
<1>1. Answering' \subseteq Stores
  BY DEF Answering
<1>2. \A r \in Requests : Unwell(r)' \subseteq Stores
  BY DEF Unwell, Stores
<1> QED
  BY <1>1, <1>2 DEF Observe, Typed

LEMMA HandleType ==
  ASSUME Typed, NEW r \in Requests, Handle(r)
  PROVE  Typed'
<1> USE DEF Typed, main, requests, Goto, Calls, Answers, Kinds
<1>1. UNCHANGED <<up, main, kind>> /\ Observe
  BY DEF Handle, Connect, QueryPostgres, WriteScylla, UseKeyDB, QueryRules, RaiseAlerts,
         PingPostgres,          PingScylla, PingKeyDB, Ping, Pinged
<1>2. wasUp' \in [Requests -> SUBSET Stores] /\ wasIll' \in [Requests -> SUBSET Stores]
  BY <1>1, ObserveType
<1>3. ASSUME NEW s \in Stores, NEW ok \in BOOLEAN, NEW timeout \in BOOLEAN,
             NEW next \in Calls \cup Answers, Pinged(r, s, ok, timeout, next)
      PROVE  Typed'
  BY <1>1, <1>2, <1>3 DEF Pinged
<1>4. CASE \/ Connect(r) \/ QueryPostgres(r) \/ WriteScylla(r) \/ UseKeyDB(r)
           \/ QueryRules(r) \/ RaiseAlerts(r)
  BY <1>1, <1>2, <1>4 DEF Connect, QueryPostgres, WriteScylla, UseKeyDB,
     QueryRules, RaiseAlerts
<1>5. "postgres" \in Stores /\ "scylla" \in Stores /\ "keydb" \in Stores
  BY DEF Stores
<1>6. CASE PingPostgres(r)
  BY <1>3, <1>5, <1>6 DEF PingPostgres, Ping
<1>7. CASE PingScylla(r)
  BY <1>3, <1>5, <1>7 DEF PingScylla, Ping
<1>8. CASE PingKeyDB(r)
  BY <1>3, <1>5, <1>8 DEF PingKeyDB, Ping
<1> QED
  BY <1>4, <1>6, <1>7, <1>8 DEF Handle

LEMMA EndType ==
  ASSUME Typed, NEW how \in Ended, End(how), closed' \in SUBSET handles
  PROVE  Typed'
BY DEF Typed, End, Kinds, Answers

LEMMA TypeNext ==
  ASSUME Typed, LifeOK, [Next]_vars
  PROVE  Typed'
<1> USE DEF Typed, main, requests, history
<1>1. CASE StartProcess
  BY <1>1 DEF StartProcess, Opening
<1>2. ASSUME Exit PROVE Typed'
  BY <1>2, EndType DEF Exit, Ended
<1>3. CASE InitPostgres
  BY <1>2, <1>3 DEF InitPostgres, LifeOK, Opening, Stores
<1>4. CASE InitScylla \/ InitKeyDB
  BY <1>4 DEF InitScylla, InitKeyDB, OpenOptional, Opening, Serving, Stores
<1>5. CASE Shutdown \/ ShutdownTimeout
  BY <1>2, <1>5 DEF Shutdown, ShutdownTimeout, Closing
<1>6. CASE CloseKeyDB \/ CloseScylla
  BY <1>6 DEF CloseKeyDB, CloseScylla, CloseNext, Close, Closing
<1>7. CASE ClosePostgres
  <2>1. closed' \in SUBSET handles /\ End("stopped")
    BY <1>7 DEF ClosePostgres, Close
  <2> QED
    BY <2>1, EndType DEF Ended
<1>8. CASE Signal \/ ListenFails
  BY <1>2, <1>8 DEF Signal, ListenFails, Serving
<1>9. ASSUME NEW r \in Requests, NEW k \in Kinds, Accept(r, k)
      PROVE  Typed'
  <2>1. Answering \in SUBSET Stores /\ Unwell(r) \in SUBSET Stores
    BY DEF Answering, Unwell, Stores
  <2> QED
    BY <1>9, <2>1 DEF Accept, Goto, Calls
<1>10. ASSUME NEW r \in Requests, Handle(r)
       PROVE  Typed'
  BY <1>10, HandleType
<1>11. ASSUME NEW s \in Stores, Flap(s)
       PROVE  Typed'
  BY <1>11, ObserveType DEF Flap
<1>12. CASE UNCHANGED vars
  BY <1>12 DEF vars
<1> QED
  BY <1>1, <1>3, <1>4, <1>5, <1>6, <1>7, <1>8, <1>9, <1>10, <1>11, <1>12
     DEF Next, Main

-----------------------------------------------------------------------------
(* The pool                                                                *)

PoolOK == Cardinality(Borrowed) <= MaxConns

LEMMA BorrowedFinite ==
  ASSUME NEW S \in SUBSET Requests
  PROVE  IsFiniteSet(S) /\ Cardinality(S) \in Nat
BY ServerAssumption, FS_Subset, FS_CardinalityType

LEMMA FewerBorrowed ==
  ASSUME PoolOK, Borrowed' \subseteq Borrowed
  PROVE  PoolOK'
<1>1. Borrowed \in SUBSET Requests /\ Borrowed' \in SUBSET Requests
  BY DEF Borrowed
<1>2. Cardinality(Borrowed') <= Cardinality(Borrowed)
  BY <1>1, BorrowedFinite, FS_Subset
<1>3. Cardinality(Borrowed') \in Nat /\ Cardinality(Borrowed) \in Nat
  BY <1>1, BorrowedFinite
<1> QED
  BY <1>2, <1>3, ServerAssumption DEF PoolOK

LEMMA PoolNext ==
  ASSUME Typed, PoolOK, [Next]_vars
  PROVE  PoolOK'
<1>1. ASSUME NEW r \in Requests, Connect(r)
      PROVE  PoolOK'
  <2>1. Borrowed' = Borrowed \cup {r}
    BY <1>1 DEF Connect, Borrowed, Goto, Typed
  <2>2. IsFiniteSet(Borrowed) /\ Cardinality(Borrowed) \in Nat
    BY BorrowedFinite DEF Borrowed
  <2>3. Cardinality(Borrowed) < MaxConns
    BY <1>1, <2>2, ServerAssumption DEF Connect, PoolFull
  <2>4. r \notin Borrowed
    BY <1>1 DEF Connect, Borrowed
  <2>5. Cardinality(Borrowed') = Cardinality(Borrowed) + 1
    BY <2>1, <2>2, <2>4, FS_AddElement
  <2> QED
    BY <2>2, <2>3, <2>5, ServerAssumption DEF PoolOK
<1>2. ASSUME \A r \in Requests :
               pc'[r] \in {"postgres", "rules"} => pc[r] \in {"postgres", "rules"}
      PROVE  PoolOK'
  BY <1>2, FewerBorrowed DEF Borrowed
<1>3. ASSUME NEW r \in Requests, Handle(r), ~Connect(r)
      PROVE  PoolOK'
  <2>1. PICK l \in {"answered", "scylla", "keydb", "connectAgain", "alerts",
                    "healthy", "degraded"} : Goto(r, l)
    BY <1>3 DEF Handle, QueryPostgres, WriteScylla, UseKeyDB, QueryRules,
                RaiseAlerts, PingPostgres, PingScylla, PingKeyDB, Ping, Pinged
  <2> QED
    BY <1>2, <2>1 DEF Goto, Typed
<1>4. ASSUME NEW r \in Requests, NEW k \in Kinds, Accept(r, k)
      PROVE  PoolOK'
  BY <1>2, <1>4 DEF Accept, Goto, Typed
<1>5. ASSUME NEW how, End(how) PROVE PoolOK'
  BY <1>2, <1>5 DEF End
<1>6. CASE UNCHANGED pc
  BY <1>2, <1>6
<1>7. CASE StartProcess \/ Main \/ Signal \/ ListenFails
  BY <1>5, <1>6, <1>7 DEF StartProcess, Main, InitPostgres, InitScylla, InitKeyDB,
     OpenOptional, Shutdown, ShutdownTimeout, CloseKeyDB, CloseScylla, CloseNext,
     ClosePostgres, Exit, Signal, ListenFails, requests
<1>8. ASSUME NEW s \in Stores, Flap(s)
      PROVE  PoolOK'
  BY <1>6, <1>8 DEF Flap, requests
<1>9. CASE UNCHANGED vars
  BY <1>6, <1>9 DEF vars, requests
<1> QED
  BY <1>1, <1>3, <1>4, <1>7, <1>8, <1>9 DEF Next

-----------------------------------------------------------------------------
(* The life of the process                                                 *)

LEMMA LifeNext ==
  ASSUME Typed, LifeOK, [Next]_vars
  PROVE  LifeOK'
<1> USE DEF LifeOK, Typed, main, requests, history
<1>1. ASSUME UNCHANGED <<main, pc>>
      PROVE  LifeOK'
  BY <1>1 DEF Running
<1>2. ASSUME NEW how \in {"failed", "stopped"}, End(how),
             how = "stopped" => closed' = handles
      PROVE  LifeOK'
  BY <1>2 DEF End, Running, Calls, Opening, Serving, Closing
<1>3. ASSUME Exit PROVE LifeOK'
  BY <1>2, <1>3 DEF Exit
<1>4. CASE StartProcess
  BY <1>4 DEF StartProcess, Running, Ended, Opening, Serving, Closing
<1>5. CASE InitPostgres
  BY <1>3, <1>5 DEF InitPostgres, Running, Opening, Serving, Closing
<1>6. CASE InitScylla \/ InitKeyDB
  BY <1>6 DEF InitScylla, InitKeyDB, OpenOptional, Running, Opening, Serving, Closing
<1>7. CASE Shutdown \/ ShutdownTimeout
  BY <1>3, <1>7 DEF Shutdown, ShutdownTimeout, Drained, Running, Opening, Serving, Closing
<1>8. CASE CloseKeyDB \/ CloseScylla
  BY <1>8 DEF CloseKeyDB, CloseScylla, CloseNext, Close, Running, Opening, Serving, Closing
<1>9. CASE ClosePostgres
  <2>1. closed' = handles
    BY <1>9 DEF ClosePostgres, Close, Closing, Stores
  <2> QED
    BY <1>2, <1>9, <2>1 DEF ClosePostgres
<1>10. CASE Signal \/ ListenFails
  BY <1>3, <1>10 DEF Signal, ListenFails, Running, Opening, Serving, Closing
<1>11. ASSUME NEW r \in Requests, NEW k \in Kinds, Accept(r, k)
       PROVE  LifeOK'
  BY <1>11 DEF Accept, Goto, Running
<1>12. ASSUME NEW r \in Requests, Handle(r)
       PROVE  LifeOK'
  <2>1. UNCHANGED main /\ Running(r) /\ \E l : Goto(r, l)
    BY <1>12 DEF Handle, Connect, QueryPostgres, WriteScylla, UseKeyDB, QueryRules, RaiseAlerts,
       PingPostgres, PingScylla, PingKeyDB, Ping, Pinged, Running, Calls
  <2> QED
    BY <2>1 DEF Goto, Running
<1>13. ASSUME NEW s \in Stores, Flap(s)
       PROVE  LifeOK'
  BY <1>1, <1>13 DEF Flap
<1>14. CASE UNCHANGED vars
  BY <1>1, <1>14 DEF vars
<1> QED
  BY <1>4, <1>5, <1>6, <1>7, <1>8, <1>9, <1>10, <1>11, <1>12, <1>13, <1>14
     DEF Next, Main

-----------------------------------------------------------------------------
(* Health                                                                  *)

(* A request that does not step keeps what it knows, and sees the stores.  *)
LEMMA OtherHealth ==
  ASSUME Typed, Typed', Observe, NEW r \in Requests, HealthAt(r),
         kind'[r] = kind[r], pc'[r] = pc[r], ill'[r] = ill[r], spent'[r] = spent[r]
  PROVE  HealthAt(r)'
<1> SUFFICES ASSUME kind[r] = "health" PROVE HealthAt(r)'
  BY DEF HealthAt
<1>1. Unpinged(r)' = Unpinged(r)
  BY DEF Unpinged
<1>2. /\ wasUp'[r] = (wasUp[r] \cup (Answering' \cap Unpinged(r))) \ ill[r]
      /\ wasIll'[r] = (wasIll[r] \cap ill[r])
           \cup ((wasIll[r] \cup Unwell(r)') \cap Unpinged(r))
  BY <1>1 DEF Observe
<1>3. Reported(r)'
  BY <1>1, <1>2 DEF HealthAt, Reported, BlamedForAnother
<1>4. Watched(r)'
  BY <1>1, <1>2 DEF HealthAt, Reported, Watched
<1> QED
  BY <1>3, <1>4 DEF HealthAt

(* The store that a health request pings next, and where it goes then.     *)
Target(r) ==
  CASE pc[r] \in {"connect", "postgres"} -> "postgres"
    [] pc[r] = "scylla"                  -> "scylla"
    [] OTHER                             -> "keydb"
After(r, ok) ==
  CASE Target(r) = "postgres" -> "scylla"
    [] Target(r) = "scylla"   -> "keydb"
    [] OTHER -> IF ok /\ ill[r] = {} THEN "healthy" ELSE "degraded"

(* Every ping reports what was so, or was left no time.                    *)
LEMMA PingCases ==
  ASSUME NEW r \in Requests, PingPostgres(r) \/ PingScylla(r) \/ PingKeyDB(r)
  PROVE  /\ kind[r] = "health" /\ Unpinged(r) # {}
         /\ \E ok, slow \in BOOLEAN :
              /\ Pinged(r, Target(r), ok, slow, After(r, ok))
              /\ ok => Target(r) \in Answering
              /\ ~ok => Target(r) \notin Answering \/ ~OnTime(r)
                         \/ (Target(r) = "postgres" /\ pc[r] = "connect" /\ PoolFull)
              /\ slow => OnTime(r) \/ pc[r] = "connect"
<1> USE DEF Target, After, Unpinged, Answering, Stores
<1>1. CASE PingPostgres(r)
  BY <1>1 DEF PingPostgres, Ping
<1>2. CASE PingScylla(r)
  BY <1>2 DEF PingScylla, Ping
<1>3. CASE PingKeyDB(r)
  BY <1>3 DEF PingKeyDB, Ping
<1> QED BY <1>1, <1>2, <1>3

LEMMA PingHealth ==
  ASSUME Typed, Typed', NEW r \in Requests, HealthAt(r),
         PingPostgres(r) \/ PingScylla(r) \/ PingKeyDB(r)
  PROVE  HealthAt(r)'
<1> DEFINE s == Target(r)
<1>1. PICK ok \in BOOLEAN, slow \in BOOLEAN :
        /\ Pinged(r, s, ok, slow, After(r, ok))
        /\ ok => s \in Answering
        /\ ~ok => s \notin Answering \/ ~OnTime(r)
                   \/ (s = "postgres" /\ pc[r] = "connect" /\ PoolFull)
        /\ slow => OnTime(r) \/ pc[r] = "connect"
  BY PingCases
<1>2. kind[r] = "health" /\ kind'[r] = "health" /\ Watched(r) /\ Reported(r)
  BY <1>1, PingCases DEF Pinged, HealthAt
<1>3. /\ s \in Unpinged(r) /\ s \in Stores
      /\ Unpinged(r)' = Unpinged(r) \ {s}
  BY <1>1, <1>2, PingCases DEF Pinged, Goto, Target, After, Unpinged, Stores, Typed
<1>4. /\ ill'[r] = IF ok THEN ill[r] ELSE ill[r] \cup {s}
      /\ spent'[r] = IF slow THEN s ELSE spent[r]
      /\ pc'[r] = After(r, ok)
  BY <1>1 DEF Pinged, Goto, Typed
<1>5. s = "postgres" /\ pc[r] = "connect" /\ PoolFull => s \in Unwell(r)
  <2>1. pc[r] = "connect" => Borrowed \ {r} = Borrowed
    BY DEF Borrowed
  <2> QED
    BY <2>1 DEF PoolFull, Crowded, Unwell
<1>6. ~OnTime(r) => spent[r] \in Stores \ Unpinged(r)
  BY <1>2 DEF Reported, OnTime, Typed
<1>7. ~OnTime(r) => BlamedForAnother(r, s)
  BY <1>2, <1>3, <1>6 DEF BlamedForAnother, Unpinged, Target, Stores
<1>8. ok => s \in wasUp[r]
  BY <1>1, <1>2, <1>3 DEF Watched
<1>9. ~ok => s \in wasIll[r] \/ BlamedForAnother(r, s)
  BY <1>1, <1>2, <1>3, <1>5, <1>7 DEF Watched, Unwell
<1>10. /\ wasUp'[r] = (wasUp[r] \cup (Answering' \cap Unpinged(r)')) \ ill'[r]
       /\ wasIll'[r] = (wasIll[r] \cap ill'[r])
            \cup ((wasIll[r] \cup Unwell(r)') \cap Unpinged(r)')
  BY <1>1 DEF Pinged, Observe
<1>11. (ill'[r] \cup {spent'[r]}) \cap Unpinged(r)' = {}
  BY <1>2, <1>3, <1>4 DEF Reported
<1>12. Watched(r)'
  BY <1>10, <1>11 DEF Watched
<1>13. ASSUME NEW t \in Stores, BlamedForAnother(r, t)
       PROVE  BlamedForAnother(r, t)'
  <2>1. ~OnTime(r)
    BY <1>13 DEF BlamedForAnother, OnTime
  <2>2. pc[r] # "connect"
    BY <2>1, <1>2, <1>6 DEF Unpinged
  <2> QED
    BY <1>1, <1>4, <1>13, <2>1, <2>2 DEF BlamedForAnother
<1>14. \A t \in ill'[r] : t \in wasIll'[r] \/ BlamedForAnother(r, t)'
  <2> SUFFICES ASSUME NEW t \in ill'[r]
               PROVE  t \in wasIll'[r] \/ BlamedForAnother(r, t)'
    OBVIOUS
  <2>1. t \in wasIll[r] \/ BlamedForAnother(r, t)
    BY <1>2, <1>4, <1>9 DEF Reported
  <2>2. t \in Stores
    BY DEF Typed
  <2> QED
    BY <1>10, <1>13, <2>1, <2>2
<1>15. Stores \ (ill'[r] \cup Unpinged(r)') \subseteq wasUp'[r]
  BY <1>2, <1>3, <1>4, <1>8, <1>10 DEF Reported
<1>16. pc'[r] \in {"healthy", "degraded"} => (pc'[r] = "healthy" <=> ill'[r] = {})
  BY <1>4 DEF After
<1>17. pc'[r] \notin {"connectAgain", "rules", "alerts"}
  BY <1>4 DEF After
<1> QED
  BY <1>11, <1>12, <1>14, <1>15, <1>16, <1>17 DEF HealthAt, Reported

LEMMA HealthNext ==
  ASSUME Typed, Typed', LifeOK, HealthOK, [Next]_vars
  PROVE  HealthOK'
<1> USE DEF main, requests, history
<1>1. ASSUME NEW r \in Requests, Handle(r)
      PROVE  HealthOK'
  <2>1. Observe /\ UNCHANGED kind
    BY <1>1 DEF Handle, Connect, QueryPostgres, WriteScylla, UseKeyDB, QueryRules, RaiseAlerts,
         PingPostgres,                 PingScylla, PingKeyDB, Ping, Pinged
  <2>2. \A s \in Requests \ {r} :
          pc'[s] = pc[s] /\ ill'[s] = ill[s] /\ spent'[s] = spent[s]
    BY <1>1 DEF Handle, Connect, QueryPostgres, WriteScylla, UseKeyDB, QueryRules, RaiseAlerts,
         PingPostgres,                 PingScylla, PingKeyDB, Ping, Pinged, Goto, Typed
  <2>3. \A s \in Requests \ {r} : HealthAt(s)'
    BY <2>1, <2>2, OtherHealth DEF HealthOK
  <2>4. CASE Connect(r)
    <3>1. HealthAt(r) /\ UNCHANGED <<ill, spent>>
      BY <2>4 DEF Connect, HealthOK
    <3>2. kind[r] = "health" => pc[r] = "connect" /\ pc'[r] = "postgres"
      BY <2>4, <3>1 DEF Connect, Goto, Typed, HealthAt, Reported
    <3>3. kind[r] = "health" => Unpinged(r) = Stores /\ Unpinged(r)' = Stores
      BY <2>1, <3>2 DEF Unpinged
    <3>4. kind[r] = "health" => ill[r] = {} /\ spent[r] = "none"
      BY <3>1, <3>3 DEF HealthAt, Reported, Typed
    <3>5. kind[r] = "health" => Watched(r)'
      BY <2>1, <3>1, <3>3, <3>4 DEF Observe, Watched
    <3>6. kind[r] = "health" => Reported(r)'
      BY <3>1, <3>2, <3>3, <3>4 DEF Reported, Stores
    <3>7. HealthAt(r)'
      BY <2>1, <3>5, <3>6 DEF HealthAt
    <3> QED
      BY <2>3, <3>7 DEF HealthOK
  <2>5. CASE \/ QueryPostgres(r) \/ WriteScylla(r) \/ UseKeyDB(r)
             \/ QueryRules(r) \/ RaiseAlerts(r)
    <3>1. kind[r] # "health"
      BY <2>5 DEF QueryPostgres, WriteScylla, UseKeyDB, QueryRules, RaiseAlerts,
                  HealthOK, HealthAt, Reported
    <3> QED
      BY <2>1, <2>3, <3>1 DEF HealthOK, HealthAt
  <2>6. CASE PingPostgres(r) \/ PingScylla(r) \/ PingKeyDB(r)
    BY <2>3, <2>6, PingHealth DEF HealthOK
  <2> QED
    BY <1>1, <2>4, <2>5, <2>6 DEF Handle
<1>2. ASSUME NEW r \in Requests, NEW k \in Kinds, Accept(r, k)
      PROVE  HealthOK'
  <2>1. /\ kind'[r] = k /\ pc'[r] = "connect" /\ ill'[r] = {} /\ spent'[r] = "none"
        /\ k = "health" => wasUp'[r] = Answering /\ wasIll'[r] = Unwell(r)
    BY <1>2 DEF Accept, Goto, Typed
  <2>2. \A s \in Requests \ {r} :
          /\ kind'[s] = kind[s] /\ pc'[s] = pc[s] /\ ill'[s] = ill[s]
          /\ spent'[s] = spent[s] /\ wasUp'[s] = wasUp[s] /\ wasIll'[s] = wasIll[s]
    BY <1>2 DEF Accept, Goto, Typed
  <2>3. Borrowed' = Borrowed
    BY <1>2, <2>1, <2>2 DEF Accept, Borrowed, Running, Calls
  <2>4. Answering' = Answering /\ \A s \in Requests : Unwell(s)' = Unwell(s)
    BY <1>2, <2>3 DEF Accept, Answering, Unwell, Crowded
  <2>5. HealthAt(r)'
    BY <2>1, <2>4 DEF HealthAt, Watched, Reported, Unpinged, Stores
  <2>6. \A s \in Requests \ {r} : HealthAt(s)'
    BY <2>2, <2>4 DEF HealthOK, HealthAt, Watched, Reported, Unpinged, BlamedForAnother
  <2> QED
    BY <2>5, <2>6 DEF HealthOK
<1>3. ASSUME NEW s \in Stores, Flap(s)
      PROVE  HealthOK'
  BY <1>3, OtherHealth DEF Flap, HealthOK
<1>4. ASSUME NEW how, End(how) PROVE HealthOK'
  BY <1>4 DEF End, HealthOK, HealthAt
<1>5. ASSUME UNCHANGED <<up, handles, requests, history>>
      PROVE  HealthOK'
  <2>1. Answering' = Answering /\ \A s \in Requests : Unwell(s)' = Unwell(s)
    BY <1>5 DEF Answering, Unwell, Crowded, Borrowed
  <2> QED
    BY <1>5, <2>1 DEF HealthOK, HealthAt, Watched, Reported, Unpinged, BlamedForAnother
<1>6. ASSUME phase \notin Serving, UNCHANGED <<requests, history>>
      PROVE  HealthOK'
  <2>1. \A r \in Requests : ~Running(r)
    BY <1>6 DEF LifeOK
  <2> QED
    BY <1>6, <2>1 DEF HealthOK, HealthAt, Watched, Reported, Unpinged,
                      BlamedForAnother, Running, Calls
<1>7. CASE StartProcess \/ Main \/ Signal \/ ListenFails
  BY <1>4, <1>5, <1>6, <1>7 DEF StartProcess, Main, InitPostgres, InitScylla, InitKeyDB,
     OpenOptional, Shutdown, ShutdownTimeout, CloseKeyDB, CloseScylla, CloseNext,
     ClosePostgres, Exit, Signal, ListenFails, Serving, Ended
<1>8. CASE UNCHANGED vars
  BY <1>5, <1>8 DEF vars
<1> QED
  BY <1>1, <1>2, <1>3, <1>7, <1>8 DEF Next

-----------------------------------------------------------------------------
ServerInv == Typed /\ PoolOK /\ LifeOK /\ HealthOK

LEMMA ServerInit == Init => ServerInv
<1> SUFFICES ASSUME Init PROVE ServerInv
  OBVIOUS
<1>1. Typed
  BY DEF Init, Typed, Ended, Kinds, Answers
<1>2. Borrowed = {}
  BY DEF Init, Borrowed
<1>3. PoolOK
  BY <1>2, FS_EmptySet, ServerAssumption DEF PoolOK
<1>4. LifeOK
  BY DEF Init, LifeOK, Running, Calls, Opening, Serving, Closing
<1>5. HealthOK
  BY DEF Init, HealthOK, HealthAt
<1> QED
  BY <1>1, <1>3, <1>4, <1>5 DEF ServerInv

LEMMA ServerNext == ServerInv /\ [Next]_vars => ServerInv'
BY TypeNext, PoolNext, LifeNext, HealthNext DEF ServerInv

(* The state of the process always has its type, and PostgreSQL's pool     *)
(* never lends more connections than DB_MAX_CONNS.                         *)
THEOREM Typing == Spec => []TypeOK
<1>1. ServerInv => TypeOK
  BY DEF ServerInv, PoolOK, TypeOK
<1> QED BY <1>1, ServerInit, ServerNext, PTL DEF Spec

(* No handler meets a store that is not open yet or closed again, and an   *)
(* orderly stop closes every store that was opened.                        *)
THEOREM Outliving == Spec => []StoresOutliveHandlers
<1>1. ServerInv => StoresOutliveHandlers
  BY DEF ServerInv, LifeOK, StoresOutliveHandlers
<1> QED BY <1>1, ServerInit, ServerNext, PTL DEF Spec

(* GET /health clears only stores that answered, and blames only stores    *)
(* that did not, or that an earlier store's slow ping left no time.        *)
THEOREM TrueHealth == Spec => []HealthIsTrue
<1>1. ServerInv => HealthIsTrue
  BY DEF ServerInv, HealthOK, HealthAt, Reported, Unpinged, HealthIsTrue
<1> QED BY <1>1, ServerInit, ServerNext, PTL DEF Spec
=============================================================================
