--------------------------- MODULE Dashboard_proofs ---------------------------
(***************************************************************************)
(* Proofs about Dashboard, with the keys of KeyCounters and the walks of   *)
(* DevicePages, for all devices, clients, traffics, faults and TTLs.       *)
(***************************************************************************)
EXTENDS Dashboard, DevicePages_proofs

-----------------------------------------------------------------------------
(* Steps as those of the two modules it is composed of                     *)

LEMMA StepOfCounters ==
  ASSUME [Next]_vars
  PROVE  Write \/ AgeKeys \/ UNCHANGED counterVars
<1>1. CASE UNCHANGED vars
  BY <1>1 DEF vars
<1>2. CASE Tick
  BY <1>2 DEF Tick
<1> QED BY <1>1, <1>2 DEF Next

LEMMA StepOfPages ==
  ASSUME traffic \in Traffics, [Next]_vars
  PROVE  [Walk \/ Churn]_pageVars
<1>1. CASE UNCHANGED vars
  BY <1>1 DEF vars
<1>2. CASE Tick
  BY <1>2 DEF Tick
<1>3. CASE ChangeDevices
  BY <1>3, DashboardAssumption DEF ChangeDevices, Churn
<1>4. ASSUME NEW w \in traffic.walk, List(w) \/ \E n \in Limits : BeginWalk(w, n)
      PROVE  Walk
  BY <1>4, DashboardAssumption DEF Walk
<1> QED BY <1>1, <1>2, <1>3, <1>4 DEF Next

-----------------------------------------------------------------------------
(* The keys of KeyCounters                                                 *)

LEMMA Ticks ==
  /\ OnlineTTL \in Nat /\ SetTTL \in Nat /\ CountTTL \in Nat /\ Forever \in Nat
  /\ 0 < OnlineTTL /\ OnlineTTL <= SetTTL /\ 0 < CountTTL
  /\ SetTTL < Forever /\ CountTTL < Forever
  /\ MaxQuiet \in Nat
BY KeyCountersAssumption DEF Forever

(* A TTL stays a TTL when a tick passes, EXPIRE renews it or a command     *)
(* creates its key.                                                        *)
TicksUpTo(n) == 0 .. n \cup {Forever}

LEMMA Lefts ==
  ASSUME NEW n \in Nat, n < Forever, NEW t \in TicksUpTo(n)
  PROVE  /\ Left(t) \in TicksUpTo(n)
         /\ Renewed(t, n) \in TicksUpTo(n)
         /\ Created(t) \in TicksUpTo(n)
         /\ t = 1 <=> (Left(t) = 0 /\ t # 0)
         /\ n > 0 => (Renewed(t, n) = 0 <=> t = 0)
         /\ Created(t) # 0
         /\ Left(t) = Forever <=> t = Forever
         /\ Renewed(t, n) # Forever
BY Ticks DEF TicksUpTo, Left, Renewed, Created

LEMMA LeftInts ==
  ASSUME CountersTyped
  PROVE  /\ setLeft \in TicksUpTo(SetTTL)
         /\ totalLeft \in TicksUpTo(CountTTL)
         /\ \A d \in Devices : countLeft[d] \in TicksUpTo(CountTTL)
BY DEF CountersTyped, TicksUpTo

LEMMA TypedWrite ==
  ASSUME CountersTyped, KeysOK, Write
  PROVE  CountersTyped' /\ KeysOK'
<1> USE DEF CountersTyped, KeysOK, presence, counters, Goto
<1>1. ASSUME NEW r \in Requests, NEW d \in Devices,
             SetOnlineStatus(r, d) \/ IncrAlertCount(r, d)
      PROVE  CountersTyped' /\ KeysOK'
  BY <1>1 DEF SetOnlineStatus, IncrAlertCount, Send, Commands, Beating, Counting
<1>2. ASSUME NEW r \in Requests, Set(r)
      PROVE  CountersTyped' /\ KeysOK'
  BY <1>2, Ticks DEF Set, Commands, Beating
<1>3. ASSUME NEW r \in Requests, SAdd(r)
      PROVE  CountersTyped' /\ KeysOK'
  <2>1. Created(setLeft) \in TicksUpTo(SetTTL) /\ Created(setLeft) # 0
    BY Lefts, Ticks, LeftInts
  <2> QED BY <1>3, <2>1, Ticks DEF SAdd, Commands, Beating, TicksUpTo
<1>4. ASSUME NEW r \in Requests, ExpireSet(r)
      PROVE  CountersTyped' /\ KeysOK'
  <2>1. /\ Renewed(setLeft, SetTTL) \in TicksUpTo(SetTTL)
        /\ Renewed(setLeft, SetTTL) = 0 <=> setLeft = 0
    BY Lefts, Ticks, LeftInts
  <2> QED BY <1>4, <2>1, Ticks DEF ExpireSet, TicksUpTo
<1>5. ASSUME NEW r \in Requests, Incr(r)
      PROVE  CountersTyped' /\ KeysOK'
  <2>1. \A d \in Devices : Created(countLeft[d]) \in TicksUpTo(CountTTL)
                           /\ Created(countLeft[d]) # 0
    BY Lefts, Ticks, LeftInts
  <2> QED BY <1>5, <2>1 DEF Incr, Commands, Counting, TicksUpTo
<1>6. ASSUME NEW r \in Requests, ExpireCount(r)
      PROVE  CountersTyped' /\ KeysOK'
  <2>1. \A d \in Devices : /\ Renewed(countLeft[d], CountTTL) \in TicksUpTo(CountTTL)
                           /\ Renewed(countLeft[d], CountTTL) = 0 <=> countLeft[d] = 0
    BY Lefts, Ticks, LeftInts
  <2> QED BY <1>6, <2>1 DEF ExpireCount, Commands, Counting, TicksUpTo
<1>7. ASSUME NEW r \in Requests, IncrGlobal(r)
      PROVE  CountersTyped' /\ KeysOK'
  <2>1. Created(totalLeft) \in TicksUpTo(CountTTL) /\ Created(totalLeft) # 0
    BY Lefts, Ticks, LeftInts
  <2> QED BY <1>7, <2>1 DEF IncrGlobal, Commands, Counting, TicksUpTo
<1>8. ASSUME NEW r \in Requests, ExpireGlobal(r)
      PROVE  CountersTyped' /\ KeysOK'
  <2>1. /\ Renewed(totalLeft, CountTTL) \in TicksUpTo(CountTTL)
        /\ Renewed(totalLeft, CountTTL) = 0 <=> totalLeft = 0
    BY Lefts, Ticks, LeftInts
  <2> QED BY <1>8, <2>1 DEF ExpireGlobal, TicksUpTo
<1>9. ASSUME NEW r \in Requests, Lose(r)
      PROVE  CountersTyped' /\ KeysOK'
  <2>1. BeatOpen(r) \in BOOLEAN /\ CountOpen(r) \in BOOLEAN
    BY DEF BeatOpen, CountOpen
  <2>2. pc' \in [Requests -> Commands \cup {"idle"}]
    BY <1>9 DEF Lose, Commands, Beating, Counting
  <2> QED BY <1>9, <2>1, <2>2 DEF Lose
<1>10. ASSUME NEW d \in Devices, InvalidateDeviceAll(d)
       PROVE  CountersTyped' /\ KeysOK'
  BY <1>10, Ticks DEF InvalidateDeviceAll
<1> QED
  BY <1>1, <1>2, <1>3, <1>4, <1>5, <1>6, <1>7, <1>8, <1>9, <1>10 DEF Write, Command

LEMMA TypedTick ==
  ASSUME CountersTyped, KeysOK, AgeKeys
  PROVE  CountersTyped' /\ KeysOK'
<1> USE DEF CountersTyped, KeysOK
<1>1. /\ Left(setLeft) \in TicksUpTo(SetTTL)
      /\ setLeft = 1 <=> (Left(setLeft) = 0 /\ setLeft # 0)
      /\ Left(totalLeft) \in TicksUpTo(CountTTL)
      /\ totalLeft = 1 <=> (Left(totalLeft) = 0 /\ totalLeft # 0)
  BY Lefts, Ticks, LeftInts
<1>2. \A d \in Devices :
        /\ Left(countLeft[d]) \in TicksUpTo(CountTTL)
        /\ countLeft[d] = 1 <=> (Left(countLeft[d]) = 0 /\ countLeft[d] # 0)
  BY Lefts, Ticks, LeftInts
<1>3. \A d \in Devices : Left(online[d]) \in 0 .. OnlineTTL
  BY Ticks DEF Left
<1>4. setLeft = 0 => Left(setLeft) = 0
  BY DEF Left
<1>5. totalLeft = 0 => Left(totalLeft) = 0
  BY DEF Left
<1>6. \A d \in Devices : countLeft[d] = 0 => Left(countLeft[d]) = 0
  BY DEF Left
<1>7. /\ online' \in [Devices -> 0 .. OnlineTTL]
      /\ setLeft' \in 0 .. SetTTL \cup {Forever}
      /\ countLeft' \in [Devices -> 0 .. CountTTL \cup {Forever}]
      /\ totalLeft' \in 0 .. CountTTL \cup {Forever}
  BY <1>1, <1>2, <1>3 DEF AgeKeys, TicksUpTo
<1>8. /\ members' \in SUBSET Devices
      /\ count' \in [Devices -> Nat] /\ total' \in Nat
      /\ quiet' \in 0 .. MaxQuiet
      /\ UNCHANGED <<traffic, pc, dev>>
  BY Ticks DEF AgeKeys
<1>9. torn' \in [Devices -> BOOLEAN] /\ split' \in BOOLEAN
  BY Zenon DEF AgeKeys
<1>10. KeysOK'
  <2>1. setLeft' = 0 <=> members' = {}
    BY <1>1, <1>4 DEF AgeKeys
  <2>2. \A d \in Devices : countLeft'[d] = 0 <=> count'[d] = 0
    BY <1>2, <1>6 DEF AgeKeys
  <2>3. totalLeft' = 0 <=> total' = 0
    BY <1>1, <1>5 DEF AgeKeys
  <2> QED BY <2>1, <2>2, <2>3
<1> QED BY <1>7, <1>8, <1>9, <1>10

LEMMA TypedInit == CountersInit => CountersTyped /\ KeysOK
<1> SUFFICES ASSUME CountersInit PROVE CountersTyped /\ KeysOK
  OBVIOUS
<1>1. (CHOOSE d \in Devices : TRUE) \in Devices
  BY KeyCountersAssumption
<1>2. dev \in [Requests -> Devices]
  BY <1>1 DEF CountersInit
<1>3. /\ traffic \in Traffics
      /\ online \in [Devices -> 0 .. OnlineTTL]
      /\ members = {} /\ setLeft = 0 /\ total = 0 /\ totalLeft = 0
      /\ count \in [Devices -> Nat]
      /\ countLeft \in [Devices -> 0 .. CountTTL \cup {Forever}]
      /\ \A d \in Devices : count[d] = 0 /\ countLeft[d] = 0
      /\ pc \in [Requests -> Commands \cup {"idle"}]
      /\ quiet \in 0 .. MaxQuiet
  BY Ticks DEF CountersInit
<1>4. torn \in [Devices -> BOOLEAN] /\ split \in BOOLEAN
  BY Zenon DEF CountersInit
<1> QED BY <1>2, <1>3, <1>4, Ticks DEF CountersTyped, KeysOK

-----------------------------------------------------------------------------
(* Presence and alert counters                                             *)

BeatIsOpen(d) == \E r \in Requests : BeatOpen(r) /\ dev[r] = d

(* The set outlives the online key of every member whose heartbeat got     *)
(* through, and a heartbeat whose device is missing before its last        *)
(* command has met an expiry.                                              *)
Covered ==
  \A d \in Devices : online[d] > 0 =>
    \/ d \in members /\ setLeft >= online[d]
    \/ torn[d]
    \/ BeatIsOpen(d)

TornOK ==
  \A r \in Requests : pc[r] = "expireSet" => dev[r] \in members \/ torn[dev[r]]

(* The set without TTL, and the TTL otherwise, by the last heartbeat.      *)
LooseSet ==
  setLeft = Forever =>
    \/ \E r \in Requests : pc[r] = "expireSet"
    \/ \E d \in Devices : torn[d]
LooseCounts ==
  /\ \A d \in Devices : countLeft[d] = Forever =>
       split \/ \E r \in Requests : pc[r] = "expire" /\ dev[r] = d
  /\ totalLeft = Forever =>
       split \/ \E r \in Requests : pc[r] = "expireAll"
Fits(age, left, n) == age + left <= n
SetAges == setLeft # 0 /\ setLeft # Forever => Fits(quiet, setLeft, SetTTL)

KeysInv ==
  /\ CountersTyped /\ KeysOK
  /\ IsFiniteSet(members)
  /\ Covered /\ TornOK
  /\ LooseSet /\ LooseCounts
  /\ SetAges

LEMMA FiniteMembers ==
  ASSUME KeysInv, Write \/ AgeKeys
  PROVE  IsFiniteSet(members')
<1>1. ASSUME NEW r \in Requests, SAdd(r)
      PROVE  IsFiniteSet(members')
  BY <1>1, FS_AddElement DEF KeysInv, SAdd
<1>2. CASE members' = members
  BY <1>2 DEF KeysInv
<1>3. CASE AgeKeys
  BY <1>3, FS_EmptySet DEF AgeKeys, KeysInv
<1> QED
  BY <1>1, <1>2, <1>3 DEF Write, Command, SetOnlineStatus, IncrAlertCount, Send,
     presence, Set, ExpireSet, Incr, ExpireCount, IncrGlobal, ExpireGlobal,
     Lose, InvalidateDeviceAll

LEMMA Fresh ==
  ASSUME NEW n \in Nat
  PROVE  Fits(0, n, n)
BY DEF Fits

LEMMA Older ==
  ASSUME NEW q \in Nat, NEW p \in Nat, NEW s \in Nat, NEW t \in Nat, NEW n \in Nat,
         Fits(q, s, n), t = s - 1, p <= q + 1
  PROVE  Fits(p, t, n)
BY DEF Fits

(* Commands and requests that leave the presence keys alone.               *)
LEMMA PresenceKept ==
  ASSUME KeysInv, CountersTyped',
         UNCHANGED presence,
         \A r \in Requests : BeatOpen(r) <=> BeatOpen(r)',
         \A r \in Requests : pc[r] = "expireSet" <=> pc'[r] = "expireSet",
         \A r \in Requests : BeatOpen(r) => dev'[r] = dev[r]
  PROVE  Covered' /\ TornOK' /\ LooseSet' /\ SetAges'
<1> USE DEF KeysInv, presence
<1>1. Covered'
  BY DEF Covered, BeatIsOpen
<1>2. TornOK'
  BY DEF TornOK, BeatOpen, Beating
<1>3. LooseSet' /\ SetAges'
  BY DEF LooseSet, SetAges
<1> QED BY <1>1, <1>2, <1>3

LEMMA PresenceWrite ==
  ASSUME KeysInv, CountersTyped', Write
  PROVE  Covered' /\ TornOK' /\ LooseSet' /\ SetAges'
<1> DEFINE Goal == Covered' /\ TornOK' /\ LooseSet' /\ SetAges'
<1> USE DEF KeysInv, CountersTyped, Goto
<1>1. ASSUME NEW r \in Requests, NEW d \in Devices,
             SetOnlineStatus(r, d) \/ IncrAlertCount(r, d)
      PROVE  Goal
  BY <1>1, PresenceKept
     DEF SetOnlineStatus, IncrAlertCount, Send, BeatOpen, Beating, counters
<1>2. ASSUME NEW r \in Requests,
             Incr(r) \/ ExpireCount(r) \/ IncrGlobal(r) \/ ExpireGlobal(r)
      PROVE  Goal
  BY <1>2, PresenceKept
     DEF Incr, ExpireCount, IncrGlobal, ExpireGlobal, BeatOpen, Beating
<1>3. ASSUME NEW r \in Requests, Set(r)
      PROVE  Goal
  <2>1. BeatIsOpen(dev[r])' /\ \A d \in Devices : BeatIsOpen(d) => BeatIsOpen(d)'
    BY <1>3 DEF Set, BeatIsOpen, BeatOpen, Beating
  <2> QED
    BY <1>3, <2>1 DEF Set, Covered, TornOK, LooseSet, SetAges
<1>4. ASSUME NEW r \in Requests, SAdd(r)
      PROVE  Goal
  <2>1. BeatIsOpen(dev[r])' /\ \A d \in Devices : BeatIsOpen(d) => BeatIsOpen(d)'
    BY <1>4 DEF SAdd, BeatIsOpen, BeatOpen, Beating
  <2>2. Created(setLeft) = IF members = {} THEN Forever ELSE setLeft
    BY DEF Created, KeysOK
  <2>3. Covered'
    BY <1>4, <2>1, <2>2 DEF SAdd, Covered
  <2>4. TornOK'
    BY <1>4 DEF SAdd, TornOK
  <2>5. LooseSet'
    BY <1>4 DEF SAdd, LooseSet
  <2>6. SetAges'
    <3> SUFFICES ASSUME setLeft' # 0, setLeft' # Forever
                 PROVE  Fits(quiet', setLeft', SetTTL)
      BY DEF SetAges
    <3>1. quiet' = 0 /\ setLeft' = setLeft /\ setLeft <= SetTTL /\ setLeft \in Nat
      BY <1>4, <2>2, Ticks DEF SAdd
    <3> QED BY <3>1, Ticks DEF Fits
  <2> QED BY <2>3, <2>4, <2>5, <2>6
<1>5. ASSUME NEW r \in Requests, ExpireSet(r)
      PROVE  Goal
  <2>1. setLeft' = IF members = {} THEN 0 ELSE SetTTL
    BY <1>5 DEF ExpireSet, Renewed, KeysOK
  <2>2. \A d \in Devices : d # dev[r] /\ BeatIsOpen(d) => BeatIsOpen(d)'
    BY <1>5 DEF ExpireSet, BeatIsOpen, BeatOpen, Beating
  <2>3. dev[r] \in members \/ torn'[dev[r]]
    BY <1>5 DEF ExpireSet, TornOK
  <2>4. Covered'
    BY <1>5, <2>1, <2>2, <2>3, Ticks DEF ExpireSet, Covered
  <2>5. TornOK'
    BY <1>5 DEF ExpireSet, TornOK
  <2>6. LooseSet' /\ SetAges'
    BY <1>5, <2>1, Ticks, Fresh DEF ExpireSet, LooseSet, SetAges
  <2> QED BY <2>4, <2>5, <2>6
<1>6. ASSUME NEW r \in Requests, Lose(r)
      PROVE  Goal
  <2>1. /\ UNCHANGED <<online, members, setLeft, quiet, dev>>
        /\ torn' = [torn EXCEPT ![dev[r]] = @ \/ BeatOpen(r)]
        /\ \A q \in Requests : q # r => pc'[q] = pc[q]
        /\ ~BeatOpen(r)'
    BY <1>6 DEF Lose, BeatOpen, Beating, Counting
  <2>2. (\A d \in Devices : torn[d] => torn'[d]) /\ (BeatOpen(r) => torn'[dev[r]])
    BY <2>1
  <2>3. \A d \in Devices : BeatIsOpen(d) => BeatIsOpen(d)' \/ torn'[d]
    BY <2>1, <2>2 DEF BeatIsOpen, BeatOpen
  <2>4. Covered'
    BY <2>1, <2>2, <2>3 DEF Covered
  <2>5. TornOK' /\ SetAges'
    BY <2>1, <2>2 DEF TornOK, SetAges, BeatOpen, Beating
  <2>6. LooseSet'
    BY <2>1, <2>2 DEF LooseSet, BeatOpen, Beating
  <2> QED BY <2>4, <2>5, <2>6
<1>7. ASSUME NEW d \in Devices, InvalidateDeviceAll(d)
      PROVE  Goal
  <2>1. \A c \in Devices : BeatIsOpen(c) => BeatIsOpen(c)'
    BY <1>7 DEF InvalidateDeviceAll, BeatIsOpen, BeatOpen
  <2> QED
    BY <1>7, <2>1 DEF InvalidateDeviceAll, Covered, TornOK, LooseSet, SetAges
<1> QED
  BY <1>1, <1>2, <1>3, <1>4, <1>5, <1>6, <1>7 DEF Write, Command

LEMMA PresenceTick ==
  ASSUME KeysInv, CountersTyped', AgeKeys
  PROVE  Covered' /\ TornOK' /\ LooseSet' /\ SetAges'
<1> USE DEF KeysInv, CountersTyped
<1>1. /\ UNCHANGED <<pc, dev>>
      /\ online' = [d \in Devices |-> Left(online[d])]
      /\ setLeft' = Left(setLeft)
      /\ members' = IF setLeft = 1 THEN {} ELSE members
      /\ quiet' <= quiet + 1
  BY DEF AgeKeys
<1>2. /\ \A d \in Devices : torn[d] => torn'[d]
      /\ setLeft = 1 =>
           \A r \in Requests : pc[r] = "expireSet" => torn'[dev[r]]
  BY DEF AgeKeys
<1>3. \A d \in Devices : BeatIsOpen(d) => BeatIsOpen(d)'
  BY <1>1 DEF BeatIsOpen, BeatOpen
<1>4. \A d \in Devices : online'[d] > 0 =>
        online[d] > 0 /\ (online[d] <= setLeft => setLeft # 1 /\ online'[d] <= setLeft')
  BY <1>1, Ticks DEF Left
<1>5. Covered'
  BY <1>1, <1>2, <1>3, <1>4 DEF Covered
<1>6. TornOK'
  BY <1>1, <1>2 DEF TornOK
<1>7. LooseSet'
  <2>1. setLeft' = Forever => setLeft = Forever
    BY <1>1, Ticks DEF Left
  <2> QED BY <1>1, <1>2, <2>1 DEF LooseSet
<1>8. SetAges'
  <2> SUFFICES ASSUME setLeft' # 0, setLeft' # Forever
               PROVE  Fits(quiet', setLeft', SetTTL)
    BY DEF SetAges
  <2>1. setLeft # 0 /\ setLeft # Forever /\ setLeft' = setLeft - 1
    BY <1>1 DEF Left
  <2>2. Fits(quiet, setLeft, SetTTL)
    BY <2>1 DEF SetAges
  <2>3. setLeft \in Nat /\ quiet \in Nat /\ quiet' \in Nat
    BY Ticks
  <2>4. quiet' <= quiet + 1
    BY <1>1
  <2>5. setLeft' \in Nat /\ SetTTL \in Nat
    BY Ticks
  <2> QED BY <2>1, <2>2, <2>3, <2>4, <2>5, Older
<1> QED BY <1>5, <1>6, <1>7, <1>8

LEMMA CountsWrite ==
  ASSUME KeysInv, CountersTyped', Write
  PROVE  LooseCounts'
<1> USE DEF KeysInv, CountersTyped, Goto
<1>1. ASSUME NEW r \in Requests, NEW d \in Devices,
             SetOnlineStatus(r, d) \/ IncrAlertCount(r, d)
      PROVE  LooseCounts'
  BY <1>1 DEF SetOnlineStatus, IncrAlertCount, Send, counters, LooseCounts
<1>2. ASSUME NEW r \in Requests, Set(r) \/ SAdd(r) \/ ExpireSet(r)
      PROVE  LooseCounts'
  BY <1>2 DEF Set, SAdd, ExpireSet, counters, LooseCounts
<1>3. ASSUME NEW r \in Requests, Incr(r)
      PROVE  LooseCounts'
  BY <1>3 DEF Incr, LooseCounts
<1>4. ASSUME NEW r \in Requests, ExpireCount(r)
      PROVE  LooseCounts'
  <2>1. countLeft'[dev[r]] # Forever
    BY <1>4, Ticks DEF ExpireCount, Renewed
  <2> QED BY <1>4, <2>1 DEF ExpireCount, LooseCounts
<1>5. ASSUME NEW r \in Requests, IncrGlobal(r)
      PROVE  LooseCounts'
  BY <1>5 DEF IncrGlobal, LooseCounts
<1>6. ASSUME NEW r \in Requests, ExpireGlobal(r)
      PROVE  LooseCounts'
  <2>1. totalLeft' # Forever
    BY <1>6, Ticks DEF ExpireGlobal, Renewed
  <2> QED BY <1>6, <2>1 DEF ExpireGlobal, LooseCounts
<1>7. ASSUME NEW r \in Requests, Lose(r)
      PROVE  LooseCounts'
  <2>1. pc[r] \in {"expire", "expireAll"} => split'
    BY <1>7 DEF Lose, CountOpen, Counting
  <2> QED BY <1>7, <2>1 DEF Lose, LooseCounts
<1>8. ASSUME NEW d \in Devices, InvalidateDeviceAll(d)
      PROVE  LooseCounts'
  BY <1>8, Ticks DEF InvalidateDeviceAll, LooseCounts
<1> QED
  BY <1>1, <1>2, <1>3, <1>4, <1>5, <1>6, <1>7, <1>8 DEF Write, Command

LEMMA CountsTick ==
  ASSUME KeysInv, AgeKeys
  PROVE  LooseCounts'
<1> USE DEF KeysInv, CountersTyped
<1>1. /\ \A d \in Devices : countLeft'[d] = Forever => countLeft[d] = Forever
      /\ totalLeft' = Forever => totalLeft = Forever
      /\ UNCHANGED <<pc, dev>>
  BY Ticks DEF AgeKeys, Left
<1>2. split =>
        split' \/ (totalLeft' # Forever /\ \A d \in Devices : countLeft'[d] # Forever)
  <2>1. CASE \E r \in Requests : CountOpen(r)
    BY <2>1, Zenon DEF AgeKeys
  <2>2. CASE ~ \E r \in Requests : CountOpen(r)
    <3>1. split' = (split /\ (totalLeft' > 0 \/ \E d \in Devices : countLeft'[d] > 0))
      BY <2>2, Zenon DEF AgeKeys
    <3>2. 0 < Forever
      BY Ticks
    <3>3. \A d \in Devices : countLeft'[d] = Forever => countLeft'[d] > 0
      BY <3>2, Ticks
    <3>4. totalLeft' = Forever => totalLeft' > 0
      BY <3>2, Ticks
    <3> QED BY <3>1, <3>3, <3>4, Zenon
  <2> QED BY <2>1, <2>2
<1> QED BY <1>1, <1>2 DEF LooseCounts

LEMMA KeysStep ==
  ASSUME KeysInv, [Next]_vars
  PROVE  KeysInv'
<1>1. CASE Write
  BY <1>1, TypedWrite, FiniteMembers, PresenceWrite, CountsWrite DEF KeysInv
<1>2. CASE AgeKeys
  BY <1>2, TypedTick, FiniteMembers, PresenceTick, CountsTick DEF KeysInv
<1>3. CASE UNCHANGED counterVars
  BY <1>3 DEF counterVars, presence, counters, KeysInv, CountersTyped, KeysOK,
     Covered, BeatIsOpen, BeatOpen, TornOK, LooseSet, LooseCounts, SetAges
<1> QED BY <1>1, <1>2, <1>3, StepOfCounters

LEMMA KeysInit == CountersInit => KeysInv
<1> SUFFICES ASSUME CountersInit PROVE KeysInv
  OBVIOUS
<1>1. CountersTyped /\ KeysOK
  BY TypedInit
<1>2. IsFiniteSet(members)
  BY FS_EmptySet DEF CountersInit
<1> QED
  BY <1>1, <1>2, Ticks DEF KeysInv, CountersInit, Covered, TornOK, LooseSet,
     LooseCounts, SetAges

-----------------------------------------------------------------------------
(* The global counter covers those of the devices                          *)

CountIsOpen(d) == \E r \in Requests : CountOpen(r) /\ dev[r] = d

(* As long as no pipeline has broken off or met an expiry, the global      *)
(* counter is there when a pipeline renews it, and it outlives the counter *)
(* of every device whose pipelines are through.                            *)
GlobalThere   == \A r \in Requests : pc[r] = "expireAll" => total > 0
GlobalLasts   == \A d \in Devices : countLeft[d] <= totalLeft \/ CountIsOpen(d)
GlobalCovers  == Cardinality(AlertsShown) <= total + Cardinality(OnTheirWay)

CoverInv ==
  /\ IsFiniteSet(AlertsShown)
  /\ split \/ (GlobalThere /\ GlobalLasts /\ GlobalCovers)

LEMMA Shown ==
  ASSUME NEW d, NEW n
  PROVE  <<d, n>> \in AlertsShown <=> d \in Devices /\ n \in 1 .. count[d]
BY DEF AlertsShown, GetDeviceStatus, GetAlertCounts

(* Without new alerts the shown ones are a subset.                         *)
LEMMA FewerShown ==
  ASSUME CoverInv, \A d \in Devices : 1 .. count'[d] \subseteq 1 .. count[d]
  PROVE  /\ IsFiniteSet(AlertsShown')
         /\ Cardinality(AlertsShown') \in Nat /\ Cardinality(AlertsShown) \in Nat
         /\ Cardinality(AlertsShown') <= Cardinality(AlertsShown)
<1>1. AlertsShown' \subseteq AlertsShown
  BY DEF AlertsShown, GetDeviceStatus, GetAlertCounts
<1> QED BY <1>1, FS_Subset, FS_CardinalityType DEF CoverInv

LEMMA OnTheirWayFinite ==
  IsFiniteSet(OnTheirWay) /\ Cardinality(OnTheirWay) \in Nat
<1>1. IsFiniteSet(OnTheirWay)
  BY FS_Subset, KeyCountersAssumption DEF OnTheirWay
<1> QED BY <1>1, FS_CardinalityType

LEMMA ShownNat ==
  ASSUME CoverInv
  PROVE  Cardinality(AlertsShown) \in Nat
BY FS_CardinalityType DEF CoverInv

(* A step that leaves the counters, and their pipelines, where they are.   *)
LEMMA CoverKept ==
  ASSUME KeysInv, CoverInv,
         UNCHANGED counters,
         \A r \in Requests : CountOpen(r)' <=> CountOpen(r),
         \A r \in Requests : pc'[r] = "expireAll" <=> pc[r] = "expireAll",
         \A r \in Requests : r \in OnTheirWay' <=> r \in OnTheirWay,
         \A r \in Requests : CountOpen(r) => dev'[r] = dev[r]
  PROVE  CoverInv'
<1>1. AlertsShown' = AlertsShown /\ OnTheirWay' = OnTheirWay
  BY DEF counters, AlertsShown, OnTheirWay, GetDeviceStatus, GetAlertCounts
<1>2. \A d \in Devices : CountIsOpen(d)' <=> CountIsOpen(d)
  BY DEF CountIsOpen
<1> QED
  BY <1>1, <1>2 DEF CoverInv, counters, GlobalThere, GlobalLasts, GlobalCovers

LEMMA CoverWrite ==
  ASSUME KeysInv, KeysInv', CoverInv, Write
  PROVE  CoverInv'
<1> USE DEF KeysInv, CountersTyped, Goto
<1>1. ASSUME NEW r \in Requests, NEW d \in Devices,
             SetOnlineStatus(r, d) \/ IncrAlertCount(r, d)
      PROVE  CoverInv'
  BY <1>1, CoverKept DEF SetOnlineStatus, IncrAlertCount, Send, CountOpen,
     Counting, OnTheirWay
<1>2. ASSUME NEW r \in Requests, Set(r) \/ SAdd(r) \/ ExpireSet(r)
      PROVE  CoverInv'
  BY <1>2, CoverKept DEF Set, SAdd, ExpireSet, CountOpen, Counting, OnTheirWay
<1>3. ASSUME NEW r \in Requests, Incr(r)
      PROVE  CoverInv'
  <2>1. AlertsShown' = AlertsShown \cup {<<dev[r], count[dev[r]] + 1>>}
    <3> DEFINE Pair(d) == {d} \X (1 .. count[d])
               Next1   == <<dev[r], count[dev[r]] + 1>>
    <3>1. \A n \in Nat : 1 .. (n + 1) = (1 .. n) \cup {n + 1}
      OBVIOUS
    <3>2. /\ count'[dev[r]] = count[dev[r]] + 1
          /\ \A d \in Devices : d # dev[r] => count'[d] = count[d]
      BY <1>3 DEF Incr
    <3>3. \A d \in Devices :
            {d} \X (1 .. count'[d]) = IF d = dev[r] THEN Pair(d) \cup {Next1} ELSE Pair(d)
      BY <3>1, <3>2
    <3>4. AlertsShown = UNION {Pair(d) : d \in Devices}
      BY DEF AlertsShown, GetDeviceStatus, GetAlertCounts
    <3>5. AlertsShown' = UNION {{d} \X (1 .. count'[d]) : d \in Devices}
      BY DEF AlertsShown, GetDeviceStatus, GetAlertCounts
    <3> HIDE DEF Pair, Next1
    <3>6. AlertsShown' =
            UNION {IF d = dev[r] THEN Pair(d) \cup {Next1} ELSE Pair(d) : d \in Devices}
      BY <3>3, <3>5
    <3>7. dev[r] \in Devices
      OBVIOUS
    <3>8. AlertsShown' = AlertsShown \cup {Next1}
      BY <3>4, <3>6, <3>7
    <3> QED BY <3>8 DEF Next1
  <2>2. <<dev[r], count[dev[r]] + 1>> \notin AlertsShown
    BY Shown
  <2>3. /\ IsFiniteSet(AlertsShown')
        /\ Cardinality(AlertsShown') = Cardinality(AlertsShown) + 1
    BY <2>1, <2>2, FS_AddElement DEF CoverInv
  <2>4. OnTheirWay' = OnTheirWay \cup {r} /\ r \notin OnTheirWay
    BY <1>3 DEF Incr, OnTheirWay
  <2>5. Cardinality(OnTheirWay') = Cardinality(OnTheirWay) + 1
    BY <2>4, FS_AddElement, OnTheirWayFinite
  <2>6. CountIsOpen(dev[r])' /\ \A d \in Devices : CountIsOpen(d) => CountIsOpen(d)'
    BY <1>3 DEF Incr, CountIsOpen, CountOpen, Counting
  <2>7. GlobalLasts => GlobalLasts'
    BY <1>3, <2>6 DEF Incr, GlobalLasts
  <2>8. GlobalThere => GlobalThere'
    BY <1>3 DEF Incr, GlobalThere
  <2>9. GlobalCovers => GlobalCovers'
    BY <1>3, <2>3, <2>5, ShownNat, OnTheirWayFinite DEF Incr, GlobalCovers
  <2> QED BY <1>3, <2>3, <2>7, <2>8, <2>9 DEF Incr, CoverInv
<1>4. ASSUME NEW r \in Requests, ExpireCount(r)
      PROVE  CoverInv'
  <2>1. AlertsShown' = AlertsShown /\ OnTheirWay' = OnTheirWay
    BY <1>4 DEF ExpireCount, AlertsShown, GetDeviceStatus, GetAlertCounts, OnTheirWay
  <2>2. CountIsOpen(dev[r])' /\ \A d \in Devices : CountIsOpen(d) => CountIsOpen(d)'
    BY <1>4 DEF ExpireCount, CountIsOpen, CountOpen, Counting
  <2>3. GlobalLasts => GlobalLasts'
    BY <1>4, <2>2 DEF ExpireCount, GlobalLasts
  <2>4. GlobalThere => GlobalThere'
    BY <1>4 DEF ExpireCount, GlobalThere
  <2> QED BY <1>4, <2>1, <2>3, <2>4 DEF ExpireCount, CoverInv, GlobalCovers
<1>5. ASSUME NEW r \in Requests, IncrGlobal(r)
      PROVE  CoverInv'
  <2>1. AlertsShown' = AlertsShown
    BY <1>5 DEF IncrGlobal, AlertsShown, GetDeviceStatus, GetAlertCounts
  <2>2. OnTheirWay' = OnTheirWay \ {r} /\ r \in OnTheirWay
    BY <1>5 DEF IncrGlobal, OnTheirWay
  <2>3. Cardinality(OnTheirWay') = Cardinality(OnTheirWay) - 1
    BY <2>2, FS_RemoveElement, OnTheirWayFinite
  <2>4. \A d \in Devices : CountIsOpen(d) => CountIsOpen(d)'
    BY <1>5 DEF IncrGlobal, CountIsOpen, CountOpen, Counting
  <2>5. \A d \in Devices : countLeft[d] <= totalLeft => countLeft[d] <= totalLeft'
    BY <1>5, Ticks DEF IncrGlobal, Created
  <2>6. GlobalLasts => GlobalLasts'
    BY <1>5, <2>4, <2>5 DEF IncrGlobal, GlobalLasts
  <2>7. GlobalThere'
    BY <1>5 DEF IncrGlobal, GlobalThere
  <2>8. GlobalCovers => GlobalCovers'
    BY <1>5, <2>1, <2>3, ShownNat, OnTheirWayFinite DEF IncrGlobal, GlobalCovers
  <2> QED BY <1>5, <2>1, <2>6, <2>7, <2>8 DEF IncrGlobal, CoverInv
<1>6. ASSUME NEW r \in Requests, ExpireGlobal(r)
      PROVE  CoverInv'
  <2>1. AlertsShown' = AlertsShown /\ OnTheirWay' = OnTheirWay
    BY <1>6 DEF ExpireGlobal, AlertsShown, GetDeviceStatus, GetAlertCounts, OnTheirWay
  <2>2. split' = split /\ (GlobalThere => GlobalThere') /\ (GlobalCovers => GlobalCovers')
    BY <1>6, <2>1 DEF ExpireGlobal, GlobalThere, GlobalCovers
  <2>3. ASSUME ~split, GlobalThere
        PROVE  GlobalLasts'
    <3>1. totalLeft' = CountTTL
      BY <1>6, <2>3 DEF ExpireGlobal, Renewed, GlobalThere, KeysOK
    <3>2. \A d \in Devices : countLeft[d] = Forever => CountIsOpen(d)'
      BY <1>6, <2>3 DEF ExpireGlobal, LooseCounts, CountIsOpen, CountOpen, Counting
    <3> QED BY <1>6, <3>1, <3>2, Ticks DEF ExpireGlobal, GlobalLasts
  <2> QED BY <2>1, <2>2, <2>3 DEF CoverInv
<1>7. ASSUME NEW r \in Requests, Lose(r)
      PROVE  CoverInv'
  <2>1. CASE CountOpen(r)
    <3>1. split'
      BY <1>7, <2>1, Zenon DEF Lose
    <3>2. AlertsShown' = AlertsShown
      BY <1>7 DEF Lose, AlertsShown, GetDeviceStatus, GetAlertCounts
    <3> QED BY <3>1, <3>2 DEF CoverInv
  <2>2. CASE ~CountOpen(r)
    <3>1. pc[r] \notin {"expire", "incrAll", "expireAll"}
      BY <2>2 DEF CountOpen, Counting
    <3>2. pc'[r] \in {"idle", "set", "incr"} /\ \A q \in Requests : q # r => pc'[q] = pc[q]
      BY <1>7 DEF Lose
    <3>3. UNCHANGED <<counters, dev>>
      BY <1>7, <2>2 DEF Lose, counters
    <3>4. \A q \in Requests : CountOpen(q)' <=> CountOpen(q)
      BY <3>1, <3>2 DEF CountOpen, Counting
    <3>5. \A q \in Requests : q \in OnTheirWay' <=> q \in OnTheirWay
      BY <3>1, <3>2 DEF OnTheirWay
    <3> QED BY <3>1, <3>2, <3>3, <3>4, <3>5, CoverKept
  <2> QED BY <2>1, <2>2
<1>8. ASSUME NEW d \in Devices, InvalidateDeviceAll(d)
      PROVE  CoverInv'
  <2>1. \A c \in Devices : 1 .. count'[c] \subseteq 1 .. count[c]
    BY <1>8 DEF InvalidateDeviceAll
  <2>2. OnTheirWay' = OnTheirWay /\ \A c \in Devices : CountIsOpen(c)' <=> CountIsOpen(c)
    BY <1>8 DEF InvalidateDeviceAll, OnTheirWay, CountIsOpen, CountOpen
  <2>3. GlobalLasts => GlobalLasts'
    BY <1>8, <2>2, Ticks DEF InvalidateDeviceAll, GlobalLasts
  <2>4. GlobalThere => GlobalThere'
    BY <1>8 DEF InvalidateDeviceAll, GlobalThere
  <2>5. GlobalCovers => GlobalCovers'
    BY <1>8, <2>1, <2>2, FewerShown, OnTheirWayFinite DEF InvalidateDeviceAll, GlobalCovers
  <2> QED BY <1>8, <2>1, <2>3, <2>4, <2>5, FewerShown DEF InvalidateDeviceAll, CoverInv
<1> QED
  BY <1>1, <1>2, <1>3, <1>4, <1>5, <1>6, <1>7, <1>8 DEF Write, Command

LEMMA CoverTick ==
  ASSUME KeysInv, KeysInv', CoverInv, AgeKeys
  PROVE  CoverInv'
<1> USE DEF KeysInv, CountersTyped
<1>1. \A d \in Devices : 1 .. count'[d] \subseteq 1 .. count[d]
  BY DEF AgeKeys
<1>2. /\ IsFiniteSet(AlertsShown')
      /\ Cardinality(AlertsShown') <= Cardinality(AlertsShown)
      /\ Cardinality(AlertsShown') \in Nat /\ Cardinality(AlertsShown) \in Nat
  BY <1>1, FewerShown
<1>3. OnTheirWay' = OnTheirWay /\ \A d \in Devices : CountIsOpen(d)' <=> CountIsOpen(d)
  BY DEF AgeKeys, OnTheirWay, CountIsOpen, CountOpen
<1>4. ASSUME \A d \in Devices : countLeft'[d] = 0
      PROVE  GlobalCovers'
  <2>1. AlertsShown' = {}
    BY <1>4 DEF KeysOK, AlertsShown, GetDeviceStatus, GetAlertCounts
  <2> QED BY <2>1, <1>3, OnTheirWayFinite, FS_EmptySet DEF GlobalCovers
<1>5. \A d \in Devices : countLeft[d] <= totalLeft => countLeft'[d] <= totalLeft'
  BY Ticks DEF AgeKeys, Left
<1>6. CASE \E r \in Requests : CountOpen(r)
  <2> SUFFICES ASSUME ~split' PROVE GlobalThere' /\ GlobalLasts' /\ GlobalCovers'
    BY <1>2 DEF CoverInv
  <2>1. split' = (split \/ totalLeft = 1)
    BY <1>6, Zenon DEF AgeKeys
  <2>2. ~split /\ total' = total
    BY <2>1 DEF AgeKeys
  <2>3. GlobalThere' /\ GlobalLasts'
    BY <1>3, <1>5, <2>2 DEF CoverInv, AgeKeys, GlobalThere, GlobalLasts
  <2>4. GlobalCovers'
    BY <1>2, <1>3, <2>2, OnTheirWayFinite DEF CoverInv, GlobalCovers
  <2> QED BY <2>3, <2>4
<1>7. CASE ~ \E r \in Requests : CountOpen(r)
  <2> SUFFICES ASSUME ~split' PROVE GlobalThere' /\ GlobalLasts' /\ GlobalCovers'
    BY <1>2 DEF CoverInv
  <2>1. split' = (split /\ (totalLeft' > 0 \/ \E d \in Devices : countLeft'[d] > 0))
    BY <1>7, Zenon DEF AgeKeys
  <2>2. GlobalThere'
    BY <1>7 DEF AgeKeys, GlobalThere, CountOpen, Counting
  <2>3. CASE split
    <3>1. \A d \in Devices : countLeft'[d] = 0
      <4>1. \A d \in Devices : ~(countLeft'[d] > 0)
        BY <2>1, <2>3, Zenon
      <4> QED BY <4>1, Ticks
    <3>2. GlobalLasts'
      BY <3>1, Ticks DEF GlobalLasts
    <3> QED BY <2>2, <3>1, <3>2, <1>4
  <2>4. CASE ~split
    <3>1. \A d \in Devices : countLeft[d] <= totalLeft
      BY <1>7, <2>4 DEF CoverInv, GlobalLasts, CountIsOpen
    <3>2. GlobalLasts'
      BY <1>5, <3>1 DEF GlobalLasts
    <3>3. CASE totalLeft = 1
      <4>1. \A d \in Devices : countLeft'[d] = 0
        BY <3>1, <3>3, Ticks DEF AgeKeys, Left
      <4> QED BY <2>2, <3>2, <4>1, <1>4
    <3>4. CASE totalLeft # 1
      <4>1. total' = total
        BY <3>4 DEF AgeKeys
      <4>2. GlobalCovers'
        BY <1>2, <1>3, <2>4, <4>1, OnTheirWayFinite DEF CoverInv, GlobalCovers
      <4> QED BY <2>2, <3>2, <4>2
    <3> QED BY <3>3, <3>4
  <2> QED BY <2>3, <2>4
<1> QED BY <1>6, <1>7

LEMMA CoverStep ==
  ASSUME KeysInv, CoverInv, [Next]_vars
  PROVE  CoverInv'
<1>1. CASE UNCHANGED counterVars
  BY <1>1, CoverKept DEF counterVars, CountOpen, OnTheirWay
<1> QED BY <1>1, StepOfCounters, KeysStep, CoverWrite, CoverTick

LEMMA CoverInit == CountersInit => CoverInv
<1> SUFFICES ASSUME CountersInit PROVE CoverInv
  OBVIOUS
<1>1. AlertsShown = {}
  BY DEF CountersInit, AlertsShown, GetDeviceStatus, GetAlertCounts
<1>2. GlobalThere /\ GlobalLasts
  BY DEF CountersInit, GlobalThere, GlobalLasts
<1>3. GlobalCovers
  BY <1>1, FS_EmptySet, OnTheirWayFinite DEF CountersInit, GlobalCovers
<1> QED BY <1>1, <1>2, <1>3, FS_EmptySet DEF CoverInv

-----------------------------------------------------------------------------
(* The dashboard                                                           *)

Rows == Cardinality(rows)

LEMMA DashboardTicks ==
  /\ TotalTTL \in Nat /\ 0 < TotalTTL
  /\ DashboardTTL \in Nat /\ 0 < DashboardTTL
  /\ MaxSettled \in Nat /\ MaxSettled - 1 \in Nat
  /\ SetTTL \in Nat /\ 0 < SetTTL /\ SetTTL + DashboardTTL - 1 \in Nat
BY DashboardAssumption, Ticks DEF MaxSettled

(* A heartbeat is before its last command, or one broke off.               *)
Unsure ==
  \/ \E r \in Requests : pc[r] = "expireSet"
  \/ \E d \in Devices : torn[d]

Holding == {"count", "setTotal", "setOverview"}

MissingIsNothing ==
  /\ deviceTotalLeft = 0 => deviceTotal = Nothing
  /\ overviewLeft = 0 => overview = Nothing
  /\ \A v \in Viewers : call[v] \notin Holding => seen[v] = Nothing

(* The age of a total, cached, held by a request, or shown, against the    *)
(* time since the rows changed.                                            *)
CachedTotal ==
  deviceTotalLeft > 0 =>
    \/ deviceTotal.total = Rows \/ "total" \in deviceTotal.late
    \/ Fits(settled, deviceTotalLeft, TotalTTL)
SeenTotal(v) ==
  /\ call[v] = "count" => ~seen[v].counted
  /\ call[v] = "setTotal" =>
       seen[v].total = Rows \/ "total" \in seen[v].late \/ settled = 0
  /\ call[v] = "setOverview" =>
       \/ seen[v].total = Rows \/ "total" \in seen[v].late \/ ~seen[v].counted
       \/ settled = 0
       \/ seen[v].total > 0 /\ settled < TotalTTL
ShownTotal ==
  overviewLeft > 0 =>
    \/ overview.total = Rows \/ "total" \in overview.late \/ ~overview.counted
    \/ Fits(settled, overviewLeft,
            IF overview.total = 0 THEN DashboardTTL ELSE MaxSettled - 1)

(* The same for the number of members, against the last heartbeat.         *)
SeenOnline(v) ==
  call[v] \in Holding /\ seen[v].online > 0 =>
    "online" \in seen[v].late \/ Unsure \/ quiet < SetTTL
ShownOnline ==
  overview.online > 0 =>
    \/ "online" \in overview.late \/ Unsure
    \/ Fits(quiet, overviewLeft, SetTTL + DashboardTTL - 1)

TotalsInv == CachedTotal /\ (\A v \in Viewers : SeenTotal(v)) /\ ShownTotal
OnlineInv == (\A v \in Viewers : SeenOnline(v)) /\ ShownOnline

Inv ==
  /\ KeysInv /\ PagesTyped /\ DashboardTyped /\ MissingIsNothing
  /\ TotalsInv /\ OnlineInv

-----------------------------------------------------------------------------
(* Typing                                                                  *)

LEMMA RowsNat ==
  ASSUME PagesTyped
  PROVE  Rows \in Nat
<1>1. IsFiniteSet(rows)
  BY FS_Subset, DevicePagesAssumption DEF PagesTyped
<1> QED BY <1>1, FS_CardinalityType DEF Rows

LEMMA NothingTyped ==
  /\ Nothing \in Numbers /\ Nothing.online = 0 /\ Nothing.total = 0
  /\ ~Nothing.counted /\ Nothing.late = {}
BY DEF Nothing, Numbers

LEMMA ViewTyped ==
  ASSUME Inv, NEW v \in Viewers, View(v)
  PROVE  DashboardTyped' /\ MissingIsNothing'
<1> DEFINE Goal == DashboardTyped' /\ MissingIsNothing'
<1> USE DashboardTicks, NothingTyped
    DEF Inv, DashboardTyped, MissingIsNothing, Holding, Call, Calls
<1>1. CASE Ask(v)
  BY <1>1 DEF Ask
<1>2. CASE GetDashboard(v)
  BY <1>2 DEF GetDashboard
<1>3. CASE GetDashboardMetricsPipeline(v)
  <2>1. CountOnline \in Nat
    BY FS_CardinalityType DEF CountOnline, KeysInv
  <2>2. (deviceTotal.total > 0) \in BOOLEAN
    OBVIOUS
  <2>3. [deviceTotal EXCEPT !.online = CountOnline,
                            !.counted = deviceTotal.total > 0] \in Numbers
    BY <2>1, <2>2 DEF Numbers
  <2>4. /\ seen' \in [Viewers -> Numbers]
        /\ \A u \in Viewers : u # v => seen'[u] = seen[u]
    BY <1>3, <2>3 DEF GetDashboardMetricsPipeline
  <2>5. /\ call' \in [Viewers -> Calls]
        /\ call'[v] \in Holding
        /\ \A u \in Viewers : u # v => call'[u] = call[u]
    BY <1>3 DEF GetDashboardMetricsPipeline
  <2>6. UNCHANGED <<deviceTotal, deviceTotalLeft, overview, overviewLeft, settled>>
    BY <1>3 DEF GetDashboardMetricsPipeline
  <2> QED BY <2>4, <2>5, <2>6
<1>4. CASE Count(v)
  <2>1. Rows \in Nat
    BY RowsNat
  <2>2. [seen[v] EXCEPT !.total = Cardinality(rows), !.counted = TRUE,
                        !.late = @ \ {"total"}] \in Numbers
    BY <2>1 DEF Numbers, Rows
  <2>3. /\ seen' \in [Viewers -> Numbers]
        /\ \A u \in Viewers : u # v => seen'[u] = seen[u]
    BY <1>4, <2>2 DEF Count
  <2>4. /\ call' \in [Viewers -> Calls]
        /\ call'[v] \in Holding
        /\ \A u \in Viewers : u # v => call'[u] = call[u]
    BY <1>4 DEF Count
  <2>5. UNCHANGED <<deviceTotal, deviceTotalLeft, overview, overviewLeft, settled>>
    BY <1>4 DEF Count
  <2> QED BY <2>3, <2>4, <2>5
<1>5. CASE SetDeviceTotalCount(v)
  <2>1. [Nothing EXCEPT !.total = seen[v].total,
                        !.late = seen[v].late \ {"online"}] \in Numbers
    BY DEF Numbers, Nothing
  <2> QED BY <1>5, <2>1 DEF SetDeviceTotalCount
<1>6. CASE SetDashboard(v)
  BY <1>6 DEF SetDashboard
<1> QED
  BY <1>1, <1>2, <1>3, <1>4, <1>5, <1>6 DEF View

LEMMA TickTyped ==
  ASSUME Inv, Tick
  PROVE  DashboardTyped' /\ MissingIsNothing'
<1> USE DashboardTicks, NothingTyped DEF Inv, DashboardTyped, MissingIsNothing
<1>1. \A v \in Viewers : [seen[v] EXCEPT !.late = Figures] \in Numbers
  BY DEF Numbers
<1>2. seen' \in [Viewers -> Numbers]
  BY <1>1 DEF Tick
<1>3. /\ deviceTotalLeft' \in 0 .. TotalTTL
      /\ deviceTotalLeft' = 0 => deviceTotalLeft \in {0, 1}
      /\ overviewLeft' \in 0 .. DashboardTTL
      /\ overviewLeft' = 0 => overviewLeft \in {0, 1}
      /\ settled' \in 0 .. MaxSettled
  BY DEF Tick, Less
<1>4. \A v \in Viewers : call[v] \notin Holding => seen'[v] = seen[v]
  BY DEF Tick, Holding
<1> QED BY <1>2, <1>3, <1>4 DEF Tick

-----------------------------------------------------------------------------
(* What is shown of the fleet                                              *)

(* No step but a tick ages the set; a step that settles a heartbeat        *)
(* touches it.                                                             *)
LEMMA UnsureUntilTouched ==
  ASSUME KeysInv, Write
  PROVE  /\ quiet' \in {0, quiet}
         /\ Unsure => Unsure' \/ quiet' = 0
<1> USE DEF KeysInv, CountersTyped, Goto, Unsure
<1>1. ASSUME NEW r \in Requests, NEW d \in Devices,
             SetOnlineStatus(r, d) \/ IncrAlertCount(r, d)
      PROVE  quiet' = quiet /\ (Unsure => Unsure')
  BY <1>1 DEF SetOnlineStatus, IncrAlertCount, Send, presence
<1>2. ASSUME NEW r \in Requests,
             Set(r) \/ Incr(r) \/ ExpireCount(r) \/ IncrGlobal(r) \/ ExpireGlobal(r)
      PROVE  quiet' = quiet /\ (Unsure => Unsure')
  BY <1>2 DEF Set, Incr, ExpireCount, IncrGlobal, ExpireGlobal, presence
<1>3. ASSUME NEW r \in Requests, SAdd(r) \/ ExpireSet(r)
      PROVE  quiet' = 0
  BY <1>3 DEF SAdd, ExpireSet
<1>4. ASSUME NEW r \in Requests, Lose(r)
      PROVE  quiet' = quiet /\ (Unsure => Unsure')
  <2>1. pc[r] = "expireSet" => torn'[dev[r]]
    BY <1>4 DEF Lose, BeatOpen, Beating
  <2>2. \A d \in Devices : torn[d] => torn'[d]
    BY <1>4 DEF Lose
  <2>3. \A q \in Requests : q # r => pc'[q] = pc[q]
    BY <1>4 DEF Lose
  <2> QED BY <1>4, <2>1, <2>2, <2>3 DEF Lose
<1>5. ASSUME NEW d \in Devices, InvalidateDeviceAll(d)
      PROVE  quiet' = quiet /\ (Unsure => Unsure')
  BY <1>5 DEF InvalidateDeviceAll
<1> QED
  BY <1>1, <1>2, <1>3, <1>4, <1>5 DEF Write, Command

LEMMA OnlineWrite ==
  ASSUME Inv, Write, UNCHANGED dashboardVars
  PROVE  OnlineInv'
<1> USE DEF Inv, OnlineInv, dashboardVars
<1>1. quiet' \in {0, quiet} /\ (Unsure => Unsure' \/ quiet' = 0)
  BY UnsureUntilTouched
<1>2. \A v \in Viewers : SeenOnline(v)'
  BY <1>1, DashboardTicks DEF SeenOnline
<1>3. ShownOnline'
  <2>1. overviewLeft \in Nat /\ overviewLeft <= DashboardTTL
    BY DashboardTicks DEF DashboardTyped
  <2>2. Fits(0, overviewLeft, SetTTL + DashboardTTL - 1)
    BY <2>1, DashboardTicks DEF Fits
  <2> QED BY <1>1, <2>2 DEF ShownOnline
<1> QED BY <1>2, <1>3

LEMMA OnlineView ==
  ASSUME Inv, NEW v \in Viewers, View(v), UNCHANGED counterVars
  PROVE  OnlineInv'
<1> USE DEF Inv, OnlineInv, DashboardTyped, Call, Holding
<1>0. /\ Unsure' <=> Unsure
      /\ quiet' = quiet
  BY DEF Unsure, counterVars, presence
<1>1. CASE Ask(v) \/ GetDashboard(v)
  BY <1>0, <1>1 DEF Ask, GetDashboard, SeenOnline, ShownOnline
<1>2. CASE GetDashboardMetricsPipeline(v)
  <2>1. ShownOnline'
    BY <1>0, <1>2 DEF GetDashboardMetricsPipeline, ShownOnline
  <2>2. CountOnline > 0 => Unsure \/ quiet < SetTTL
    <3> SUFFICES ASSUME CountOnline > 0, ~Unsure PROVE quiet < SetTTL
      OBVIOUS
    <3>1. members # {}
      BY FS_EmptySet DEF CountOnline
    <3>2. setLeft # 0 /\ setLeft # Forever
      BY <3>1 DEF KeysInv, KeysOK, LooseSet, Unsure
    <3>3. Fits(quiet, setLeft, SetTTL)
      BY <3>2 DEF KeysInv, SetAges
    <3>4. setLeft \in Nat /\ quiet \in Nat
      BY Ticks DEF KeysInv, CountersTyped
    <3> QED BY <3>2, <3>3, <3>4, Ticks DEF Fits
  <2>3. seen'[v].online = CountOnline \/ seen'[v] = seen[v]
    BY <1>2 DEF GetDashboardMetricsPipeline, Numbers
  <2>4. seen[v].online = 0
    BY <1>2, NothingTyped DEF GetDashboardMetricsPipeline, MissingIsNothing
  <2>5. SeenOnline(v)'
    BY <1>0, <2>2, <2>3, <2>4 DEF SeenOnline
  <2>6. ASSUME NEW u \in Viewers, u # v
        PROVE  SeenOnline(u)'
    BY <1>0, <1>2, <2>6 DEF GetDashboardMetricsPipeline, SeenOnline
  <2> QED BY <2>1, <2>5, <2>6
<1>3. CASE Count(v)
  <2>1. ShownOnline'
    BY <1>0, <1>3 DEF Count, ShownOnline
  <2>2. /\ seen'[v].online = seen[v].online
        /\ "online" \in seen[v].late => "online" \in seen'[v].late
    <3> DEFINE taken == [seen[v] EXCEPT !.total = Cardinality(rows), !.counted = TRUE,
                                         !.late = @ \ {"total"}]
    <3>1. /\ taken.online = seen[v].online
          /\ "online" \in seen[v].late => "online" \in taken.late
      BY DEF Numbers
    <3> HIDE DEF taken
    <3>2. seen'[v] = taken \/ seen'[v] = seen[v]
      BY <1>3 DEF Count, taken
    <3> QED BY <3>1, <3>2
  <2>3. SeenOnline(v)'
    BY <1>0, <1>3, <2>2 DEF Count, SeenOnline
  <2>4. ASSUME NEW u \in Viewers, u # v
        PROVE  SeenOnline(u)'
    BY <1>0, <1>3, <2>4 DEF Count, SeenOnline
  <2> QED BY <2>1, <2>3, <2>4
<1>4. CASE SetDeviceTotalCount(v)
  BY <1>0, <1>4 DEF SetDeviceTotalCount, SeenOnline, ShownOnline
<1>5. CASE SetDashboard(v)
  <2>1. \A u \in Viewers : SeenOnline(u)'
    BY <1>0, <1>5, NothingTyped DEF SetDashboard, SeenOnline
  <2>2. quiet < SetTTL => Fits(quiet, DashboardTTL, SetTTL + DashboardTTL - 1)
    BY Ticks, DashboardTicks DEF Fits, KeysInv, CountersTyped
  <2>3. ShownOnline'
    BY <1>0, <1>5, <2>2 DEF SetDashboard, SeenOnline, ShownOnline
  <2> QED BY <2>1, <2>3
<1> QED BY <1>1, <1>2, <1>3, <1>4, <1>5 DEF View

LEMMA OnlineTick ==
  ASSUME Inv, Tick
  PROVE  OnlineInv'
<1> USE DEF Inv, OnlineInv, DashboardTyped
<1>1. \A v \in Viewers : SeenOnline(v)'
  <2>1. ASSUME NEW v \in Viewers, call'[v] \in Holding
        PROVE  "online" \in seen'[v].late
    <3>1. seen'[v] = [seen[v] EXCEPT !.late = Figures]
      BY <2>1 DEF Tick, Holding
    <3> QED BY <3>1 DEF Numbers, Figures
  <2> QED BY <2>1 DEF SeenOnline
<1>2. Unsure => Unsure'
  BY DEF Unsure, Tick, AgeKeys, KeysInv, CountersTyped
<1>3. ShownOnline'
  <2> SUFFICES ASSUME overview'.online > 0, "online" \notin overview'.late, ~Unsure'
               PROVE  Fits(quiet', overviewLeft', SetTTL + DashboardTTL - 1)
    BY DEF ShownOnline
  <2>1. overview' = overview /\ overviewLeft # 1
    BY NothingTyped DEF Tick
  <2>2. overviewLeft # 0
    BY <2>1, NothingTyped DEF MissingIsNothing
  <2>3. overviewLeft' = overviewLeft - 1
    BY <2>2 DEF Tick, Less
  <2>4. Fits(quiet, overviewLeft, SetTTL + DashboardTTL - 1)
    BY <1>2, <2>1 DEF ShownOnline
  <2>5. quiet \in Nat /\ quiet' \in Nat /\ quiet' <= quiet + 1
    BY Ticks DEF Tick, AgeKeys, KeysInv, CountersTyped
  <2>6. overviewLeft \in Nat /\ overviewLeft' \in Nat
    BY DashboardTicks, <2>2 DEF Tick, Less
  <2> QED BY <2>3, <2>4, <2>5, <2>6, DashboardTicks, Older
<1> QED BY <1>1, <1>3

-----------------------------------------------------------------------------
(* What is shown of the inventory                                          *)

(* A change of the rows starts the clock of every number anew.             *)
LEMMA TotalsChanged ==
  ASSUME Inv, settled' = 0,
         UNCHANGED <<deviceTotal, deviceTotalLeft, overview, overviewLeft, call, seen>>
  PROVE  TotalsInv'
<1> USE DEF Inv, TotalsInv, DashboardTyped
<1>1. /\ deviceTotalLeft \in Nat /\ deviceTotalLeft <= TotalTTL
      /\ overviewLeft \in Nat /\ overviewLeft <= DashboardTTL
      /\ overviewLeft <= MaxSettled - 1
  BY DashboardTicks DEF MaxSettled
<1>2. /\ Fits(0, deviceTotalLeft, TotalTTL)
      /\ Fits(0, overviewLeft, DashboardTTL)
      /\ Fits(0, overviewLeft, MaxSettled - 1)
  BY <1>1, DashboardTicks DEF Fits
<1>3. CachedTotal' /\ ShownTotal'
  BY <1>2 DEF CachedTotal, ShownTotal
<1>4. \A v \in Viewers : SeenTotal(v)'
  BY DEF SeenTotal
<1> QED BY <1>3, <1>4

LEMMA TotalsView ==
  ASSUME Inv, NEW v \in Viewers, View(v), UNCHANGED pageVars
  PROVE  TotalsInv'
<1> USE DEF Inv, TotalsInv, DashboardTyped, Call, Holding
<1>0. Rows' = Rows /\ Rows \in Nat
  BY RowsNat DEF Rows, pageVars
<1>1. CASE Ask(v) \/ GetDashboard(v)
  BY <1>0, <1>1 DEF Ask, GetDashboard, CachedTotal, SeenTotal, ShownTotal
<1>2. CASE GetDashboardMetricsPipeline(v)
  <2>1. CachedTotal' /\ ShownTotal'
    BY <1>0, <1>2 DEF GetDashboardMetricsPipeline, CachedTotal, ShownTotal
  <2>2. ASSUME deviceTotal.total > 0
        PROVE  \/ deviceTotal.total = Rows \/ "total" \in deviceTotal.late
               \/ settled < TotalTTL
    <3>1. deviceTotalLeft # 0
      BY <2>2, NothingTyped DEF MissingIsNothing
    <3>2. deviceTotalLeft \in Nat /\ settled \in Nat
      BY DashboardTicks
    <3>3. Fits(settled, deviceTotalLeft, TotalTTL) => settled < TotalTTL
      BY <3>1, <3>2, DashboardTicks DEF Fits
    <3> QED BY <3>1, <3>2, <3>3 DEF CachedTotal
  <2>3. \/ /\ seen'[v].total = deviceTotal.total
           /\ seen'[v].late = deviceTotal.late
           /\ seen'[v].counted = (deviceTotal.total > 0)
           /\ call'[v] = IF deviceTotal.total > 0 THEN "setOverview" ELSE "count"
        \/ seen'[v] = Nothing /\ call'[v] = "count"
    <3> DEFINE taken == [deviceTotal EXCEPT !.online = CountOnline,
                                            !.counted = deviceTotal.total > 0]
    <3>1. /\ taken.total = deviceTotal.total /\ taken.late = deviceTotal.late
          /\ taken.counted = (deviceTotal.total > 0)
      BY DEF Numbers
    <3> HIDE DEF taken
    <3>2. seen[v] = Nothing
      BY <1>2 DEF GetDashboardMetricsPipeline, MissingIsNothing
    <3>3. \/ /\ seen'[v] = taken
             /\ call'[v] = IF deviceTotal.total > 0 THEN "setOverview" ELSE "count"
          \/ seen'[v] = seen[v] /\ call'[v] = "count"
      BY <1>2 DEF GetDashboardMetricsPipeline, taken
    <3> QED BY <3>1, <3>2, <3>3
  <2>4. SeenTotal(v)'
    BY <1>0, <1>2, <2>2, <2>3, NothingTyped
       DEF GetDashboardMetricsPipeline, SeenTotal
  <2>5. ASSUME NEW u \in Viewers, u # v
        PROVE  SeenTotal(u)'
    BY <1>0, <1>2, <2>5 DEF GetDashboardMetricsPipeline, SeenTotal
  <2> QED BY <2>1, <2>4, <2>5
<1>3. CASE Count(v)
  <2>1. CachedTotal' /\ ShownTotal'
    BY <1>0, <1>3 DEF Count, CachedTotal, ShownTotal
  <2>2. \/ seen'[v].total = Rows /\ call'[v] = "setTotal"
        \/ seen'[v] = seen[v] /\ call'[v] = "setOverview"
    <3> DEFINE taken == [seen[v] EXCEPT !.total = Cardinality(rows), !.counted = TRUE,
                                         !.late = @ \ {"total"}]
    <3>1. taken.total = Rows
      BY DEF Numbers, Rows
    <3> HIDE DEF taken
    <3>2. \/ seen'[v] = taken /\ call'[v] = "setTotal"
          \/ seen'[v] = seen[v] /\ call'[v] = "setOverview"
      BY <1>3 DEF Count, taken
    <3> QED BY <3>1, <3>2
  <2>3. SeenTotal(v)'
    BY <1>0, <1>3, <2>2 DEF Count, SeenTotal
  <2>4. ASSUME NEW u \in Viewers, u # v
        PROVE  SeenTotal(u)'
    BY <1>0, <1>3, <2>4 DEF Count, SeenTotal
  <2> QED BY <2>1, <2>3, <2>4
<1>4. CASE SetDeviceTotalCount(v)
  <2>1. ShownTotal'
    BY <1>0, <1>4 DEF SetDeviceTotalCount, ShownTotal
  <2>2. seen[v].total = Rows \/ "total" \in seen[v].late \/ settled = 0
    BY <1>4 DEF SetDeviceTotalCount, SeenTotal
  <2>3. CachedTotal'
    <3>1. CASE UNCHANGED <<deviceTotal, deviceTotalLeft, settled>>
      BY <1>0, <3>1 DEF CachedTotal
    <3>2. CASE /\ deviceTotal' = [Nothing EXCEPT !.total = seen[v].total,
                                                !.late = seen[v].late \ {"online"}]
               /\ deviceTotalLeft' = TotalTTL
      <4>1. /\ deviceTotal'.total = seen[v].total
            /\ deviceTotal'.late = seen[v].late \ {"online"}
        BY <3>2 DEF Nothing
      <4>2. Fits(0, TotalTTL, TotalTTL)
        BY DashboardTicks, Fresh
      <4>3. settled' = settled
        BY <1>4 DEF SetDeviceTotalCount
      <4> QED BY <1>0, <2>2, <3>2, <4>1, <4>2, <4>3 DEF CachedTotal
    <3> QED BY <1>4, <3>1, <3>2 DEF SetDeviceTotalCount
  <2>4. SeenTotal(v)'
    BY <1>0, <1>4, <2>2 DEF SetDeviceTotalCount, SeenTotal
  <2>5. ASSUME NEW u \in Viewers, u # v
        PROVE  SeenTotal(u)'
    BY <1>0, <1>4, <2>5 DEF SetDeviceTotalCount, SeenTotal
  <2> QED BY <2>1, <2>3, <2>4, <2>5
<1>5. CASE SetDashboard(v)
  <2>1. CachedTotal'
    BY <1>0, <1>5 DEF SetDashboard, CachedTotal
  <2>2. \A u \in Viewers : SeenTotal(u)'
    BY <1>0, <1>5 DEF SetDashboard, SeenTotal
  <2>3. /\ Fits(0, DashboardTTL, DashboardTTL)
        /\ settled = 0 \/ settled < TotalTTL => Fits(settled, DashboardTTL, MaxSettled - 1)
    BY DashboardTicks DEF Fits, MaxSettled
  <2>4. ShownTotal'
    <3>1. CASE UNCHANGED <<overview, overviewLeft, settled>>
      BY <1>0, <3>1 DEF ShownTotal
    <3>2. CASE overview' = seen[v] /\ overviewLeft' = DashboardTTL
      <4>1. settled' = settled /\ call[v] = "setOverview" /\ seen[v].total \in Nat
        BY <1>5 DEF SetDashboard, Numbers
      <4>2. \/ seen[v].total = Rows \/ "total" \in seen[v].late \/ ~seen[v].counted
            \/ settled = 0
            \/ seen[v].total # 0 /\ settled < TotalTTL
        BY <4>1 DEF SeenTotal
      <4>3. CASE settled = 0
        BY <1>0, <2>3, <3>2, <4>1, <4>3 DEF ShownTotal
      <4>4. CASE settled # 0
        BY <1>0, <2>3, <3>2, <4>1, <4>2, <4>4 DEF ShownTotal
      <4> QED BY <4>3, <4>4
    <3> QED BY <1>5, <3>1, <3>2 DEF SetDashboard
  <2> QED BY <2>1, <2>2, <2>4
<1> QED BY <1>1, <1>2, <1>3, <1>4, <1>5 DEF View

LEMMA TotalsTick ==
  ASSUME Inv, Tick
  PROVE  TotalsInv'
<1> USE DEF Inv, TotalsInv, DashboardTyped
<1>0. Rows' = Rows
  BY DEF Rows, Tick, pageVars
<1>1. /\ settled \in Nat /\ settled' \in Nat /\ settled' <= settled + 1
      /\ deviceTotalLeft \in Nat /\ overviewLeft \in Nat
  BY DashboardTicks DEF Tick
<1>2. CachedTotal'
  <2> SUFFICES ASSUME deviceTotalLeft' > 0
               PROVE  \/ deviceTotal'.total = Rows' \/ "total" \in deviceTotal'.late
                      \/ Fits(settled', deviceTotalLeft', TotalTTL)
    BY DEF CachedTotal
  <2>1. /\ deviceTotalLeft > 0 /\ deviceTotalLeft' = deviceTotalLeft - 1
        /\ deviceTotalLeft' \in Nat /\ deviceTotal' = deviceTotal
    BY <1>1 DEF Tick, Less
  <2>2. Fits(settled, deviceTotalLeft, TotalTTL) => Fits(settled', deviceTotalLeft', TotalTTL)
    BY <1>1, <2>1, DashboardTicks, Older
  <2> QED BY <1>0, <2>1, <2>2 DEF CachedTotal
<1>3. \A v \in Viewers : SeenTotal(v)'
  <2>1. ASSUME NEW v \in Viewers, call[v] \in Holding
        PROVE  /\ "total" \in seen'[v].late
               /\ seen'[v].counted = seen[v].counted
    <3>1. seen'[v] = [seen[v] EXCEPT !.late = Figures]
      BY <2>1 DEF Tick, Holding
    <3> QED BY <3>1 DEF Numbers, Figures
  <2>2. UNCHANGED call
    BY DEF Tick
  <2> QED BY <2>1, <2>2 DEF SeenTotal, Holding
<1>4. ShownTotal'
  <2> DEFINE Bound == IF overview.total = 0 THEN DashboardTTL ELSE MaxSettled - 1
  <2> SUFFICES ASSUME overviewLeft' > 0
               PROVE  \/ overview'.total = Rows' \/ "total" \in overview'.late
                      \/ ~overview'.counted
                      \/ Fits(settled', overviewLeft',
                              IF overview'.total = 0 THEN DashboardTTL ELSE MaxSettled - 1)
    BY DEF ShownTotal
  <2>1. /\ overviewLeft > 0 /\ overviewLeft' = overviewLeft - 1
        /\ overviewLeft' \in Nat /\ overview' = overview
    BY <1>1 DEF Tick, Less
  <2>2. Bound \in Nat
    BY DashboardTicks
  <2>3. \/ overview.total = Rows \/ "total" \in overview.late \/ ~overview.counted
        \/ Fits(settled, overviewLeft, Bound)
    BY <2>1 DEF ShownTotal
  <2> HIDE DEF Bound
  <2>4. Fits(settled, overviewLeft, Bound) => Fits(settled', overviewLeft', Bound)
    BY <1>1, <2>1, <2>2, Older
  <2> QED BY <1>0, <2>1, <2>3, <2>4 DEF Bound
<1> QED BY <1>2, <1>3, <1>4

-----------------------------------------------------------------------------
(* The inductive invariant                                                 *)

LEMMA InvStep ==
  ASSUME Inv, [Next]_vars
  PROVE  Inv'
<1>0. KeysInv' /\ PagesTyped'
  <2>1. KeysInv'
    BY KeysStep DEF Inv
  <2>2. [Walk \/ Churn]_pageVars
    BY StepOfPages DEF Inv, KeysInv, CountersTyped
  <2>3. PagesTyped'
    BY <2>2, PagesTypedStep DEF Inv
  <2> QED BY <2>1, <2>3
<1>1. CASE Write /\ UNCHANGED <<pageVars, dashboardVars>>
  <2>1. OnlineInv'
    BY <1>1, OnlineWrite
  <2>2. DashboardTyped' /\ MissingIsNothing' /\ TotalsInv'
    BY <1>1 DEF Inv, pageVars, dashboardVars, DashboardTyped, MissingIsNothing,
       TotalsInv, CachedTotal, SeenTotal, ShownTotal, Rows
  <2> QED BY <1>0, <2>1, <2>2 DEF Inv
<1>2. CASE ChangeDevices /\ UNCHANGED counterVars
  <2>1. TotalsInv'
    BY <1>2, TotalsChanged DEF ChangeDevices
  <2>2. DashboardTyped' /\ MissingIsNothing' /\ OnlineInv'
    BY <1>2, DashboardTicks DEF Inv, ChangeDevices, counterVars, presence,
       DashboardTyped, MissingIsNothing, OnlineInv, SeenOnline, ShownOnline, Unsure
  <2> QED BY <1>0, <2>1, <2>2 DEF Inv
<1>3. CASE /\ \E w \in traffic.walk : List(w) \/ \E n \in Limits : BeginWalk(w, n)
           /\ UNCHANGED <<counterVars, dashboardVars>>
  <2>1. rows' = rows
    BY <1>3 DEF List, BeginWalk
  <2>2. DashboardTyped' /\ MissingIsNothing' /\ TotalsInv' /\ OnlineInv'
    BY <1>3, <2>1 DEF Inv, counterVars, presence, dashboardVars, DashboardTyped,
       MissingIsNothing, TotalsInv, CachedTotal, SeenTotal, ShownTotal, Rows,
       OnlineInv, SeenOnline, ShownOnline, Unsure
  <2> QED BY <1>0, <2>2 DEF Inv
<1>4. ASSUME NEW v \in Viewers, View(v), UNCHANGED <<counterVars, pageVars>>
      PROVE  Inv'
  BY <1>0, <1>4, ViewTyped, TotalsView, OnlineView DEF Inv
<1>5. CASE Tick
  BY <1>0, <1>5, TickTyped, TotalsTick, OnlineTick DEF Inv
<1>6. CASE UNCHANGED vars
  BY <1>0, <1>6 DEF vars, counterVars, presence, pageVars, dashboardVars, Inv,
     DashboardTyped, MissingIsNothing, TotalsInv, CachedTotal, SeenTotal,
     ShownTotal, Rows, OnlineInv, SeenOnline, ShownOnline, Unsure
<1> QED BY <1>1, <1>2, <1>3, <1>4, <1>5, <1>6 DEF Next

LEMMA InvInit == Init => Inv
<1> SUFFICES ASSUME Init PROVE Inv
  OBVIOUS
<1> USE DEF Init
<1>1. KeysInv
  BY KeysInit
<1>2. PagesTyped
  BY PagesInitOK DEF PagesInv
<1>3. DashboardTyped /\ MissingIsNothing
  BY DashboardTicks, NothingTyped DEF DashboardTyped, MissingIsNothing, Calls
<1>4. TotalsInv
  BY DEF TotalsInv, CachedTotal, SeenTotal, ShownTotal
<1>5. OnlineInv
  BY NothingTyped DEF OnlineInv, SeenOnline, ShownOnline, Holding
<1> QED BY <1>1, <1>2, <1>3, <1>4, <1>5 DEF Inv

LEMMA InvAlways == Spec => []Inv
BY InvInit, InvStep, PTL DEF Spec

-----------------------------------------------------------------------------
(* Theorems                                                                *)

(* The keys, rows and dashboard keep their types, and a key is there       *)
(* exactly while it has ticks left.                                        *)
THEOREM Typing == Spec => []TypeOK
<1>1. Inv => TypeOK
  BY DEF Inv, KeysInv, MissingIsNothing, TypeOK
<1> QED BY <1>1, InvAlways, PTL

(* The online count of the dashboard misses no device that its status      *)
(* shows online, but for heartbeats that are under way, broke off or met   *)
(* the expiry of the set: the set outlives the online keys.                *)
THEOREM Counted == Spec => []OnlineIsCounted
<1>1. Inv => OnlineIsCounted
  BY DEF Inv, KeysInv, Covered, BeatIsOpen, OnlineIsCounted, GetDeviceStatus, IsOnline
<1> QED BY <1>1, InvAlways, PTL

(* A key that never expires is one between its creation and its EXPIRE, or *)
(* one whose pipeline broke off there.                                     *)
THEOREM Expiring == Spec => []NoLooseKeys
<1>1. Inv => NoLooseKeys
  BY DEF Inv, KeysInv, LooseSet, LooseCounts, NoLooseKeys
<1> QED BY <1>1, InvAlways, PTL

(* As long as no pipeline has broken off or met an expiry, the global      *)
(* alert count covers what the statuses of the devices show together: it   *)
(* outlives the counter of every device.                                   *)
THEOREM Covering == Spec => []GlobalCoversDevices
<1>1. Init => CoverInv
  BY CoverInit DEF Init
<1>2. Inv /\ CoverInv /\ [Next]_vars => CoverInv'
  BY CoverStep DEF Inv
<1>3. CoverInv => GlobalCoversDevices
  BY DEF CoverInv, GlobalCovers, GlobalCoversDevices, GetGlobalAlertCounts
<1> QED BY <1>1, <1>2, <1>3, InvAlways, PTL DEF Spec

(* A change of the inventory shows after at most both TTLs, although       *)
(* nothing invalidates the dashboard.                                      *)
THEOREM ChangesShow == Spec => []ChangeShows
<1>1. ASSUME Inv PROVE ChangeShows
  <2> SUFFICES ASSUME overviewLeft > 0, overview.total # Cardinality(rows),
                      overview.counted, "total" \notin overview.late
               PROVE  settled < IF overview.total = 0 THEN DashboardTTL ELSE MaxSettled
    BY DEF ChangeShows
  <2>1. Fits(settled, overviewLeft,
             IF overview.total = 0 THEN DashboardTTL ELSE MaxSettled - 1)
    BY <1>1 DEF Inv, TotalsInv, ShownTotal, Rows
  <2>2. overviewLeft \in Nat /\ settled \in Nat
    BY <1>1, DashboardTicks DEF Inv, DashboardTyped
  <2> QED BY <2>1, <2>2, DashboardTicks DEF Fits
<1> QED BY <1>1, InvAlways, PTL

(* A fleet that falls silent is shown offline after the TTLs of the set    *)
(* and of the overview, unless a heartbeat broke off.                      *)
THEOREM SilencesShow == Spec => []SilenceShows
<1>1. ASSUME Inv PROVE SilenceShows
  <2> SUFFICES ASSUME overview.online > 0, "online" \notin overview.late, ~Unsure
               PROVE  quiet < SetTTL + DashboardTTL
    BY DEF SilenceShows, Unsure
  <2>1. Fits(quiet, overviewLeft, SetTTL + DashboardTTL - 1)
    BY <1>1 DEF Inv, OnlineInv, ShownOnline
  <2>2. overviewLeft \in Nat /\ quiet \in Nat
    BY <1>1, DashboardTicks, Ticks DEF Inv, DashboardTyped, KeysInv, CountersTyped
  <2> QED BY <2>1, <2>2, DashboardTicks DEF Fits
<1> QED BY <1>1, InvAlways, PTL

(* The composition refines the walks: what DevicePages_proofs shows of     *)
(* them, complete and without a row twice, holds of every client here.     *)
THEOREM WalksAsPages == Spec => PagesSpec
<1>1. Init => PagesInit
  BY DEF Init
<1>2. Inv /\ [Next]_vars => [Walk \/ Churn]_pageVars
  BY StepOfPages DEF Inv, KeysInv, CountersTyped
<1> QED BY <1>1, <1>2, InvAlways, PTL DEF Spec, PagesSpec

(* Walks of the composition are complete and show no row twice.            *)
THEOREM Walks == Spec => [](WalkIsComplete /\ NoneTwice)
BY WalksAsPages, CompleteWalks, NoRowTwice, PTL
=============================================================================
