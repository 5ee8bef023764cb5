-------------------------- MODULE DevicePages_proofs --------------------------
(***************************************************************************)
(* Proofs about DevicePages for every finite set of positions, every       *)
(* number of walkers and all limits.                                       *)
(***************************************************************************)
EXTENDS DevicePages, FiniteSetTheorems, TLAPS

-----------------------------------------------------------------------------
(* Finite sets of positions                                                *)

Above(S, p) == {q \in S : q > p}

(* A largest element: one whose upper set contains no other upper set.     *)
LEMMA Largest ==
  ASSUME NEW S \in SUBSET Nat, IsFiniteSet(S), NEW T \in SUBSET S, T # {}
  PROVE  \E x \in T : \A y \in T : y <= x
<1> DEFINE R == StrictSubsetOrdering(S)
           U == {Above(S, x) : x \in T}
<1>1. IsWellFoundedOn(R, FiniteSubsetsOf(S))
  BY FS_StrictSubsetOrderingWellFounded
<1>0. (\A q \in S : q \in Nat) /\ (\A y \in T : y \in S)
  OBVIOUS
<1>2. U \subseteq FiniteSubsetsOf(S) /\ U # {}
  <2>1. FiniteSubsetsOf(S) = SUBSET S
    BY FS_FiniteSubsetsOfFinite
  <2>2. ASSUME NEW x \in T
        PROVE  Above(S, x) \in FiniteSubsetsOf(S)
    BY <2>1 DEF Above
  <2>3. U # {}
    <3>1. PICK x : x \in T
      OBVIOUS
    <3>2. Above(S, x) \in U
      BY <3>1
    <3> QED BY <3>2
  <2> QED BY <2>2, <2>3
<1>3. PICK u \in U : \A v \in U : <<v, u>> \notin R
  <2> HIDE DEF R, U
  <2> QED BY <1>1, <1>2, WFMin
<1>4. PICK x \in T : u = Above(S, x)
  OBVIOUS
<1>5. ASSUME NEW y \in T, ~(y <= x)
      PROVE  FALSE
  <2>1. x \in Nat /\ y \in Nat /\ y > x /\ y \in S
    BY <1>0, <1>5
  <2>2. ASSUME NEW q \in S, q > y
        PROVE  q > x
    BY <1>0, <2>1, <2>2
  <2>3. Above(S, y) \subseteq Above(S, x)
    BY <2>2 DEF Above
  <2>4. y \in Above(S, x) /\ y \notin Above(S, y)
    BY <2>1 DEF Above
  <2>5. <<Above(S, y), Above(S, x)>> \in R
    BY <2>3, <2>4 DEF StrictSubsetOrdering, Above
  <2> QED
    BY <1>3, <1>4, <2>5
<1> QED BY <1>5

LEMMA Smallest ==
  ASSUME NEW T \in SUBSET Nat, T # {}
  PROVE  \E x \in T : \A y \in T : x <= y
<1> DEFINE R == OpToRel(<, Nat)
<1>1. PICK x \in T : \A y \in T : <<y, x>> \notin R
  <2>1. IsWellFoundedOn(R, Nat)
    BY NatLessThanWellFounded
  <2> HIDE DEF R
  <2> QED BY <2>1, WFMin
<1>2. ASSUME NEW y \in T, y < x
      PROVE  <<y, x>> \in R
  BY <1>2 DEF OpToRel
<1>3. \A y \in T : y \in Nat
  OBVIOUS
<1>4. \A y \in T : ~(y < x)
  BY <1>1, <1>2
<1>5. \A y \in T : x <= y
  BY <1>3, <1>4
<1> QED BY <1>5

-----------------------------------------------------------------------------
(* Pages                                                                   *)

(* A page leaves out no row above one of its rows.                         *)
LEMMA PageIsTop ==
  ASSUME NEW S \in SUBSET Nat, IsFiniteSet(S), NEW n \in Nat,
         NEW c \in First(S, n), NEW p \in S, p >= c
  PROVE  p \in First(S, n)
<1>0. /\ \A q \in S : q \in Nat
      /\ c \in S
  BY DEF First
<1>1. Above(S, p) \subseteq Above(S, c)
  <2>1. \A q \in S : q > p => q > c
    BY <1>0
  <2> QED BY <2>1 DEF Above
<1>2. IsFiniteSet(Above(S, c))
  BY FS_Subset DEF Above
<1>3. /\ Cardinality(Above(S, p)) <= Cardinality(Above(S, c))
      /\ Cardinality(Above(S, p)) \in Nat
      /\ Cardinality(Above(S, c)) \in Nat
  BY <1>1, <1>2, FS_Subset, FS_CardinalityType
<1>4. Cardinality(Above(S, c)) < n
  BY DEF First, Above
<1>5. Cardinality(Above(S, p)) < n
  BY <1>3, <1>4
<1> QED BY <1>5 DEF First, Above

(* If one more row does not make the page longer, no row is left out: the  *)
(* largest row left out would be the one more.                             *)
LEMMA LastPageIsAll ==
  ASSUME NEW S \in SUBSET Nat, IsFiniteSet(S), NEW n \in Nat, ~HasMore(S, n)
  PROVE  S \subseteq First(S, n)
<1> SUFFICES ASSUME S \ First(S, n) # {} PROVE FALSE
  OBVIOUS
<1>1. PICK x \in S \ First(S, n) : \A y \in S \ First(S, n) : y <= x
  BY Largest
<1>0. \A q \in S : q \in Nat
  OBVIOUS
<1>2. Above(S, x) \subseteq First(S, n) /\ Above(S, x) \subseteq S
  <2>1. \A q \in S : q > x => ~(q <= x)
    BY <1>0
  <2> QED BY <1>1, <2>1 DEF Above
<1>3. IsFiniteSet(Above(S, x)) /\ Cardinality(Above(S, x)) \in Nat
  BY FS_Subset, FS_CardinalityType, <1>2
<1>4. Cardinality(Above(S, x)) < n + 1
  <2>1. CASE Above(S, x) = {}
    BY <2>1, FS_EmptySet
  <2>2. CASE Above(S, x) # {}
    <3>1. PICK z \in Above(S, x) : \A y \in Above(S, x) : z <= y
      BY <2>2, <1>2, Smallest
    <3>2. Above(S, x) = Above(S, z) \cup {z} /\ z \notin Above(S, z)
      <4>1. z \in S /\ z > x /\ \A y \in S : y > x => z <= y
        BY <3>1 DEF Above
      <4>2. \A y \in S : y > x <=> y > z \/ y = z
        BY <4>1, <1>0, <1>1
      <4>3. ~(z > z)
        BY <4>1, <1>0
      <4> QED BY <4>1, <4>2, <4>3 DEF Above
    <3>3. IsFiniteSet(Above(S, z)) /\ Cardinality(Above(S, z)) \in Nat
      BY FS_Subset, FS_CardinalityType DEF Above
    <3>4. Cardinality(Above(S, x)) = Cardinality(Above(S, z)) + 1
      BY <3>2, <3>3, FS_AddElement
    <3>5. Cardinality(Above(S, z)) < n
      BY <3>1, <1>2 DEF First, Above
    <3> QED BY <3>3, <3>4, <3>5
  <2> QED BY <2>1, <2>2
<1>5. x \in First(S, n + 1)
  BY <1>1, <1>4 DEF First, Above
<1> QED BY <1>1, <1>5 DEF HasMore

-----------------------------------------------------------------------------
(* Walks                                                                   *)

(* A walk has shown rows from its cursor upwards only, and of the rows     *)
(* that stayed all of those.                                               *)
WalkOK(w) ==
  /\ state[w] = "walking" =>
       IF cursor[w] = Start THEN shown[w] = {}
       ELSE /\ \A p \in shown[w] : p >= cursor[w]
            /\ \A p \in stayed[w] : p >= cursor[w] => p \in shown[w]
  /\ state[w] = "done" => stayed[w] \subseteq shown[w]
  /\ ~twice[w]

PagesInv == PagesTyped /\ \A w \in Walkers : WalkOK(w)

LEMMA RowsFinite ==
  ASSUME PagesTyped, NEW c
  PROVE  /\ Below(rows, c) \in SUBSET Nat
         /\ Below(rows, c) \subseteq rows
         /\ IsFiniteSet(Below(rows, c))
<1>1. Below(rows, c) \subseteq rows
  BY DEF Below
<1>2. rows \subseteq Positions
  BY DEF PagesTyped
<1>3. IsFiniteSet(Below(rows, c))
  BY <1>1, <1>2, FS_Subset, DevicePagesAssumption
<1> QED BY <1>1, <1>2, <1>3, DevicePagesAssumption

LEMMA ListStep ==
  ASSUME PagesInv, NEW w \in Walkers, List(w)
  PROVE  PagesInv'
<1> DEFINE M == Below(rows, cursor[w])
           n == PageSize(limit[w])
           page == First(M, n)
<1>1. /\ M \in SUBSET Nat /\ M \subseteq rows /\ IsFiniteSet(M)
      /\ rows \subseteq Positions
  BY RowsFinite DEF PagesInv, PagesTyped
<1>2. n \in Nat
  BY DevicePagesAssumption DEF PagesInv, PagesTyped, PageSize
<1>3. page \subseteq M
  BY DEF First
<1>4. /\ state[w] = "walking"
      /\ shown' = [shown EXCEPT ![w] = @ \cup page]
      /\ twice' = [twice EXCEPT ![w] = @ \/ page \cap shown[w] # {}]
      /\ UNCHANGED <<rows, limit, stayed>>
      /\ \/ /\ HasMore(M, n)
            /\ \E c \in NextCursor(M, n) : cursor' = [cursor EXCEPT ![w] = c]
            /\ UNCHANGED state
         \/ /\ ~HasMore(M, n)
            /\ state' = [state EXCEPT ![w] = "done"]
            /\ UNCHANGED cursor
  BY DEF List
<1>5. NextCursor(M, n) \subseteq page
  BY DEF NextCursor
<1> HIDE DEF M, n, page
<1>6. PagesTyped'
  BY <1>1, <1>3, <1>4, <1>5 DEF PagesInv, PagesTyped
<1>7. ASSUME NEW v \in Walkers \ {w}
      PROVE  WalkOK(v)'
  BY <1>4 DEF PagesInv, PagesTyped, WalkOK
<1>8. /\ shown'[w] = shown[w] \cup page
      /\ twice'[w] = (twice[w] \/ page \cap shown[w] # {})
      /\ stayed'[w] = stayed[w]
      /\ stayed[w] \subseteq rows
      /\ shown[w] \subseteq Positions
      /\ cursor[w] \in Positions \cup {Start}
  BY <1>4 DEF PagesInv, PagesTyped
<1>9. M = IF cursor[w] = Start THEN rows ELSE {p \in rows : p < cursor[w]}
  BY DEF M, Below
<1>10. page \cap shown[w] = {}
  <2>1. CASE cursor[w] = Start
    BY <1>4, <2>1 DEF PagesInv, WalkOK
  <2>2. CASE cursor[w] # Start
    <3>1. \A p \in shown[w] : p >= cursor[w]
      BY <1>4, <2>2 DEF PagesInv, WalkOK
    <3>2. \A p \in page : p < cursor[w]
      BY <1>3, <1>9, <2>2
    <3>3. \A p \in Positions : ~(p >= cursor[w] /\ p < cursor[w])
      <4>1. cursor[w] \in Nat /\ \A p \in Positions : p \in Nat
        BY <1>8, <2>2, DevicePagesAssumption
      <4> QED BY <4>1
    <3> QED
      BY <3>1, <3>2, <3>3, <1>8
  <2> QED BY <2>1, <2>2
<1>11. ~twice'[w]
  BY <1>8, <1>10 DEF PagesInv, WalkOK
<1>12. \A p \in stayed[w] : p \in M \/ p \in shown[w]
  <2>1. CASE cursor[w] = Start
    BY <1>8, <1>9, <2>1
  <2>2. CASE cursor[w] # Start
    <3>1. \A p \in stayed[w] : p >= cursor[w] => p \in shown[w]
      BY <1>4, <2>2 DEF PagesInv, WalkOK
    <3>2. \A p \in Positions : p >= cursor[w] \/ p < cursor[w]
      <4>1. cursor[w] \in Nat /\ \A p \in Positions : p \in Nat
        BY <1>8, <2>2, DevicePagesAssumption
      <4> QED BY <4>1
    <3> QED
      BY <3>1, <3>2, <1>1, <1>8, <1>9, <2>2
  <2> QED BY <2>1, <2>2
<1>13. CASE HasMore(M, n)
  <2>1. PICK c \in NextCursor(M, n) : cursor' = [cursor EXCEPT ![w] = c]
    BY <1>4, <1>13
  <2>2. /\ c \in page /\ c \in Positions /\ c \in Nat
        /\ \A q \in page : c <= q
        /\ cursor'[w] = c /\ state'[w] = "walking"
    BY <1>1, <1>3, <1>4, <1>5, <1>13, <2>1, DevicePagesAssumption
       DEF NextCursor, page, PagesInv, PagesTyped
  <2>3. c # Start
    BY <2>2, DevicePagesAssumption DEF Start
  <2>4. ASSUME NEW p \in shown'[w]
        PROVE  p >= c
    <3>1. CASE p \in page
      BY <3>1, <2>2, <1>1, <1>3
    <3>2. CASE p \in shown[w]
      <4>1. cursor[w] # Start /\ p >= cursor[w]
        BY <1>4, <3>2 DEF PagesInv, WalkOK
      <4>2. c < cursor[w]
        BY <1>3, <1>9, <2>2, <4>1
      <4>3. p \in Nat /\ cursor[w] \in Nat
        BY <3>2, <4>1, <1>8, DevicePagesAssumption
      <4> QED
        BY <2>2, <4>1, <4>2, <4>3
    <3> QED BY <1>8, <2>4, <3>1, <3>2
  <2>5. ASSUME NEW p \in stayed[w], p >= c
        PROVE  p \in shown'[w]
    <3>1. CASE p \in M
      BY <1>1, <1>2, <1>8, <2>2, <2>5, <3>1, PageIsTop DEF page
    <3> QED BY <1>8, <1>12, <3>1
  <2>6. WalkOK(w)'
    BY <1>8, <1>11, <2>2, <2>3, <2>4, <2>5 DEF WalkOK
  <2> QED
    BY <1>6, <1>7, <2>6 DEF PagesInv
<1>14. CASE ~HasMore(M, n)
  <2>1. M \subseteq page
    BY <1>1, <1>2, <1>14, LastPageIsAll DEF page
  <2>2. state'[w] = "done"
    BY <1>4, <1>14 DEF PagesInv, PagesTyped
  <2>3. WalkOK(w)'
    BY <1>8, <1>11, <1>12, <2>1, <2>2 DEF WalkOK
  <2> QED
    BY <1>6, <1>7, <2>3 DEF PagesInv
<1> QED BY <1>13, <1>14

LEMMA PagesNext ==
  ASSUME PagesInv, [Walk \/ Churn]_pageVars
  PROVE  PagesInv'
<1> USE DEF PagesInv, PagesTyped, walks
<1>1. ASSUME NEW w \in Walkers, NEW n \in Limits, BeginWalk(w, n)
      PROVE  PagesInv'
  <2>1. PagesTyped'
    BY <1>1 DEF BeginWalk
  <2>2. \A v \in Walkers : WalkOK(v)'
    BY <1>1 DEF BeginWalk, WalkOK
  <2> QED BY <2>1, <2>2
<1>2. ASSUME NEW p \in Positions, InsertRow(p)
      PROVE  PagesInv'
  BY <1>2 DEF InsertRow, WalkOK
<1>3. ASSUME NEW p \in Positions, DeleteRow(p)
      PROVE  PagesInv'
  BY <1>3 DEF DeleteRow, WalkOK
<1>4. CASE UNCHANGED pageVars
  BY <1>4 DEF pageVars, WalkOK
<1> QED
  BY <1>1, <1>2, <1>3, <1>4, ListStep DEF Walk, Churn

(* The types alone are preserved, too.                                     *)
LEMMA PagesTypedStep ==
  ASSUME PagesTyped, [Walk \/ Churn]_pageVars
  PROVE  PagesTyped'
<1> USE DEF PagesTyped, walks
<1>1. ASSUME NEW w \in Walkers, NEW n \in Limits, BeginWalk(w, n)
      PROVE  PagesTyped'
  BY <1>1 DEF BeginWalk
<1>2. ASSUME NEW w \in Walkers, List(w)
      PROVE  PagesTyped'
  <2> DEFINE M == Below(rows, cursor[w])
             n == PageSize(limit[w])
  <2>1. First(M, n) \subseteq rows /\ NextCursor(M, n) \subseteq rows
    BY DEF First, NextCursor, Below
  <2>2. (First(M, n) \cap shown[w] # {}) \in BOOLEAN
    OBVIOUS
  <2> HIDE DEF M, n
  <2>3. shown' \in [Walkers -> SUBSET Positions] /\ twice' \in [Walkers -> BOOLEAN]
    BY <1>2, <2>1, <2>2 DEF List, M, n
  <2>4. state' \in [Walkers -> {"idle", "walking", "done"}]
    BY <1>2 DEF List
  <2>5. cursor' \in [Walkers -> Positions \cup {Start}]
    BY <1>2, <2>1 DEF List, M, n
  <2> QED BY <1>2, <2>3, <2>4, <2>5 DEF List
<1>3. ASSUME NEW p \in Positions, InsertRow(p) \/ DeleteRow(p)
      PROVE  PagesTyped'
  BY <1>3 DEF InsertRow, DeleteRow
<1>4. CASE UNCHANGED pageVars
  BY <1>4 DEF pageVars
<1> QED BY <1>1, <1>2, <1>3, <1>4 DEF Walk, Churn

LEMMA PagesInitOK == PagesInit => PagesInv
BY DEF PagesInit, PagesInv, PagesTyped, WalkOK

(* The walks keep their types: what stayed is always still in the table.   *)
THEOREM PagesTyping == PagesSpec => []PagesTyped
<1>1. PagesInv => PagesTyped
  BY DEF PagesInv
<1> QED BY <1>1, PagesInitOK, PagesNext, PTL DEF PagesSpec

(* A walk that reaches its last page has shown every row that stayed from  *)
(* its first page on, for every limit and all changes in between.          *)
THEOREM CompleteWalks == PagesSpec => []WalkIsComplete
<1>1. PagesInv => WalkIsComplete
  BY DEF PagesInv, WalkOK, WalkIsComplete
<1> QED BY <1>1, PagesInitOK, PagesNext, PTL DEF PagesSpec

(* No walk shows a row twice.                                              *)
THEOREM NoRowTwice == PagesSpec => []NoneTwice
<1>1. PagesInv => NoneTwice
  BY DEF PagesInv, WalkOK, NoneTwice
<1> QED BY <1>1, PagesInitOK, PagesNext, PTL DEF PagesSpec
=============================================================================
