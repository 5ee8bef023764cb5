----------------------------- MODULE DevicePages -----------------------------
(***************************************************************************)
(* GET /devices page by page while devices are created and deleted.  A row *)
(* has a position in the order (created_at, id); pages go from the largest *)
(* down.  created_at is the start of the inserting transaction, so a row   *)
(* may appear at any position, not only at the top.  One page is one       *)
(* query; between two pages of a walk the rows change.                     *)
(*                                                                         *)
(* The rows are those that match the filters of the walk.  Pages that come *)
(* from the list cache are left to DeviceService.                          *)
(***************************************************************************)
EXTENDS Naturals, FiniteSets

CONSTANTS
  Positions,     \* of the rows that may exist, a finite set of numbers
  Walkers,       \* clients that page through the list
  Limits,        \* the limits they ask for
  DefaultLimit   \* 10 in the code

ASSUME DevicePagesAssumption ==
  /\ Positions \subseteq Nat \ {0} /\ IsFiniteSet(Positions)
  /\ Limits \subseteq Nat /\ DefaultLimit \in Nat \ {0}

VARIABLES
  rows,     \* PostgreSQL: the positions of the rows
  state,    \* of each walker: "idle", "walking" or "done"
  cursor,   \* next_cursor of the last page, or Start
  limit,    \* the limit it asks for
  shown,    \* the rows of its pages
  stayed,   \* history: the rows that have been there since the walk began
  twice     \* history: some row was on two pages

walks    == <<state, cursor, limit, shown, stayed, twice>>
pageVars == <<rows, walks>>

Start == 0   \* no cursor

-----------------------------------------------------------------------------
(* A limit of zero (or less) is the default.                               *)
PageSize(n) == IF n = 0 THEN DefaultLimit ELSE n

(* WHERE (created_at, id) < cursor                                         *)
Below_Inclusive(S, c) == IF c = Start THEN S ELSE {p \in S : p <= c}
Below(S, c) == IF c = Start THEN S ELSE {p \in S : p < c}

(* ORDER BY created_at DESC, id DESC LIMIT n                               *)
First(S, n) == {p \in S : Cardinality({q \in S : q > p}) < n}

(* One row more than the page is read, to know if there is another page;   *)
(* the cursor of that page is the last row of this one.                    *)
NextCursor_OfTheExtraRow(S, n) ==
  {p \in First(S, n + 1) : \A q \in First(S, n + 1) : p <= q}
NextCursor(S, n) == {p \in First(S, n) : \A q \in First(S, n) : p <= q}
HasMore(S, n)    == First(S, n + 1) # First(S, n)

-----------------------------------------------------------------------------
PagesInit ==
  /\ rows = {}
  /\ state = [w \in Walkers |-> "idle"]
  /\ cursor = [w \in Walkers |-> Start]
  /\ limit = [w \in Walkers |-> 0]
  /\ shown = [w \in Walkers |-> {}]
  /\ stayed = [w \in Walkers |-> {}]
  /\ twice = [w \in Walkers |-> FALSE]

BeginWalk(w, n) ==
  /\ state[w] # "walking"
  /\ state' = [state EXCEPT ![w] = "walking"]
  /\ cursor' = [cursor EXCEPT ![w] = Start]
  /\ limit' = [limit EXCEPT ![w] = n]
  /\ shown' = [shown EXCEPT ![w] = {}]
  /\ stayed' = [stayed EXCEPT ![w] = rows]
  /\ twice' = [twice EXCEPT ![w] = FALSE]
  /\ UNCHANGED rows

(* One page.  Without another page there is no cursor and the walk ends.   *)
List(w) ==
  /\ state[w] = "walking"
  /\ LET matching == Below(rows, cursor[w])
         n == PageSize(limit[w])
         page == First(matching, n)
     IN  /\ shown' = [shown EXCEPT ![w] = @ \cup page]
         /\ twice' = [twice EXCEPT ![w] = @ \/ page \cap shown[w] # {}]
         /\ \/ /\ HasMore(matching, n)
               /\ \E c \in NextCursor(matching, n) :
                    cursor' = [cursor EXCEPT ![w] = c]
               /\ UNCHANGED state
            \/ /\ ~HasMore(matching, n)
               /\ state' = [state EXCEPT ![w] = "done"]
               /\ UNCHANGED cursor
  /\ UNCHANGED <<rows, limit, stayed>>

(* Create, and an update that makes a row match the filters again.         *)
InsertRow(p) ==
  /\ p \in Positions \ rows
  /\ rows' = rows \cup {p}
  /\ UNCHANGED walks

(* Delete, and an update after which the row no longer matches.            *)
DeleteRow(p) ==
  /\ p \in rows
  /\ rows' = rows \ {p}
  /\ stayed' = [w \in Walkers |-> stayed[w] \ {p}]
  /\ UNCHANGED <<state, cursor, limit, shown, twice>>

Walk == \E w \in Walkers : List(w) \/ \E n \in Limits : BeginWalk(w, n)
Churn == \E p \in Positions : InsertRow(p) \/ DeleteRow(p)

PagesSpec == PagesInit /\ [][Walk \/ Churn]_pageVars
-----------------------------------------------------------------------------
(* Properties                                                              *)

PagesTyped ==
  /\ rows \in SUBSET Positions
  /\ state \in [Walkers -> {"idle", "walking", "done"}]
  /\ cursor \in [Walkers -> Positions \cup {Start}]
  /\ limit \in [Walkers -> Limits \cup {0}]
  /\ shown \in [Walkers -> SUBSET Positions]
  /\ stayed \in [Walkers -> SUBSET rows]
  /\ twice \in [Walkers -> BOOLEAN]

(* A walk that reaches its last page has shown every row that was there    *)
(* from its first page to its last, and it never shows a row twice, however *)
(* the rows change between the pages and wherever new ones appear.         *)
WalkIsComplete == \A w \in Walkers : state[w] = "done" => stayed[w] \subseteq shown[w]
NoneTwice      == \A w \in Walkers : ~twice[w]
=============================================================================
