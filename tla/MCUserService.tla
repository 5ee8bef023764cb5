----------------------------- MODULE MCUserService -----------------------------
(***************************************************************************)
(* Finite instances of UserService for TLC.                                 *)
(***************************************************************************)
EXTENDS UserService, TLC

CONSTANTS r1, r2, n1, n2, e1, e2

TwoRequests == {r1, r2}
TwoNames    == {n1, n2}
TwoEmails   == {e1, e2}

(* Updates that name nothing, one field, two, and each kind of field.       *)
SomeUpdates == {{}, {"name"}, {"active"}, {"name", "email"}}
AllUpdates  == SUBSET Fields

(* Requests run the same code; names and emails are only compared.          *)
Symmetries ==
  Permutations(Requests) \cup Permutations(Names) \cup Permutations(Emails)
=============================================================================
