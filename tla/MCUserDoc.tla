----------------------------- MODULE MCUserDoc -----------------------------
(* A small instance of UserDoc: a device of one user, two comments of one
   post, and another user who has written posts. *)
EXTENDS UserDoc, TLC

CONSTANTS d1, u1, u2, c1, c2

OneUser == [d \in Devices |-> u1]

Same == Permutations({c1, c2})
=============================================================================
