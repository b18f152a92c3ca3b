------------------------------ MODULE MCForum ------------------------------
(* Small instances of Forum for TLC. *)
EXTENDS Forum, TLC

CONSTANTS d1, d2, u1, u2, p1, p2, c1, c2, s1, s2

TwoAccounts == (d1 :> u1) @@ (d2 :> u2)
OneAccount  == (d1 :> u1)
NoOldPosts  == [p \in PostIds |-> None]
SameAuthor  == [p \in PostIds |-> u1]
TwoOldPosts == (p1 :> u1) @@ (p2 :> u2)
OneOldPost  == [p \in PostIds |-> IF p = p1 THEN u1 ELSE None]
SlotSymmetry == Permutations(Slots)
=============================================================================
