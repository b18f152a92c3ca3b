--------------------------- MODULE MCPostScreen ----------------------------
(* A small instance of PostScreen: a post of the user, another's post with a
   comment and a reply, and one more comment to make. *)
EXTENDS PostScreen

CONSTANTS p1, p2, u1, u2, c1, c2, c3

Author == (p1 :> u1) @@ (p2 :> u2)

Thread ==
    (c1 :> [post |-> p2, parent |-> None])
        @@ (c2 :> [post |-> p2, parent |-> c1]) @@ (c3 :> None)
=============================================================================
