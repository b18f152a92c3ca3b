------------------------------ MODULE MCSignUp ------------------------------
(* Small instances of SignUp for TLC. *)
EXTENDS SignUp

CONSTANTS d1, d2, e1, e2, n1, n2, s1, s2
=============================================================================
