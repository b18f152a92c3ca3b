---------------------------- MODULE Registration ----------------------------
(***************************************************************************)
(* What signing up promises: an e-mail becomes an account once, and an     *)
(* account gets its profile once, with a name that is not blank.           *)
(***************************************************************************)
CONSTANTS Emails, Names, None

VARIABLES
    accounts,    \* e-mails that have an account
    users        \* the name in the profile of an e-mail, or None

vars == <<accounts, users>>

Init ==
    /\ accounts = {}
    /\ users = [e \in Emails |-> None]

Open(e) ==
    /\ e \notin accounts
    /\ accounts' = accounts \cup {e}
    /\ UNCHANGED users

Fill(e, n) ==
    /\ e \in accounts
    /\ users[e] = None
    /\ users' = [users EXCEPT ![e] = n]
    /\ UNCHANGED accounts

Next == \E e \in Emails : Open(e) \/ \E n \in Names : Fill(e, n)

Spec == Init /\ [][Next]_vars
=============================================================================
