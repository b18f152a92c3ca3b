---------------------------- MODULE ForumPromise ----------------------------
(***************************************************************************)
(* What the forum promises its readers, whatever devices do to its         *)
(* documents and in whatever order: a post is published once, keeps being  *)
(* saved while it is live, is retired for good, and never lists a comment  *)
(* that was not handed to the server before.                               *)
(***************************************************************************)
CONSTANTS PostIds, CommentIds

VARIABLES
    live,      \* posts that can be read
    gone,      \* posts that were deleted
    written,   \* comments that can be read
    refused,   \* posts and comments the server did not take
    listed     \* the comments each live post lists

vars == <<live, gone, written, refused, listed>>

Init ==
    /\ live \in SUBSET PostIds
    /\ gone = {}
    /\ written = {}
    /\ refused = {}
    /\ listed = [p \in PostIds |-> {}]

Publish(p) ==
    /\ p \notin live \cup gone
    /\ live'   = live \cup {p}
    /\ listed' = [listed EXCEPT ![p] = {}]
    /\ UNCHANGED <<gone, written, refused>>

Comment(c) ==
    /\ written' = written \cup {c}
    /\ UNCHANGED <<live, gone, refused, listed>>

Refuse(x) ==
    /\ refused' = refused \cup {x}
    /\ UNCHANGED <<live, gone, written, listed>>

Save(p, cs) ==
    /\ p \in live
    /\ cs \subseteq written \cup refused
    /\ listed' = [listed EXCEPT ![p] = cs]
    /\ UNCHANGED <<live, gone, written, refused>>

Retire(p) ==
    /\ live'   = live \ {p}
    /\ gone'   = gone \cup {p}
    /\ listed' = [listed EXCEPT ![p] = {}]
    /\ UNCHANGED <<written, refused>>

Next ==
    \/ \E p \in PostIds : Publish(p) \/ Retire(p)
    \/ \E p \in PostIds, cs \in SUBSET CommentIds : Save(p, cs)
    \/ \E c \in CommentIds : Comment(c)
    \/ \E x \in PostIds \cup CommentIds : Refuse(x)

Spec == Init /\ [][Next]_vars
=============================================================================
