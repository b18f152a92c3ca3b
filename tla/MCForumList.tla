---------------------------- MODULE MCForumList -----------------------------
(* Small instances of ForumList for TLC. *)
EXTENDS ForumList

NewPost(l, c, h, likes, comments) ==
    [league |-> l, category |-> c, hour |-> h,
     likes |-> likes, comments |-> comments]

\* Morning posts; the ids order them by hour.  The older of two is the more
\* popular one.
TwoPosts   == << NewPost(1, 0, 1, 0, 2), NewPost(0, 1, 5, 3, 0) >>
ThreePosts == << NewPost(1, 0, 1, 0, 2), NewPost(0, 0, 5, 3, 0),
                 NewPost(0, 1, 9, 1, 0) >>
=============================================================================
