------------------------------- MODULE Forum -------------------------------
(***************************************************************************)
(* The forum documents of The Football Gallery, edited by several devices. *)
(*                                                                         *)
(* Firestore keeps three collections: posts, comments and users (of a user *)
(* only the list of post ids is kept here).  A device walks between the    *)
(* forum list (CoreActivity), a post (ForumDetailActivity) and the post    *)
(* form (ForumFormActivity).  Every request of DBUtil is asynchronous: the *)
(* write enters the device's write queue, the server commits or rejects    *)
(* it, and the answer comes back as a broadcast whose action string is     *)
(* the only thing that ties it to a request.  The activity that happens to *)
(* be registered for that string handles it with the fields it holds THEN. *)
(*                                                                         *)
(* Left out: titles and texts, and the like and yellow-card counters of a  *)
(* post, which the code never changes (ForumDetailActivity compares        *)
(* drawables by identity, so every branch that counts is dead).            *)
(***************************************************************************)
EXTENDS Naturals, Sequences

CONSTANTS
    Devices,     \* running copies of the app
    Users,       \* signed-in accounts (the e-mail is the document id)
    UserOf,      \* the account signed in on a device
    PostIds,     \* "post_" + time stamp
    CommentIds,  \* "comment_" + time stamp
    Slots,       \* bound: reads of one post in flight per device
    MaxQueue,    \* bound: writes of a device not yet answered
    MaxTaps,     \* bound: commands all users give
    OldPosts,    \* the author of each post that is there from before, or None
    Patient,     \* TRUE: the user leaves a screen only once it is answered
    UniqueIds,   \* TRUE: no two documents are created at one time stamp
    None         \* no document, no field, no request

ASSUME ForumAssumption ==
    /\ UserOf \in [Devices -> Users]
    /\ MaxQueue \in Nat /\ MaxTaps \in Nat
    /\ OldPosts \in [PostIds -> Users \cup {None}]
    /\ Patient \in BOOLEAN
    /\ UniqueIds \in BOOLEAN

VARIABLES
    posts,       \* the posts collection
    comments,    \* the comments collection: the postId field, or None
    userPosts,   \* the "posts" array of each users document
    scr,         \* the activity on top of a device
    list,        \* mForumCollection of CoreActivity
    mPost,       \* ForumDetailActivity.mPost
    mNew,        \* ForumDetailActivity.mNewPost
    mine,        \* ForumDetailActivity.mIsMyPost
    ready,       \* populateInfo() has set the buttons' listeners
    formNew,     \* ForumFormActivity.mNewPost (its id)
    queue,       \* writes not yet committed, in the order they were made
    acks,        \* results of committed writes, not yet handled
    reads,       \* forum_get_post_with_id requests in flight
    taps,        \* commands given so far
    usedIds,     \* history: every id a device generated
    failed,      \* history: ids whose creating write was rejected
    deleted      \* history: posts whose delete was committed

store   == <<posts, comments, userPosts>>
detail  == <<mPost, mNew, mine, ready>>
history == <<usedIds, failed, deleted>>
ghosts  == <<taps, history>>
vars == <<posts, comments, userPosts, scr, list, mPost, mNew, mine, ready,
          formNew, queue, acks, reads, taps, usedIds, failed, deleted>>

-----------------------------------------------------------------------------
(* Data *)

Docs   == [author : Users, comments : SUBSET CommentIds]
Copies == [id : PostIds, author : Users, comments : SUBSET CommentIds]

CopyOf(p, doc) == [id |-> p, author |-> doc.author, comments |-> doc.comments]
DocOf(copy)    == [author |-> copy.author, comments |-> copy.comments]

Ops == {"setComment", "setPost", "updatePost", "deletePost",
        "unionPosts", "removePosts", "unionYCards"}

\* Broadcast actions.  Those of the first two lines are registered only while
\* ForumDetailActivity is resumed; onPause forgets those of the third.
ResumedTags == {"UPDATE_COMMENT", "UPDATE_VALUE",
                "DELETE_POST_IN_POSTS", "DELETE_POST_IN_USERS"}
LeakedTags  == {"UPDATE_USER_YCARD", "UPDATE_POST_AFTER_YCARD"}
FormTags    == {"CREATE_POST_IN_POSTS", "UPDATE_POST_IN_POSTS",
                "UPDATE_POST_IN_USERS"}
Tags == ResumedTags \cup LeakedTags \cup FormTags

Write == {w \in [op : Ops, tag : Tags \cup {None}, post : PostIds,
                 comment : CommentIds \cup {None}, doc : Docs \cup {None}] :
            /\ w.op = "setComment" => w.comment # None
            /\ w.op \in {"setPost", "updatePost"} => w.doc # None}
Ack   == [tag : Tags \cup {None}, ok : BOOLEAN]
Read  == [id : PostIds, served : BOOLEAN, doc : Docs \cup {None}]

ASSUME NoneAssumption ==
    None \notin PostIds \cup CommentIds \cup Users \cup Tags
               \cup Docs \cup Copies \cup Read

SetComment(c, p)  == [op |-> "setComment", tag |-> "UPDATE_COMMENT",
                      post |-> p, comment |-> c, doc |-> None]
SetPost(p, doc)   == [op |-> "setPost", tag |-> "CREATE_POST_IN_POSTS",
                      post |-> p, comment |-> None, doc |-> doc]
UpdatePost(t, old, new) == [op |-> "updatePost", tag |-> t,
                      post |-> old.id, comment |-> None, doc |-> DocOf(new)]
DeletePost(p)     == [op |-> "deletePost", tag |-> "DELETE_POST_IN_POSTS",
                      post |-> p, comment |-> None, doc |-> None]
UserWrite(o, t, p) == [op |-> o, tag |-> t,
                      post |-> p, comment |-> None, doc |-> None]

-----------------------------------------------------------------------------
(* What a device sees of a post: Firestore lays the device's own queued   *)
(* writes over the server's document.                                      *)

PostWrites(d, p, ops) ==
    {i \in DOMAIN queue[d] : queue[d][i].post = p /\ queue[d][i].op \in ops}

\* The last of a set of positions; the empty set has none.
LastOf(S) == {i \in S : \A j \in S : j <= i}

Exists(d, p) ==
    LET last == LastOf(PostWrites(d, p, {"setPost", "deletePost"}))
    IN  IF last = {} THEN posts[p] # None
                     ELSE \A i \in last : queue[d][i].op = "setPost"

View(d, p) ==
    LET last == LastOf(PostWrites(d, p, {"setPost", "updatePost"}))
    IN  IF ~Exists(d, p) THEN None
        ELSE IF last = {} THEN posts[p]
        ELSE queue[d][CHOOSE i \in last : TRUE].doc

-----------------------------------------------------------------------------
(* Requests *)

Room(d)    == Len(queue[d]) + Len(acks[d]) < MaxQueue
Send(d, w) == queue' = [queue EXCEPT ![d] = Append(@, w)]

\* mutant: the post is asked for by its place in a list that has moved
MutGetPost(d, p) ==
    \E s \in Slots, q \in PostIds :
        /\ reads[d][s] = None
        /\ reads' = [reads EXCEPT ![d][s] =
                        [id |-> q, served |-> FALSE, doc |-> None]]

\* forum_get_post_with_id
GetPost(d, p) ==
    \E s \in Slots :
        /\ reads[d][s] = None
        /\ reads' = [reads EXCEPT ![d][s] =
                        [id |-> p, served |-> FALSE, doc |-> None]]

\* One more command of a user, within the bound.
Tap == taps < MaxTaps /\ taps' = taps + 1

Quiet(d) == /\ queue[d] = <<>>
            /\ acks[d] = <<>>
            /\ \A s \in Slots : reads[d][s] = None

\* A new id: a time stamp, so nothing but luck keeps two of them apart.
NewId(x)  == UniqueIds => x \notin usedIds

\* The users mAuthor of the form may name: the signed-in one, or the one in a
\* late GET_USER_INFO answer to a screen that was left.
FormAuthors(d) == IF Patient THEN {UserOf[d]} ELSE Users

Init ==
    /\ posts     = [p \in PostIds |->
                       IF OldPosts[p] = None THEN None
                       ELSE [author |-> OldPosts[p], comments |-> {}]]
    /\ comments  = [c \in CommentIds |-> None]
    /\ userPosts = [u \in Users |-> {p \in PostIds : OldPosts[p] = u}]
    /\ scr       = [d \in Devices |-> "list"]
    /\ list      = [d \in Devices |-> [p \in PostIds |-> None]]
    /\ mPost     = [d \in Devices |-> None]
    /\ mNew      = [d \in Devices |-> None]
    /\ mine      = [d \in Devices |-> FALSE]
    /\ ready     = [d \in Devices |-> FALSE]
    /\ formNew   = [d \in Devices |-> None]
    /\ queue     = [d \in Devices |-> <<>>]
    /\ acks      = [d \in Devices |-> <<>>]
    /\ reads     = [d \in Devices |-> [s \in Slots |-> None]]
    /\ taps      = 0
    /\ usedIds   = {p \in PostIds : OldPosts[p] # None}
    /\ failed    = {}
    /\ deleted   = {}

-----------------------------------------------------------------------------
(* Death of the process: a NullPointerException or the system.  The queued  *)
(* writes are on disk and will be sent, but no listener waits for them.     *)

Orphaned(d) == [i \in DOMAIN queue[d] |-> [queue[d][i] EXCEPT !.tag = None]]

Die(d) ==
    /\ scr'     = [scr EXCEPT ![d] = "list"]
    /\ list'    = [list EXCEPT ![d] = [p \in PostIds |-> None]]
    /\ mPost'   = [mPost EXCEPT ![d] = None]
    /\ mNew'    = [mNew EXCEPT ![d] = None]
    /\ mine'    = [mine EXCEPT ![d] = FALSE]
    /\ ready'   = [ready EXCEPT ![d] = FALSE]
    /\ formNew' = [formNew EXCEPT ![d] = None]
    /\ queue'   = [queue EXCEPT ![d] = Orphaned(d)]
    /\ acks'    = [acks EXCEPT ![d] = <<>>]
    /\ reads'   = [reads EXCEPT ![d] = [s \in Slots |-> None]]
    /\ UNCHANGED <<posts, comments, userPosts, ghosts>>

-----------------------------------------------------------------------------
(* The forum list *)

\* forum_get_posts and REPOPULATE_FORUM: the list shows the posts as they are.
\* Without any post the answer has no payload and the old list stays.
RefreshList(d) ==
    /\ scr[d] = "list"
    /\ \E p \in PostIds : View(d, p) # None
    /\ list' = [list EXCEPT ![d] = [p \in PostIds |-> View(d, p)]]
    /\ UNCHANGED <<store, scr, detail, formNew, queue, acks, reads, ghosts>>

\* A tap on an item starts ForumDetailActivity: onCreate and onResume.
OpenDetail(d, p) ==
    /\ Tap
    /\ scr[d] = "list"
    /\ list[d][p] # None
    /\ Patient => Quiet(d)
    /\ scr'   = [scr EXCEPT ![d] = "detail"]
    /\ mPost' = [mPost EXCEPT ![d] = CopyOf(p, list[d][p])]
    /\ mNew'  = [mNew EXCEPT ![d] = None]
    /\ mine'  = [mine EXCEPT ![d] = (list[d][p].author = UserOf[d])]
    /\ ready' = [ready EXCEPT ![d] = FALSE]
    /\ GetPost(d, p)
    /\ UNCHANGED <<store, list, formNew, queue, acks, history>>

\* The floating button starts ForumFormActivity for a new post.
OpenForm(d) ==
    /\ Tap
    /\ scr[d] = "list"
    /\ Patient => Quiet(d)
    /\ scr'     = [scr EXCEPT ![d] = "newForm"]
    /\ formNew' = [formNew EXCEPT ![d] = None]
    /\ UNCHANGED <<store, list, detail, queue, acks, reads, history>>

-----------------------------------------------------------------------------
(* ForumDetailActivity: what the user does *)

\* The comments arrived: populateInfo sets the listeners.
Populate(d) ==
    /\ scr[d] = "detail"
    /\ ~ready[d]
    /\ ready' = [ready EXCEPT ![d] = TRUE]
    /\ UNCHANGED <<store, scr, list, mPost, mNew, mine, formNew, queue, acks,
                   reads, ghosts>>

\* mutant: the post is saved before the comment it lists
MutCommentTap(d, c) ==
    /\ Tap
    /\ scr[d] = "detail" /\ ready[d]
    /\ NewId(c)
    /\ Room(d)
    /\ LET appended == [mPost[d] EXCEPT !.comments = @ \cup {c}]
       IN  /\ mPost' = [mPost EXCEPT ![d] = appended]
           /\ mNew'  = [mNew EXCEPT ![d] = appended]
           /\ queue' = [queue EXCEPT ![d] = @ \o
                  <<UpdatePost("UPDATE_VALUE", mPost[d], appended),
                    SetComment(c, mPost[d].id)>>]
    /\ usedIds' = usedIds \cup {c}
    /\ UNCHANGED <<store, scr, list, mine, ready, formNew, acks, reads,
                   failed, deleted>>

\* onCommentTap.  mNewPost is mPost, so the id is appended to both.
CommentTap(d, c) ==
    /\ Tap
    /\ scr[d] = "detail" /\ ready[d]
    /\ NewId(c)
    /\ Room(d)
    /\ LET appended == [mPost[d] EXCEPT !.comments = @ \cup {c}]
       IN  /\ mPost' = [mPost EXCEPT ![d] = appended]
           /\ mNew'  = [mNew EXCEPT ![d] = appended]
    /\ Send(d, SetComment(c, mPost[d].id))
    /\ usedIds' = usedIds \cup {c}
    /\ UNCHANGED <<store, scr, list, mine, ready, formNew, acks, reads,
                   failed, deleted>>

\* onLikeIconTap.  No drawable is ever equal to a fresh one, so the case stays
\* 0 and user_update_postLikes_value sends nothing; mNewPost moves all the same.
LikeTap(d) ==
    /\ Tap
    /\ scr[d] = "detail" /\ ready[d]
    /\ mNew' = [mNew EXCEPT ![d] = mPost[d]]
    /\ UNCHANGED <<store, scr, list, mPost, mine, ready, formNew, queue, acks,
                   reads, history>>

\* onYCardIconTap
YCardTap(d) ==
    /\ Tap
    /\ scr[d] = "detail" /\ ready[d]
    /\ Room(d)
    /\ Send(d, UserWrite("unionYCards", "UPDATE_USER_YCARD", mPost[d].id))
    /\ UNCHANGED <<store, scr, list, detail, formNew, acks, reads, history>>

\* mutant: the users document is updated before the post is deleted
MutDeleteTap(d) ==
    /\ Tap
    /\ scr[d] = "detail" /\ mine[d]
    /\ Room(d)
    /\ Send(d, UserWrite("removePosts", "DELETE_POST_IN_POSTS", mPost[d].id))
    /\ UNCHANGED <<store, scr, list, detail, formNew, acks, reads, history>>

\* mutant: the menu is shown on every post
MutDeleteMenu(d) ==
    /\ Tap
    /\ scr[d] = "detail"
    /\ Room(d)
    /\ Send(d, DeletePost(mPost[d].id))
    /\ UNCHANGED <<store, scr, list, detail, formNew, acks, reads, history>>

\* The menu of one's own post: delete
DeleteTap(d) ==
    /\ Tap
    /\ scr[d] = "detail" /\ mine[d]
    /\ Room(d)
    /\ Send(d, DeletePost(mPost[d].id))
    /\ UNCHANGED <<store, scr, list, detail, formNew, acks, reads, history>>

\* The menu of one's own post: edit.  The form covers the post.
EditTap(d) ==
    /\ Tap
    /\ scr[d] = "detail" /\ mine[d]
    /\ Patient => Quiet(d)
    /\ scr'     = [scr EXCEPT ![d] = "editForm"]
    /\ formNew' = [formNew EXCEPT ![d] = None]
    /\ UNCHANGED <<store, list, detail, queue, acks, reads, history>>

\* Leaving ForumDetailActivity for the list: finish() or the back key.
CloseDetail(d) ==
    /\ scr'   = [scr EXCEPT ![d] = "list"]
    /\ mPost' = [mPost EXCEPT ![d] = None]
    /\ mNew'  = [mNew EXCEPT ![d] = None]
    /\ mine'  = [mine EXCEPT ![d] = FALSE]
    /\ ready' = [ready EXCEPT ![d] = FALSE]

BackFromDetail(d) ==
    /\ scr[d] = "detail"
    /\ Patient => Quiet(d)
    /\ CloseDetail(d)
    /\ UNCHANGED <<store, list, formNew, queue, acks, reads, ghosts>>

-----------------------------------------------------------------------------
(* ForumFormActivity: what the user does *)

\* mutant: the users document is updated first
MutCreateTap(d, p, a) ==
    /\ Tap
    /\ scr[d] = "newForm"
    /\ NewId(p)
    /\ a \in FormAuthors(d)
    /\ Room(d)
    /\ formNew' = [formNew EXCEPT ![d] = p]
    /\ Send(d, UserWrite("unionPosts", "CREATE_POST_IN_POSTS", p))
    /\ usedIds' = usedIds \cup {p}
    /\ UNCHANGED <<store, scr, list, detail, acks, reads, failed, deleted>>

\* onPostTap for a new post
CreateTap(d, p, a) ==
    /\ Tap
    /\ scr[d] = "newForm"
    /\ NewId(p)
    /\ a \in FormAuthors(d)
    /\ Room(d)
    /\ formNew' = [formNew EXCEPT ![d] = p]
    /\ Send(d, SetPost(p, [author |-> a, comments |-> {}]))
    /\ usedIds' = usedIds \cup {p}
    /\ UNCHANGED <<store, scr, list, detail, acks, reads, failed, deleted>>

\* onPostTap for an edit: the new Post has an id of its own, which is not
\* written, and no comments.  mOldPost is the covered activity's mPost.
EditPostTap(d, p, a) ==
    /\ Tap
    /\ scr[d] = "editForm"
    /\ NewId(p)
    /\ a \in FormAuthors(d)
    /\ Room(d)
    /\ formNew' = [formNew EXCEPT ![d] = p]
    /\ Send(d, UpdatePost("UPDATE_POST_IN_POSTS", mPost[d],
                          [author |-> a, comments |-> {}]))
    /\ usedIds' = usedIds \cup {p}
    /\ UNCHANGED <<store, scr, list, detail, acks, reads, failed, deleted>>

\* mutant: every form returns to a post
MutCloseForm(d) ==
    /\ scr'     = [scr EXCEPT ![d] = "detail"]
    /\ formNew' = [formNew EXCEPT ![d] = None]
    /\ UNCHANGED reads

\* Leaving the form.  ForumDetailActivity resumes and reads the post again.
CloseForm(d) ==
    /\ scr'     = [scr EXCEPT ![d] =
                      IF scr[d] = "editForm" THEN "detail" ELSE "list"]
    /\ formNew' = [formNew EXCEPT ![d] = None]
    /\ IF scr[d] = "editForm" THEN GetPost(d, mPost[d].id)
                              ELSE UNCHANGED reads

BackFromForm(d) ==
    /\ scr[d] \in {"newForm", "editForm"}
    /\ Patient => Quiet(d)
    /\ CloseForm(d)
    /\ UNCHANGED <<store, list, detail, queue, acks, ghosts>>

-----------------------------------------------------------------------------
(* The server *)

\* forum_update_post updates: it fails on a document that is not there.
Accepted(w) == w.op = "updatePost" => posts[w.post] # None

\* The oldest write of a device leaves its queue, and its listener, if there
\* still is one, is told the result.
Complete(d, ok) ==
    LET w == Head(queue[d])
    IN  /\ queue' = [queue EXCEPT ![d] = Tail(@)]
        /\ acks'  = IF w.tag = None THEN acks
                    ELSE [acks EXCEPT ![d] =
                             Append(@, [tag |-> w.tag, ok |-> ok])]

Oldest(d, ops) == queue[d] # <<>> /\ Head(queue[d]).op \in ops

CommitComment(d) ==
    /\ Oldest(d, {"setComment"})
    /\ LET w == Head(queue[d])
       IN  comments' = [comments EXCEPT ![w.comment] = w.post]
    /\ Complete(d, TRUE)
    /\ UNCHANGED <<posts, userPosts, scr, list, detail, formNew, reads, ghosts>>

\* mutant: saves with set() instead of update()
MutCommitSave(d) ==
    /\ Oldest(d, {"setPost", "updatePost"})
    /\ LET w == Head(queue[d]) IN posts' = [posts EXCEPT ![w.post] = w.doc]
    /\ Complete(d, TRUE)
    /\ UNCHANGED <<comments, userPosts, scr, list, detail, formNew, reads,
                   ghosts>>

CommitSave(d) ==
    /\ Oldest(d, {"setPost", "updatePost"})
    /\ Accepted(Head(queue[d]))
    /\ LET w == Head(queue[d]) IN posts' = [posts EXCEPT ![w.post] = w.doc]
    /\ Complete(d, TRUE)
    /\ UNCHANGED <<comments, userPosts, scr, list, detail, formNew, reads,
                   ghosts>>

CommitDelete(d) ==
    /\ Oldest(d, {"deletePost"})
    /\ LET w == Head(queue[d])
       IN  /\ posts'   = [posts EXCEPT ![w.post] = None]
           /\ deleted' = deleted \cup {w.post}
    /\ Complete(d, TRUE)
    /\ UNCHANGED <<comments, userPosts, scr, list, detail, formNew, reads, taps,
                   usedIds, failed>>

\* arrayUnion and arrayRemove on the document of the signed-in user
CommitUser(d) ==
    /\ Oldest(d, {"unionPosts", "removePosts", "unionYCards"})
    /\ LET w == Head(queue[d])
       IN  userPosts' = [userPosts EXCEPT ![UserOf[d]] =
                CASE w.op = "unionPosts"  -> @ \cup {w.post}
                  [] w.op = "removePosts" -> @ \ {w.post}
                  [] OTHER                -> @]
    /\ Complete(d, TRUE)
    /\ UNCHANGED <<posts, comments, scr, list, detail, formNew, reads, ghosts>>

\* The server may refuse any write, and has to refuse some updates.
Reject(d) ==
    /\ queue[d] # <<>>
    /\ LET w == Head(queue[d])
       IN  failed' = CASE w.op = "setComment" -> failed \cup {w.comment}
                       [] w.op = "setPost"    -> failed \cup {w.post}
                       [] OTHER               -> failed
    /\ Complete(d, FALSE)
    /\ UNCHANGED <<store, scr, list, detail, formNew, reads, taps, usedIds,
                   deleted>>

\* forum_get_post_with_id: the document is read, the author's follows.
ServeRead(d, s) ==
    /\ reads[d][s] # None
    /\ ~reads[d][s].served
    /\ reads' = [reads EXCEPT ![d][s].served = TRUE,
                              ![d][s].doc = View(d, reads[d][s].id)]
    /\ UNCHANGED <<store, scr, list, detail, formNew, queue, acks, ghosts>>

\* The post's read failed (answered FALSE, ignored) or its author's did (not
\* answered at all); the author is read only if there is a post.
LoseRead(d, s) ==
    /\ reads[d][s] # None
    /\ reads[d][s].served => reads[d][s].doc # None
    /\ reads' = [reads EXCEPT ![d][s] = None]
    /\ UNCHANGED <<store, scr, list, detail, formNew, queue, acks, ghosts>>

-----------------------------------------------------------------------------
(* Broadcasts *)

Registered(d, tag) ==
    \/ tag \in ResumedTags /\ scr[d] = "detail"
    \/ tag \in LeakedTags  /\ scr[d] \in {"detail", "editForm"}
    \/ tag \in FormTags    /\ scr[d] \in {"newForm", "editForm"}

\* The next broadcast of the device reaches a receiver.
Receive(d, tag) ==
    /\ acks[d] # <<>>
    /\ Head(acks[d]).tag = tag
    /\ Registered(d, tag)
Result(d)  == Head(acks[d]).ok
Handled(d) == acks' = [acks EXCEPT ![d] = Tail(@)]

\* Nobody is registered, or the handler does nothing with the result.
Ignore(d) ==
    /\ acks[d] # <<>>
    /\ \/ ~Registered(d, Head(acks[d]).tag)
       \/ ~Result(d) /\ Head(acks[d]).tag # "UPDATE_VALUE"
    /\ Handled(d)
    /\ UNCHANGED <<store, scr, list, detail, formNew, queue, reads, ghosts>>

\* UPDATE_FIELDS.  A post that is gone has no fields: the read's callback
\* dies on it (Die).
OnUpdateFields(d, s) ==
    /\ reads[d][s] # None
    /\ reads[d][s].served
    /\ reads[d][s].doc # None
    /\ mPost' = IF scr[d] = "detail"
                THEN [mPost EXCEPT ![d] =
                        CopyOf(reads[d][s].id, reads[d][s].doc)]
                ELSE mPost
    /\ reads' = [reads EXCEPT ![d][s] = None]
    /\ UNCHANGED <<store, scr, list, mNew, mine, ready, formNew, queue, acks,
                   ghosts>>

OnUpdateComment(d) ==
    /\ Receive(d, "UPDATE_COMMENT") /\ Result(d)
    /\ mNew[d] # None
    /\ Send(d, UpdatePost("UPDATE_VALUE", mPost[d], mNew[d]))
    /\ Handled(d)
    /\ UNCHANGED <<store, scr, list, detail, formNew, reads, ghosts>>

\* The result is not looked at.
OnUpdateValue(d) ==
    /\ Receive(d, "UPDATE_VALUE")
    /\ GetPost(d, mPost[d].id)
    /\ Handled(d)
    /\ UNCHANGED <<store, scr, list, detail, formNew, queue, ghosts>>

OnUpdateUserYCard(d) ==
    /\ Receive(d, "UPDATE_USER_YCARD") /\ Result(d)
    /\ ready[d]
    /\ mNew' = [mNew EXCEPT ![d] = mPost[d]]
    /\ Send(d, UpdatePost("UPDATE_POST_AFTER_YCARD", mPost[d], mPost[d]))
    /\ Handled(d)
    /\ UNCHANGED <<store, scr, list, mPost, mine, ready, formNew, reads,
                   ghosts>>

OnUpdateAfterYCard(d) ==
    /\ Receive(d, "UPDATE_POST_AFTER_YCARD") /\ Result(d)
    /\ GetPost(d, mPost[d].id)
    /\ Handled(d)
    /\ UNCHANGED <<store, scr, list, detail, formNew, queue, ghosts>>

OnDeleteInPosts(d) ==
    /\ Receive(d, "DELETE_POST_IN_POSTS") /\ Result(d)
    /\ Send(d, UserWrite("removePosts", "DELETE_POST_IN_USERS", mPost[d].id))
    /\ Handled(d)
    /\ UNCHANGED <<store, scr, list, detail, formNew, reads, ghosts>>

OnDeleteInUsers(d) ==
    /\ Receive(d, "DELETE_POST_IN_USERS") /\ Result(d)
    /\ CloseDetail(d)
    /\ Handled(d)
    /\ UNCHANGED <<store, list, formNew, queue, reads, ghosts>>

OnCreateInPosts(d) ==
    /\ Receive(d, "CREATE_POST_IN_POSTS") /\ Result(d)
    /\ formNew[d] # None
    /\ Send(d, UserWrite("unionPosts", "UPDATE_POST_IN_USERS", formNew[d]))
    /\ Handled(d)
    /\ UNCHANGED <<store, scr, list, detail, formNew, reads, ghosts>>

\* UPDATE_POST_IN_POSTS and UPDATE_POST_IN_USERS both finish the form.
OnFormDone(d) ==
    /\ \/ Receive(d, "UPDATE_POST_IN_POSTS")
       \/ Receive(d, "UPDATE_POST_IN_USERS")
    /\ Result(d)
    /\ CloseForm(d)
    /\ Handled(d)
    /\ UNCHANGED <<store, list, detail, queue, ghosts>>

-----------------------------------------------------------------------------

User(d) ==
    \/ RefreshList(d) \/ OpenForm(d) \/ LikeTap(d) \/ YCardTap(d)
    \/ DeleteTap(d) \/ EditTap(d) \/ BackFromDetail(d) \/ BackFromForm(d)
    \/ \E p \in PostIds : OpenDetail(d, p)
    \/ \E c \in CommentIds : CommentTap(d, c)
    \/ \E p \in PostIds, a \in Users : CreateTap(d, p, a)
    \/ \E p \in PostIds, a \in Users : EditPostTap(d, p, a)

Answer(d) ==
    \/ Populate(d) \/ Ignore(d)
    \/ \E s \in Slots : OnUpdateFields(d, s)
    \/ OnUpdateComment(d) \/ OnUpdateValue(d)
    \/ OnUpdateUserYCard(d) \/ OnUpdateAfterYCard(d)
    \/ OnDeleteInPosts(d) \/ OnDeleteInUsers(d)
    \/ OnCreateInPosts(d) \/ OnFormDone(d)

Server(d) ==
    \/ CommitComment(d) \/ CommitSave(d) \/ CommitDelete(d)
    \/ CommitUser(d) \/ Reject(d)
    \/ \E s \in Slots : ServeRead(d, s) \/ LoseRead(d, s)

Next == \E d \in Devices : User(d) \/ Answer(d) \/ Server(d) \/ Die(d)

Spec == Init /\ [][Next]_vars

-----------------------------------------------------------------------------
(* Properties *)

\* Every field of every document and every activity has its type.
TypeOK ==
    /\ posts     \in [PostIds -> Docs \cup {None}]
    /\ comments  \in [CommentIds -> PostIds \cup {None}]
    /\ userPosts \in [Users -> SUBSET PostIds]
    /\ scr       \in [Devices -> {"list", "detail", "newForm", "editForm"}]
    /\ list      \in [Devices -> [PostIds -> Docs \cup {None}]]
    /\ mPost     \in [Devices -> Copies \cup {None}]
    /\ mNew      \in [Devices -> Copies \cup {None}]
    /\ \A d \in Devices : scr[d] \in {"detail", "editForm"} => mPost[d] # None
    /\ mine      \in [Devices -> BOOLEAN]
    /\ ready     \in [Devices -> BOOLEAN]
    /\ formNew   \in [Devices -> PostIds \cup {None}]
    /\ queue     \in [Devices -> Seq(Write)]
    /\ acks      \in [Devices -> Seq(Ack)]
    /\ reads     \in [Devices -> [Slots -> Read \cup {None}]]
    /\ taps      \in Nat
    /\ usedIds   \subseteq PostIds \cup CommentIds
    /\ failed    \subseteq PostIds \cup CommentIds
    /\ deleted   \subseteq PostIds

\* A post never lists a comment that is not there: the comment document is
\* written before the post that lists it (onCommentTap, then UPDATE_COMMENT),
\* whichever copy of the post is saved, and by whom.  The one exception is a
\* comment the server rejected: its id stays in the shared mPost/mNewPost.
ListedCommentsExist ==
    \A p \in PostIds :
        posts[p] # None =>
            \A c \in posts[p].comments : comments[c] # None \/ c \in failed

\* A deleted post stays deleted, whatever late saves of its copies arrive:
\* forum_update_post updates and never sets.
NoResurrection == \A p \in deleted : posts[p] = None

\* With a user who waits, a post lists only comments that were written to it.
CommentsBelong ==
    \A p \in PostIds :
        posts[p] # None =>
            \A c \in posts[p].comments : comments[c] \in {p, None}

\* A user's list of posts names only posts whose creation was committed (they
\* are there, or were deleted) or rejected: the users document is updated
\* after the posts document, and with the id the form holds by then.
ProfilePostsWereCreated ==
    \A u \in Users : \A p \in userPosts[u] :
        posts[p] # None \/ p \in deleted \cup failed

\* A post leaves its author's list only after its document is deleted.
UnlistedAfterDelete ==
    [][\A u \in Users : \A p \in userPosts[u] \ userPosts'[u] :
            p \in deleted]_vars

\* Seen from outside, the documents behave as ForumPromise says: published
\* once, saved while live, gone for good, no comment listed before it is sent.
Promise == INSTANCE ForumPromise WITH
    live    <- {p \in PostIds : posts[p] # None},
    gone    <- deleted,
    written <- {c \in CommentIds : comments[c] # None},
    refused <- failed,
    listed  <- [p \in PostIds |->
                  IF posts[p] = None THEN {} ELSE posts[p].comments]
KeepsPromise == Promise!Spec

\* Only the author's device deletes a post (mIsMyPost shows the menu).
OnlyAuthorDeletes ==
    [][\A p \in PostIds : posts[p] # None /\ posts'[p] = None =>
            \E d \in Devices : /\ queue[d] # queue'[d]
                               /\ UserOf[d] = posts[p].author]_vars
=============================================================================
