----------------------------- MODULE PostScreen -----------------------------
(***************************************************************************)
(* The post screen (ForumDetailActivity) and the form that edits a post    *)
(* over it (ForumFormActivity), on one device.                             *)
(*                                                                         *)
(* A new instance asks for the user, then for the author, then for the     *)
(* comments; and, at every onResume, for the post, then for the comments   *)
(* again.  Each answer is a broadcast that whichever instance is resumed   *)
(* takes for its own.  The comments' answer draws the whole screen and     *)
(* clears the comment field, the reply under way included.                 *)
(*                                                                         *)
(* Left out: cards, deletion and new posts, which Forum has; reactions to  *)
(* comments, which UserDoc has; titles, texts and names.                   *)
(***************************************************************************)
EXTENDS Naturals, Sequences, SequencesExt

CONSTANTS
    Posts, Comments, Users,
    Me,          \* the user signed in
    AuthorOf,    \* the author of each post
    Old,         \* the comments each post has from before, with their parents
    MaxReads,    \* bound: reads under way
    MaxQueue,    \* bound: writes under way
    MaxTaps,     \* bound: posts opened, edits, switches to another app, taps
                 \* on Reply
    None

ASSUME PostScreenAssumption ==
    /\ Me \in Users
    /\ AuthorOf \in [Posts -> Users]
    /\ Old \in [Comments ->
                  [post : Posts, parent : Comments \cup {None}] \cup {None}]
    /\ MaxReads \in Nat /\ MaxQueue \in Nat /\ MaxTaps \in Nat
    /\ None \notin Posts \cup Comments \cup Users

\* The replies from before are replies to comments of their post.
ASSUME OldThreads ==
    \A c \in Comments :
        Old[c] # None /\ Old[c].parent # None =>
            Old[Old[c].parent] = [post |-> Old[c].post, parent |-> None]

VARIABLES
    docs,        \* posts collection: userId, comments
    comments,    \* comments collection: postId, parentId
    queue,       \* Firestore's pending writes, oldest first
    reads,       \* reads not yet delivered, in the order they were asked for
    screen,      \* "away": another app is on top of the post
    mPost, mine, \* mIsMyPost
    mUser,       \* mCurrentUser is there
    mAuthor,
    mComments,
    mNewPost,
    ready,       \* populateInfo has run: the button has its listener
    visible,     \* mCommentFrame
    reply,       \* mCurrentParentId
    popup,       \* the thread of the comment that "Replying to" names
    formAuthor,  \* ForumFormActivity.mAuthor
    text,        \* history of the text in the comment field: "kept" if it was
                 \* typed on a quiet screen, "posted" if then posted once
    crash,       \* the exception that ended the process, or "none"
    odd,         \* history: the worst that happened to this instance
    last,        \* history: the comment made last
    rushed,      \* history: comments made on a screen that was not quiet
    ids,         \* history: the ids of all comments; generateId makes new ones
    taps

server == <<docs, comments>>
fields == <<mPost, mine, mUser, mAuthor, mNewPost, visible>>
field  == <<reply, popup, text>>
past   == <<last, rushed, ids>>
vars   == <<docs, comments, queue, reads, screen, mPost, mine, mUser, mAuthor,
            mComments, mNewPost, ready, visible, reply, popup, formAuthor,
            text, crash, odd, last, rushed, ids, taps>>

Doc     == [author : Users, comments : SUBSET Comments]
Copy    == [id : Posts, author : Users, comments : SUBSET Comments]
Comment == [post : Posts, parent : Comments \cup {None}]
Shown   == [id : Comments, parent : Comments \cup {None}]

\* null is no object
ASSUME NullAssumption == None \notin Doc \cup Copy \cup Comment

\* What may happen to an instance, the worse the higher
Fine      == 0
Disturbed == 1   \* a write was refused, or another device wrote
Late      == 2   \* an answer overtook another, or came while it was paused
Lost      == 3   \* a read failed
Crossed   == 4   \* an answer was one that an earlier instance had asked for

CopyOf(p, doc) == [id |-> p, author |-> doc.author, comments |-> doc.comments]
DocOf(copy)    == [author |-> copy.author, comments |-> copy.comments]

\* stale: asked for by an instance that is gone
Read  == [tag : {"current", "author", "fields", "comments"}, stale : BOOLEAN,
          user : Users \cup {None}, post : Posts \cup {None},
          ids : SUBSET Comments, val : Copy \cup {None}]
Write == [tag : {"comment", "save", "edit"}, stale : BOOLEAN, post : Posts,
          id : Comments \cup {None}, parent : Comments \cup {None},
          doc : Doc \cup {None}]

Request(tag) == [tag |-> tag, stale |-> FALSE, user |-> None, post |-> None,
                 ids |-> {}, val |-> None]
GetCurrent     == Request("current")
GetAuthor(u)   == [Request("author") EXCEPT !.user = u]
GetPost(p)     == [Request("fields") EXCEPT !.post = p]
GetComments(S) == [Request("comments") EXCEPT !.ids = S]

Save(tag, p, doc) == [tag |-> tag, stale |-> FALSE, post |-> p, id |-> None,
                      parent |-> None, doc |-> doc]
SetComment(c, p, parent) == [tag |-> "comment", stale |-> FALSE, post |-> p,
                             id |-> c, parent |-> parent, doc |-> None]

Init ==
    /\ comments = Old
    /\ docs = [p \in Posts |->
                  [author   |-> AuthorOf[p],
                   comments |-> {c \in Comments :
                                    Old[c] # None /\ Old[c].post = p}]]
    /\ queue = <<>> /\ reads = <<>>
    /\ screen = "list"
    /\ mPost = None /\ mine = FALSE /\ mUser = FALSE /\ mAuthor = None
    /\ mComments = {} /\ mNewPost = None
    /\ ready = FALSE /\ visible = TRUE
    /\ reply = None /\ popup = None /\ formAuthor = None /\ text = "none"
    /\ crash = "none"
    /\ odd = Fine /\ last = None /\ rushed = {} /\ taps = 0
    /\ ids = {c \in Comments : Old[c] # None}

-----------------------------------------------------------------------------

Alive == crash = "none"
Quiet == reads = <<>> /\ queue = <<>>
Tap   == taps < MaxTaps /\ taps' = taps + 1

Ask(r)  == Len(reads) < MaxReads /\ reads' = Append(reads, r)
Room    == Len(queue) < MaxQueue
Send(w) == queue' = Append(queue, w)

\* A read of a device sees its pending writes: the newest of the post's.
View(p) ==
    LET saves(i) == queue[i].doc # None /\ queue[i].post = p
        newest   == {i \in DOMAIN queue :
                        saves(i) /\ \A j \in DOMAIN queue : j > i => ~saves(j)}
    IN  IF newest = {} THEN docs[p]
        ELSE queue[CHOOSE i \in newest : TRUE].doc
Exists(c) ==
    comments[c] # None \/ \E i \in DOMAIN queue : queue[i].id = c

\* The parent of a comment that is stored or being stored
Parent(c) ==
    IF comments[c] # None THEN comments[c].parent
    ELSE (CHOOSE w \in Range(queue) : w.id = c).parent

\* The top of a thread; organizeComments lists a reply under its parent only.
Top(k)    == IF k.parent = None THEN k.id ELSE k.parent
Listed(S) == {k \in S : \E t \in S : t.parent = None /\ t.id = Top(k)}

Strange(n) == odd' = IF screen = "list" \/ n < odd THEN odd ELSE n
Stale(s)      == [i \in DOMAIN s |-> [s[i] EXCEPT !.stale = TRUE]]

-----------------------------------------------------------------------------
(* ForumDetailActivity: life cycle *)

\* onCreate and onResume of a new instance.  The user that the list hands over
\* as the author is the one signed in.
Open(p) ==
    /\ Alive /\ screen = "list"
    /\ Len(reads) + 2 <= MaxReads /\ Tap
    /\ screen'  = "detail"
    /\ mPost'   = CopyOf(p, View(p))
    /\ mine'    = (View(p).author = Me)
    /\ mAuthor' = Me
    /\ reads'   = reads \o <<GetCurrent, GetPost(p)>>
    /\ UNCHANGED <<server, queue, mUser, mNewPost, visible, mComments, ready,
                   field, formAuthor, crash, odd, past>>

\* The back key: the instance goes with its fields, but answers still to come
\* find another instance, or none.
Back ==
    /\ Alive /\ screen = "detail"
    /\ screen'    = "list"
    /\ mPost'     = None /\ mine' = FALSE /\ mAuthor' = None
    /\ mUser'     = FALSE /\ mNewPost' = None
    /\ mComments' = {} /\ ready' = FALSE /\ visible' = TRUE
    /\ reply'     = None /\ popup' = None /\ text' = "none"
    /\ reads'     = Stale(reads)
    /\ queue'     = Stale(queue)
    /\ odd'       = IF odd = Crossed THEN Crossed ELSE Fine
    /\ UNCHANGED <<server, formAuthor, crash, past, taps>>

\* onPause
Leave ==
    /\ Alive /\ screen = "detail"
    /\ Tap
    /\ screen' = "away"
    /\ text'   = IF text = "none" THEN text ELSE "early"
    /\ UNCHANGED <<server, queue, reads, fields, mComments, ready, reply,
                   popup, formAuthor, crash, odd, past>>

\* onResume
Resume ==
    /\ screen' = "detail" /\ formAuthor' = None
    /\ Ask(GetPost(mPost.id))

Return ==
    /\ Alive /\ screen = "away"
    /\ Resume
    /\ UNCHANGED <<server, queue, fields, mComments, ready, field, crash, odd,
                   past, taps>>

\* mutant: the menu is there for every post
MutEditTap ==
    /\ Alive /\ screen = "detail"
    /\ Tap
    /\ screen'     = "form"
    /\ formAuthor' = mAuthor
    /\ text'       = IF text = "none" THEN text ELSE "early"
    /\ Ask(GetAuthor(Me))
    /\ UNCHANGED <<server, queue, fields, mComments, ready, reply, popup,
                   crash, odd, past>>

\* onOptionsItemSelected, onPause; ForumFormActivity.onCreate
EditTap ==
    /\ Alive /\ screen = "detail" /\ mine
    /\ Tap
    /\ screen'     = "form"
    /\ formAuthor' = mAuthor
    /\ text'       = IF text = "none" THEN text ELSE "early"
    /\ Ask(GetAuthor(Me))
    /\ UNCHANGED <<server, queue, fields, mComments, ready, reply, popup,
                   crash, odd, past>>

BackFromForm ==
    /\ Alive /\ screen = "form"
    /\ Resume
    /\ UNCHANGED <<server, queue, fields, mComments, ready, field, crash, odd,
                   past, taps>>

-----------------------------------------------------------------------------
(* ForumDetailActivity: comments *)

\* The first character; the field is there before the post is.
Type ==
    /\ Alive /\ screen = "detail" /\ text = "none"
    /\ text' = IF Quiet THEN "kept" ELSE "early"
    /\ UNCHANGED <<server, queue, reads, screen, fields, mComments, ready,
                   reply, popup, formAuthor, crash, odd, past, taps>>

\* mutant: the parent is the comment that was tapped
MutReplyTap ==
    /\ Alive /\ screen = "detail" /\ ready /\ visible
    /\ Tap
    /\ \E k \in Listed(mComments) : reply' = k.id /\ popup' = k.id
    /\ UNCHANGED <<server, queue, reads, screen, fields, mComments, ready,
                   text, formAuthor, crash, odd, past>>

\* PosOnClickListener, onReply: the parent is always the top of the thread.
ReplyTap ==
    /\ Alive /\ screen = "detail" /\ ready /\ visible
    /\ Tap
    /\ \E k \in Listed(mComments) : reply' = Top(k) /\ popup' = Top(k)
    /\ UNCHANGED <<server, queue, reads, screen, fields, mComments, ready,
                   text, formAuthor, crash, odd, past>>

\* onUndoReplyTap
UndoTap ==
    /\ Alive /\ screen = "detail" /\ popup # None
    /\ reply' = None /\ popup' = None
    /\ UNCHANGED <<server, queue, reads, screen, fields, mComments, ready,
                   text, formAuthor, crash, odd, past, taps>>

\* onCommentTap: mNewPost is mPost, also later.
CommentTap(c) ==
    /\ Alive /\ screen = "detail" /\ ready /\ text # "none"
    /\ c \notin ids /\ Room
    /\ mPost'    = [mPost EXCEPT !.comments = @ \cup {c}]
    /\ mNewPost' = mPost'
    /\ visible'  = TRUE
    /\ Send(SetComment(c, mPost.id, reply))
    /\ text'     = IF text = "kept" THEN "posted" ELSE "early"
    /\ last'     = c
    /\ rushed'   = IF Quiet /\ odd = Fine THEN rushed ELSE rushed \cup {c}
    /\ ids'      = ids \cup {c}
    /\ UNCHANGED <<server, reads, screen, mine, mUser, mAuthor, mComments,
                   ready, reply, popup, formAuthor, crash, odd, taps>>

-----------------------------------------------------------------------------
(* ForumFormActivity *)

\* onPostTap: a new post object, without comments, under the old id
PostTap ==
    /\ Alive /\ screen = "form" /\ Room
    /\ \/ /\ formAuthor # None
          /\ Send(Save("edit", mPost.id,
                       [author |-> formAuthor, comments |-> {}]))
          /\ UNCHANGED crash
       \/ /\ formAuthor = None
          /\ crash' = "noAuthor"
          /\ UNCHANGED queue
    /\ UNCHANGED <<server, reads, screen, fields, mComments, ready, field,
                   formAuthor, odd, past, taps>>

-----------------------------------------------------------------------------
(* Firestore; the answers to writes *)

\* The oldest write is committed or refused; what its answer does is below.
Complete(tag, ok) ==
    /\ queue # <<>> /\ Head(queue).tag = tag
    /\ LET w == Head(queue)
       IN  /\ docs' = IF ok /\ w.doc # None
                      THEN [docs EXCEPT ![w.post] = w.doc] ELSE docs
           /\ comments' = IF ok /\ w.id # None
                          THEN [comments EXCEPT ![w.id] =
                                   [post |-> w.post, parent |-> w.parent]]
                          ELSE comments

\* What the answer to a write says of the instance that is there
Wrong(ok, heard) ==
    CASE Head(queue).stale -> Crossed
      [] ~Head(queue).stale /\ ~heard -> Late
      [] OTHER -> IF ok THEN Fine ELSE Disturbed

\* mutant: the field is cleared before the post is saved
MutOnUpdateComment(ok) ==
    /\ Alive /\ Complete("comment", ok)
    /\ Strange(Wrong(ok, screen = "detail"))
    /\ \/ /\ ok /\ screen = "detail" /\ mNewPost # None
          /\ queue' = Append(Tail(queue),
                             Save("save", mPost.id, DocOf(mNewPost)))
          /\ UNCHANGED crash
       \/ /\ ok /\ screen = "detail" /\ mNewPost = None
          /\ queue' = Tail(queue)
          /\ crash' = "noNewPost"
       \/ /\ ~ok \/ screen # "detail"
          /\ queue' = Tail(queue)
          /\ UNCHANGED crash
    /\ text' = IF ok THEN "none" ELSE text
    /\ UNCHANGED <<reads, screen, fields, mComments, ready, reply, popup,
                   formAuthor, past, taps>>

\* UPDATE_COMMENT: the post is saved as mNewPost, with the list of comments.
OnUpdateComment(ok) ==
    /\ Alive /\ Complete("comment", ok)
    /\ Strange(Wrong(ok, screen = "detail"))
    /\ \/ /\ ok /\ screen = "detail" /\ mNewPost # None
          /\ queue' = Append(Tail(queue),
                             Save("save", mPost.id, DocOf(mNewPost)))
          /\ UNCHANGED crash
       \/ /\ ok /\ screen = "detail" /\ mNewPost = None
          /\ queue' = Tail(queue)
          /\ crash' = "noNewPost"
       \/ /\ ~ok \/ screen # "detail"
          /\ queue' = Tail(queue)
          /\ UNCHANGED crash
    /\ UNCHANGED <<reads, screen, fields, mComments, ready, field, formAuthor,
                   past, taps>>

\* mutant: no reload
MutOnUpdateValue(ok) ==
    /\ Alive /\ Complete("save", ok)
    /\ Strange(Wrong(ok, screen = "detail"))
    /\ queue' = Tail(queue)
    /\ IF screen = "detail"
       THEN reply' = None ELSE UNCHANGED reply
    /\ UNCHANGED <<reads, screen, fields, mComments, ready, popup, text,
                   formAuthor, crash, past, taps>>

\* UPDATE_VALUE, whatever the result: the target of the reply is forgotten,
\* the popup stays until the comments are there.
OnUpdateValue(ok) ==
    /\ Alive /\ Complete("save", ok)
    /\ Strange(Wrong(ok, screen = "detail"))
    /\ queue' = Tail(queue)
    /\ IF screen = "detail"
       THEN reply' = None /\ Ask(GetPost(mPost.id))
       ELSE UNCHANGED <<reply, reads>>
    /\ UNCHANGED <<screen, fields, mComments, ready, popup, text, formAuthor,
                   crash, past, taps>>

\* UPDATE_POST_IN_POSTS: the form closes on success.
OnEdited(ok) ==
    /\ Alive /\ Complete("edit", ok)
    /\ Strange(Wrong(ok, TRUE))
    /\ queue' = Tail(queue)
    /\ IF ok /\ screen = "form" THEN Resume
       ELSE UNCHANGED <<reads, screen, formAuthor>>
    /\ UNCHANGED <<fields, mComments, ready, field, crash, past, taps>>

\* Another device comments on a post.
OthersComment(p, c) ==
    /\ Alive /\ c \notin ids
    /\ comments' = [comments EXCEPT ![c] = [post |-> p, parent |-> None]]
    /\ docs'     = [docs EXCEPT ![p].comments = @ \cup {c}]
    /\ ids' = ids \cup {c}
    /\ Strange(Disturbed)
    /\ UNCHANGED <<queue, reads, screen, fields, mComments, ready, field,
                   formAuthor, crash, last, rushed, taps>>

-----------------------------------------------------------------------------
(* The answers to reads *)

\* The server answers a read of a post.
ServeRead(i) ==
    /\ Alive /\ i \in DOMAIN reads
    /\ reads[i].tag = "fields" /\ reads[i].val = None
    /\ reads' = [reads EXCEPT ![i].val =
                    CopyOf(reads[i].post, View(reads[i].post))]
    /\ UNCHANGED <<server, queue, screen, fields, mComments, ready, field,
                   formAuthor, crash, odd, past, taps>>

\* A read fails: no answer, or one that only the form's handler looks at.
LoseRead(i) ==
    /\ Alive /\ i \in DOMAIN reads
    /\ reads' = RemoveAt(reads, i)
    /\ Strange(IF reads[i].stale THEN Crossed ELSE Lost)
    /\ \/ /\ reads[i].tag = "author" /\ screen = "form"
          /\ formAuthor' = None
       \/ UNCHANGED formAuthor
    /\ UNCHANGED <<server, queue, screen, fields, mComments, ready, field,
                   crash, past, taps>>

\* The activity on top listens for the answer.
Heard(tag) == screen = "detail" \/ (screen = "form" /\ tag = "author")

\* A read's answer is broadcast, and asks for more where it is heard.
Deliver(i, tag, more) ==
    /\ Alive /\ i \in DOMAIN reads /\ reads[i].tag = tag
    /\ reads' = RemoveAt(reads, i) \o
                    (IF screen = "detail" THEN more ELSE <<>>)
    /\ Strange(CASE reads[i].stale -> Crossed
                 [] ~reads[i].stale /\ (i > 1 \/ ~Heard(tag)) -> Late
                 [] OTHER -> Fine)

\* GET_CURRENT_USER
OnCurrentUser(i) ==
    /\ Deliver(i, "current", <<GetAuthor(mPost.author)>>)
    /\ mUser' = (mUser \/ screen = "detail")
    /\ UNCHANGED <<server, queue, screen, mPost, mine, mAuthor, mNewPost,
                   visible, mComments, ready, field, formAuthor, crash, past,
                   taps>>

\* GET_USER_INFO, which the form listens for as well
OnAuthor(i) ==
    /\ Deliver(i, "author", <<GetComments(mPost.comments)>>)
    /\ mAuthor'    = IF screen = "detail" THEN reads[i].user ELSE mAuthor
    /\ formAuthor' = IF screen = "form" THEN reads[i].user ELSE formAuthor
    /\ UNCHANGED <<server, queue, screen, mPost, mine, mUser, mNewPost,
                   visible, mComments, ready, field, crash, past, taps>>

\* mutant: the post to save is forgotten
MutOnFields(i) ==
    /\ i \in DOMAIN reads /\ reads[i].val # None
    /\ Deliver(i, "fields", <<GetComments(reads[i].val.comments)>>)
    /\ mPost' = IF screen = "detail" THEN reads[i].val ELSE mPost
    /\ mNewPost' = IF screen = "detail" THEN None ELSE mNewPost
    /\ UNCHANGED <<server, queue, screen, mine, mUser, mAuthor, visible,
                   mComments, ready, field, formAuthor, crash, past, taps>>

\* UPDATE_FIELDS
OnFields(i) ==
    /\ i \in DOMAIN reads /\ reads[i].val # None
    /\ Deliver(i, "fields", <<GetComments(reads[i].val.comments)>>)
    /\ mPost' = IF screen = "detail" THEN reads[i].val ELSE mPost
    /\ UNCHANGED <<server, queue, screen, mine, mUser, mAuthor, mNewPost,
                   visible, mComments, ready, field, formAuthor, crash, past,
                   taps>>

\* mutant: the popup stays
MutPopulate ==
    /\ ready'   = TRUE
    /\ visible' = (visible /\ mPost.comments # {})
    /\ reply'   = None /\ text' = "none"
    /\ UNCHANGED popup

\* populateInfo, clearCommentField
Populate ==
    /\ ready'   = TRUE
    /\ visible' = (visible /\ mPost.comments # {})
    /\ reply'   = None /\ popup' = None /\ text' = "none"

\* FORUM_GET_COMMENTS: no comments found, no change of the list
OnComments(i) ==
    /\ Deliver(i, "comments", <<>>)
    /\ LET found == {[id |-> c, parent |-> Parent(c)] :
                        c \in {e \in reads[i].ids : Exists(e)}}
       IN  mComments' = IF screen = "detail" /\ found # {}
                        THEN found ELSE mComments
    /\ \/ /\ screen = "detail" /\ mUser
          /\ Populate
          /\ UNCHANGED crash
       \/ /\ screen = "detail" /\ ~mUser
          /\ crash' = "noUser"
          /\ UNCHANGED <<ready, visible, field>>
       \/ /\ screen # "detail"
          /\ UNCHANGED <<ready, visible, field, crash>>
    /\ UNCHANGED <<server, queue, screen, mPost, mine, mUser, mAuthor,
                   mNewPost, formAuthor, past, taps>>

-----------------------------------------------------------------------------

User ==
    \/ \E p \in Posts : Open(p)
    \/ \E c \in Comments : CommentTap(c)
    \/ Back \/ Leave \/ Return \/ EditTap \/ BackFromForm
    \/ Type \/ ReplyTap \/ UndoTap \/ PostTap

Answer ==
    \/ \E ok \in BOOLEAN :
          OnUpdateComment(ok) \/ OnUpdateValue(ok) \/ OnEdited(ok)
    \/ \E i \in 1..MaxReads :
          \/ ServeRead(i)
          \/ OnCurrentUser(i) \/ OnAuthor(i) \/ OnFields(i) \/ OnComments(i)

Next ==
    \/ User \/ Answer
    \/ \E i \in 1..MaxReads : LoseRead(i)
    \/ \E p \in Posts, c \in Comments : OthersComment(p, c)

Spec == Init /\ [][Next]_vars

-----------------------------------------------------------------------------
(* Properties *)

\* Types of all variables: the first part of CrashHasCause.
TypeOK ==
    /\ docs \in [Posts -> Doc]
    /\ comments \in [Comments -> Comment \cup {None}]
    /\ queue \in Seq(Write) /\ reads \in Seq(Read)
    /\ screen \in {"list", "detail", "away", "form"}
    /\ mPost \in Copy \cup {None} /\ mNewPost \in Copy \cup {None}
    /\ mine \in BOOLEAN /\ mUser \in BOOLEAN
    /\ ready \in BOOLEAN /\ visible \in BOOLEAN
    /\ mAuthor \in Users \cup {None} /\ formAuthor \in Users \cup {None}
    /\ mComments \subseteq Shown
    /\ reply \in Comments \cup {None} /\ popup \in Comments \cup {None}
    /\ text \in {"none", "early", "kept", "posted"}
    /\ crash \in {"none", "noUser", "noAuthor", "noNewPost"}
    /\ odd \in Fine..Crossed
    /\ last \in Comments \cup {None}
    /\ rushed \subseteq Comments /\ ids \subseteq Comments
    /\ taps \in Nat

\* The screen is drawn without its user only if an answer was late or lost,
\* the form has no author only if a read failed, and a post is saved from
\* nothing only for an earlier instance's comment.
CrashHasCause ==
    /\ TypeOK
    /\ crash = "noUser"    => odd >= Late
    /\ crash = "noAuthor"  => odd >= Lost
    /\ crash = "noNewPost" => odd = Crossed

\* Nobody becomes the author of another's post through an edit, unless an
\* answer asked for by a screen that was left arrived at the next one.
AuthorKept ==
    \A p \in Posts : docs[p].author = AuthorOf[p] \/ odd = Crossed

\* Once everything is answered the screen shows the post as it is stored, and
\* those of its comments that exist, unless something went wrong for this
\* instance.
ShownIsStored ==
    screen = "detail" /\ ready /\ Quiet /\ odd = Fine =>
        /\ mPost = CopyOf(mPost.id, docs[mPost.id])
        /\ visible => {k.id : k \in mComments} =
                         {c \in mPost.comments : comments[c] # None}

\* On a quiet screen the next comment replies to what "Replying to" shows,
\* unless the reload after an earlier comment failed.
ReplyAsShown ==
    screen = "detail" /\ Quiet => reply = popup \/ odd >= Lost

\* Replies have one level, stay in the post of their parent and are listed
\* with it, so that organizeComments does not drop them, unless an answer for
\* another post arrived; a parent is missing only if it was shown before it was
\* committed and then refused.
RepliesStay ==
    /\ \A c \in Comments : comments[c] # None /\ comments[c].parent # None =>
          LET parent == comments[comments[c].parent]
          IN  \/ parent = [post |-> comments[c].post, parent |-> None]
              \/ parent = None /\ c \in rushed
              \/ odd = Crossed
    /\ \A p \in Posts : \A c \in docs[p].comments :
          \/ comments[c] = None
          \/ comments[c].parent \in docs[p].comments \cup {None}
          \/ c \in rushed

\* A text typed on a quiet screen is not wiped before it was posted, and then
\* only when its comment is listed, unless something went wrong.
TextKept ==
    [][/\ text = "kept" /\ screen' # "list" => text' # "none"
       /\ text = "posted" /\ text' = "none" /\ screen' # "list" =>
            last \in docs[mPost.id].comments \/ odd > Fine
      ]_vars
=============================================================================
