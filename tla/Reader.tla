------------------------------- MODULE Reader -------------------------------
(***************************************************************************)
(* What one device reads of the forum while others write: the two reads of *)
(* forum_get_posts, the rows of the forum, and the four reads of           *)
(* forum_get_comments with the order and the names they end in.            *)
(*                                                                         *)
(* Each read sees the collections as they are when it is answered, this    *)
(* device's pending writes included.  Nothing keeps a document from going  *)
(* between two of them, and no callback checks that one is there.          *)
(*                                                                         *)
(* The n-th comment made is called n; its id is the hour it was made, as   *)
(* TextUtil writes it.  Left out: two comments with one id, the rest of    *)
(* the post screen (PostScreen), likes and cards (Forum and UserDoc).      *)
(***************************************************************************)
EXTENDS TextUtil, Functions, FiniteSets

CONSTANTS
    Posts, Users,
    Me,         \* the user signed in
    TextOf,     \* the description of each post, a text of TextUtil
    HourOf,     \* the hour at which each comment is made
    MaxQueue,   \* bound: comments of this device under way
    None

Comments == DOMAIN HourOf

ASSUME ReaderAssumption ==
    /\ Me \in Users
    /\ DOMAIN TextOf = Posts /\ \A p \in Posts : IsText(TextOf[p])
    /\ HourOf \in Seq(Nat)
    /\ \A c, d \in Comments :    \* no two comments have one id
          c < d => /\ HourOf[c] < HourOf[d]
                   /\ ReadBack(HourOf[c]) # ReadBack(HourOf[d])
    /\ MaxQueue \in Nat
    /\ None \notin Posts \cup Comments \cup Users

VARIABLES
    posts,      \* posts collection: the comments of each
    comments,   \* comments collection: postId, userId, parentId, mentionId
    queue,      \* comments of this device that the server has not answered
    listing,    \* the forum_get_posts under way
    forum,      \* the posts of the forum tab, as they were read
    drawn,      \* posts whose row has been drawn
    open,       \* the post whose screen is open
    ids,        \* mPost.getComments() of that screen
    load,       \* the forum_get_comments under way
    shown,      \* the comments of that screen, in the order of the list
    crash,      \* the exception that ended the process, or "none"
    made,       \* history: comments made, in order
    refused,    \* history: comments the server refused
    asked       \* history: the ids that the load shown was asked for

server  == <<posts, comments>>
tab     == <<listing, forum, drawn>>
history == <<made, refused>>
vars    == <<posts, comments, queue, listing, forum, drawn, open, ids, load,
             shown, crash, made, refused, asked>>

Comment == [post : Posts, author : Users, parent : Comments \cup {None},
            mention : Comments \cup {None}]
Own     == [id : Comments, doc : Comment]

\* names: the users that step three found for the mentions
Load == [step : 1..4, ids : SUBSET Comments, docs : Seq(Own),
         gone : BOOLEAN, names : Seq(Users)]

Row == [id : Comments, author : Users, parent : Comments \cup {None},
        mention : Users \cup {None}]

\* A comment that is not there has no document.
ASSUME NoneAssumption == None \notin Comment

Init ==
    /\ posts = [p \in Posts |-> {}]
    /\ comments = [c \in Comments |-> None]
    /\ queue = <<>>
    /\ listing = None /\ forum = <<>> /\ drawn = {}
    /\ open = None /\ ids = {} /\ load = None /\ shown = <<>>
    /\ crash = "none"
    /\ made = <<>> /\ refused = {} /\ asked = {}

-----------------------------------------------------------------------------

Alive     == crash = "none"
Stored(p) == posts[p] # None
Pending   == {queue[i].id : i \in DOMAIN queue}
Exists(c) == comments[c] # None \/ c \in Pending

\* A comment as this device reads it
Doc(c) ==
    IF comments[c] # None THEN comments[c]
    ELSE (CHOOSE w \in Range(queue) : w.id = c).doc

\* The elements of S, sorted: before has the pairs of which the first goes
\* before the second.
Sorted(S, before) ==
    LET place(x) == Cardinality({y \in S : <<y, x>> \in before}) + 1
    IN  [n \in 1..Cardinality(S) |-> CHOOSE x \in S : place(x) = n]

\* A query returns documents in the order of their ids; days are those of one
\* month.
IdKey(c)   == 24 * (HourOf[c] \div 24) + Written(HourOf[c])
IdOrder(S) == Sorted(S, {e \in S \X S : IdKey(e[1]) < IdKey(e[2])})

\* mutant: the parent of a reply is what it answers
MutNewComment(p, u, m, read) ==
    [post |-> p, author |-> u, mention |-> m, parent |-> m]

\* onReply: the parent of a reply is the top of the thread, as the one who
\* replies has read the comment.
NewComment(p, u, m, read) ==
    [post |-> p, author |-> u, mention |-> m,
     parent |-> IF m = None \/ read[m].parent = None THEN m
                ELSE read[m].parent]

ShownIds == {shown[i].id : i \in DOMAIN shown}
Shown    == [c \in ShownIds |-> CHOOSE r \in Range(shown) : r.id = c]

Next1 == Len(made) + 1   \* the comment to be made next

-----------------------------------------------------------------------------
(* The forum tab *)

\* forum_get_posts asks for the ids of all posts.
AskPosts ==
    /\ Alive /\ open = None /\ listing = None
    /\ listing' = [step |-> 1, ids |-> {}]
    /\ UNCHANGED <<server, queue, forum, drawn, open, ids, load, shown, crash,
                   history, asked>>

\* The ids are there: each post is read again, by its id.  Without any, the
\* answer has no list and the tab keeps its own.
OnPostIds ==
    /\ Alive /\ listing # None /\ listing.step = 1
    /\ LET found == {p \in Posts : Stored(p)}
       IN  listing' = IF found = {} THEN None ELSE [step |-> 2, ids |-> found]
    /\ UNCHANGED <<server, queue, forum, drawn, open, ids, load, shown, crash,
                   history, asked>>

\* forum_get_post_step_two: the category of a post that is gone is null.
OnPosts ==
    /\ Alive /\ listing # None /\ listing.step = 2
    /\ IF \E p \in listing.ids : ~Stored(p)
       THEN crash' = "post" /\ UNCHANGED tab
       ELSE /\ forum' = [p \in listing.ids |-> posts[p]]
            /\ listing' = None /\ drawn' = {}
            /\ UNCHANGED crash
    /\ UNCHANGED <<server, queue, open, ids, load, shown, history, asked>>

\* A read has no failure listener.
LoseListing ==
    /\ Alive /\ listing # None /\ listing' = None
    /\ UNCHANGED <<server, queue, forum, drawn, open, ids, load, shown, crash,
                   history, asked>>

\* ForumAdapter.getView: a row is drawn when it comes into sight.
Draw(p) ==
    /\ Alive /\ open = None /\ p \in DOMAIN forum \ drawn
    /\ IF SummaryThrows(TextOf[p])
       THEN crash' = "summary" /\ UNCHANGED drawn
       ELSE drawn' = drawn \cup {p} /\ UNCHANGED crash
    /\ UNCHANGED <<server, queue, listing, forum, open, ids, load, shown,
                   history, asked>>

\* A tap on a row; the screen starts with the forum's copy of the post.
Open(p) ==
    /\ Alive /\ open = None /\ listing = None /\ p \in drawn
    /\ open' = p /\ ids' = forum[p]
    /\ UNCHANGED <<server, queue, tab, load, shown, crash, history, asked>>

\* Answers that come to another screen are in PostScreen.
Back ==
    /\ Alive /\ open # None /\ load = None /\ queue = <<>>
    /\ open' = None /\ ids' = {} /\ shown' = <<>> /\ asked' = {}
    /\ UNCHANGED <<server, queue, tab, load, crash, history>>

-----------------------------------------------------------------------------
(* Comments: four reads, one after the other *)

AskComments ==
    /\ Alive /\ open # None /\ load = None
    /\ load' = [step |-> 1, ids |-> ids, docs |-> <<>>, gone |-> FALSE,
                names |-> <<>>]
    /\ UNCHANGED <<server, queue, tab, open, ids, shown, crash, history, asked>>

\* The first read finds the comments that are there, with their authors; if
\* there is none the answer has no list and the screen keeps its own.
OnFound ==
    /\ Alive /\ load # None /\ load.step = 1
    /\ LET found == IdOrder({c \in load.ids : Exists(c)})
           docs  == [i \in DOMAIN found |-> [id  |-> found[i],
                                             doc |-> Doc(found[i])]]
       IN  load' = IF found = <<>> THEN None
                   ELSE [load EXCEPT !.step = 2, !.docs = docs]
    /\ UNCHANGED <<server, queue, tab, open, ids, shown, crash, history, asked>>

\* The second reads each comment by its id; what a document holds never
\* changes, but one may be gone, and then its mention is null.
OnDocs ==
    /\ Alive /\ load # None /\ load.step = 2
    /\ load' = [load EXCEPT !.step = 3,
                            !.gone = \E i \in DOMAIN load.docs :
                                        ~Exists(load.docs[i].id)]
    /\ UNCHANGED <<server, queue, tab, open, ids, shown, crash, history, asked>>

\* mutant: the names of the parents are found
MutOnMentions ==
    /\ Alive /\ load # None /\ load.step = 3
    /\ LET mention(i) == load.docs[i].doc.parent
           known == {i \in DOMAIN load.docs :
                       mention(i) # None /\ Exists(mention(i))}
           found == Sorted(known, {e \in known \X known : e[1] < e[2]})
           names == [n \in DOMAIN found |-> Doc(mention(found[n])).author]
       IN  IF load.gone /\ \E c \in Comments : Exists(c)
           THEN crash' = "doc" /\ UNCHANGED load
           ELSE /\ load' = [load EXCEPT !.step = 4, !.names = names]
                /\ UNCHANGED crash
    /\ UNCHANGED <<server, queue, tab, open, ids, shown, history, asked>>

\* The third reads all comments again and finds the author of each mention that
\* is there: the names are fewer than the replies if one is not.  A null
\* mention throws at the first document it is compared with.
OnMentions ==
    /\ Alive /\ load # None /\ load.step = 3
    /\ LET mention(i) == load.docs[i].doc.mention
           known == {i \in DOMAIN load.docs :
                       mention(i) # None /\ Exists(mention(i))}
           found == Sorted(known, {e \in known \X known : e[1] < e[2]})
           names == [n \in DOMAIN found |-> Doc(mention(found[n])).author]
       IN  IF load.gone /\ \E c \in Comments : Exists(c)
           THEN crash' = "doc" /\ UNCHANGED load
           ELSE /\ load' = [load EXCEPT !.step = 4, !.names = names]
                /\ UNCHANGED crash
    /\ UNCHANGED <<server, queue, tab, open, ids, shown, history, asked>>

\* mutant: a name is dealt to every row
MutIsReply(w) == TRUE

\* Only these take a name; the other rows get "".
IsReply(w) == w.doc.mention # None

\* The names are dealt to the replies in the order of the documents.
Nth(docs, i) == Cardinality({j \in 1..i : IsReply(docs[j])})

Combined(docs, names) ==
    LET name(i) == IF IsReply(docs[i]) THEN names[Nth(docs, i)] ELSE None
    IN  [i \in DOMAIN docs |->
            [id |-> docs[i].id, author |-> docs[i].doc.author,
             parent |-> docs[i].doc.parent, mention |-> name(i)]]

\* mutant: the rows are put in threads in the order of their ids
MutOrganize(rows) ==
    LET top(r) == IF r.parent = None THEN r.id ELSE r.parent
        listed == {r \in Range(rows) :
                      \E t \in Range(rows) : t.parent = None /\ t.id = top(r)}
    IN  Sorted(listed,
               {e \in listed \X listed :
                   \/ IdKey(top(e[1])) < IdKey(top(e[2]))
                   \/ /\ top(e[1]) = top(e[2]) /\ e[2].parent # None
                      /\ \/ e[1].parent = None
                         \/ IdKey(e[1].id) < IdKey(e[2].id)})

\* mutant: the rows are sorted, but not put under their parents
MutThreads(rows) ==
    LET date(c) == ReadBack(HourOf[c])
    IN  Sorted(Range(rows), {e \in Range(rows) \X Range(rows) :
                                date(e[1].id) < date(e[2].id)})

\* organizeComments: the comments on top by date, and after each the replies
\* that name it as their parent, by date.
Organize(rows) ==
    LET date(c) == ReadBack(HourOf[c])
        top(r)  == IF r.parent = None THEN r.id ELSE r.parent
        listed  == {r \in Range(rows) :
                       \E t \in Range(rows) : t.parent = None /\ t.id = top(r)}
    IN  Sorted(listed,
               {e \in listed \X listed :
                   \/ date(top(e[1])) < date(top(e[2]))
                   \/ /\ top(e[1]) = top(e[2]) /\ e[2].parent # None
                      /\ \/ e[1].parent = None
                         \/ date(e[1].id) < date(e[2].id)})

\* The fourth reads all users and broadcasts the list, which is drawn.
OnNames ==
    /\ Alive /\ load # None /\ load.step = 4
    /\ IF \/ load.gone
          \/ \E i \in DOMAIN load.docs : /\ IsReply(load.docs[i])
                                        /\ Nth(load.docs, i) > Len(load.names)
       THEN /\ crash' = IF load.gone THEN "doc" ELSE "mention"
            /\ UNCHANGED <<load, shown, asked>>
       ELSE /\ shown' = Organize(Combined(load.docs, load.names))
            /\ asked' = load.ids
            /\ load' = None
            /\ UNCHANGED crash
    /\ UNCHANGED <<server, queue, tab, open, ids, history>>

\* Only the first read has a failure listener, whose answer changes nothing.
LoseLoad ==
    /\ Alive /\ load # None /\ load' = None
    /\ UNCHANGED <<server, queue, tab, open, ids, shown, crash, history, asked>>

-----------------------------------------------------------------------------
(* Writes *)

\* onCommentTap, on top or as a reply to a comment that is shown, whether or
\* not the server has refused it since; mNewPost is mPost, so the screen's list
\* has the id at once.
CommentTap(m) ==
    /\ Alive /\ open # None /\ Next1 \in Comments
    /\ Len(queue) < MaxQueue
    /\ m \in {None} \cup ShownIds
    /\ queue' = Append(queue,
                       [id |-> Next1, doc |-> NewComment(open, Me, m, Shown)])
    /\ ids' = ids \cup {Next1}
    /\ made' = Append(made, Me)
    /\ UNCHANGED <<server, tab, open, load, shown, crash, refused, asked>>

\* The server accepts the comment, and the post is saved with the screen's
\* list; saving a post that is gone fails.
Commit ==
    /\ queue # <<>>
    /\ LET w == Head(queue)
       IN  /\ comments' = [comments EXCEPT ![w.id] = w.doc]
           /\ posts' = [posts EXCEPT ![w.doc.post] =
                           IF Stored(w.doc.post) THEN ids ELSE None]
    /\ queue' = Tail(queue)
    /\ UNCHANGED <<tab, open, ids, load, shown, crash, history, asked>>

\* The server refuses the comment: it is gone from this device too.
Refuse ==
    /\ queue # <<>>
    /\ refused' = refused \cup {Head(queue).id}
    /\ queue' = Tail(queue)
    /\ UNCHANGED <<server, tab, open, ids, load, shown, crash, made, asked>>

\* Another device comments on a post that it has read.
OthersComment(p, u, m) ==
    /\ Stored(p) /\ u # Me /\ Next1 \in Comments
    /\ m \in {None} \cup {c \in posts[p] : comments[c] # None}
    /\ comments' = [comments EXCEPT ![Next1] = NewComment(p, u, m, comments)]
    /\ posts' = [posts EXCEPT ![p] = @ \cup {Next1}]
    /\ made' = Append(made, u)
    /\ UNCHANGED <<queue, tab, open, ids, load, shown, crash, refused, asked>>

\* Another device deletes a post; its comments stay.
OthersDelete(p) ==
    /\ Stored(p)
    /\ posts' = [posts EXCEPT ![p] = None]
    /\ UNCHANGED <<comments, queue, tab, open, ids, load, shown, crash, made,
                   refused, asked>>

Next ==
    \/ AskPosts \/ OnPostIds \/ OnPosts \/ LoseListing
    \/ \E p \in Posts : Draw(p) \/ Open(p)
    \/ Back
    \/ AskComments \/ OnFound \/ OnDocs \/ OnMentions \/ OnNames \/ LoseLoad
    \/ \E m \in Comments \cup {None} : CommentTap(m)
    \/ Commit \/ Refuse
    \/ \E p \in Posts, u \in Users, m \in Comments \cup {None} :
          OthersComment(p, u, m)
    \/ \E p \in Posts : OthersDelete(p)

Spec == Init /\ [][Next]_vars

-----------------------------------------------------------------------------
(* Properties *)

\* Types of all variables: the first part of CrashHasCause.
TypeOK ==
    /\ posts \in [Posts -> (SUBSET Comments) \cup {None}]
    /\ comments \in [Comments -> Comment \cup {None}]
    /\ queue \in Seq(Own)
    /\ listing \in [step : 1..2, ids : SUBSET Posts] \cup {None}
    /\ DOMAIN forum \subseteq Posts /\ drawn \subseteq DOMAIN forum
    /\ \A p \in DOMAIN forum : forum[p] \subseteq Comments
    /\ open \in Posts \cup {None} /\ ids \subseteq Comments
    /\ load \in Load \cup {None}
    /\ shown \in Seq(Row)
    /\ crash \in {"none", "post", "summary", "doc", "mention"}
    /\ made \in Seq(Users) /\ Len(made) <= Len(HourOf)
    /\ refused \subseteq Comments
    /\ asked \subseteq Comments

\* No load throws by itself.  forum_get_post_step_two does only if a post was
\* deleted, the comments' steps only if the server refused a comment that was
\* read or answered before; a row does for a text of 51 to 55 letters.
CrashHasCause ==
    /\ TypeOK
    /\ crash = "post" => \E p \in Posts : ~Stored(p)
    /\ crash \in {"doc", "mention"} => refused # {}
    /\ crash = "summary" =>
          \E p \in DOMAIN forum : TextLength(TextOf[p]) \in 51..55

\* The names that steps three and four look up belong to the comments of step
\* one: each row has the author of its comment, each reply the name of whoever
\* made the comment that it answers.
NamesRight ==
    \A i \in DOMAIN shown :
        LET r == shown[i] IN
        /\ r.author = made[r.id]
        /\ Exists(r.id) =>
              r.mention = IF Doc(r.id).mention = None THEN None
                          ELSE made[Doc(r.id).mention]

SameHalfDay(c, d) == HourOf[c] \div 12 = HourOf[d] \div 12

\* Comments on top, and replies of one thread, stand in the order in which they
\* were made, as far as the ids can tell: within one morning or afternoon.
InOrderMade ==
    \A i, j \in DOMAIN shown :
        /\ i < j
        /\ shown[i].parent = shown[j].parent
        /\ SameHalfDay(shown[i].id, shown[j].id)
        => shown[i].id < shown[j].id

\* Every reply stands in the thread of its parent: between it and its parent
\* there are only replies to the same parent.
RepliesInThread ==
    \A j \in DOMAIN shown :
        shown[j].parent # None =>
            \E i \in 1..(j - 1) :
                /\ shown[i].id = shown[j].parent
                /\ \A k \in (i + 1)..j : shown[k].parent = shown[j].parent

\* If the server refused nothing, every comment that was asked for is shown,
\* once: no step drops one, no thread is without its top, and a post's list of
\* comments never names a reply whose parent it does not name.
AllShown ==
    refused = {} =>
        /\ ShownIds = asked
        /\ Len(shown) = Cardinality(ShownIds)
=============================================================================
