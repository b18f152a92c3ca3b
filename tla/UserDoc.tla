------------------------------ MODULE UserDoc ------------------------------
(***************************************************************************)
(* The users documents and the counters of comments: likes and yellow      *)
(* cards of comments, and the profile screens.                             *)
(*                                                                         *)
(* A reaction is two writes.  The user's array gets the comment; when this *)
(* is answered, the whole comment is saved with the counters of the object *)
(* that the screen tapped last (mComment), which count from the zeros that *)
(* comments are loaded with.  A profile is saved whole, from a copy that   *)
(* ProfileActivity got in answer to GET_USER_INFO, a string that the post  *)
(* screen uses to ask for a post's author.                                 *)
(*                                                                         *)
(* Left out: name, emblem and photo, which a save of the profile is about  *)
(* and never loses (SignUp has the race for a name); postLikes, which      *)
(* nothing changes, and postYCards, which are saved as the other arrays    *)
(* are; posts, which Forum has; the texts of comments.                     *)
(***************************************************************************)
EXTENDS Naturals, Sequences, SequencesExt

CONSTANTS
    Devices, Users,
    Me,          \* the user signed in on a device
    Comments,    \* the comments that a post screen shows
    MaxReads,    \* bound: reads of a device under way
    MaxQueue,    \* bound: writes and results of a device under way
    MaxTaps,     \* bound: commands of all users, but for going back
    None

ASSUME UserDocAssumption ==
    /\ Me \in [Devices -> Users]
    /\ MaxReads \in Nat /\ MaxQueue \in Nat /\ MaxTaps \in Nat
    /\ None \notin Comments \cup Users \cup Devices

VARIABLES
    users,       \* users documents: commentLikes and commentYCards, as pairs
                 \* <<field, comment>>
    counts,      \* comments documents: like, yellowcard
    queue,       \* Firestore's pending writes of a device, oldest first
    acks,        \* results not yet delivered as broadcasts
    reads,       \* reads of users documents not yet delivered
    screen,      \* the activity on top; "post" is "detail" over the profile
    author,      \* the author of the post on the screen
    shown,       \* counters of the Comment objects shown, None: not loaded
    loads,       \* reloads of the comments under way
    mComment,    \* ForumDetailActivity.mComment and its counters
    mUser,       \* ProfileActivity.mUser, also handed to ProfileEditActivity
    verify,      \* a user_verify_username is under way
    crash,       \* the exception that ended the process, or "none"
    astray,      \* history: "read": the user did not wait for an answer, or a
                 \* read failed; "mark": a post was left before its reaction
                 \* was answered
    made,        \* history: marks that a device has made
    spoiled,     \* history: comments of which a write was refused or a mark
                 \* overwritten
    saver,       \* history: the device that saved a comment last
    taps

server == <<users, counts>>
post   == <<author, shown, loads, mComment>>
edit   == <<mUser, verify>>
past   == <<made, spoiled, saver>>
vars   == <<users, counts, queue, acks, reads, screen, author, shown, loads,
            mComment, mUser, verify, crash, astray, made, spoiled,
            saver, taps>>

Fields  == {"like", "ycard"}
Marks   == Fields \X Comments
Counter == [Fields -> Nat]
Zero    == [f \in Fields |-> 0]
Copy    == [id : Users, marks : SUBSET Marks]
Write   == [kind : {"mark", "count", "profile"}, deaf : BOOLEAN,
            field : Fields \cup {None}, comment : Comments \cup {None},
            counter : Counter \cup {None}, copy : Copy \cup {None}]
Read    == [tag : {"current", "info"}, user : Users, doc : Copy \cup {None}]
Held    == [comment : Comments, counter : Counter]

\* null is no object
ASSUME NoneAssumption == None \notin Held

Mark(f, c) ==
    [kind |-> "mark", deaf |-> FALSE, field |-> f, comment |-> c,
     counter |-> None, copy |-> None]
Count(f, held) ==
    [kind |-> "count", deaf |-> FALSE, field |-> f,
     comment |-> held.comment, counter |-> held.counter, copy |-> None]
Profile(copy) ==
    [kind |-> "profile", deaf |-> FALSE, field |-> None, comment |-> None,
     counter |-> None, copy |-> copy]

Init ==
    /\ users    = [u \in Users |-> {}]
    /\ counts   = [c \in Comments |-> Zero]
    /\ queue    = [d \in Devices |-> <<>>]
    /\ acks     = [d \in Devices |-> <<>>]
    /\ reads    = [d \in Devices |-> <<>>]
    /\ screen   = [d \in Devices |-> "core"]
    /\ author   = [d \in Devices |-> None]
    /\ shown    = [d \in Devices |-> None]
    /\ loads    = [d \in Devices |-> 0]
    /\ mComment = [d \in Devices |-> None]
    /\ mUser    = [d \in Devices |-> None]
    /\ verify   = [d \in Devices |-> FALSE]
    /\ crash    = [d \in Devices |-> "none"]
    /\ astray   = [d \in Devices |-> {}]
    /\ made     = [d \in Devices |-> {}]
    /\ spoiled  = {}
    /\ saver    = [c \in Comments |-> None]
    /\ taps     = 0

-----------------------------------------------------------------------------

Alive(d)  == crash[d] = "none"
OnPost(d) == screen[d] \in {"detail", "post"}
Tap       == taps < MaxTaps /\ taps' = taps + 1

\* Results not yet heard, of writes made or committed.
Pending(d) == queue[d] # <<>> \/ acks[d] # <<>>

Send(d, w) == queue' = [queue EXCEPT ![d] = Append(@, w)]
Room(d)    == Len(queue[d]) + Len(acks[d]) < MaxQueue

Request(tag, u) == [tag |-> tag, user |-> u, doc |-> None]
Ask(d, tag, u) ==
    /\ Len(reads[d]) < MaxReads
    /\ reads' = [reads EXCEPT ![d] = Append(@, Request(tag, u))]

\* The user goes on without waiting, or what is waited for fails.
Stray(d, what) == astray' = [astray EXCEPT ![d] = @ \cup what]
Unread(d) == {t \in {"read"} : reads[d] # <<>>}

\* What a write of device by makes of the marks of a user.
Applied(u, marks, w, by) ==
    CASE w.kind = "mark" /\ u = Me[by] -> marks \cup {<<w.field, w.comment>>}
      [] w.kind = "profile" /\ u = w.copy.id -> w.copy.marks
      [] OTHER -> marks

\* mutant: a read sees only what the server has
MutView(d, u) == users[u]

\* A read of a device sees its own pending writes: what is on the server or
\* added by one of them, and not taken away by a later one.
Survives(m, d, u, i) ==
    \A j \in DOMAIN queue[d] :
        j > i => m \in Applied(u, {m}, queue[d][j], d)
View(d, u) ==
    {m \in users[u] : Survives(m, d, u, 0)} \cup
    {m \in Marks : \E i \in DOMAIN queue[d] :
        m \in Applied(u, {}, queue[d][i], d) /\ Survives(m, d, u, i)}

-----------------------------------------------------------------------------
(* ForumDetailActivity *)

\* onCreate, onResume: a new instance asks for the user and for the post.
StartDetail(d, s, u) ==
    /\ screen'   = [screen EXCEPT ![d] = s]
    /\ author'   = [author EXCEPT ![d] = u]
    /\ shown'    = [shown EXCEPT ![d] = None]
    /\ loads'    = [loads EXCEPT ![d] = 1]
    /\ mComment' = [mComment EXCEPT ![d] = None]
    /\ Ask(d, "current", Me[d])

\* A post of anyone from the forum's list
OpenDetail(d, u) ==
    /\ Alive(d) /\ screen[d] = "core"
    /\ Tap
    /\ StartDetail(d, "detail", u)
    /\ UNCHANGED <<server, queue, acks, edit, crash, astray, past>>

\* A post from the profile
OpenOwnPost(d) ==
    /\ Alive(d) /\ screen[d] = "profile" /\ mUser[d] # None
    /\ Tap
    /\ Stray(d, Unread(d))
    /\ StartDetail(d, "post", mUser[d].id)
    /\ UNCHANGED <<server, queue, acks, edit, crash, past>>

\* mutant: the comment tapped is forgotten
MutForget(d) ==
    /\ Alive(d) /\ OnPost(d) /\ loads[d] > 0
    /\ loads'    = [loads EXCEPT ![d] = @ - 1]
    /\ shown'    = [shown EXCEPT ![d] = [c \in Comments |-> Zero]]
    /\ mComment' = [mComment EXCEPT ![d] = None]
    /\ UNCHANGED <<server, queue, acks, reads, screen, author, edit, crash,
                   astray, past, taps>>

\* FORUM_GET_COMMENTS: new objects, whose counters are not loaded
Reload(d) ==
    /\ Alive(d) /\ OnPost(d) /\ loads[d] > 0
    /\ loads' = [loads EXCEPT ![d] = @ - 1]
    /\ shown' = [shown EXCEPT ![d] = [c \in Comments |-> Zero]]
    /\ UNCHANGED <<server, queue, acks, reads, screen, author, mComment, edit,
                   crash, astray, past, taps>>

\* mutant: the comment is saved first
MutReact(d, f, c) ==
    /\ Alive(d) /\ OnPost(d) /\ shown[d] # None
    /\ Room(d) /\ Tap
    /\ LET held == [comment |-> c,
                    counter |-> [shown[d][c] EXCEPT ![f] = @ + 1]]
       IN  /\ shown'    = [shown EXCEPT ![d][c] = held.counter]
           /\ mComment' = [mComment EXCEPT ![d] = held]
           /\ queue'    = [queue EXCEPT ![d] =
                              @ \o <<Count(f, held), Mark(f, c)>>]
    /\ UNCHANGED <<server, acks, reads, screen, author, loads, edit, crash,
                   astray, past>>

\* OnLikeClickListener, OnYCardClickListener, onLike, onYCard.  A view's id is
\* never that of a drawable, so that a like is never taken back.
React(d, f, c) ==
    /\ Alive(d) /\ OnPost(d) /\ shown[d] # None
    /\ Room(d) /\ Tap
    /\ shown'    = [shown EXCEPT ![d][c][f] = @ + 1]
    /\ mComment' = [mComment EXCEPT ![d] =
                       [comment |-> c, counter |-> shown'[d][c]]]
    /\ Send(d, Mark(f, c))
    /\ UNCHANGED <<server, acks, reads, screen, author, loads, edit, crash,
                   astray, past>>

Heard(d, kind) == Alive(d) /\ acks[d] # <<>> /\ Head(acks[d]).kind = kind
Hear(d) == acks' = [acks EXCEPT ![d] = Tail(@)]

\* mutant: only likes are saved
MutOnMarked(d) ==
    /\ Heard(d, "mark")
    /\ Hear(d)
    /\ IF OnPost(d) /\ mComment[d] # None /\ Head(acks[d]).field = "like"
       THEN Send(d, Count("like", mComment[d]))
       ELSE UNCHANGED queue
    /\ UNCHANGED <<server, reads, screen, post, edit, crash, astray, past,
                   taps>>

\* USER_UPDATE_LIKE_VALUE_COMMENT, USER_UPDATE_YCARD_VALUE_COMMENT: whichever
\* instance is there saves its own mComment.
OnMarked(d) ==
    /\ Heard(d, "mark")
    /\ Hear(d)
    /\ \/ /\ ~OnPost(d)
          /\ UNCHANGED <<queue, crash>>
       \/ /\ OnPost(d) /\ mComment[d] # None
          /\ Send(d, Count(Head(acks[d]).field, mComment[d]))
          /\ UNCHANGED crash
       \/ /\ OnPost(d) /\ mComment[d] = None
          /\ crash' = [crash EXCEPT ![d] = "noComment"]
          /\ UNCHANGED queue
    /\ UNCHANGED <<server, reads, screen, post, edit, astray, past, taps>>

\* COMMENT_UPDATE_LIKE_VALUE loads the comments again, the other does not.
OnCounted(d) ==
    /\ Heard(d, "count")
    /\ Hear(d)
    /\ loads' = IF OnPost(d) /\ Head(acks[d]).field = "like"
                THEN [loads EXCEPT ![d] = @ + 1] ELSE loads
    /\ UNCHANGED <<server, queue, reads, screen, author, shown, mComment,
                   edit, crash, astray, past, taps>>

-----------------------------------------------------------------------------
(* ProfileActivity *)

\* mutant: the profile of the author seen last
MutOpenProfile(d) ==
    /\ Alive(d) /\ screen[d] = "core"
    /\ Tap
    /\ screen' = [screen EXCEPT ![d] = "profile"]
    /\ mUser'  = [mUser EXCEPT ![d] = None]
    /\ Ask(d, "info", IF author[d] = None THEN Me[d] ELSE author[d])
    /\ UNCHANGED <<server, queue, acks, post, verify, crash, astray,
                   past>>

\* onCreate, onResume
OpenProfile(d) ==
    /\ Alive(d) /\ screen[d] = "core"
    /\ Tap
    /\ screen' = [screen EXCEPT ![d] = "profile"]
    /\ mUser'  = [mUser EXCEPT ![d] = None]
    /\ Ask(d, "info", Me[d])
    /\ UNCHANGED <<server, queue, acks, post, verify, crash, astray, past>>

\* onOptionsItemSelected, ProfileEditActivity.onCreate
EditTap(d) ==
    /\ Alive(d) /\ screen[d] = "profile"
    /\ Stray(d, Unread(d))
    /\ IF mUser[d] = None
       THEN /\ crash' = [crash EXCEPT ![d] = "noUser"]
            /\ UNCHANGED screen
       ELSE /\ screen' = [screen EXCEPT ![d] = "edit"]
            /\ UNCHANGED crash
    /\ UNCHANGED <<server, queue, acks, reads, post, mUser, verify, past,
                   taps>>

-----------------------------------------------------------------------------
(* ProfileEditActivity *)

\* onSaveTap with the name unchanged
SaveTap(d) ==
    /\ Alive(d) /\ screen[d] = "edit"
    /\ Room(d) /\ Tap
    /\ Send(d, Profile(mUser[d]))
    /\ UNCHANGED <<server, acks, reads, screen, post, edit, crash, astray,
                   past>>

\* onSaveTap with a new name, which is verified first
RenameTap(d) ==
    /\ Alive(d) /\ screen[d] = "edit"
    /\ ~verify[d]
    /\ Tap
    /\ verify' = [verify EXCEPT ![d] = TRUE]
    /\ UNCHANGED <<server, queue, acks, reads, screen, post, mUser, crash,
                   astray, past>>

\* VERIFY_USERNAME: the name is free, or it is taken or the query failed.
OnVerified(d) ==
    /\ Alive(d) /\ verify[d]
    /\ verify' = [verify EXCEPT ![d] = FALSE]
    /\ \/ screen[d] = "edit" /\ Send(d, Profile(mUser[d]))
       \/ UNCHANGED queue
    /\ UNCHANGED <<server, acks, reads, screen, post, mUser, crash, astray,
                   past, taps>>

\* UPDATE_PROFILE: the screen closes, the profile below asks again.
OnSaved(d) ==
    /\ Heard(d, "profile")
    /\ Hear(d)
    /\ IF screen[d] = "edit"
       THEN /\ screen' = [screen EXCEPT ![d] = "profile"]
            /\ Ask(d, "info", Me[d])
       ELSE UNCHANGED <<screen, reads>>
    /\ UNCHANGED <<server, queue, post, edit, crash, astray, past, taps>>

-----------------------------------------------------------------------------
(* Back, answers to reads, the end of a process *)

\* The back key; ProfileActivity.onResume asks again.  A reaction that is not
\* yet answered loses its screen.
Back(d) ==
    /\ Alive(d) /\ screen[d] # "core"
    /\ Stray(d, Unread(d) \cup {t \in {"mark"} : OnPost(d) /\ Pending(d)})
    /\ IF screen[d] \in {"post", "edit"}
       THEN /\ screen' = [screen EXCEPT ![d] = "profile"]
            /\ Ask(d, "info", Me[d])
       ELSE /\ screen' = [screen EXCEPT ![d] = "core"]
            /\ UNCHANGED reads
    /\ UNCHANGED <<server, queue, acks, post, edit, crash, past, taps>>

\* The server answers a read.
ServeRead(d, i) ==
    /\ i \in DOMAIN reads[d] /\ reads[d][i].doc = None
    /\ LET u == reads[d][i].user
       IN  reads' = [reads EXCEPT ![d][i].doc =
                        [id |-> u, marks |-> View(d, u)]]
    /\ UNCHANGED <<server, queue, acks, screen, post, edit, crash, astray,
                   past, taps>>

\* A read fails.  That of a post's author does not matter here.
LoseRead(d, i) ==
    /\ i \in DOMAIN reads[d] /\ reads[d][i].doc = None
    /\ reads' = [reads EXCEPT ![d] = RemoveAt(@, i)]
    /\ Stray(d, {t \in {"read"} : reads[d][i].user = Me[d]})
    /\ UNCHANGED <<server, queue, acks, screen, post, edit, crash, past,
                   taps>>

Answered(d, i, tag) ==
    /\ Alive(d) /\ i \in DOMAIN reads[d]
    /\ reads[d][i].doc # None /\ reads[d][i].tag = tag

\* GET_CURRENT_USER: the post screen asks for the author.
OnCurrentUser(d, i) ==
    /\ Answered(d, i, "current")
    /\ reads' = [reads EXCEPT ![d] =
                    IF OnPost(d)
                    THEN Append(RemoveAt(@, i), Request("info", author[d]))
                    ELSE RemoveAt(@, i)]
    /\ UNCHANGED <<server, queue, acks, screen, post, edit, crash, astray,
                   past, taps>>

\* GET_USER_INFO: the profile takes whatever comes while it is on top.
OnUserInfo(d, i) ==
    /\ Answered(d, i, "info")
    /\ reads' = [reads EXCEPT ![d] = RemoveAt(@, i)]
    /\ mUser' = IF screen[d] = "profile"
                THEN [mUser EXCEPT ![d] = reads[d][i].doc] ELSE mUser
    /\ UNCHANGED <<server, queue, acks, screen, post, verify, crash, astray,
                   past, taps>>

\* The process ends, by an exception or by the system; the queue is on disk,
\* but nobody waits for it.
Die(d) ==
    /\ Alive(d) => Tap
    /\ ~Alive(d) => UNCHANGED taps
    /\ screen'   = [screen EXCEPT ![d] = "core"]
    /\ queue'    = [queue EXCEPT ![d] =
                       [i \in DOMAIN @ |-> [@[i] EXCEPT !.deaf = TRUE]]]
    /\ acks'     = [acks EXCEPT ![d] = <<>>]
    /\ reads'    = [reads EXCEPT ![d] = <<>>]
    /\ author'   = [author EXCEPT ![d] = None]
    /\ shown'    = [shown EXCEPT ![d] = None]
    /\ loads'    = [loads EXCEPT ![d] = 0]
    /\ mComment' = [mComment EXCEPT ![d] = None]
    /\ mUser'    = [mUser EXCEPT ![d] = None]
    /\ verify'   = [verify EXCEPT ![d] = FALSE]
    /\ crash'    = [crash EXCEPT ![d] = "none"]
    /\ UNCHANGED <<server, astray, past>>

-----------------------------------------------------------------------------
(* Firestore *)

\* The oldest write of a device is accepted.
Commit(d) ==
    /\ queue[d] # <<>>
    /\ LET w == Head(queue[d])
       IN  /\ users' = [u \in Users |-> Applied(u, users[u], w, d)]
           /\ queue' = [queue EXCEPT ![d] = Tail(@)]
           /\ acks'  = IF w.deaf THEN acks
                       ELSE [acks EXCEPT ![d] = Append(@, w)]
           /\ IF w.kind = "count"
              THEN /\ counts' = [counts EXCEPT ![w.comment] = w.counter]
                   /\ saver'  = [saver EXCEPT ![w.comment] = d]
              ELSE UNCHANGED <<counts, saver>>
           /\ made' = IF w.kind = "mark"
                      THEN [made EXCEPT ![d] = @ \cup {<<w.field, w.comment>>}]
                      ELSE made
           /\ spoiled' = spoiled \cup
                 {c \in Comments : \E f \in Fields, u \in Users :
                     <<f, c>> \in users[u] \ users'[u]}
    /\ UNCHANGED <<reads, screen, post, edit, crash, astray, taps>>

\* The oldest write is refused: onSuccess is not called, the failure shows a
\* message or, for a saved comment, is not listened for.
Refuse(d) ==
    /\ queue[d] # <<>>
    /\ queue'   = [queue EXCEPT ![d] = Tail(@)]
    /\ spoiled' = spoiled \cup ({Head(queue[d]).comment} \cap Comments)
    /\ UNCHANGED <<server, acks, reads, screen, post, edit, crash, astray,
                   made, saver, taps>>

-----------------------------------------------------------------------------

User(d) ==
    \/ \E u \in Users : OpenDetail(d, u)
    \/ \E f \in Fields, c \in Comments : React(d, f, c)
    \/ OpenOwnPost(d) \/ OpenProfile(d) \/ EditTap(d)
    \/ SaveTap(d) \/ RenameTap(d) \/ Back(d)

Answer(d) ==
    \/ Reload(d) \/ OnMarked(d) \/ OnCounted(d) \/ OnVerified(d) \/ OnSaved(d)
    \/ \E i \in 1..MaxReads : OnCurrentUser(d, i) \/ OnUserInfo(d, i)

Server(d) ==
    \/ Commit(d) \/ Refuse(d)
    \/ \E i \in 1..MaxReads : ServeRead(d, i) \/ LoseRead(d, i)

Next == \E d \in Devices : User(d) \/ Answer(d) \/ Server(d) \/ Die(d)

Spec == Init /\ [][Next]_vars

-----------------------------------------------------------------------------
(* Properties *)

\* Types of all variables: the first part of FieldsAreThere.
TypeOK ==
    /\ users \in [Users -> SUBSET Marks]
    /\ counts \in [Comments -> Counter]
    /\ queue \in [Devices -> Seq(Write)]
    /\ acks \in [Devices -> Seq(Write)]
    /\ reads \in [Devices -> Seq(Read)]
    /\ screen \in [Devices -> {"core", "detail", "post", "profile", "edit"}]
    /\ author \in [Devices -> Users \cup {None}]
    /\ shown \in [Devices -> [Comments -> Counter] \cup {None}]
    /\ loads \in [Devices -> Nat]
    /\ mComment \in [Devices -> Held \cup {None}]
    /\ mUser \in [Devices -> Copy \cup {None}]
    /\ verify \in [Devices -> BOOLEAN]
    /\ crash \in [Devices -> {"none", "noUser", "noComment"}]
    /\ astray \in [Devices -> SUBSET {"read", "mark"}]
    /\ made \in [Devices -> SUBSET Marks]
    /\ spoiled \subseteq Comments
    /\ saver \in [Comments -> Devices \cup {None}]
    /\ taps \in Nat

\* A device saves only its own user's profile, although the profile screen
\* takes answers that the post screen asked for, as long as its user waits.
OwnProfile ==
    \A d \in Devices : \A i \in DOMAIN queue[d] :
        queue[d][i].kind = "profile" =>
            queue[d][i].copy.id = Me[d] \/ "read" \in astray[d]

\* Saving a profile never undoes a reaction of the same device, even one that
\* was pending when the post was left, as long as profiles are read in time.
MarksKept ==
    [][\A d \in Devices : queue[d] # <<>> /\ Head(queue[d]).kind = "profile" =>
          \/ \E e \in Devices : "read" \in astray[e]
          \/ users[Me[d]] \cap made[d] \subseteq users'[Me[d]]
      ]_users

\* A comment that counts likes or cards is in the array of somebody, unless a
\* write of it was refused or the mark overwritten: the array comes first.
CountsAreMarked ==
    \A f \in Fields, c \in Comments :
        counts[c][f] > 0 => \/ \E u \in Users : <<f, c>> \in users[u]
                            \/ c \in spoiled

\* Once a post screen is quiet the comment tapped last is stored as it is
\* counted there, however fast the taps were, unless a write was refused or
\* another device saved the comment.
LastReactionStored ==
    \A d \in Devices : mComment[d] # None /\ OnPost(d) /\ ~Pending(d) =>
        LET c == mComment[d].comment
        IN  \/ counts[c] = mComment[d].counter
            \/ c \in spoiled
            \/ saver[c] \notin {d, None}

\* No handler finds a user or a comment missing, as long as the user waits.
FieldsAreThere ==
    /\ TypeOK
    /\ \A d \in Devices : Alive(d) \/ astray[d] # {}
=============================================================================
