---------------------------- MODULE Forum_proofs ----------------------------
(***************************************************************************)
(* The forum's documents, proved of Forum for any number of devices,       *)
(* posts, comments and pending writes: first types, and that no post lists *)
(* a comment that was never handed to the server; then the life of a post. *)
(*                                                                         *)
(* If no id is made twice (UniqueIds), a deleted post stays deleted and    *)
(* the documents keep the promise of ForumPromise.  If users wait for      *)
(* their answers (Patient), users' lists name posts that were created and  *)
(* lose them after their documents.  If both hold, comments stay with      *)
(* their post and only authors delete.                                     *)
(***************************************************************************)
EXTENDS Forum, SequenceTheorems, TLAPS

-----------------------------------------------------------------------------
(* Types of the operators *)

\* The requests DBUtil builds are writes.
LEMMA RequestTypes ==
    /\ \A c \in CommentIds, p \in PostIds : SetComment(c, p) \in Write
    /\ \A p \in PostIds, doc \in Docs : SetPost(p, doc) \in Write
    /\ \A t \in Tags, old \in Copies, new \in Copies \cup Docs :
            UpdatePost(t, old, new) \in Write
    /\ \A p \in PostIds : DeletePost(p) \in Write
    /\ \A t \in Tags, p \in PostIds :
            /\ UserWrite("unionPosts", t, p) \in Write
            /\ UserWrite("removePosts", t, p) \in Write
            /\ UserWrite("unionYCards", t, p) \in Write
<1>1. \A c \in CommentIds, p \in PostIds : SetComment(c, p) \in Write
  BY NoneAssumption
     DEF SetComment, Write, Ops, Tags, ResumedTags, LeakedTags, FormTags
<1>2. \A p \in PostIds, doc \in Docs : SetPost(p, doc) \in Write
  BY NoneAssumption
     DEF SetPost, Write, Ops, Tags, ResumedTags, LeakedTags, FormTags
<1>3. \A t \in Tags, old \in Copies, new \in Copies \cup Docs :
            UpdatePost(t, old, new) \in Write
  <2> SUFFICES ASSUME NEW t \in Tags, NEW old \in Copies,
                      NEW new \in Copies \cup Docs
               PROVE  UpdatePost(t, old, new) \in Write
    OBVIOUS
  <2>1. DocOf(new) \in Docs
    BY DEF DocOf, Docs, Copies
  <2>2. old.id \in PostIds
    BY DEF Copies
  <2> QED
    BY <2>1, <2>2, NoneAssumption DEF UpdatePost, Write, Ops
<1>4. \A p \in PostIds : DeletePost(p) \in Write
  BY NoneAssumption
     DEF DeletePost, Write, Ops, Tags, ResumedTags, LeakedTags, FormTags
<1>5. \A t \in Tags, p \in PostIds :
            /\ UserWrite("unionPosts", t, p) \in Write
            /\ UserWrite("removePosts", t, p) \in Write
            /\ UserWrite("unionYCards", t, p) \in Write
  BY NoneAssumption DEF UserWrite, Write, Ops
<1> QED
  BY <1>1, <1>2, <1>3, <1>4, <1>5

\* What a device sees of a post is a document or nothing.
LEMMA ViewType ==
    ASSUME TypeOK, NEW d \in Devices, NEW p \in PostIds
    PROVE  View(d, p) \in Docs \cup {None}
<1> DEFINE last == LastOf(PostWrites(d, p, {"setPost", "updatePost"}))
<1>1. posts[p] \in Docs \cup {None}
  BY DEF TypeOK
<1>2. queue[d] \in Seq(Write)
  BY DEF TypeOK
<1>3. \A i \in last : i \in DOMAIN queue[d]
  BY DEF LastOf, PostWrites
<1>4. \A i \in DOMAIN queue[d] : queue[d][i] \in Write
  BY <1>2
<1>5. \A i \in DOMAIN queue[d] : queue[d][i].doc \in Docs \cup {None}
  BY <1>4 DEF Write
<1>6. CASE last = {}
  BY <1>1, <1>6 DEF View
<1>7. CASE last # {}
  <2>1. (CHOOSE i \in last : TRUE) \in last
    BY <1>7
  <2> QED
    BY <1>3, <1>5, <1>7, <2>1 DEF View
<1> QED
  BY <1>6, <1>7

\* Sending keeps the queues typed, receiving the answers.
LEMMA SendType ==
    ASSUME TypeOK, NEW d \in Devices, NEW w \in Write, Send(d, w)
    PROVE  queue' \in [Devices -> Seq(Write)]
<1>1. Append(queue[d], w) \in Seq(Write)
  BY DEF TypeOK
<1> QED
  BY <1>1 DEF TypeOK, Send

LEMMA HandledType ==
    ASSUME TypeOK, NEW d \in Devices, acks[d] # <<>>, Handled(d)
    PROVE  acks' \in [Devices -> Seq(Ack)]
<1>1. Tail(acks[d]) \in Seq(Ack)
  BY HeadTailProperties DEF TypeOK
<1> QED
  BY <1>1 DEF TypeOK, Handled

LEMMA GetPostType ==
    ASSUME TypeOK, NEW d \in Devices, NEW p \in PostIds, GetPost(d, p)
    PROVE  reads' \in [Devices -> [Slots -> Read \cup {None}]]
<1>1. PICK s \in Slots :
        reads' = [reads EXCEPT ![d][s] =
                     [id |-> p, served |-> FALSE, doc |-> None]]
  BY DEF GetPost
<1>2. [id |-> p, served |-> FALSE, doc |-> None] \in Read
  BY DEF Read
<1> QED
  BY <1>1, <1>2 DEF TypeOK

LEMMA CompleteType ==
    ASSUME TypeOK, NEW d \in Devices, queue[d] # <<>>,
           NEW ok \in BOOLEAN, Complete(d, ok)
    PROVE  /\ queue' \in [Devices -> Seq(Write)]
           /\ acks'  \in [Devices -> Seq(Ack)]
<1>1. /\ Head(queue[d]) \in Write
      /\ Tail(queue[d]) \in Seq(Write)
  BY HeadTailProperties DEF TypeOK
<1>2. queue' \in [Devices -> Seq(Write)]
  BY <1>1 DEF TypeOK, Complete
<1>3. Head(queue[d]).tag \in Tags \cup {None}
  BY <1>1 DEF Write
<1>4. [tag |-> Head(queue[d]).tag, ok |-> ok] \in Ack
  BY <1>3 DEF Ack
<1>5. Append(acks[d], [tag |-> Head(queue[d]).tag, ok |-> ok]) \in Seq(Ack)
  BY <1>4 DEF TypeOK
<1>6. acks' \in [Devices -> Seq(Ack)]
  BY <1>5 DEF TypeOK, Complete
<1> QED
  BY <1>2, <1>6

-----------------------------------------------------------------------------
(* Types *)

LEMMA InitTypes == Init => TypeOK
<1> SUFFICES ASSUME Init PROVE TypeOK
  OBVIOUS
<1>1. posts \in [PostIds -> Docs \cup {None}]
  BY ForumAssumption DEF Init, Docs
<1>2. \A d \in Devices : queue[d] = <<>> /\ acks[d] = <<>>
  BY DEF Init
<1>3. queue \in [Devices -> Seq(Write)] /\ acks \in [Devices -> Seq(Ack)]
  BY <1>2, EmptySeq DEF Init
<1> QED
  BY <1>1, <1>3 DEF Init, TypeOK

LEMMA DieTypes == ASSUME TypeOK, NEW d \in Devices, Die(d) PROVE TypeOK'
<1>1. Orphaned(d) \in Seq(Write)
  <2>1. queue[d] \in Seq(Write)
    BY DEF TypeOK
  <2>2. \A i \in 1..Len(queue[d]) :
           [queue[d][i] EXCEPT !.tag = None] \in Write
    BY <2>1, ElementOfSeq DEF Write
  <2>3. DOMAIN queue[d] = 1..Len(queue[d]) /\ Len(queue[d]) \in Nat
    BY <2>1, LenProperties
  <2> QED
    BY <2>2, <2>3, IsASeq DEF Orphaned
<1>2. queue' \in [Devices -> Seq(Write)]
  BY <1>1 DEF Die, TypeOK
<1>3. acks' \in [Devices -> Seq(Ack)]
  BY EmptySeq DEF Die, TypeOK
<1> QED
  BY <1>2, <1>3 DEF Die, TypeOK, ghosts, history

\* The screens' changes that several actions share.
LEMMA ScreenTypes ==
    ASSUME TypeOK, NEW d \in Devices
    PROVE  /\ CloseDetail(d) =>
                /\ scr' \in [Devices -> {"list", "detail", "newForm", "editForm"}]
                /\ mPost' \in [Devices -> Copies \cup {None}]
                /\ mNew' \in [Devices -> Copies \cup {None}]
                /\ mine' \in [Devices -> BOOLEAN]
                /\ ready' \in [Devices -> BOOLEAN]
                /\ \A e \in Devices :
                      scr'[e] \in {"detail", "editForm"} => mPost'[e] # None
           /\ scr[d] \in {"newForm", "editForm"} /\ CloseForm(d) =>
                /\ scr' \in [Devices -> {"list", "detail", "newForm", "editForm"}]
                /\ formNew' \in [Devices -> PostIds \cup {None}]
                /\ reads' \in [Devices -> [Slots -> Read \cup {None}]]
                /\ \A e \in Devices :
                      scr'[e] \in {"detail", "editForm"} => mPost[e] # None
<1>1. ASSUME CloseDetail(d)
      PROVE  /\ scr' \in [Devices -> {"list", "detail", "newForm", "editForm"}]
             /\ mPost' \in [Devices -> Copies \cup {None}]
             /\ mNew' \in [Devices -> Copies \cup {None}]
             /\ mine' \in [Devices -> BOOLEAN]
             /\ ready' \in [Devices -> BOOLEAN]
             /\ \A e \in Devices :
                   scr'[e] \in {"detail", "editForm"} => mPost'[e] # None
  BY <1>1 DEF TypeOK, CloseDetail
<1>2. ASSUME scr[d] \in {"newForm", "editForm"}, CloseForm(d)
      PROVE  /\ scr' \in [Devices -> {"list", "detail", "newForm", "editForm"}]
             /\ formNew' \in [Devices -> PostIds \cup {None}]
             /\ reads' \in [Devices -> [Slots -> Read \cup {None}]]
             /\ \A e \in Devices :
                   scr'[e] \in {"detail", "editForm"} => mPost[e] # None
  <2>1. CASE scr[d] = "editForm"
    <3>1. mPost[d].id \in PostIds
      BY <2>1 DEF TypeOK, Copies
    <3>2. GetPost(d, mPost[d].id)
      BY <1>2, <2>1 DEF CloseForm
    <3>3. reads' \in [Devices -> [Slots -> Read \cup {None}]]
      BY <3>1, <3>2, GetPostType
    <3> QED
      BY <1>2, <2>1, <3>3 DEF TypeOK, CloseForm
  <2>2. CASE scr[d] # "editForm"
    BY <1>2, <2>2 DEF TypeOK, CloseForm
  <2> QED
    BY <2>1, <2>2
<1> QED
  BY <1>1, <1>2

LEMMA UserTypes == ASSUME TypeOK, NEW d \in Devices, User(d) PROVE TypeOK'
<1> USE DEF history, store, detail, ghosts
<1>1. CASE RefreshList(d)
  <2>1. \A p \in PostIds : View(d, p) \in Docs \cup {None}
    BY ViewType
  <2> QED
    BY <1>1, <2>1 DEF RefreshList, TypeOK
<1>2. CASE OpenForm(d)
  BY <1>2 DEF OpenForm, Tap, TypeOK
<1>3. CASE LikeTap(d)
  BY <1>3 DEF LikeTap, Tap, TypeOK
<1>4. CASE YCardTap(d)
  <2>1. mPost[d].id \in PostIds
    BY <1>4 DEF YCardTap, TypeOK, Copies
  <2>2. UserWrite("unionYCards", "UPDATE_USER_YCARD", mPost[d].id) \in Write
    BY <2>1, RequestTypes DEF Tags, LeakedTags
  <2>3. queue' \in [Devices -> Seq(Write)]
    BY <1>4, <2>2, SendType DEF YCardTap
  <2> QED
    BY <1>4, <2>3 DEF YCardTap, Tap, TypeOK
<1>5. CASE DeleteTap(d)
  <2>1. mPost[d].id \in PostIds
    BY <1>5 DEF DeleteTap, TypeOK, Copies
  <2>2. queue' \in [Devices -> Seq(Write)]
    BY <1>5, <2>1, RequestTypes, SendType DEF DeleteTap
  <2> QED
    BY <1>5, <2>2 DEF DeleteTap, Tap, TypeOK
<1>6. CASE EditTap(d)
  BY <1>6 DEF EditTap, Tap, TypeOK
<1>7. CASE BackFromDetail(d)
  BY <1>7, ScreenTypes DEF BackFromDetail, TypeOK
<1>8. CASE BackFromForm(d)
  BY <1>8, ScreenTypes DEF BackFromForm, TypeOK
<1>9. ASSUME NEW p \in PostIds, OpenDetail(d, p) PROVE TypeOK'
  <2>1. list[d][p] \in Docs
    BY <1>9 DEF OpenDetail, TypeOK
  <2>2. CopyOf(p, list[d][p]) \in Copies
    BY <2>1 DEF CopyOf, Copies, Docs
  <2>3. CopyOf(p, list[d][p]) # None
    BY <2>2, NoneAssumption
  <2>4. reads' \in [Devices -> [Slots -> Read \cup {None}]]
    BY <1>9, GetPostType DEF OpenDetail
  <2>5. (list[d][p].author = UserOf[d]) \in BOOLEAN
    OBVIOUS
  <2>6. /\ mPost' = [mPost EXCEPT ![d] = CopyOf(p, list[d][p])]
        /\ scr' = [scr EXCEPT ![d] = "detail"]
        /\ mNew' = [mNew EXCEPT ![d] = None]
        /\ ready' = [ready EXCEPT ![d] = FALSE]
        /\ taps' = taps + 1
        /\ UNCHANGED <<store, list, formNew, queue, acks, history>>
    BY <1>9 DEF OpenDetail, Tap
  <2>7. mine' \in [Devices -> BOOLEAN]
    BY <1>9, <2>5 DEF OpenDetail, TypeOK
  <2>8. \A e \in Devices :
           scr'[e] \in {"detail", "editForm"} => mPost'[e] # None
    BY <2>3, <2>6 DEF TypeOK
  <2>9. mPost' \in [Devices -> Copies \cup {None}]
    BY <2>2, <2>6 DEF TypeOK
  <2> QED
    BY <2>4, <2>6, <2>7, <2>8, <2>9 DEF TypeOK
<1>10. ASSUME NEW c \in CommentIds, CommentTap(d, c) PROVE TypeOK'
  <2> DEFINE appended == [mPost[d] EXCEPT !.comments = @ \cup {c}]
  <2>1. mPost[d] \in Copies
    BY <1>10 DEF CommentTap, TypeOK
  <2>2. appended \in Copies /\ mPost[d].id \in PostIds
    BY <2>1 DEF Copies
  <2>3. appended # None
    BY <2>2, NoneAssumption
  <2>4. queue' \in [Devices -> Seq(Write)]
    BY <1>10, <2>2, RequestTypes, SendType DEF CommentTap
  <2>5. /\ mPost' = [mPost EXCEPT ![d] = appended]
        /\ mNew' = [mNew EXCEPT ![d] = appended]
        /\ UNCHANGED <<store, scr, list, mine, ready, formNew, acks, reads,
                       failed, deleted>>
        /\ usedIds' = usedIds \cup {c}
        /\ taps' = taps + 1
    BY <1>10 DEF CommentTap, Tap
  <2> HIDE DEF appended
  <2>6. /\ mPost' \in [Devices -> Copies \cup {None}]
        /\ mNew' \in [Devices -> Copies \cup {None}]
        /\ \A e \in Devices :
              scr'[e] \in {"detail", "editForm"} => mPost'[e] # None
    BY <2>2, <2>3, <2>5 DEF TypeOK
  <2> QED
    BY <2>4, <2>5, <2>6 DEF TypeOK
<1>11. ASSUME NEW p \in PostIds, NEW a \in Users, CreateTap(d, p, a)
       PROVE  TypeOK'
  <2>1. [author |-> a, comments |-> {}] \in Docs
    BY DEF Docs
  <2>2. queue' \in [Devices -> Seq(Write)]
    BY <1>11, <2>1, RequestTypes, SendType DEF CreateTap
  <2>3. /\ UNCHANGED <<store, scr, list, detail, acks, reads, failed, deleted>>
        /\ formNew' = [formNew EXCEPT ![d] = p]
        /\ usedIds' = usedIds \cup {p}
        /\ taps' = taps + 1
    BY <1>11 DEF CreateTap, Tap
  <2> QED
    BY <2>2, <2>3 DEF TypeOK
<1>12. ASSUME NEW p \in PostIds, NEW a \in Users, EditPostTap(d, p, a)
       PROVE  TypeOK'
  <2>1. [author |-> a, comments |-> {}] \in Docs
    BY DEF Docs
  <2>2. mPost[d] \in Copies
    BY <1>12 DEF EditPostTap, TypeOK
  <2>3. "UPDATE_POST_IN_POSTS" \in Tags
    BY DEF Tags, FormTags
  <2>4. queue' \in [Devices -> Seq(Write)]
    BY <1>12, <2>1, <2>2, <2>3, RequestTypes, SendType DEF EditPostTap
  <2>5. /\ UNCHANGED <<store, scr, list, detail, acks, reads, failed, deleted>>
        /\ formNew' = [formNew EXCEPT ![d] = p]
        /\ usedIds' = usedIds \cup {p}
        /\ taps' = taps + 1
    BY <1>12 DEF EditPostTap, Tap
  <2> QED
    BY <2>4, <2>5 DEF TypeOK
<1> QED
  BY <1>1, <1>2, <1>3, <1>4, <1>5, <1>6, <1>7, <1>8, <1>9, <1>10, <1>11,
     <1>12 DEF User

LEMMA AnswerTypes == ASSUME TypeOK, NEW d \in Devices, Answer(d) PROVE TypeOK'
<1> USE DEF history, store, detail, ghosts
<1>1. CASE Populate(d)
  BY <1>1 DEF Populate, TypeOK
<1>2. CASE Ignore(d)
  BY <1>2, HandledType DEF Ignore, TypeOK
<1>3. ASSUME NEW s \in Slots, OnUpdateFields(d, s) PROVE TypeOK'
  <2> DEFINE copy == CopyOf(reads[d][s].id, reads[d][s].doc)
  <2>1. reads[d][s].id \in PostIds /\ reads[d][s].doc \in Docs
    BY <1>3 DEF OnUpdateFields, TypeOK, Read
  <2>2. copy \in Copies
    BY <2>1 DEF CopyOf, Copies, Docs
  <2>3. copy # None
    BY <2>2, NoneAssumption
  <2>4. mPost' = IF scr[d] = "detail" THEN [mPost EXCEPT ![d] = copy]
                                      ELSE mPost
    BY <1>3 DEF OnUpdateFields
  <2> HIDE DEF copy
  <2> QED
    BY <1>3, <2>2, <2>3, <2>4 DEF OnUpdateFields, TypeOK
<1>4. CASE OnUpdateComment(d)
  <2>1. mPost[d] \in Copies /\ mNew[d] \in Copies
    BY <1>4 DEF OnUpdateComment, Receive, Registered, TypeOK, FormTags,
                LeakedTags, ResumedTags
  <2>2. "UPDATE_VALUE" \in Tags
    BY DEF Tags, ResumedTags
  <2>3. queue' \in [Devices -> Seq(Write)]
    BY <1>4, <2>1, <2>2, RequestTypes, SendType DEF OnUpdateComment
  <2>4. acks' \in [Devices -> Seq(Ack)]
    BY <1>4, HandledType DEF OnUpdateComment, Receive
  <2> QED
    BY <1>4, <2>3, <2>4 DEF OnUpdateComment, TypeOK
<1>5. CASE OnUpdateValue(d)
  <2>1. mPost[d].id \in PostIds
    BY <1>5 DEF OnUpdateValue, Receive, Registered, TypeOK, FormTags,
                LeakedTags, ResumedTags, Copies
  <2>2. reads' \in [Devices -> [Slots -> Read \cup {None}]]
    BY <1>5, <2>1, GetPostType DEF OnUpdateValue
  <2>3. acks' \in [Devices -> Seq(Ack)]
    BY <1>5, HandledType DEF OnUpdateValue, Receive
  <2> QED
    BY <1>5, <2>2, <2>3 DEF OnUpdateValue, TypeOK
<1>6. CASE OnUpdateUserYCard(d)
  <2>1. mPost[d] \in Copies
    BY <1>6 DEF OnUpdateUserYCard, Receive, Registered, TypeOK, FormTags,
                LeakedTags, ResumedTags
  <2>2. "UPDATE_POST_AFTER_YCARD" \in Tags
    BY DEF Tags, LeakedTags
  <2>3. queue' \in [Devices -> Seq(Write)]
    BY <1>6, <2>1, <2>2, RequestTypes, SendType DEF OnUpdateUserYCard
  <2>4. acks' \in [Devices -> Seq(Ack)]
    BY <1>6, HandledType DEF OnUpdateUserYCard, Receive
  <2> QED
    BY <1>6, <2>3, <2>4 DEF OnUpdateUserYCard, TypeOK
<1>7. CASE OnUpdateAfterYCard(d)
  <2>1. mPost[d].id \in PostIds
    BY <1>7 DEF OnUpdateAfterYCard, Receive, Registered, TypeOK, FormTags,
                LeakedTags, ResumedTags, Copies
  <2>2. reads' \in [Devices -> [Slots -> Read \cup {None}]]
    BY <1>7, <2>1, GetPostType DEF OnUpdateAfterYCard
  <2>3. acks' \in [Devices -> Seq(Ack)]
    BY <1>7, HandledType DEF OnUpdateAfterYCard, Receive
  <2> QED
    BY <1>7, <2>2, <2>3 DEF OnUpdateAfterYCard, TypeOK
<1>8. CASE OnDeleteInPosts(d)
  <2>1. mPost[d].id \in PostIds
    BY <1>8 DEF OnDeleteInPosts, Receive, Registered, TypeOK, FormTags,
                LeakedTags, ResumedTags, Copies
  <2>2. "DELETE_POST_IN_USERS" \in Tags
    BY DEF Tags, ResumedTags
  <2>3. queue' \in [Devices -> Seq(Write)]
    BY <1>8, <2>1, <2>2, RequestTypes, SendType DEF OnDeleteInPosts
  <2>4. acks' \in [Devices -> Seq(Ack)]
    BY <1>8, HandledType DEF OnDeleteInPosts, Receive
  <2> QED
    BY <1>8, <2>3, <2>4 DEF OnDeleteInPosts, TypeOK
<1>9. CASE OnDeleteInUsers(d)
  <2>1. acks' \in [Devices -> Seq(Ack)]
    BY <1>9, HandledType DEF OnDeleteInUsers, Receive
  <2> QED
    BY <1>9, <2>1, ScreenTypes DEF OnDeleteInUsers, TypeOK
<1>10. CASE OnCreateInPosts(d)
  <2>1. formNew[d] \in PostIds
    BY <1>10 DEF OnCreateInPosts, TypeOK
  <2>2. "UPDATE_POST_IN_USERS" \in Tags
    BY DEF Tags, FormTags
  <2>3. queue' \in [Devices -> Seq(Write)]
    BY <1>10, <2>1, <2>2, RequestTypes, SendType DEF OnCreateInPosts
  <2>4. acks' \in [Devices -> Seq(Ack)]
    BY <1>10, HandledType DEF OnCreateInPosts, Receive
  <2> QED
    BY <1>10, <2>3, <2>4 DEF OnCreateInPosts, TypeOK
<1>11. CASE OnFormDone(d)
  <2>1. acks' \in [Devices -> Seq(Ack)]
    BY <1>11, HandledType DEF OnFormDone, Receive
  <2>2. scr[d] \in {"newForm", "editForm"}
    BY <1>11 DEF OnFormDone, Receive, Registered, FormTags, LeakedTags,
                 ResumedTags
  <2> QED
    BY <1>11, <2>1, <2>2, ScreenTypes DEF OnFormDone, TypeOK
<1> QED
  BY <1>1, <1>2, <1>3, <1>4, <1>5, <1>6, <1>7, <1>8, <1>9, <1>10, <1>11
     DEF Answer

LEMMA ServerTypes == ASSUME TypeOK, NEW d \in Devices, Server(d) PROVE TypeOK'
<1> USE DEF history, store, detail, ghosts
<1> DEFINE w == Head(queue[d])
<1>1. ASSUME queue[d] # <<>>
      PROVE  /\ w.post \in PostIds
             /\ w.comment \in CommentIds \cup {None}
             /\ w.doc \in Docs \cup {None}
             /\ w.op = "setComment" => w.comment \in CommentIds
             /\ w.op \in {"setPost", "updatePost"} => w.doc \in Docs
  <2>1. w \in Write
    BY <1>1, HeadTailProperties DEF TypeOK
  <2> QED
    BY <2>1 DEF Write
<1>2. CASE CommitComment(d)
  <2>1. /\ queue' \in [Devices -> Seq(Write)]
        /\ acks' \in [Devices -> Seq(Ack)]
    BY <1>2, CompleteType DEF CommitComment, Oldest
  <2>2. w.post \in PostIds /\ w.comment \in CommentIds
    BY <1>1, <1>2 DEF CommitComment, Oldest
  <2> QED
    BY <1>2, <2>1, <2>2 DEF CommitComment, TypeOK
<1>3. CASE CommitSave(d)
  <2>1. /\ queue' \in [Devices -> Seq(Write)]
        /\ acks' \in [Devices -> Seq(Ack)]
    BY <1>3, CompleteType DEF CommitSave, Oldest
  <2>2. w.doc \in Docs
    BY <1>1, <1>3 DEF CommitSave, Oldest
  <2> QED
    BY <1>3, <2>1, <2>2 DEF CommitSave, TypeOK
<1>4. CASE CommitDelete(d)
  <2>1. /\ queue' \in [Devices -> Seq(Write)]
        /\ acks' \in [Devices -> Seq(Ack)]
    BY <1>4, CompleteType DEF CommitDelete, Oldest
  <2>2. w.post \in PostIds
    BY <1>1, <1>4 DEF CommitDelete, Oldest
  <2> QED
    BY <1>4, <2>1, <2>2 DEF CommitDelete, TypeOK
<1>5. CASE CommitUser(d)
  <2>1. /\ queue' \in [Devices -> Seq(Write)]
        /\ acks' \in [Devices -> Seq(Ack)]
    BY <1>5, CompleteType DEF CommitUser, Oldest
  <2>2. w.post \in PostIds
    BY <1>1, <1>5 DEF CommitUser, Oldest
  <2>3. PICK ps \in SUBSET PostIds :
           userPosts' = [userPosts EXCEPT ![UserOf[d]] = ps]
    <3>1. userPosts[UserOf[d]] \in SUBSET PostIds
      BY ForumAssumption DEF TypeOK
    <3> DEFINE ps == CASE w.op = "unionPosts" ->
                                userPosts[UserOf[d]] \cup {w.post}
                       [] w.op = "removePosts" ->
                                userPosts[UserOf[d]] \ {w.post}
                       [] OTHER -> userPosts[UserOf[d]]
    <3>2. ps \in SUBSET PostIds
      BY <2>2, <3>1
    <3>3. userPosts' = [userPosts EXCEPT ![UserOf[d]] = ps]
      BY <1>5 DEF CommitUser
    <3> QED
      BY <3>2, <3>3
  <2> QED
    BY <1>5, <2>1, <2>3 DEF CommitUser, TypeOK
<1>6. CASE Reject(d)
  <2>1. /\ queue' \in [Devices -> Seq(Write)]
        /\ acks' \in [Devices -> Seq(Ack)]
    BY <1>6, CompleteType DEF Reject
  <2>2. failed' \in SUBSET (PostIds \cup CommentIds)
    BY <1>1, <1>6 DEF Reject, TypeOK
  <2> QED
    BY <1>6, <2>1, <2>2 DEF Reject, TypeOK
<1>7. ASSUME NEW s \in Slots, ServeRead(d, s) PROVE TypeOK'
  <2>1. reads[d][s] \in Read /\ reads[d][s].id \in PostIds
    BY <1>7 DEF ServeRead, TypeOK, Read
  <2>2. View(d, reads[d][s].id) \in Docs \cup {None}
    BY <2>1, ViewType
  <2>3. reads' = [reads EXCEPT ![d][s].served = TRUE,
                               ![d][s].doc = View(d, reads[d][s].id)]
    BY <1>7 DEF ServeRead
  <2>4. reads' \in [Devices -> [Slots -> Read \cup {None}]]
    <3> DEFINE r == [reads[d][s] EXCEPT !.served = TRUE,
                                        !.doc = View(d, reads[d][s].id)]
    <3>1. r \in Read
      BY <2>1, <2>2 DEF Read
    <3>2. reads' = [reads EXCEPT ![d] = [reads[d] EXCEPT ![s] = r]]
      BY <2>3 DEF TypeOK
    <3> HIDE DEF r
    <3> QED
      BY <3>1, <3>2 DEF TypeOK
  <2> QED
    BY <1>7, <2>4 DEF ServeRead, TypeOK
<1>8. ASSUME NEW s \in Slots, LoseRead(d, s) PROVE TypeOK'
  BY <1>8 DEF LoseRead, TypeOK
<1> QED
  BY <1>2, <1>3, <1>4, <1>5, <1>6, <1>7, <1>8 DEF Server

LEMMA NextTypes == TypeOK /\ [Next]_vars => TypeOK'
<1> SUFFICES ASSUME TypeOK, [Next]_vars PROVE TypeOK'
  OBVIOUS
<1>1. CASE UNCHANGED vars
  BY <1>1 DEF vars, TypeOK
<1>2. CASE Next
  BY <1>2, UserTypes, AnswerTypes, ServerTypes, DieTypes DEF Next
<1> QED
  BY <1>1, <1>2

\* Every field of every document and every activity keeps its type, and a
\* post's screen always has a post: the fields DBUtil and the receivers of
\* ForumDetailActivity and ForumFormActivity assign.
THEOREM TypeCorrect == Spec => []TypeOK
BY InitTypes, NextTypes, PTL DEF Spec

-----------------------------------------------------------------------------
(* No post lists a comment that was never handed to the server.            *)
(*                                                                         *)
(* The argument: a comment that a device's copies list is known to the     *)
(* server, or its document is in the device's write queue; and a queued    *)
(* save of a post stands behind the documents of the comments it lists.    *)
(* A queue is first in first out, so the save finds them committed or      *)
(* rejected.                                                               *)

Known(c) == comments[c] # None \/ c \in failed

\* The document of comment c is among the first n - 1 writes of d's queue.
SentBefore(d, c, n) ==
    \E j \in 1..Len(queue[d]) :
        j < n /\ queue[d][j].op = "setComment" /\ queue[d][j].comment = c

Sent(d, c) == Known(c) \/ SentBefore(d, c, Len(queue[d]) + 1)

Covered(d, cs) == \A c \in cs : Sent(d, c)

SavesCovered(d) ==
    \A i \in 1..Len(queue[d]) :
        queue[d][i].op \in {"setPost", "updatePost"} =>
            \A c \in queue[d][i].doc.comments :
                Known(c) \/ SentBefore(d, c, i)

CopiesCovered(d) ==
    /\ \A p \in PostIds :
          list[d][p] # None => Covered(d, list[d][p].comments)
    /\ mPost[d] # None => Covered(d, mPost[d].comments)
    /\ mNew[d] # None => Covered(d, mNew[d].comments)
    /\ \A s \in Slots :
          reads[d][s] # None /\ reads[d][s].doc # None =>
              Covered(d, reads[d][s].doc.comments)

CommentsInv ==
    /\ TypeOK
    /\ ListedCommentsExist
    /\ \A d \in Devices : SavesCovered(d) /\ CopiesCovered(d)

\* The documents' part of a step: what a step of device d may do to the queue
\* of d, to the comments and to the rejected ids.
NewWrite(d) ==
    \E w \in Write :
        /\ queue' = [queue EXCEPT ![d] = Append(@, w)]
        /\ UNCHANGED <<comments, failed>>
        /\ w.op \in {"setPost", "updatePost"} => Covered(d, w.doc.comments)

OldestAnswered(d) ==
    /\ queue[d] # <<>>
    /\ queue' = [queue EXCEPT ![d] = Tail(@)]
    /\ \A c \in CommentIds : Known(c) => Known(c)'
    /\ \A c \in CommentIds :
          /\ Head(queue[d]).op = "setComment"
          /\ Head(queue[d]).comment = c
          => Known(c)'

TagsForgotten(d) ==
    /\ queue' = [queue EXCEPT ![d] = Orphaned(d)]
    /\ UNCHANGED <<comments, failed>>

QueueStep(d) ==
    \/ UNCHANGED <<queue, comments, failed>>
    \/ NewWrite(d)
    \/ OldestAnswered(d)
    \/ TagsForgotten(d)

LEMMA OrphanedProperties ==
    ASSUME TypeOK, NEW d \in Devices
    PROVE  /\ Orphaned(d) \in Seq(Write)
           /\ Len(Orphaned(d)) = Len(queue[d])
           /\ \A i \in 1..Len(queue[d]) :
                 /\ Orphaned(d)[i].op = queue[d][i].op
                 /\ Orphaned(d)[i].comment = queue[d][i].comment
                 /\ Orphaned(d)[i].doc = queue[d][i].doc
<1>1. queue[d] \in Seq(Write)
  BY DEF TypeOK
<1>2. DOMAIN queue[d] = 1..Len(queue[d]) /\ Len(queue[d]) \in Nat
  BY <1>1, LenProperties
<1>3. \A i \in 1..Len(queue[d]) :
         /\ [queue[d][i] EXCEPT !.tag = None] \in Write
         /\ [queue[d][i] EXCEPT !.tag = None].op = queue[d][i].op
         /\ [queue[d][i] EXCEPT !.tag = None].comment = queue[d][i].comment
         /\ [queue[d][i] EXCEPT !.tag = None].doc = queue[d][i].doc
  BY <1>1, ElementOfSeq DEF Write
<1>4. Orphaned(d) \in Seq(Write)
  BY <1>2, <1>3, IsASeq DEF Orphaned
<1>5. Len(Orphaned(d)) = Len(queue[d])
  BY <1>2, <1>4, LenProperties DEF Orphaned
<1>6. \A i \in 1..Len(queue[d]) :
         Orphaned(d)[i] = [queue[d][i] EXCEPT !.tag = None]
  BY <1>2 DEF Orphaned
<1> QED
  BY <1>3, <1>4, <1>5, <1>6

\* Other devices' queues do not move, and what is known stays known.
LEMMA QueueStepFrame ==
    ASSUME TypeOK, NEW d \in Devices, QueueStep(d)
    PROVE  /\ \A c \in CommentIds : Known(c) => Known(c)'
           /\ \A e \in Devices : e # d => queue'[e] = queue[e]
<1>1. \A c \in CommentIds : Known(c) => Known(c)'
  BY DEF QueueStep, NewWrite, OldestAnswered, TagsForgotten, Known
<1>2. \A e \in Devices : e # d => queue'[e] = queue[e]
  BY DEF QueueStep, NewWrite, OldestAnswered, TagsForgotten, TypeOK
<1> QED
  BY <1>1, <1>2

\* A comment that is known or on its way stays so.
LEMMA SentIsStable ==
    ASSUME TypeOK, NEW d \in Devices, QueueStep(d),
           NEW e \in Devices, NEW c \in CommentIds, Sent(e, c)
    PROVE  Sent(e, c)'
<1>1. CASE Known(c)
  BY <1>1, QueueStepFrame DEF Sent
<1>2. CASE ~Known(c) /\ e # d
  BY <1>2, QueueStepFrame DEF Sent, SentBefore
<1>3. CASE ~Known(c) /\ e = d
  <2>1. PICK j \in 1..Len(queue[d]) :
           queue[d][j].op = "setComment" /\ queue[d][j].comment = c
    BY <1>3 DEF Sent, SentBefore
  <2>2. queue[d] \in Seq(Write) /\ Len(queue[d]) \in Nat
    BY LenProperties DEF TypeOK
  <2>3. CASE UNCHANGED <<queue, comments, failed>>
    BY <2>3 DEF Sent, SentBefore, Known
  <2>4. CASE NewWrite(d)
    <3>1. PICK w \in Write : queue' = [queue EXCEPT ![d] = Append(@, w)]
      BY <2>4 DEF NewWrite
    <3>2. queue'[d] = Append(queue[d], w)
      BY <3>1 DEF TypeOK
    <3>3. /\ Len(queue'[d]) = Len(queue[d]) + 1
          /\ queue'[d][j] = queue[d][j]
      BY <2>2, <3>2, AppendProperties
    <3>4. j \in 1..Len(queue'[d]) /\ j < Len(queue'[d]) + 1
      BY <2>2, <3>3
    <3>5. SentBefore(d, c, Len(queue[d]) + 1)'
      BY <2>1, <3>3, <3>4 DEF SentBefore
    <3> QED
      BY <1>3, <3>5 DEF Sent
  <2>5. CASE OldestAnswered(d)
    <3>1. queue'[d] = Tail(queue[d])
      BY <2>5 DEF OldestAnswered, TypeOK
    <3>2. CASE j = 1
      <4>1. Head(queue[d]) = queue[d][1]
        BY <2>2
      <4> QED
        BY <1>3, <2>1, <2>5, <3>2, <4>1 DEF OldestAnswered, Sent
    <3>3. CASE j # 1
      <4>1. queue[d] # <<>>
        BY <2>5 DEF OldestAnswered
      <4>2. /\ Len(Tail(queue[d])) = Len(queue[d]) - 1
            /\ \A i \in 1..Len(Tail(queue[d])) :
                  Tail(queue[d])[i] = queue[d][i + 1]
        BY <2>2, <4>1, HeadTailProperties
      <4>3. /\ j - 1 \in 1..Len(queue'[d])
            /\ j - 1 < Len(queue'[d]) + 1
        BY <2>2, <3>1, <3>3, <4>2
      <4>4. queue'[d][j - 1] = queue[d][j]
        BY <3>1, <4>2, <4>3
      <4>5. SentBefore(d, c, Len(queue[d]) + 1)'
        BY <2>1, <4>3, <4>4 DEF SentBefore
      <4> QED
        BY <1>3, <4>5 DEF Sent
    <3> QED
      BY <3>2, <3>3
  <2>6. CASE TagsForgotten(d)
    <3>1. queue'[d] = Orphaned(d)
      BY <2>6 DEF TagsForgotten, TypeOK
    <3>a. /\ Len(queue'[d]) = Len(queue[d])
          /\ j \in 1..Len(queue[d])
          /\ queue'[d][j].op = queue[d][j].op
          /\ queue'[d][j].comment = queue[d][j].comment
      BY <2>1, <3>1, OrphanedProperties
    <3>2. /\ j \in 1..Len(queue'[d]) /\ j < Len(queue'[d]) + 1
          /\ queue'[d][j].op = "setComment" /\ queue'[d][j].comment = c
      BY <2>1, <2>2, <3>a
    <3>3. SentBefore(d, c, Len(queue[d]) + 1)'
      BY <3>2 DEF SentBefore
    <3> QED
      BY <1>3, <3>3 DEF Sent
  <2> QED
    BY <2>3, <2>4, <2>5, <2>6 DEF QueueStep
<1> QED
  BY <1>1, <1>2, <1>3

\* A queued save stays behind the comments it lists.
LEMMA SavesStayCovered ==
    ASSUME TypeOK, NEW d \in Devices, QueueStep(d),
           NEW e \in Devices, SavesCovered(e)
    PROVE  SavesCovered(e)'
<1>1. CASE e # d
  <2>1. queue'[e] = queue[e]
    BY <1>1, QueueStepFrame
  <2>2. ASSUME NEW i \in 1..Len(queue[e]),
               queue[e][i].op \in {"setPost", "updatePost"},
               NEW c \in queue[e][i].doc.comments
        PROVE  Known(c)' \/ SentBefore(e, c, i)'
    <3>1. Known(c) \/ SentBefore(e, c, i)
      BY <2>2 DEF SavesCovered
    <3>2. c \in CommentIds
      <4>1. queue[e][i] \in Write
        BY ElementOfSeq DEF TypeOK
      <4> QED
        BY <2>2, <4>1 DEF Write, Docs
    <3> QED
      BY <2>1, <3>1, <3>2, QueueStepFrame DEF SentBefore
  <2> QED
    BY <2>1, <2>2 DEF SavesCovered
<1>2. CASE e = d
  <2>1. queue[d] \in Seq(Write) /\ Len(queue[d]) \in Nat
    BY LenProperties DEF TypeOK
  <2>2. ASSUME NEW i \in 1..Len(queue[d]),
               queue[d][i].op \in {"setPost", "updatePost"},
               NEW c \in queue[d][i].doc.comments
        PROVE  /\ Known(c) \/ SentBefore(d, c, i)
               /\ c \in CommentIds
    <3>1. Known(c) \/ SentBefore(d, c, i)
      BY <1>2, <2>2 DEF SavesCovered
    <3>2. queue[d][i] \in Write
      BY <2>1, ElementOfSeq
    <3> QED
      BY <2>2, <3>1, <3>2 DEF Write, Docs
  <2>3. CASE UNCHANGED <<queue, comments, failed>>
    BY <1>2, <2>3 DEF SavesCovered, SentBefore, Known
  <2>4. CASE NewWrite(d)
    <3>1. PICK w \in Write :
             /\ queue' = [queue EXCEPT ![d] = Append(@, w)]
             /\ UNCHANGED <<comments, failed>>
             /\ w.op \in {"setPost", "updatePost"} =>
                    Covered(d, w.doc.comments)
      BY <2>4 DEF NewWrite
    <3>2. queue'[d] = Append(queue[d], w)
      BY <3>1 DEF TypeOK
    <3>3. /\ Len(queue'[d]) = Len(queue[d]) + 1
          /\ \A i \in 1..Len(queue[d]) : queue'[d][i] = queue[d][i]
          /\ queue'[d][Len(queue[d]) + 1] = w
      BY <2>1, <3>2, AppendProperties
    <3>4. ASSUME NEW n \in 1..(Len(queue[d]) + 1), NEW c, SentBefore(d, c, n)
          PROVE  SentBefore(d, c, n)'
      BY <2>1, <3>3, <3>4 DEF SentBefore
    <3>5. ASSUME NEW i \in 1..Len(queue'[d]),
                 queue'[d][i].op \in {"setPost", "updatePost"},
                 NEW c \in queue'[d][i].doc.comments
          PROVE  Known(c)' \/ SentBefore(d, c, i)'
      <4>1. CASE i \in 1..Len(queue[d])
        <5>1. Known(c) \/ SentBefore(d, c, i)
          BY <2>2, <3>3, <3>5, <4>1
        <5>2. Known(c) => Known(c)'
          BY <3>1 DEF Known
        <5>3. SentBefore(d, c, i) => SentBefore(d, c, i)'
          BY <2>1, <3>4, <4>1
        <5> QED
          BY <5>1, <5>2, <5>3
      <4>2. CASE i = Len(queue[d]) + 1
        <5>1. Known(c) \/ SentBefore(d, c, i)
          BY <3>1, <3>3, <3>5, <4>2 DEF Covered, Sent
        <5>2. Known(c) => Known(c)'
          BY <3>1 DEF Known
        <5>3. SentBefore(d, c, i) => SentBefore(d, c, i)'
          BY <2>1, <3>4, <4>2
        <5> QED
          BY <5>1, <5>2, <5>3
      <4> QED
        BY <2>1, <3>3, <4>1, <4>2
    <3> QED
      BY <1>2, <3>5 DEF SavesCovered
  <2>5. CASE OldestAnswered(d)
    <3>1. queue'[d] = Tail(queue[d]) /\ queue[d] # <<>>
      BY <2>5 DEF OldestAnswered, TypeOK
    <3>2. /\ Len(queue'[d]) = Len(queue[d]) - 1
          /\ \A i \in 1..Len(queue'[d]) : queue'[d][i] = queue[d][i + 1]
          /\ Head(queue[d]) = queue[d][1]
      BY <2>1, <3>1, HeadTailProperties
    <3>3. ASSUME NEW i \in 1..Len(queue'[d]),
                 queue'[d][i].op \in {"setPost", "updatePost"},
                 NEW c \in queue'[d][i].doc.comments
          PROVE  Known(c)' \/ SentBefore(d, c, i)'
      <4>1. i + 1 \in 1..Len(queue[d]) /\ queue'[d][i] = queue[d][i + 1]
        BY <2>1, <3>2
      <4>2. c \in CommentIds /\ (Known(c) \/ SentBefore(d, c, i + 1))
        BY <2>2, <3>3, <4>1
      <4>3. CASE Known(c)
        BY <4>2, <4>3, QueueStepFrame
      <4>4. CASE SentBefore(d, c, i + 1)
        <5>1. PICK j \in 1..Len(queue[d]) :
                 /\ j < i + 1
                 /\ queue[d][j].op = "setComment"
                 /\ queue[d][j].comment = c
          BY <4>4 DEF SentBefore
        <5>2. CASE j = 1
          BY <2>5, <3>2, <4>2, <5>1, <5>2 DEF OldestAnswered
        <5>3. CASE j # 1
          <6>1. j - 1 \in 1..Len(queue'[d]) /\ j - 1 < i
            BY <2>1, <3>2, <5>1, <5>3
          <6>2. queue'[d][j - 1] = queue[d][j]
            BY <2>1, <3>2, <6>1
          <6> QED
            BY <5>1, <6>1, <6>2 DEF SentBefore
        <5> QED
          BY <5>2, <5>3
      <4> QED
        BY <4>2, <4>3, <4>4
    <3> QED
      BY <1>2, <3>3 DEF SavesCovered
  <2>6. CASE TagsForgotten(d)
    <3>1. queue'[d] = Orphaned(d) /\ UNCHANGED <<comments, failed>>
      BY <2>6 DEF TagsForgotten, TypeOK
    <3>2. /\ Len(queue'[d]) = Len(queue[d])
          /\ \A i \in 1..Len(queue[d]) :
                /\ queue'[d][i].op = queue[d][i].op
                /\ queue'[d][i].comment = queue[d][i].comment
                /\ queue'[d][i].doc = queue[d][i].doc
      BY <3>1, OrphanedProperties
    <3>3. ASSUME NEW i \in 1..Len(queue'[d]),
                 queue'[d][i].op \in {"setPost", "updatePost"},
                 NEW c \in queue'[d][i].doc.comments
          PROVE  Known(c)' \/ SentBefore(d, c, i)'
      <4>1. Known(c) \/ SentBefore(d, c, i)
        BY <2>2, <3>2, <3>3
      <4>2. SentBefore(d, c, i) => SentBefore(d, c, i)'
        BY <3>2 DEF SentBefore
      <4> QED
        BY <3>1, <4>1, <4>2 DEF Known
    <3> QED
      BY <1>2, <3>3 DEF SavesCovered
  <2> QED
    BY <2>3, <2>4, <2>5, <2>6 DEF QueueStep
<1> QED
  BY <1>1, <1>2

\* What a device sees of a post lists covered comments only.
LEMMA ViewCovered ==
    ASSUME CommentsInv, NEW d \in Devices, NEW p \in PostIds,
           View(d, p) # None
    PROVE  Covered(d, View(d, p).comments)
<1> DEFINE last == LastOf(PostWrites(d, p, {"setPost", "updatePost"}))
<1>1. queue[d] \in Seq(Write) /\ Len(queue[d]) \in Nat
  BY LenProperties DEF CommentsInv, TypeOK
<1>2. CASE last = {}
  <2>1. View(d, p) = posts[p]
    BY <1>2 DEF View
  <2> QED
    BY <2>1 DEF CommentsInv, ListedCommentsExist, Covered, Sent, Known
<1>3. CASE last # {}
  <2>1. PICK i \in last : View(d, p) = queue[d][i].doc
    BY <1>3 DEF View
  <2>2. /\ i \in 1..Len(queue[d])
        /\ queue[d][i].op \in {"setPost", "updatePost"}
    BY <1>1, <2>1, LenProperties DEF LastOf, PostWrites
  <2>3. \A c \in queue[d][i].doc.comments : Known(c) \/ SentBefore(d, c, i)
    BY <2>2 DEF CommentsInv, SavesCovered
  <2>4. ASSUME NEW c, SentBefore(d, c, i)
        PROVE  SentBefore(d, c, Len(queue[d]) + 1)
    BY <1>1, <2>2, <2>4 DEF SentBefore
  <2> QED
    BY <2>1, <2>3, <2>4 DEF Covered, Sent
<1> QED
  BY <1>2, <1>3

\* The copies' part of a step: a copy stays, goes, or is replaced by one whose
\* comments are known or sent.
SoundCopy(e, old, new) ==
    \/ new = old
    \/ new = None
    \/ \A c \in new.comments : Sent(e, c)'

CopiesStep ==
    \A e \in Devices :
        /\ \A p \in PostIds : SoundCopy(e, list[e][p], list'[e][p])
        /\ SoundCopy(e, mPost[e], mPost'[e])
        /\ SoundCopy(e, mNew[e], mNew'[e])
        /\ \A s \in Slots :
              \/ reads'[e][s] = reads[e][s]
              \/ reads'[e][s] = None
              \/ reads'[e][s].doc = None
              \/ \A c \in reads'[e][s].doc.comments : Sent(e, c)'

LEMMA CopiesStayCovered ==
    ASSUME CommentsInv, NEW d \in Devices, QueueStep(d), CopiesStep,
           NEW e \in Devices
    PROVE  CopiesCovered(e)'
<1>0. TypeOK /\ CopiesCovered(e)
  BY DEF CommentsInv
<1>1. \A c \in CommentIds : Sent(e, c) => Sent(e, c)'
  BY <1>0, SentIsStable
<1>2. ASSUME NEW p \in PostIds, list'[e][p] # None,
             NEW c \in list'[e][p].comments
      PROVE  Sent(e, c)'
  <2>1. CASE list'[e][p] = list[e][p]
    <3>1. c \in CommentIds
      BY <1>0, <1>2, <2>1 DEF TypeOK, Docs
    <3> QED
      BY <1>0, <1>1, <1>2, <2>1, <3>1 DEF CopiesCovered, Covered
  <2> QED
    BY <1>2, <2>1 DEF CopiesStep, SoundCopy
<1>3. ASSUME mPost'[e] # None, NEW c \in mPost'[e].comments
      PROVE  Sent(e, c)'
  <2>1. CASE mPost'[e] = mPost[e]
    <3>1. c \in CommentIds
      BY <1>0, <1>3, <2>1 DEF TypeOK, Copies
    <3> QED
      BY <1>0, <1>1, <1>3, <2>1, <3>1 DEF CopiesCovered, Covered
  <2> QED
    BY <1>3, <2>1 DEF CopiesStep, SoundCopy
<1>4. ASSUME mNew'[e] # None, NEW c \in mNew'[e].comments
      PROVE  Sent(e, c)'
  <2>1. CASE mNew'[e] = mNew[e]
    <3>1. c \in CommentIds
      BY <1>0, <1>4, <2>1 DEF TypeOK, Copies
    <3> QED
      BY <1>0, <1>1, <1>4, <2>1, <3>1 DEF CopiesCovered, Covered
  <2> QED
    BY <1>4, <2>1 DEF CopiesStep, SoundCopy
<1>5. ASSUME NEW s \in Slots, reads'[e][s] # None, reads'[e][s].doc # None,
             NEW c \in reads'[e][s].doc.comments
      PROVE  Sent(e, c)'
  <2>1. CASE reads'[e][s] = reads[e][s]
    <3>1. c \in CommentIds
      BY <1>0, <1>5, <2>1 DEF TypeOK, Read, Docs
    <3> QED
      BY <1>0, <1>1, <1>5, <2>1, <3>1 DEF CopiesCovered, Covered
  <2> QED
    BY <1>5, <2>1 DEF CopiesStep
<1> QED
  BY <1>2, <1>3, <1>4, <1>5 DEF CopiesCovered, Covered

\* Steps that leave the copies alone, and steps that leave the queues alone.
LEMMA SameCopies ==
    ASSUME UNCHANGED <<list, mPost, mNew, reads>>
    PROVE  CopiesStep
BY DEF CopiesStep, SoundCopy

LEMMA SameQueues ==
    ASSUME NEW d, UNCHANGED <<queue, comments, failed>>
    PROVE  QueueStep(d)
BY DEF QueueStep

\* A request that saves no post, and a request that saves a covered copy.
LEMMA SendStep ==
    ASSUME NEW d, NEW w \in Write, Send(d, w), UNCHANGED <<comments, failed>>,
           w.op \in {"setPost", "updatePost"} => Covered(d, w.doc.comments)
    PROVE  QueueStep(d)
BY DEF QueueStep, NewWrite, Send

\* A request for a post has no document yet.
LEMMA GetPostStep ==
    ASSUME TypeOK, NEW d \in Devices, NEW p, GetPost(d, p)
    PROVE  \A e \in Devices, s \in Slots :
              reads'[e][s] = reads[e][s] \/ reads'[e][s].doc = None
<1>1. PICK s \in Slots :
        reads' = [reads EXCEPT ![d][s] =
                     [id |-> p, served |-> FALSE, doc |-> None]]
  BY DEF GetPost
<1> QED
  BY <1>1 DEF TypeOK

LEMMA UserSound ==
    ASSUME CommentsInv, NEW d \in Devices, User(d)
    PROVE  QueueStep(d) /\ CopiesStep
<1> USE DEF history, store, detail, ghosts
<1>0. TypeOK /\ SavesCovered(d) /\ CopiesCovered(d)
  BY DEF CommentsInv
<1>1. CASE RefreshList(d)
  <2>1. QueueStep(d)
    BY <1>1, SameQueues DEF RefreshList
  <2>2. \A e \in Devices : \A c : Sent(e, c) => Sent(e, c)'
    BY <1>1 DEF RefreshList, Sent, SentBefore, Known
  <2>3. \A e \in Devices, p \in PostIds : SoundCopy(e, list[e][p], list'[e][p])
    <3> SUFFICES ASSUME NEW e \in Devices, NEW p \in PostIds
                 PROVE  SoundCopy(e, list[e][p], list'[e][p])
      OBVIOUS
    <3>1. CASE e = d
      <4>1. list'[e][p] = View(d, p)
        BY <1>0, <1>1, <3>1 DEF RefreshList, TypeOK
      <4>2. View(d, p) = None \/ Covered(d, View(d, p).comments)
        BY ViewCovered
      <4> QED
        BY <2>2, <3>1, <4>1, <4>2 DEF SoundCopy, Covered
    <3>2. CASE e # d
      BY <1>0, <1>1, <3>2 DEF RefreshList, TypeOK, SoundCopy
    <3> QED
      BY <3>1, <3>2
  <2>4. UNCHANGED <<mPost, mNew, reads>>
    BY <1>1 DEF RefreshList
  <2> QED
    BY <2>1, <2>3, <2>4 DEF CopiesStep, SoundCopy
<1>2. CASE OpenForm(d)
  BY <1>2, SameQueues, SameCopies DEF OpenForm
<1>3. CASE LikeTap(d)
  <2>1. QueueStep(d)
    BY <1>3, SameQueues DEF LikeTap
  <2>2. \A e \in Devices : \A c : Sent(e, c) => Sent(e, c)'
    BY <1>3 DEF LikeTap, Sent, SentBefore, Known
  <2>3. \A e \in Devices : SoundCopy(e, mNew[e], mNew'[e])
    <3> SUFFICES ASSUME NEW e \in Devices PROVE SoundCopy(e, mNew[e], mNew'[e])
      OBVIOUS
    <3>1. mPost[d] # None => Covered(d, mPost[d].comments)
      BY <1>0 DEF CopiesCovered
    <3>2. mNew'[e] = IF e = d THEN mPost[d] ELSE mNew[e]
      BY <1>0, <1>3 DEF LikeTap, TypeOK
    <3> QED
      BY <2>2, <3>1, <3>2 DEF SoundCopy, Covered
  <2> QED
    BY <1>3, <2>1, <2>3 DEF LikeTap, CopiesStep, SoundCopy
<1>4. CASE YCardTap(d)
  <2>1. mPost[d].id \in PostIds
    BY <1>0, <1>4 DEF YCardTap, TypeOK, Copies
  <2> DEFINE w == UserWrite("unionYCards", "UPDATE_USER_YCARD", mPost[d].id)
  <2>2. w \in Write /\ w.op = "unionYCards"
    BY <2>1, RequestTypes DEF Tags, LeakedTags, UserWrite
  <2>3. QueueStep(d)
    BY <1>4, <2>2, SendStep DEF YCardTap
  <2> QED
    BY <1>4, <2>3, SameCopies DEF YCardTap
<1>5. CASE DeleteTap(d)
  <2>1. mPost[d].id \in PostIds
    BY <1>0, <1>5 DEF DeleteTap, TypeOK, Copies
  <2> DEFINE w == DeletePost(mPost[d].id)
  <2>2. w \in Write /\ w.op = "deletePost"
    BY <2>1, RequestTypes DEF DeletePost
  <2>3. QueueStep(d)
    BY <1>5, <2>2, SendStep DEF DeleteTap
  <2> QED
    BY <1>5, <2>3, SameCopies DEF DeleteTap
<1>6. CASE EditTap(d)
  BY <1>6, SameQueues, SameCopies DEF EditTap
<1>7. CASE BackFromDetail(d)
  <2>1. \A e \in Devices : /\ mPost'[e] = mPost[e] \/ mPost'[e] = None
                           /\ mNew'[e] = mNew[e] \/ mNew'[e] = None
    BY <1>0, <1>7 DEF BackFromDetail, CloseDetail, TypeOK
  <2>2. CopiesStep
    BY <1>7, <2>1 DEF BackFromDetail, CopiesStep, SoundCopy
  <2> QED
    BY <1>7, <2>2, SameQueues DEF BackFromDetail
<1>8. CASE BackFromForm(d)
  <2>1. \A e \in Devices, s \in Slots :
            reads'[e][s] = reads[e][s] \/ reads'[e][s].doc = None
    BY <1>0, <1>8, GetPostStep DEF BackFromForm, CloseForm
  <2>2. CopiesStep
    BY <1>8, <2>1 DEF BackFromForm, CopiesStep, SoundCopy
  <2> QED
    BY <1>8, <2>2, SameQueues DEF BackFromForm
<1>9. ASSUME NEW p \in PostIds, OpenDetail(d, p)
      PROVE  QueueStep(d) /\ CopiesStep
  <2>1. QueueStep(d)
    BY <1>9, SameQueues DEF OpenDetail
  <2>2. \A e \in Devices : \A c : Sent(e, c) => Sent(e, c)'
    BY <1>9 DEF OpenDetail, Sent, SentBefore, Known
  <2>3. \A e \in Devices : SoundCopy(e, mPost[e], mPost'[e])
    <3> SUFFICES ASSUME NEW e \in Devices
                 PROVE  SoundCopy(e, mPost[e], mPost'[e])
      OBVIOUS
    <3>1. Covered(d, list[d][p].comments)
      BY <1>0, <1>9 DEF OpenDetail, CopiesCovered
    <3>2. CopyOf(p, list[d][p]).comments = list[d][p].comments
      BY DEF CopyOf
    <3>3. mPost'[e] = IF e = d THEN CopyOf(p, list[d][p]) ELSE mPost[e]
      BY <1>0, <1>9 DEF OpenDetail, TypeOK
    <3> QED
      BY <2>2, <3>1, <3>2, <3>3 DEF SoundCopy, Covered
  <2>4. \A e \in Devices : SoundCopy(e, mNew[e], mNew'[e])
    BY <1>0, <1>9 DEF OpenDetail, TypeOK, SoundCopy
  <2>5. \A e \in Devices, s \in Slots :
            reads'[e][s] = reads[e][s] \/ reads'[e][s].doc = None
    BY <1>0, <1>9, GetPostStep DEF OpenDetail
  <2>6. UNCHANGED list
    BY <1>9 DEF OpenDetail
  <2>7. CopiesStep
    BY <2>3, <2>4, <2>5, <2>6 DEF CopiesStep, SoundCopy
  <2> QED
    BY <2>1, <2>7
<1>10. ASSUME NEW c \in CommentIds, CommentTap(d, c)
       PROVE  QueueStep(d) /\ CopiesStep
  <2> DEFINE w == SetComment(c, mPost[d].id)
             appended == [mPost[d] EXCEPT !.comments = @ \cup {c}]
  <2>1. mPost[d] \in Copies
    BY <1>0, <1>10 DEF CommentTap, TypeOK
  <2>2. w \in Write /\ w.op = "setComment" /\ w.comment = c
    BY <2>1, RequestTypes DEF SetComment, Copies
  <2>3. QueueStep(d)
    BY <1>10, <2>2, SendStep DEF CommentTap
  <2>4. Sent(d, c)'
    <3>1. queue[d] \in Seq(Write) /\ queue'[d] = Append(queue[d], w)
      BY <1>0, <1>10 DEF CommentTap, Send, TypeOK
    <3>2. /\ Len(queue[d]) \in Nat
          /\ Len(queue'[d]) = Len(queue[d]) + 1
          /\ queue'[d][Len(queue[d]) + 1] = w
      BY <2>2, <3>1, AppendProperties, LenProperties
    <3>3. /\ Len(queue'[d]) \in 1..Len(queue'[d])
          /\ Len(queue'[d]) < Len(queue'[d]) + 1
          /\ queue'[d][Len(queue'[d])] = w
      BY <3>2
    <3>4. SentBefore(d, c, Len(queue[d]) + 1)'
      BY <2>2, <3>3 DEF SentBefore
    <3> QED
      BY <3>4 DEF Sent
  <2>5. \A x \in mPost[d].comments : Sent(d, x)'
    <3>1. \A x \in mPost[d].comments : Sent(d, x) /\ x \in CommentIds
      BY <1>0, <1>10, <2>1, NoneAssumption
         DEF CopiesCovered, Covered, CommentTap, TypeOK, Copies
    <3> QED
      BY <1>0, <2>3, <3>1, SentIsStable
  <2>6. \A x \in appended.comments : Sent(d, x)'
    <3>1. appended.comments = mPost[d].comments \cup {c}
      BY <2>1 DEF Copies
    <3> QED
      BY <2>4, <2>5, <3>1
  <2>7. /\ mPost' = [mPost EXCEPT ![d] = appended]
        /\ mNew' = [mNew EXCEPT ![d] = appended]
        /\ UNCHANGED <<list, reads>>
    BY <1>10 DEF CommentTap
  <2> HIDE DEF appended
  <2>8. \A e \in Devices :
           /\ mPost'[e] = IF e = d THEN appended ELSE mPost[e]
           /\ mNew'[e] = IF e = d THEN appended ELSE mNew[e]
    BY <1>0, <2>7 DEF TypeOK
  <2>9. CopiesStep
    BY <2>6, <2>7, <2>8 DEF CopiesStep, SoundCopy
  <2> QED
    BY <2>3, <2>9
<1>11. ASSUME NEW p \in PostIds, NEW a \in Users, CreateTap(d, p, a)
       PROVE  QueueStep(d) /\ CopiesStep
  <2> DEFINE w == SetPost(p, [author |-> a, comments |-> {}])
  <2>1. w \in Write /\ w.doc.comments = {}
    BY RequestTypes DEF SetPost, Docs
  <2>2. QueueStep(d)
    BY <1>11, <2>1, SendStep DEF CreateTap, Covered
  <2> QED
    BY <1>11, <2>2, SameCopies DEF CreateTap
<1>12. ASSUME NEW p \in PostIds, NEW a \in Users, EditPostTap(d, p, a)
       PROVE  QueueStep(d) /\ CopiesStep
  <2> DEFINE w == UpdatePost("UPDATE_POST_IN_POSTS", mPost[d],
                             [author |-> a, comments |-> {}])
  <2>1. mPost[d] \in Copies
    BY <1>0, <1>12 DEF EditPostTap, TypeOK
  <2>2. w \in Write /\ w.doc.comments = {}
    BY <2>1, RequestTypes DEF UpdatePost, DocOf, Docs, Tags, FormTags
  <2>3. QueueStep(d)
    BY <1>12, <2>2, SendStep DEF EditPostTap, Covered
  <2> QED
    BY <1>12, <2>3, SameCopies DEF EditPostTap
<1> QED
  BY <1>1, <1>2, <1>3, <1>4, <1>5, <1>6, <1>7, <1>8, <1>9, <1>10, <1>11,
     <1>12 DEF User

LEMMA AnswerSound ==
    ASSUME CommentsInv, NEW d \in Devices, Answer(d)
    PROVE  QueueStep(d) /\ CopiesStep
<1> USE DEF history, store, detail, ghosts
<1>0. TypeOK /\ SavesCovered(d) /\ CopiesCovered(d)
  BY DEF CommentsInv
<1>1. CASE Populate(d)
  BY <1>1, SameQueues, SameCopies DEF Populate
<1>2. CASE Ignore(d)
  BY <1>2, SameQueues, SameCopies DEF Ignore
<1>3. ASSUME NEW s \in Slots, OnUpdateFields(d, s)
      PROVE  QueueStep(d) /\ CopiesStep
  <2>1. QueueStep(d)
    BY <1>3, SameQueues DEF OnUpdateFields
  <2>2. \A e \in Devices : \A c : Sent(e, c) => Sent(e, c)'
    BY <1>3 DEF OnUpdateFields, Sent, SentBefore, Known
  <2> DEFINE copy == CopyOf(reads[d][s].id, reads[d][s].doc)
  <2>3. copy.comments = reads[d][s].doc.comments
    BY DEF CopyOf
  <2>4. Covered(d, reads[d][s].doc.comments)
    BY <1>0, <1>3 DEF OnUpdateFields, CopiesCovered
  <2>5. mPost' = IF scr[d] = "detail" THEN [mPost EXCEPT ![d] = copy]
                                      ELSE mPost
    BY <1>3 DEF OnUpdateFields
  <2> HIDE DEF copy
  <2>6. \A e \in Devices : SoundCopy(e, mPost[e], mPost'[e])
    BY <1>0, <2>2, <2>3, <2>4, <2>5 DEF SoundCopy, Covered, TypeOK
  <2>7. \A e \in Devices, r \in Slots :
            reads'[e][r] = reads[e][r] \/ reads'[e][r] = None
    BY <1>0, <1>3 DEF OnUpdateFields, TypeOK
  <2>8. UNCHANGED <<list, mNew>>
    BY <1>3 DEF OnUpdateFields
  <2>9. CopiesStep
    BY <2>6, <2>7, <2>8 DEF CopiesStep, SoundCopy
  <2> QED
    BY <2>1, <2>9
<1>4. CASE OnUpdateComment(d)
  <2> DEFINE w == UpdatePost("UPDATE_VALUE", mPost[d], mNew[d])
  <2>1. mPost[d] \in Copies /\ mNew[d] \in Copies /\ mNew[d] # None
    BY <1>0, <1>4 DEF OnUpdateComment, Receive, Registered, TypeOK, FormTags,
                      LeakedTags, ResumedTags
  <2>2. w \in Write
    BY <2>1, RequestTypes DEF Tags, ResumedTags
  <2>3. w.doc.comments = mNew[d].comments
    BY DEF UpdatePost, DocOf
  <2>4. Covered(d, w.doc.comments)
    BY <1>0, <2>1, <2>3 DEF CopiesCovered
  <2>5. QueueStep(d)
    BY <1>4, <2>2, <2>4, SendStep DEF OnUpdateComment
  <2> QED
    BY <1>4, <2>5, SameCopies DEF OnUpdateComment
<1>5. CASE OnUpdateValue(d) \/ OnUpdateAfterYCard(d)
  <2>1. \A e \in Devices, s \in Slots :
            reads'[e][s] = reads[e][s] \/ reads'[e][s].doc = None
    BY <1>0, <1>5, GetPostStep DEF OnUpdateValue, OnUpdateAfterYCard
  <2>2. UNCHANGED <<list, mPost, mNew, queue, comments, failed>>
    BY <1>5 DEF OnUpdateValue, OnUpdateAfterYCard
  <2> QED
    BY <2>1, <2>2, SameQueues DEF CopiesStep, SoundCopy
<1>6. CASE OnUpdateUserYCard(d)
  <2> DEFINE w == UpdatePost("UPDATE_POST_AFTER_YCARD", mPost[d], mPost[d])
  <2>1. mPost[d] \in Copies /\ mPost[d] # None
    BY <1>0, <1>6, NoneAssumption
       DEF OnUpdateUserYCard, Receive, Registered, TypeOK, FormTags,
           LeakedTags, ResumedTags
  <2>2. w \in Write
    BY <2>1, RequestTypes DEF Tags, LeakedTags
  <2>3. w.doc.comments = mPost[d].comments
    BY DEF UpdatePost, DocOf
  <2>4. Covered(d, mPost[d].comments)
    BY <1>0, <2>1 DEF CopiesCovered
  <2>5. Send(d, w) /\ UNCHANGED <<comments, failed>>
    BY <1>6 DEF OnUpdateUserYCard
  <2>6. QueueStep(d)
    BY <2>2, <2>3, <2>4, <2>5, SendStep
  <2>7. \A x \in mPost[d].comments : Sent(d, x)'
    <3>1. \A x \in mPost[d].comments : x \in CommentIds
      BY <2>1 DEF Copies
    <3> QED
      BY <1>0, <2>4, <2>6, <3>1, SentIsStable DEF Covered
  <2>8. /\ mNew' = [mNew EXCEPT ![d] = mPost[d]]
        /\ UNCHANGED <<list, mPost, reads>>
    BY <1>6 DEF OnUpdateUserYCard
  <2>9. \A e \in Devices : mNew'[e] = IF e = d THEN mPost[d] ELSE mNew[e]
    BY <1>0, <2>8 DEF TypeOK
  <2>10. CopiesStep
    BY <2>7, <2>8, <2>9 DEF CopiesStep, SoundCopy
  <2> QED
    BY <2>6, <2>10
<1>7. CASE OnDeleteInPosts(d)
  <2> DEFINE w == UserWrite("removePosts", "DELETE_POST_IN_USERS", mPost[d].id)
  <2>1. mPost[d].id \in PostIds
    BY <1>0, <1>7 DEF OnDeleteInPosts, Receive, Registered, TypeOK, FormTags,
                      LeakedTags, ResumedTags, Copies
  <2>2. w \in Write /\ w.op = "removePosts"
    BY <2>1, RequestTypes DEF Tags, ResumedTags, UserWrite
  <2>3. QueueStep(d)
    BY <1>7, <2>2, SendStep DEF OnDeleteInPosts
  <2> QED
    BY <1>7, <2>3, SameCopies DEF OnDeleteInPosts
<1>8. CASE OnDeleteInUsers(d)
  <2>1. \A e \in Devices : /\ mPost'[e] = mPost[e] \/ mPost'[e] = None
                           /\ mNew'[e] = mNew[e] \/ mNew'[e] = None
    BY <1>0, <1>8 DEF OnDeleteInUsers, CloseDetail, TypeOK
  <2>2. CopiesStep
    BY <1>8, <2>1 DEF OnDeleteInUsers, CopiesStep, SoundCopy
  <2> QED
    BY <1>8, <2>2, SameQueues DEF OnDeleteInUsers
<1>9. CASE OnCreateInPosts(d)
  <2> DEFINE w == UserWrite("unionPosts", "UPDATE_POST_IN_USERS", formNew[d])
  <2>1. formNew[d] \in PostIds
    BY <1>0, <1>9 DEF OnCreateInPosts, TypeOK
  <2>2. w \in Write /\ w.op = "unionPosts"
    BY <2>1, RequestTypes DEF Tags, FormTags, UserWrite
  <2>3. QueueStep(d)
    BY <1>9, <2>2, SendStep DEF OnCreateInPosts
  <2> QED
    BY <1>9, <2>3, SameCopies DEF OnCreateInPosts
<1>10. CASE OnFormDone(d)
  <2>1. \A e \in Devices, s \in Slots :
            reads'[e][s] = reads[e][s] \/ reads'[e][s].doc = None
    BY <1>0, <1>10, GetPostStep DEF OnFormDone, CloseForm
  <2>2. CopiesStep
    BY <1>10, <2>1 DEF OnFormDone, CopiesStep, SoundCopy
  <2> QED
    BY <1>10, <2>2, SameQueues DEF OnFormDone
<1> QED
  BY <1>1, <1>2, <1>3, <1>4, <1>5, <1>6, <1>7, <1>8, <1>9, <1>10 DEF Answer

\* The oldest write leaves the queue.
LEMMA CompleteStep ==
    ASSUME NEW d \in Devices, queue[d] # <<>>, NEW ok, Complete(d, ok),
           \A c \in CommentIds :
              /\ Known(c) => Known(c)'
              /\ /\ Head(queue[d]).op = "setComment"
                 /\ Head(queue[d]).comment = c
                 => Known(c)'
    PROVE  QueueStep(d)
BY DEF QueueStep, OldestAnswered, Complete

LEMMA ServerSound ==
    ASSUME CommentsInv, NEW d \in Devices, Server(d)
    PROVE  QueueStep(d) /\ CopiesStep
<1> USE DEF history, store, detail, ghosts
<1>0. TypeOK /\ SavesCovered(d) /\ CopiesCovered(d)
  BY DEF CommentsInv
<1> DEFINE w == Head(queue[d])
<1>1. queue[d] # <<>> => w \in Write
  BY <1>0, HeadTailProperties DEF TypeOK
<1>2. CASE CommitComment(d)
  <2>1. queue[d] # <<>> /\ w.op = "setComment" /\ w.post \in PostIds
    BY <1>1, <1>2 DEF CommitComment, Oldest, Write
  <2>2. comments' = [comments EXCEPT ![w.comment] = w.post] /\ UNCHANGED failed
    BY <1>2 DEF CommitComment
  <2>3. \A c \in CommentIds : comments'[c] = IF c = w.comment THEN w.post
                                             ELSE comments[c]
    BY <1>0, <2>2 DEF TypeOK
  <2>4. w.post # None
    BY <2>1, NoneAssumption
  <2>5. \A c \in CommentIds : /\ Known(c) => Known(c)'
                              /\ w.comment = c => Known(c)'
    BY <2>2, <2>3, <2>4 DEF Known
  <2>6. QueueStep(d)
    BY <1>2, <2>1, <2>5, CompleteStep DEF CommitComment
  <2> QED
    BY <1>2, <2>6, SameCopies DEF CommitComment
<1>3. CASE CommitSave(d) \/ CommitDelete(d) \/ CommitUser(d)
  <2>1. queue[d] # <<>> /\ w.op # "setComment" /\ Complete(d, TRUE)
    BY <1>3 DEF CommitSave, CommitDelete, CommitUser, Oldest
  <2>2. UNCHANGED <<comments, failed, list, mPost, mNew, reads>>
    BY <1>3 DEF CommitSave, CommitDelete, CommitUser
  <2>3. \A c \in CommentIds : Known(c) => Known(c)'
    BY <2>2 DEF Known
  <2>4. QueueStep(d)
    BY <2>1, <2>3, CompleteStep
  <2> QED
    BY <2>2, <2>4, SameCopies
<1>4. CASE Reject(d)
  <2>1. queue[d] # <<>> /\ Complete(d, FALSE)
    BY <1>4 DEF Reject
  <2>2. UNCHANGED <<comments, list, mPost, mNew, reads>>
    BY <1>4 DEF Reject
  <2>3. /\ failed \subseteq failed'
        /\ w.op = "setComment" => w.comment \in failed'
    BY <1>4 DEF Reject
  <2>4. \A c \in CommentIds :
           /\ Known(c) => Known(c)'
           /\ w.op = "setComment" /\ w.comment = c => Known(c)'
    BY <2>2, <2>3 DEF Known
  <2>5. QueueStep(d)
    BY <2>1, <2>4, CompleteStep
  <2> QED
    BY <2>2, <2>5, SameCopies
<1>5. ASSUME NEW s \in Slots, ServeRead(d, s)
      PROVE  QueueStep(d) /\ CopiesStep
  <2>1. QueueStep(d)
    BY <1>5, SameQueues DEF ServeRead
  <2>2. \A e \in Devices : \A c : Sent(e, c) => Sent(e, c)'
    BY <1>5 DEF ServeRead, Sent, SentBefore, Known
  <2> DEFINE view == View(d, reads[d][s].id)
  <2>3. reads[d][s] \in Read /\ reads[d][s].id \in PostIds
    BY <1>0, <1>5 DEF ServeRead, TypeOK, Read
  <2>4. view = None \/ Covered(d, view.comments)
    BY <2>3, ViewCovered
  <2>5. reads' = [reads EXCEPT ![d][s].served = TRUE, ![d][s].doc = view]
    BY <1>5 DEF ServeRead
  <2>6. reads'[d][s].doc = view
    <3> HIDE DEF view
    <3> QED
      BY <1>0, <2>3, <2>5 DEF TypeOK, Read
  <2>7. \A e \in Devices, r \in Slots :
            e # d \/ r # s => reads'[e][r] = reads[e][r]
    <3> HIDE DEF view
    <3> QED
      BY <1>0, <2>5 DEF TypeOK
  <2>8. UNCHANGED <<list, mPost, mNew>>
    BY <1>5 DEF ServeRead
  <2> HIDE DEF view
  <2>9. \A e \in Devices, r \in Slots :
           \/ reads'[e][r] = reads[e][r]
           \/ reads'[e][r].doc = None
           \/ \A c \in reads'[e][r].doc.comments : Sent(e, c)'
    BY <2>2, <2>4, <2>6, <2>7 DEF Covered
  <2>10. CopiesStep
    BY <2>8, <2>9 DEF CopiesStep, SoundCopy
  <2> QED
    BY <2>1, <2>10
<1>6. ASSUME NEW s \in Slots, LoseRead(d, s)
      PROVE  QueueStep(d) /\ CopiesStep
  <2>1. \A e \in Devices, r \in Slots :
            reads'[e][r] = reads[e][r] \/ reads'[e][r] = None
    BY <1>0, <1>6 DEF LoseRead, TypeOK
  <2>2. UNCHANGED <<list, mPost, mNew, queue, comments, failed>>
    BY <1>6 DEF LoseRead
  <2> QED
    BY <2>1, <2>2, SameQueues DEF CopiesStep, SoundCopy
<1> QED
  BY <1>2, <1>3, <1>4, <1>5, <1>6 DEF Server

LEMMA DieSound ==
    ASSUME CommentsInv, NEW d \in Devices, Die(d)
    PROVE  QueueStep(d) /\ CopiesStep
<1>0. TypeOK
  BY DEF CommentsInv
<1>1. QueueStep(d)
  BY DEF Die, QueueStep, TagsForgotten, ghosts, history
<1>2. \A e \in Devices :
         /\ \A p \in PostIds : list'[e][p] = list[e][p] \/ list'[e][p] = None
         /\ mPost'[e] = mPost[e] \/ mPost'[e] = None
         /\ mNew'[e] = mNew[e] \/ mNew'[e] = None
         /\ \A s \in Slots :
               reads'[e][s] = reads[e][s] \/ reads'[e][s] = None
  BY <1>0 DEF Die, TypeOK
<1>3. CopiesStep
  BY <1>2 DEF CopiesStep, SoundCopy
<1> QED
  BY <1>1, <1>3

\* The server saves a covered document: its comments are not behind it.
LEMMA ListedStay ==
    ASSUME CommentsInv, NEW d \in Devices, User(d) \/ Answer(d) \/ Server(d)
              \/ Die(d), QueueStep(d)
    PROVE  ListedCommentsExist'
<1>0. TypeOK /\ SavesCovered(d)
  BY DEF CommentsInv
<1>1. \A c \in CommentIds : Known(c) => Known(c)'
  BY <1>0, QueueStepFrame
<1>2. \A p \in PostIds : posts[p] # None =>
         \A c \in posts[p].comments : Known(c) /\ c \in CommentIds
  BY <1>0 DEF CommentsInv, ListedCommentsExist, Known, TypeOK, Docs
<1>3. CASE UNCHANGED posts
  BY <1>1, <1>2, <1>3 DEF ListedCommentsExist, Known
<1>4. CASE CommitSave(d)
  <2> DEFINE w == Head(queue[d])
  <2>1. /\ queue[d] # <<>> /\ w.op \in {"setPost", "updatePost"}
        /\ posts' = [posts EXCEPT ![w.post] = w.doc]
    BY <1>4 DEF CommitSave, Oldest
  <2>2. w \in Write /\ w = queue[d][1] /\ 1 \in 1..Len(queue[d])
    BY <1>0, <2>1, HeadTailProperties, EmptySeq, LenProperties DEF TypeOK
  <2>3. \A c \in w.doc.comments : Known(c) /\ c \in CommentIds
    <3>1. \A c \in w.doc.comments : Known(c) \/ SentBefore(d, c, 1)
      BY <1>0, <2>1, <2>2 DEF SavesCovered
    <3>2. \A c : ~SentBefore(d, c, 1)
      BY DEF SentBefore
    <3>3. w.doc \in Docs
      BY <2>1, <2>2 DEF Write
    <3> QED
      BY <3>1, <3>2, <3>3 DEF Docs
  <2> HIDE DEF w
  <2>4. \A p \in PostIds : posts'[p] = posts[p] \/ posts'[p] = w.doc
    BY <1>0, <2>1 DEF TypeOK
  <2> QED
    BY <1>1, <1>2, <2>3, <2>4 DEF ListedCommentsExist, Known
<1>5. CASE CommitDelete(d)
  <2>1. \A p \in PostIds : posts'[p] = posts[p] \/ posts'[p] = None
    BY <1>0, <1>5 DEF CommitDelete, TypeOK
  <2> QED
    BY <1>1, <1>2, <2>1 DEF ListedCommentsExist, Known
<1>6. ASSUME ~CommitSave(d), ~CommitDelete(d) PROVE UNCHANGED posts
  <2> USE DEF store
  <2>1. CASE User(d)
    BY <2>1 DEF User, RefreshList, OpenForm, LikeTap, YCardTap, DeleteTap,
                EditTap, BackFromDetail, BackFromForm, OpenDetail, CommentTap,
                CreateTap, EditPostTap
  <2>2. CASE Answer(d)
    BY <2>2 DEF Answer, Populate, Ignore, OnUpdateFields, OnUpdateComment,
                OnUpdateValue, OnUpdateUserYCard, OnUpdateAfterYCard,
                OnDeleteInPosts, OnDeleteInUsers, OnCreateInPosts, OnFormDone
  <2>3. CASE Server(d)
    BY <1>6, <2>3 DEF Server, CommitComment, CommitUser, Reject, ServeRead,
                      LoseRead
  <2>4. CASE Die(d)
    BY <2>4 DEF Die
  <2> QED
    BY <2>1, <2>2, <2>3, <2>4
<1> QED
  BY <1>3, <1>4, <1>5, <1>6

LEMMA InitComments == Init => CommentsInv
<1> SUFFICES ASSUME Init PROVE CommentsInv
  OBVIOUS
<1>1. TypeOK
  BY InitTypes
<1>2. ListedCommentsExist
  BY DEF Init, ListedCommentsExist
<1>3. ASSUME NEW d \in Devices PROVE SavesCovered(d) /\ CopiesCovered(d)
  <2>1. Len(queue[d]) = 0
    BY EmptySeq DEF Init
  <2>2. SavesCovered(d)
    BY <2>1 DEF SavesCovered
  <2>3. CopiesCovered(d)
    BY DEF Init, CopiesCovered
  <2> QED
    BY <2>2, <2>3
<1> QED
  BY <1>1, <1>2, <1>3 DEF CommentsInv

LEMMA NextComments == CommentsInv /\ [Next]_vars => CommentsInv'
<1> SUFFICES ASSUME CommentsInv, [Next]_vars PROVE CommentsInv'
  OBVIOUS
<1>1. TypeOK'
  BY NextTypes DEF CommentsInv
<1>2. CASE UNCHANGED vars
  <2>1. UNCHANGED <<posts, comments, list, mPost, mNew, queue, reads, failed>>
    BY <1>2 DEF vars
  <2>2. ListedCommentsExist'
    BY <2>1 DEF CommentsInv, ListedCommentsExist
  <2>3. \A d \in Devices : SavesCovered(d)'
    BY <2>1 DEF CommentsInv, SavesCovered, SentBefore, Known
  <2>4. \A d \in Devices : CopiesCovered(d)'
    BY <2>1 DEF CommentsInv, CopiesCovered, Covered, Sent, SentBefore, Known
  <2> QED
    BY <1>1, <2>2, <2>3, <2>4 DEF CommentsInv
<1>3. ASSUME NEW d \in Devices, User(d) \/ Answer(d) \/ Server(d) \/ Die(d)
      PROVE  CommentsInv'
  <2>1. QueueStep(d) /\ CopiesStep
    BY <1>3, UserSound, AnswerSound, ServerSound, DieSound
  <2>2. ListedCommentsExist'
    BY <1>3, <2>1, ListedStay
  <2>3. \A e \in Devices : SavesCovered(e)'
    BY <2>1, SavesStayCovered DEF CommentsInv
  <2>4. \A e \in Devices : CopiesCovered(e)'
    BY <2>1, CopiesStayCovered
  <2> QED
    BY <1>1, <2>2, <2>3, <2>4 DEF CommentsInv
<1> QED
  BY <1>2, <1>3 DEF Next

\* A post never lists a comment that is neither there nor was rejected,
\* whatever copies of the post the devices save: onCommentTap sends the comment
\* before any save of the copy it changes, and a client's writes keep their
\* order.
THEOREM CommentsAreThere == Spec => []ListedCommentsExist
<1>1. Spec => []CommentsInv
  BY InitComments, NextComments, PTL DEF Spec
<1>2. CommentsInv => ListedCommentsExist
  BY DEF CommentsInv
<1> QED
  BY <1>1, <1>2, PTL

-----------------------------------------------------------------------------
(* The life of a post *)

PostOps == {"setPost", "updatePost", "deletePost"}

\* Device d holds a copy of post p, waits for one or is about to write one.
Knows(d, p) ==
    \/ list[d][p] # None
    \/ mPost[d] # None /\ mPost[d].id = p
    \/ \E s \in Slots : reads[d][s] # None /\ reads[d][s].id = p
    \/ \E i \in 1..Len(queue[d]) :
          queue[d][i].op \in PostOps /\ queue[d][i].post = p

\* Of an id that was not made yet there is no post and no copy.
NewIdsUnknown ==
    \A p \in PostIds \ usedIds :
        /\ posts[p] = None /\ p \notin deleted
        /\ \A d \in Devices : ~Knows(d, p)

\* Write i of device d creates post p.
Creates(d, i, p) == queue[d][i].op = "setPost" /\ queue[d][i].post = p

\* A post that is yet to be created is known to its creator only, who writes
\* it before it saves or deletes it, without comments, and once.
Private(d, i, p) ==
    /\ posts[p] = None /\ p \notin deleted
    /\ queue[d][i].doc.comments = {}
    /\ \A e \in Devices \ {d} : ~Knows(e, p)
    /\ \A j \in 1..Len(queue[d]) :
          queue[d][j].op \in PostOps /\ queue[d][j].post = p /\ j # i =>
              j > i /\ queue[d][j].op # "setPost"

CreationsPrivate(d) ==
    \A i \in 1..Len(queue[d]), p \in PostIds :
        Creates(d, i, p) => Private(d, i, p)

LifeInv ==
    /\ CommentsInv
    /\ NoResurrection
    /\ NewIdsUnknown
    /\ \A d \in Devices : CreationsPrivate(d)

-----------------------------------------------------------------------------
(* What a step may do to the posts and to what devices know of them *)

\* What device d may know after a step: what it knew, what is there to be
\* read, and a post it has just given an id.
Learned(d, p) ==
    \/ Knows(d, p)
    \/ posts[p] # None
    \/ p \notin usedIds /\ p \in usedIds'

\* The copies of the other devices stay; those of d are of posts it may know.
CopiesLearned(d) ==
    /\ usedIds \subseteq usedIds'
    /\ \A e \in Devices \ {d} :
          /\ list'[e] = list[e] /\ mPost'[e] = mPost[e]
          /\ reads'[e] = reads[e]
    /\ \A p \in PostIds : list'[d][p] # None => Learned(d, p)
    /\ mPost'[d] # None => Learned(d, mPost'[d].id)
    /\ \A s \in Slots : reads'[d][s] # None => Learned(d, reads'[d][s].id)

\* A write that creates names a new post, the others one that d knows.
Enqueued(d) ==
    /\ UNCHANGED <<posts, deleted>>
    /\ \E w \in Write :
          /\ queue' = [queue EXCEPT ![d] = Append(@, w)]
          /\ w.op \in {"updatePost", "deletePost"} => Knows(d, w.post)
          /\ w.op = "setPost" =>
                /\ w.post \notin usedIds /\ w.post \in usedIds'
                /\ w.doc.comments = {}

\* What the oldest write makes of the posts.
Settled(d) ==
    LET w == Head(queue[d])
    IN  \/ UNCHANGED <<posts, deleted>>
        \/ /\ w.op \in {"setPost", "updatePost"} /\ Accepted(w)
           /\ posts' = [posts EXCEPT ![w.post] = w.doc]
           /\ UNCHANGED deleted
        \/ /\ w.op = "deletePost"
           /\ posts' = [posts EXCEPT ![w.post] = None]
           /\ deleted' = deleted \cup {w.post}

Dequeued(d) ==
    /\ queue[d] # <<>>
    /\ queue' = [queue EXCEPT ![d] = Tail(@)]
    /\ UNCHANGED usedIds
    /\ Settled(d)

Held(d) ==
    /\ UNCHANGED <<posts, deleted>>
    /\ UNCHANGED queue \/ queue' = [queue EXCEPT ![d] = Orphaned(d)]

PostStep(d) == Held(d) \/ Enqueued(d) \/ Dequeued(d)

-----------------------------------------------------------------------------
(* The queue of the device that moves *)

\* Where a write of the new queue was in the old one.
LEMMA QueueAfter ==
    ASSUME TypeOK, NEW d \in Devices, PostStep(d)
    PROVE  /\ \A e \in Devices \ {d} : queue'[e] = queue[e]
           /\ Held(d) =>
                /\ Len(queue'[d]) = Len(queue[d])
                /\ \A i \in 1..Len(queue[d]) :
                      /\ queue'[d][i].op = queue[d][i].op
                      /\ queue'[d][i].post = queue[d][i].post
                      /\ queue'[d][i].doc = queue[d][i].doc
           /\ Dequeued(d) =>
                /\ Len(queue[d]) \in Nat \ {0}
                /\ Len(queue'[d]) = Len(queue[d]) - 1
                /\ \A i \in 1..Len(queue'[d]) : queue'[d][i] = queue[d][i + 1]
                /\ Head(queue[d]) = queue[d][1]
<1>1. queue[d] \in Seq(Write) /\ Len(queue[d]) \in Nat
  BY LenProperties DEF TypeOK
<1>2. \A e \in Devices \ {d} : queue'[e] = queue[e]
  BY DEF PostStep, Held, Enqueued, Dequeued, TypeOK
<1>3. ASSUME Held(d)
      PROVE  /\ Len(queue'[d]) = Len(queue[d])
             /\ \A i \in 1..Len(queue[d]) :
                   /\ queue'[d][i].op = queue[d][i].op
                   /\ queue'[d][i].post = queue[d][i].post
                   /\ queue'[d][i].doc = queue[d][i].doc
  <2>1. CASE UNCHANGED queue
    BY <2>1
  <2>2. CASE queue' = [queue EXCEPT ![d] = Orphaned(d)]
    <3>1. queue'[d] = Orphaned(d)
      BY <2>2 DEF TypeOK
    <3>2. \A i \in 1..Len(queue[d]) : Orphaned(d)[i].post = queue[d][i].post
      <4>1. \A i \in 1..Len(queue[d]) :
               Orphaned(d)[i] = [queue[d][i] EXCEPT !.tag = None]
        BY <1>1, LenProperties DEF Orphaned
      <4>2. \A i \in 1..Len(queue[d]) :
               [queue[d][i] EXCEPT !.tag = None].post = queue[d][i].post
        BY <1>1, ElementOfSeq DEF Write
      <4> QED
        BY <4>1, <4>2
    <3> QED
      BY <3>1, <3>2, OrphanedProperties
  <2> QED
    BY <1>3, <2>1, <2>2 DEF Held
<1>4. ASSUME Dequeued(d)
      PROVE  /\ Len(queue[d]) \in Nat \ {0}
             /\ Len(queue'[d]) = Len(queue[d]) - 1
             /\ \A i \in 1..Len(queue'[d]) : queue'[d][i] = queue[d][i + 1]
             /\ Head(queue[d]) = queue[d][1]
  <2>1. queue'[d] = Tail(queue[d]) /\ queue[d] # <<>>
    BY <1>4 DEF Dequeued, TypeOK
  <2>2. /\ Len(queue'[d]) = Len(queue[d]) - 1
        /\ \A i \in 1..Len(queue'[d]) : queue'[d][i] = queue[d][i + 1]
        /\ Head(queue[d]) = queue[d][1]
    BY <1>1, <2>1, HeadTailProperties
  <2>3. Len(queue[d]) # 0
    BY <1>1, <2>1, EmptySeq
  <2> QED
    BY <1>1, <2>2, <2>3
<1> QED
  BY <1>2, <1>3, <1>4

LEMMA QueueGrown ==
    ASSUME TypeOK, NEW d \in Devices, NEW w \in Write,
           queue' = [queue EXCEPT ![d] = Append(@, w)]
    PROVE  /\ Len(queue[d]) \in Nat
           /\ Len(queue'[d]) = Len(queue[d]) + 1
           /\ \A i \in 1..Len(queue[d]) : queue'[d][i] = queue[d][i]
           /\ queue'[d][Len(queue[d]) + 1] = w
<1>1. queue[d] \in Seq(Write) /\ Len(queue[d]) \in Nat
  BY LenProperties DEF TypeOK
<1>2. queue'[d] = Append(queue[d], w)
  BY DEF TypeOK
<1> QED
  BY <1>1, <1>2, AppendProperties

\* Nobody learns of a post but as described.
LEMMA WhoKnows ==
    ASSUME TypeOK, NEW d \in Devices, PostStep(d), CopiesLearned(d)
    PROVE  /\ \A e \in Devices \ {d}, p \in PostIds : Knows(e, p)' => Knows(e, p)
           /\ \A p \in PostIds : Knows(d, p)' => Learned(d, p)
<1>1. ASSUME NEW e \in Devices \ {d}, NEW p \in PostIds, Knows(e, p)'
      PROVE  Knows(e, p)
  <2>1. queue'[e] = queue[e]
    BY QueueAfter
  <2> QED
    BY <1>1, <2>1 DEF CopiesLearned, Knows
<1>2. ASSUME NEW p \in PostIds, Knows(d, p)'
      PROVE  Learned(d, p)
  <2>1. CASE list'[d][p] # None
    BY <2>1 DEF CopiesLearned
  <2>2. CASE mPost'[d] # None /\ mPost'[d].id = p
    BY <2>2 DEF CopiesLearned
  <2>3. CASE \E s \in Slots : reads'[d][s] # None /\ reads'[d][s].id = p
    BY <2>3 DEF CopiesLearned
  <2>4. ASSUME NEW i \in 1..Len(queue'[d]), queue'[d][i].op \in PostOps,
               queue'[d][i].post = p
        PROVE  Learned(d, p)
    <3>1. CASE Held(d)
      <4>1. i \in 1..Len(queue[d]) /\ queue'[d][i].op = queue[d][i].op
            /\ queue'[d][i].post = queue[d][i].post
        BY <2>4, <3>1, QueueAfter
      <4> QED
        BY <2>4, <4>1 DEF Learned, Knows
    <3>2. CASE Dequeued(d)
      <4>1. i + 1 \in 1..Len(queue[d]) /\ queue'[d][i] = queue[d][i + 1]
        BY <2>4, <3>2, QueueAfter
      <4> QED
        BY <2>4, <4>1 DEF Learned, Knows
    <3>3. CASE Enqueued(d)
      <4>1. PICK w \in Write :
               /\ queue' = [queue EXCEPT ![d] = Append(@, w)]
               /\ w.op \in {"updatePost", "deletePost"} => Knows(d, w.post)
               /\ w.op = "setPost" =>
                     w.post \notin usedIds /\ w.post \in usedIds'
        BY <3>3 DEF Enqueued
      <4>2. /\ Len(queue[d]) \in Nat
            /\ Len(queue'[d]) = Len(queue[d]) + 1
            /\ \A k \in 1..Len(queue[d]) : queue'[d][k] = queue[d][k]
            /\ queue'[d][Len(queue[d]) + 1] = w
        BY <4>1, QueueGrown
      <4>3. CASE i \in 1..Len(queue[d])
        BY <2>4, <4>2, <4>3 DEF Learned, Knows
      <4>4. CASE i = Len(queue[d]) + 1
        BY <2>4, <4>1, <4>2, <4>4 DEF Learned, PostOps
      <4> QED
        BY <4>2, <4>3, <4>4
    <3> QED
      BY <3>1, <3>2, <3>3 DEF PostStep
  <2> QED
    BY <1>2, <2>1, <2>2, <2>3, <2>4 DEF Knows
<1> QED
  BY <1>1, <1>2

-----------------------------------------------------------------------------
(* The invariant is kept *)

\* What a device knows was made.
LEMMA KnownIsUsed ==
    ASSUME LifeInv, NEW d \in Devices, NEW p \in PostIds, Knows(d, p)
    PROVE  p \in usedIds
BY DEF LifeInv, NewIdsUnknown

\* The oldest write of a device: its type, its place and what it is about.
LEMMA OldestWrite ==
    ASSUME TypeOK, NEW d \in Devices, queue[d] # <<>>
    PROVE  /\ Head(queue[d]) \in Write
           /\ Head(queue[d]) = queue[d][1]
           /\ 1 \in 1..Len(queue[d])
           /\ Head(queue[d]).post \in PostIds
           /\ Head(queue[d]).op \in PostOps => Knows(d, Head(queue[d]).post)
<1>1. queue[d] \in Seq(Write) /\ Len(queue[d]) \in Nat
  BY LenProperties DEF TypeOK
<1>2. /\ Head(queue[d]) \in Write
      /\ Head(queue[d]) = queue[d][1]
      /\ Len(queue[d]) # 0
  BY <1>1, HeadTailProperties, EmptySeq
<1>3. Head(queue[d]).post \in PostIds
  BY <1>2 DEF Write
<1> QED
  BY <1>1, <1>2, <1>3 DEF Knows

LEMMA NoResurrectionStep ==
    ASSUME LifeInv, NEW d \in Devices, PostStep(d)
    PROVE  NoResurrection'
<1>0. TypeOK
  BY DEF LifeInv, CommentsInv
<1>1. CASE UNCHANGED <<posts, deleted>>
  BY <1>1 DEF LifeInv, NoResurrection
<1>2. CASE Dequeued(d) /\ ~UNCHANGED <<posts, deleted>>
  <2> DEFINE w == Head(queue[d])
  <2>1. /\ w = queue[d][1] /\ 1 \in 1..Len(queue[d])
        /\ w.post \in PostIds
    BY <1>0, <1>2, OldestWrite DEF Dequeued
  <2>2. Creates(d, 1, w.post) => Private(d, 1, w.post)
    BY <2>1 DEF LifeInv, CreationsPrivate
  <2> HIDE DEF w
  <2>3. CASE /\ w.op \in {"setPost", "updatePost"} /\ Accepted(w)
             /\ posts' = [posts EXCEPT ![w.post] = w.doc]
             /\ UNCHANGED deleted
    <3>1. w.post \notin deleted
      BY <2>1, <2>2, <2>3
         DEF Creates, Private, Accepted, LifeInv, NoResurrection
    <3> QED
      BY <1>0, <2>3, <3>1 DEF LifeInv, NoResurrection, TypeOK
  <2>4. CASE /\ w.op = "deletePost"
             /\ posts' = [posts EXCEPT ![w.post] = None]
             /\ deleted' = deleted \cup {w.post}
    BY <1>0, <2>1, <2>4 DEF LifeInv, NoResurrection, TypeOK
  <2> QED
    BY <1>2, <2>3, <2>4 DEF Dequeued, Settled, w
<1> QED
  BY <1>1, <1>2 DEF PostStep, Held, Enqueued

LEMMA NewIdsStep ==
    ASSUME LifeInv, NEW d \in Devices, PostStep(d), CopiesLearned(d)
    PROVE  NewIdsUnknown'
<1>0. TypeOK
  BY DEF LifeInv, CommentsInv
<1> SUFFICES ASSUME NEW p \in PostIds, p \notin usedIds'
             PROVE  /\ posts'[p] = None /\ p \notin deleted'
                    /\ \A e \in Devices : ~Knows(e, p)'
  BY DEF NewIdsUnknown
<1>1. /\ p \notin usedIds
      /\ posts[p] = None /\ p \notin deleted
      /\ \A e \in Devices : ~Knows(e, p)
  BY DEF CopiesLearned, LifeInv, NewIdsUnknown
<1>2. \A e \in Devices : ~Knows(e, p)'
  BY <1>0, <1>1, WhoKnows DEF Learned
<1>3. CASE UNCHANGED <<posts, deleted>>
  BY <1>1, <1>2, <1>3
<1>4. CASE Dequeued(d) /\ ~UNCHANGED <<posts, deleted>>
  <2>1. Head(queue[d]).op \in PostOps /\ queue[d] # <<>>
    BY <1>4 DEF Dequeued, Settled, PostOps
  <2>2. Head(queue[d]).post # p
    BY <1>0, <1>1, <2>1, OldestWrite
  <2> QED
    BY <1>0, <1>1, <1>2, <1>4, <2>2 DEF Dequeued, Settled, TypeOK
<1> QED
  BY <1>3, <1>4 DEF PostStep, Held, Enqueued

\* A creation that stays in the queue of e at the place i1 is private still,
\* if what stands around it is as before.
LEMMA PrivateStays ==
    ASSUME LifeInv, NEW d \in Devices, PostStep(d), CopiesLearned(d),
           NEW e \in Devices, NEW p \in PostIds,
           NEW i0 \in 1..Len(queue[e]), NEW i1 \in 1..Len(queue'[e]),
           Creates(e, i0, p), e # d \/ ~Dequeued(d) \/ i0 # 1,
           queue'[e][i1].doc = queue[e][i0].doc,
           \A j \in 1..Len(queue'[e]) :
              /\ queue'[e][j].op \in PostOps
              /\ queue'[e][j].post = p
              /\ j # i1
              => j > i1 /\ queue'[e][j].op # "setPost"
    PROVE  Private(e, i1, p)'
<1>0. TypeOK
  BY DEF LifeInv, CommentsInv
<1>1. Private(e, i0, p)
  BY DEF LifeInv, CreationsPrivate
<1>2. p \in usedIds
  <2>1. Knows(e, p)
    BY DEF Creates, Knows, PostOps
  <2> QED
    BY <2>1, KnownIsUsed
<1>3. \A f \in Devices \ {e} : ~Knows(f, p)'
  BY <1>0, <1>1, <1>2, WhoKnows DEF Private, Learned
<1>4. posts'[p] = None /\ p \notin deleted'
  <2>1. CASE UNCHANGED <<posts, deleted>>
    BY <1>1, <2>1 DEF Private
  <2>2. CASE Dequeued(d) /\ ~UNCHANGED <<posts, deleted>>
    <3> DEFINE w == Head(queue[d])
    <3>1. w.op \in PostOps /\ queue[d] # <<>>
      BY <2>2 DEF Dequeued, Settled, PostOps
    <3>2. /\ w = queue[d][1] /\ 1 \in 1..Len(queue[d])
          /\ Knows(d, w.post)
          /\ Len(queue[d]) \in Nat
      BY <1>0, <3>1, OldestWrite, LenProperties DEF TypeOK
    <3>3. w.post # p
      <4>1. CASE e # d
        BY <1>1, <3>2, <4>1 DEF Private
      <4>2. CASE e = d
        <5>1. i0 # 1 /\ ~(1 > i0)
          BY <2>2, <3>2, <4>2
        <5> QED
          BY <1>1, <3>1, <3>2, <4>2, <5>1 DEF Private
      <4> QED
        BY <4>1, <4>2
    <3> QED
      BY <1>0, <1>1, <2>2, <3>3 DEF Private, Dequeued, Settled, TypeOK
  <2> QED
    BY <2>1, <2>2 DEF PostStep, Held, Enqueued
<1> QED
  BY <1>1, <1>3, <1>4 DEF Private

LEMMA PrivateStep ==
    ASSUME LifeInv, NEW d \in Devices, PostStep(d), CopiesLearned(d),
           NEW e \in Devices
    PROVE  CreationsPrivate(e)'
<1>0. TypeOK
  BY DEF LifeInv, CommentsInv
<1> SUFFICES ASSUME NEW i \in 1..Len(queue'[e]), NEW p \in PostIds,
                    queue'[e][i].op = "setPost", queue'[e][i].post = p
             PROVE  Private(e, i, p)'
  BY DEF CreationsPrivate, Creates
<1>1. CASE e # d
  <2>1. queue'[e] = queue[e]
    BY <1>0, <1>1, QueueAfter
  <2>2. Creates(e, i, p) /\ i \in 1..Len(queue[e])
    BY <2>1 DEF Creates
  <2>3. Private(e, i, p)
    BY <2>2 DEF LifeInv, CreationsPrivate
  <2> QED
    BY <1>1, <2>1, <2>2, <2>3, PrivateStays DEF Private
<1>2. CASE e = d /\ Held(d)
  <2>1. /\ Len(queue'[d]) = Len(queue[d])
        /\ \A k \in 1..Len(queue[d]) :
              /\ queue'[d][k].op = queue[d][k].op
              /\ queue'[d][k].post = queue[d][k].post
              /\ queue'[d][k].doc = queue[d][k].doc
    BY <1>0, <1>2, QueueAfter
  <2>2. Creates(d, i, p) /\ i \in 1..Len(queue[d])
    BY <1>2, <2>1 DEF Creates
  <2>3. Private(d, i, p)
    BY <2>2 DEF LifeInv, CreationsPrivate
  <2>4. ~Dequeued(d)
    <3>1. Len(queue[d]) \in Nat
      BY <1>0, LenProperties DEF TypeOK
    <3> QED
      BY <1>0, <2>1, <3>1, QueueAfter
  <2>5. \A j \in 1..Len(queue'[d]) :
           queue'[d][j].op \in PostOps /\ queue'[d][j].post = p /\ j # i =>
               j > i /\ queue'[d][j].op # "setPost"
    BY <2>1, <2>3 DEF Private
  <2> QED
    BY <1>2, <2>1, <2>2, <2>4, <2>5, PrivateStays
<1>3. CASE e = d /\ Dequeued(d)
  <2>1. /\ Len(queue[d]) \in Nat \ {0}
        /\ Len(queue'[d]) = Len(queue[d]) - 1
        /\ \A k \in 1..Len(queue'[d]) : queue'[d][k] = queue[d][k + 1]
    BY <1>0, <1>3, QueueAfter
  <2>2. i + 1 \in 1..Len(queue[d]) /\ queue'[d][i] = queue[d][i + 1]
        /\ i + 1 # 1
    BY <1>3, <2>1
  <2>3. Creates(d, i + 1, p)
    BY <1>3, <2>2 DEF Creates
  <2>4. Private(d, i + 1, p)
    BY <2>2, <2>3 DEF LifeInv, CreationsPrivate
  <2>5. \A j \in 1..Len(queue'[d]) :
           queue'[d][j].op \in PostOps /\ queue'[d][j].post = p /\ j # i =>
               j > i /\ queue'[d][j].op # "setPost"
    <3> SUFFICES ASSUME NEW j \in 1..Len(queue'[d]),
                        queue'[d][j].op \in PostOps,
                        queue'[d][j].post = p, j # i
                 PROVE  j > i /\ queue'[d][j].op # "setPost"
      OBVIOUS
    <3>1. j + 1 \in 1..Len(queue[d]) /\ queue'[d][j] = queue[d][j + 1]
          /\ j + 1 # i + 1
      BY <1>3, <2>1
    <3>2. j + 1 > i + 1 /\ queue[d][j + 1].op # "setPost"
      BY <2>4, <3>1 DEF Private
    <3> QED
      BY <1>3, <3>1, <3>2
  <2> QED
    BY <1>3, <2>2, <2>3, <2>5, PrivateStays
<1>4. CASE e = d /\ Enqueued(d)
  <2>1. PICK w \in Write :
           /\ queue' = [queue EXCEPT ![d] = Append(@, w)]
           /\ w.op = "setPost" =>
                 /\ w.post \notin usedIds /\ w.post \in usedIds'
                 /\ w.doc.comments = {}
    BY <1>4 DEF Enqueued
  <2>2. /\ Len(queue[d]) \in Nat
        /\ Len(queue'[d]) = Len(queue[d]) + 1
        /\ \A k \in 1..Len(queue[d]) : queue'[d][k] = queue[d][k]
        /\ queue'[d][Len(queue[d]) + 1] = w
    BY <1>0, <2>1, QueueGrown
  <2>3. UNCHANGED <<posts, deleted>>
    BY <1>4 DEF Enqueued
  <2>4. ~Dequeued(d)
    BY <1>0, <2>2, QueueAfter
  <2>5. CASE i \in 1..Len(queue[d])
    <3>1. Creates(d, i, p) /\ queue'[d][i] = queue[d][i]
      BY <1>4, <2>2, <2>5 DEF Creates
    <3>2. Private(d, i, p)
      BY <2>5, <3>1 DEF LifeInv, CreationsPrivate
    <3>3. p \in usedIds
      <4>1. Knows(d, p)
        BY <2>5, <3>1 DEF Knows, PostOps, Creates
      <4> QED
        BY <4>1, KnownIsUsed
    <3>4. \A j \in 1..Len(queue'[d]) :
             queue'[d][j].op \in PostOps /\ queue'[d][j].post = p /\ j # i =>
                 j > i /\ queue'[d][j].op # "setPost"
      <4> SUFFICES ASSUME NEW j \in 1..Len(queue'[d]),
                          queue'[d][j].op \in PostOps,
                          queue'[d][j].post = p, j # i
                   PROVE  j > i /\ queue'[d][j].op # "setPost"
        OBVIOUS
      <4>1. CASE j \in 1..Len(queue[d])
        BY <2>2, <3>2, <4>1 DEF Private
      <4>2. CASE j = Len(queue[d]) + 1
        BY <2>1, <2>2, <2>5, <3>3, <4>2
      <4> QED
        BY <2>2, <4>1, <4>2
    <3> QED
      BY <1>4, <2>4, <2>5, <3>1, <3>4, PrivateStays
  <2>6. CASE i = Len(queue[d]) + 1
    <3>1. /\ p \notin usedIds /\ w.doc.comments = {} /\ queue'[d][i] = w
      BY <1>4, <2>1, <2>2, <2>6
    <3>2. /\ posts[p] = None /\ p \notin deleted
          /\ \A f \in Devices : ~Knows(f, p)
      BY <3>1 DEF LifeInv, NewIdsUnknown
    <3>3. \A f \in Devices \ {d} : ~Knows(f, p)'
      BY <1>0, <3>2, WhoKnows
    <3>4. \A j \in 1..Len(queue'[d]) :
             queue'[d][j].op \in PostOps /\ queue'[d][j].post = p => j = i
      BY <2>2, <2>6, <3>2 DEF Knows
    <3> QED
      BY <1>4, <2>3, <3>1, <3>2, <3>3, <3>4 DEF Private
  <2> QED
    BY <1>4, <2>2, <2>5, <2>6
<1> QED
  BY <1>1, <1>2, <1>3, <1>4 DEF PostStep

-----------------------------------------------------------------------------
(* Every action is such a step *)

\* A device sees only posts that are there or that it creates itself.
LEMMA ViewLearned ==
    ASSUME LifeInv, NEW d \in Devices, NEW p \in PostIds, View(d, p) # None
    PROVE  Knows(d, p) \/ posts[p] # None
<1> DEFINE last == LastOf(PostWrites(d, p, {"setPost", "deletePost"}))
<1>0. queue[d] \in Seq(Write)
  BY DEF LifeInv, CommentsInv, TypeOK
<1>1. Exists(d, p)
  BY DEF View
<1>2. CASE last = {}
  BY <1>1, <1>2 DEF Exists
<1>3. CASE last # {}
  <2>1. PICK i \in last : TRUE
    BY <1>3
  <2>2. /\ i \in 1..Len(queue[d])
        /\ queue[d][i].post = p
        /\ queue[d][i].op \in {"setPost", "deletePost"}
    BY <1>0, <2>1, LenProperties DEF LastOf, PostWrites
  <2> QED
    BY <2>2 DEF Knows, PostOps
<1> QED
  BY <1>2, <1>3

\* Steps that touch no post and no queue; steps that leave the copies alone or
\* drop them.
LEMMA SamePosts ==
    ASSUME NEW d, UNCHANGED <<posts, deleted, queue>>
    PROVE  PostStep(d)
BY DEF PostStep, Held

LEMMA FewerCopies ==
    ASSUME TypeOK, NEW d \in Devices, usedIds \subseteq usedIds',
           \A e \in Devices \ {d} : /\ list'[e] = list[e] /\ mPost'[e] = mPost[e]
                                    /\ reads'[e] = reads[e],
           \A p \in PostIds : list'[d][p] = list[d][p] \/ list'[d][p] = None,
           mPost'[d] = mPost[d] \/ mPost'[d] = None,
           \A s \in Slots : reads'[d][s] = reads[d][s] \/ reads'[d][s] = None
    PROVE  CopiesLearned(d)
<1>1. \A p \in PostIds : list'[d][p] # None => Knows(d, p)
  BY DEF Knows
<1>2. mPost'[d] # None => Knows(d, mPost[d].id) /\ mPost'[d] = mPost[d]
  BY DEF Knows
<1>3. \A s \in Slots : reads'[d][s] # None =>
         Knows(d, reads[d][s].id) /\ reads'[d][s] = reads[d][s]
  BY DEF Knows
<1> QED
  BY <1>1, <1>2, <1>3 DEF CopiesLearned, Learned

LEMMA SameCopiesLearned ==
    ASSUME TypeOK, NEW d \in Devices, usedIds \subseteq usedIds',
           UNCHANGED <<list, mPost, reads>>
    PROVE  CopiesLearned(d)
BY FewerCopies

\* Asking again for the post on the screen.
LEMMA GetPostLearned ==
    ASSUME TypeOK, NEW d \in Devices, mPost[d] # None,
           GetPost(d, mPost[d].id), UNCHANGED <<list, mPost, usedIds>>
    PROVE  CopiesLearned(d)
<1>1. PICK s \in Slots :
        reads' = [reads EXCEPT ![d][s] =
                     [id |-> mPost[d].id, served |-> FALSE, doc |-> None]]
  BY DEF GetPost
<1>2. Knows(d, mPost[d].id)
  BY DEF Knows
<1>3. \A r \in Slots : reads'[d][r] = reads[d][r]
                       \/ reads'[d][r].id = mPost[d].id
  BY <1>1 DEF TypeOK
<1>4. \A e \in Devices \ {d} : reads'[e] = reads[e]
  BY <1>1 DEF TypeOK
<1>5. \A r \in Slots : reads'[d][r] # None => Knows(d, reads'[d][r].id)
  BY <1>2, <1>3 DEF Knows
<1>6. \A p \in PostIds : list[d][p] # None => Knows(d, p)
  BY DEF Knows
<1> QED
  BY <1>2, <1>4, <1>5, <1>6 DEF CopiesLearned, Learned

\* A request that is about no post, or saves or deletes a known one.
LEMMA SendLife ==
    ASSUME NEW d, NEW w \in Write, Send(d, w), UNCHANGED <<posts, deleted>>,
           w.op # "setPost",
           w.op \in {"updatePost", "deletePost"} => Knows(d, w.post)
    PROVE  PostStep(d)
BY DEF PostStep, Enqueued, Send

LEMMA UserLife ==
    ASSUME UniqueIds, LifeInv, NEW d \in Devices, User(d)
    PROVE  PostStep(d) /\ CopiesLearned(d)
<1> USE DEF history, store, detail, ghosts
<1>0. TypeOK
  BY DEF LifeInv, CommentsInv
<1>1. CASE RefreshList(d)
  <2>1. PostStep(d)
    BY <1>1, SamePosts DEF RefreshList
  <2>2. /\ UNCHANGED <<mPost, reads, usedIds>>
        /\ \A e \in Devices \ {d} : list'[e] = list[e]
        /\ \A p \in PostIds : list'[d][p] = View(d, p)
    BY <1>0, <1>1 DEF RefreshList, TypeOK
  <2>3. \A p \in PostIds : list'[d][p] # None => Learned(d, p)
    BY <2>2, ViewLearned DEF Learned
  <2> QED
    BY <2>1, <2>2, <2>3 DEF CopiesLearned, Learned, Knows
<1>2. CASE OpenForm(d) \/ LikeTap(d) \/ EditTap(d)
  <2>1. UNCHANGED <<posts, deleted, queue, list, mPost, reads, usedIds>>
    BY <1>2 DEF OpenForm, LikeTap, EditTap
  <2> QED
    BY <1>0, <2>1, SamePosts, SameCopiesLearned
<1>3. CASE YCardTap(d)
  <2> DEFINE w == UserWrite("unionYCards", "UPDATE_USER_YCARD", mPost[d].id)
  <2>1. mPost[d].id \in PostIds
    BY <1>0, <1>3 DEF YCardTap, TypeOK, Copies
  <2>2. w \in Write /\ w.op = "unionYCards"
    BY <2>1, RequestTypes DEF Tags, LeakedTags, UserWrite
  <2>3. PostStep(d)
    BY <1>3, <2>2, SendLife DEF YCardTap
  <2> QED
    BY <1>0, <1>3, <2>3, SameCopiesLearned DEF YCardTap
<1>4. CASE DeleteTap(d)
  <2> DEFINE w == DeletePost(mPost[d].id)
  <2>1. mPost[d].id \in PostIds /\ mPost[d] # None
    BY <1>0, <1>4 DEF DeleteTap, TypeOK, Copies
  <2>2. w \in Write /\ w.op = "deletePost" /\ w.post = mPost[d].id
    BY <2>1, RequestTypes DEF DeletePost
  <2>3. Knows(d, w.post)
    BY <2>1, <2>2 DEF Knows
  <2>4. PostStep(d)
    BY <1>4, <2>2, <2>3, SendLife DEF DeleteTap
  <2> QED
    BY <1>0, <1>4, <2>4, SameCopiesLearned DEF DeleteTap
<1>5. CASE BackFromDetail(d)
  <2>1. /\ UNCHANGED <<posts, deleted, queue, list, reads, usedIds>>
        /\ mPost' = [mPost EXCEPT ![d] = None]
    BY <1>5 DEF BackFromDetail, CloseDetail
  <2>2. /\ mPost'[d] = None
        /\ \A e \in Devices \ {d} : mPost'[e] = mPost[e]
    BY <1>0, <2>1 DEF TypeOK
  <2> QED
    BY <1>0, <2>1, <2>2, SamePosts, FewerCopies
<1>6. CASE BackFromForm(d)
  <2>1. UNCHANGED <<posts, deleted, queue, list, mPost, usedIds>>
    BY <1>6 DEF BackFromForm, CloseForm
  <2>2. CASE scr[d] = "editForm"
    BY <1>0, <1>6, <2>1, <2>2, SamePosts, GetPostLearned
       DEF BackFromForm, CloseForm, TypeOK
  <2>3. CASE scr[d] # "editForm"
    BY <1>0, <1>6, <2>1, <2>3, SamePosts, SameCopiesLearned
       DEF BackFromForm, CloseForm
  <2> QED
    BY <2>2, <2>3
<1>7. ASSUME NEW p \in PostIds, OpenDetail(d, p)
      PROVE  PostStep(d) /\ CopiesLearned(d)
  <2>1. Knows(d, p)
    BY <1>7 DEF OpenDetail, Knows
  <2>2. /\ UNCHANGED <<posts, deleted, queue, list, usedIds>>
        /\ mPost' = [mPost EXCEPT ![d] = CopyOf(p, list[d][p])]
        /\ GetPost(d, p)
    BY <1>7 DEF OpenDetail
  <2>3. PICK s \in Slots :
          reads' = [reads EXCEPT ![d][s] =
                       [id |-> p, served |-> FALSE, doc |-> None]]
    BY <2>2 DEF GetPost
  <2>4. CopyOf(p, list[d][p]).id = p
    BY DEF CopyOf
  <2>5. /\ mPost'[d].id = p
        /\ \A e \in Devices \ {d} : mPost'[e] = mPost[e] /\ reads'[e] = reads[e]
        /\ \A r \in Slots : reads'[d][r] = reads[d][r] \/ reads'[d][r].id = p
    BY <1>0, <2>2, <2>3, <2>4 DEF TypeOK
  <2>6. \A r \in Slots : reads'[d][r] # None => Knows(d, reads'[d][r].id)
    BY <2>1, <2>5 DEF Knows
  <2>7. \A q \in PostIds : list'[d][q] # None => Knows(d, q)
    BY <2>2 DEF Knows
  <2>8. CopiesLearned(d)
    BY <2>1, <2>2, <2>5, <2>6, <2>7 DEF CopiesLearned, Learned
  <2> QED
    BY <2>2, <2>8, SamePosts
<1>8. ASSUME NEW c \in CommentIds, CommentTap(d, c)
      PROVE  PostStep(d) /\ CopiesLearned(d)
  <2> DEFINE w == SetComment(c, mPost[d].id)
             appended == [mPost[d] EXCEPT !.comments = @ \cup {c}]
  <2>1. mPost[d] \in Copies /\ mPost[d] # None
    BY <1>0, <1>8 DEF CommentTap, TypeOK
  <2>2. w \in Write /\ w.op = "setComment"
    BY <2>1, RequestTypes DEF SetComment, Copies
  <2>3. PostStep(d)
    BY <1>8, <2>2, SendLife DEF CommentTap
  <2>4. appended.id = mPost[d].id
    BY <2>1 DEF Copies
  <2>5. /\ mPost' = [mPost EXCEPT ![d] = appended]
        /\ UNCHANGED <<list, reads>> /\ usedIds' = usedIds \cup {c}
    BY <1>8 DEF CommentTap
  <2> HIDE DEF appended, w
  <2>6. /\ mPost'[d].id = mPost[d].id
        /\ \A e \in Devices \ {d} : mPost'[e] = mPost[e]
    BY <1>0, <2>4, <2>5 DEF TypeOK
  <2>7. /\ Knows(d, mPost[d].id)
        /\ \A q \in PostIds : list'[d][q] # None => Knows(d, q)
        /\ \A r \in Slots : reads'[d][r] # None => Knows(d, reads'[d][r].id)
    BY <2>1, <2>5 DEF Knows
  <2>8. CopiesLearned(d)
    BY <2>5, <2>6, <2>7 DEF CopiesLearned, Learned
  <2> QED
    BY <2>3, <2>8
<1>9. ASSUME NEW p \in PostIds, NEW a \in Users, CreateTap(d, p, a)
      PROVE  PostStep(d) /\ CopiesLearned(d)
  <2> DEFINE doc == [author |-> a, comments |-> {}]
             w   == SetPost(p, doc)
  <2>1. w \in Write /\ w.post = p /\ w.doc.comments = {} /\ w.op = "setPost"
    BY RequestTypes DEF SetPost, Docs
  <2>2. /\ p \notin usedIds /\ usedIds' = usedIds \cup {p}
        /\ Send(d, w)
        /\ UNCHANGED <<posts, deleted, list, mPost, reads>>
    BY <1>9 DEF CreateTap, NewId
  <2> HIDE DEF w
  <2>3. PostStep(d)
    BY <2>1, <2>2 DEF PostStep, Enqueued, Send
  <2> QED
    BY <1>0, <2>2, <2>3, SameCopiesLearned
<1>10. ASSUME NEW p \in PostIds, NEW a \in Users, EditPostTap(d, p, a)
       PROVE  PostStep(d) /\ CopiesLearned(d)
  <2> DEFINE doc == [author |-> a, comments |-> {}]
             w   == UpdatePost("UPDATE_POST_IN_POSTS", mPost[d], doc)
  <2>1. mPost[d] \in Copies /\ mPost[d] # None
    BY <1>0, <1>10 DEF EditPostTap, TypeOK
  <2>2. w \in Write
    BY <2>1, RequestTypes DEF Tags, FormTags, Docs
  <2>3. w.op = "updatePost" /\ w.post = mPost[d].id
    BY DEF UpdatePost
  <2>4. Knows(d, w.post)
    BY <2>1, <2>3 DEF Knows
  <2>5. PostStep(d)
    BY <1>10, <2>2, <2>3, <2>4, SendLife DEF EditPostTap
  <2> QED
    BY <1>0, <1>10, <2>5, SameCopiesLearned DEF EditPostTap
<1> QED
  BY <1>1, <1>2, <1>3, <1>4, <1>5, <1>6, <1>7, <1>8, <1>9, <1>10 DEF User

LEMMA AnswerLife ==
    ASSUME LifeInv, NEW d \in Devices, Answer(d)
    PROVE  PostStep(d) /\ CopiesLearned(d)
<1> USE DEF history, store, detail, ghosts
<1>0. TypeOK
  BY DEF LifeInv, CommentsInv
<1>1. CASE Populate(d) \/ Ignore(d)
  <2>1. UNCHANGED <<posts, deleted, queue, list, mPost, reads, usedIds>>
    BY <1>1 DEF Populate, Ignore
  <2> QED
    BY <1>0, <2>1, SamePosts, SameCopiesLearned
<1>2. ASSUME NEW s \in Slots, OnUpdateFields(d, s)
      PROVE  PostStep(d) /\ CopiesLearned(d)
  <2> DEFINE copy == CopyOf(reads[d][s].id, reads[d][s].doc)
  <2>1. copy.id = reads[d][s].id
    BY DEF CopyOf
  <2>2. /\ mPost' = IF scr[d] = "detail" THEN [mPost EXCEPT ![d] = copy]
                                        ELSE mPost
        /\ reads' = [reads EXCEPT ![d][s] = None]
        /\ reads[d][s] # None
        /\ UNCHANGED <<posts, deleted, queue, list, usedIds>>
    BY <1>2 DEF OnUpdateFields
  <2> HIDE DEF copy
  <2>3. /\ \A e \in Devices \ {d} : mPost'[e] = mPost[e] /\ reads'[e] = reads[e]
        /\ mPost'[d] = mPost[d] \/ mPost'[d].id = reads[d][s].id
        /\ \A r \in Slots : reads'[d][r] = reads[d][r] \/ reads'[d][r] = None
    BY <1>0, <2>1, <2>2 DEF TypeOK
  <2>4. /\ mPost'[d] # None => Knows(d, mPost'[d].id)
        /\ \A q \in PostIds : list'[d][q] # None => Knows(d, q)
        /\ \A r \in Slots : reads'[d][r] # None => Knows(d, reads'[d][r].id)
    BY <2>2, <2>3 DEF Knows
  <2>5. CopiesLearned(d)
    BY <2>2, <2>3, <2>4 DEF CopiesLearned, Learned
  <2> QED
    BY <2>2, <2>5, SamePosts
<1>3. CASE OnUpdateComment(d)
  <2> DEFINE w == UpdatePost("UPDATE_VALUE", mPost[d], mNew[d])
  <2>1. mPost[d] \in Copies /\ mNew[d] \in Copies /\ mPost[d] # None
    BY <1>0, <1>3 DEF OnUpdateComment, Receive, Registered, TypeOK, FormTags,
                      LeakedTags, ResumedTags
  <2>2. w \in Write
    BY <2>1, RequestTypes DEF Tags, ResumedTags
  <2>3. w.op = "updatePost" /\ w.post = mPost[d].id
    BY DEF UpdatePost
  <2>4. Knows(d, w.post)
    BY <2>1, <2>3 DEF Knows
  <2>5. PostStep(d)
    BY <1>3, <2>2, <2>3, <2>4, SendLife DEF OnUpdateComment
  <2> QED
    BY <1>0, <1>3, <2>5, SameCopiesLearned DEF OnUpdateComment
<1>4. CASE OnUpdateValue(d) \/ OnUpdateAfterYCard(d)
  <2>1. mPost[d] # None
    BY <1>0, <1>4 DEF OnUpdateValue, OnUpdateAfterYCard, Receive, Registered,
                      TypeOK, FormTags, LeakedTags, ResumedTags
  <2>2. /\ UNCHANGED <<posts, deleted, queue, list, mPost, usedIds>>
        /\ GetPost(d, mPost[d].id)
    BY <1>4 DEF OnUpdateValue, OnUpdateAfterYCard
  <2> QED
    BY <1>0, <2>1, <2>2, SamePosts, GetPostLearned
<1>5. CASE OnUpdateUserYCard(d)
  <2> DEFINE w == UpdatePost("UPDATE_POST_AFTER_YCARD", mPost[d], mPost[d])
  <2>1. mPost[d] \in Copies /\ mPost[d] # None
    BY <1>0, <1>5, NoneAssumption
       DEF OnUpdateUserYCard, Receive, Registered, TypeOK, FormTags,
           LeakedTags, ResumedTags
  <2>2. w \in Write
    BY <2>1, RequestTypes DEF Tags, LeakedTags
  <2>3. w.op = "updatePost" /\ w.post = mPost[d].id
    BY DEF UpdatePost
  <2>4. Knows(d, w.post)
    BY <2>1, <2>3 DEF Knows
  <2>5. PostStep(d)
    BY <1>5, <2>2, <2>3, <2>4, SendLife DEF OnUpdateUserYCard
  <2> QED
    BY <1>0, <1>5, <2>5, SameCopiesLearned DEF OnUpdateUserYCard
<1>6. CASE OnDeleteInPosts(d)
  <2> DEFINE w == UserWrite("removePosts", "DELETE_POST_IN_USERS", mPost[d].id)
  <2>1. mPost[d].id \in PostIds
    BY <1>0, <1>6 DEF OnDeleteInPosts, Receive, Registered, TypeOK, FormTags,
                      LeakedTags, ResumedTags, Copies
  <2>2. w \in Write /\ w.op = "removePosts"
    BY <2>1, RequestTypes DEF Tags, ResumedTags, UserWrite
  <2>3. PostStep(d)
    BY <1>6, <2>2, SendLife DEF OnDeleteInPosts
  <2> QED
    BY <1>0, <1>6, <2>3, SameCopiesLearned DEF OnDeleteInPosts
<1>7. CASE OnDeleteInUsers(d)
  <2>1. /\ UNCHANGED <<posts, deleted, queue, list, reads, usedIds>>
        /\ mPost' = [mPost EXCEPT ![d] = None]
    BY <1>7 DEF OnDeleteInUsers, CloseDetail
  <2>2. /\ mPost'[d] = None
        /\ \A e \in Devices \ {d} : mPost'[e] = mPost[e]
    BY <1>0, <2>1 DEF TypeOK
  <2> QED
    BY <1>0, <2>1, <2>2, SamePosts, FewerCopies
<1>8. CASE OnCreateInPosts(d)
  <2> DEFINE w == UserWrite("unionPosts", "UPDATE_POST_IN_USERS", formNew[d])
  <2>1. formNew[d] \in PostIds
    BY <1>0, <1>8 DEF OnCreateInPosts, TypeOK
  <2>2. w \in Write /\ w.op = "unionPosts"
    BY <2>1, RequestTypes DEF Tags, FormTags, UserWrite
  <2>3. PostStep(d)
    BY <1>8, <2>2, SendLife DEF OnCreateInPosts
  <2> QED
    BY <1>0, <1>8, <2>3, SameCopiesLearned DEF OnCreateInPosts
<1>9. CASE OnFormDone(d)
  <2>1. UNCHANGED <<posts, deleted, queue, list, mPost, usedIds>>
    BY <1>9 DEF OnFormDone
  <2>2. CASE scr[d] = "editForm"
    BY <1>0, <1>9, <2>1, <2>2, SamePosts, GetPostLearned
       DEF OnFormDone, CloseForm, TypeOK
  <2>3. CASE scr[d] # "editForm"
    BY <1>0, <1>9, <2>1, <2>3, SamePosts, SameCopiesLearned
       DEF OnFormDone, CloseForm
  <2> QED
    BY <2>2, <2>3
<1> QED
  BY <1>1, <1>2, <1>3, <1>4, <1>5, <1>6, <1>7, <1>8, <1>9 DEF Answer

LEMMA ServerLife ==
    ASSUME LifeInv, NEW d \in Devices, Server(d)
    PROVE  PostStep(d) /\ CopiesLearned(d)
<1> USE DEF history, store, detail, ghosts
<1>0. TypeOK
  BY DEF LifeInv, CommentsInv
<1>1. CASE CommitComment(d) \/ CommitUser(d) \/ Reject(d)
  <2>1. Dequeued(d)
    BY <1>1 DEF CommitComment, CommitUser, Reject, Dequeued, Settled,
                Complete, Oldest
  <2>2. UNCHANGED <<list, mPost, reads, usedIds>>
    BY <1>1 DEF CommitComment, CommitUser, Reject
  <2> QED
    BY <1>0, <2>1, <2>2, SameCopiesLearned DEF PostStep
<1>2. CASE CommitSave(d)
  <2>1. Dequeued(d)
    BY <1>2 DEF CommitSave, Dequeued, Settled, Complete, Oldest
  <2> QED
    BY <1>0, <1>2, <2>1, SameCopiesLearned DEF PostStep, CommitSave
<1>3. CASE CommitDelete(d)
  <2>1. Dequeued(d)
    BY <1>3 DEF CommitDelete, Dequeued, Settled, Complete, Oldest
  <2> QED
    BY <1>0, <1>3, <2>1, SameCopiesLearned DEF PostStep, CommitDelete
<1>4. ASSUME NEW s \in Slots, ServeRead(d, s)
      PROVE  PostStep(d) /\ CopiesLearned(d)
  <2> DEFINE view == View(d, reads[d][s].id)
  <2>1. reads[d][s] \in Read
    BY <1>0, <1>4 DEF ServeRead, TypeOK
  <2>2. reads' = [reads EXCEPT ![d][s].served = TRUE, ![d][s].doc = view]
    BY <1>4 DEF ServeRead
  <2> HIDE DEF view
  <2>3. /\ reads'[d][s].id = reads[d][s].id
        /\ \A r \in Slots : r # s => reads'[d][r] = reads[d][r]
        /\ \A e \in Devices \ {d} : reads'[e] = reads[e]
    BY <1>0, <2>1, <2>2 DEF TypeOK, Read
  <2>4. UNCHANGED <<posts, deleted, queue, list, mPost, usedIds>>
    BY <1>4 DEF ServeRead
  <2>5. reads[d][s] # None
    BY <1>4 DEF ServeRead
  <2>6. /\ mPost'[d] # None => Knows(d, mPost'[d].id)
        /\ \A q \in PostIds : list'[d][q] # None => Knows(d, q)
        /\ \A r \in Slots : reads'[d][r] # None => Knows(d, reads'[d][r].id)
    BY <2>3, <2>4, <2>5 DEF Knows
  <2>7. CopiesLearned(d)
    BY <2>3, <2>4, <2>6 DEF CopiesLearned, Learned
  <2> QED
    BY <2>4, <2>7, SamePosts
<1>5. ASSUME NEW s \in Slots, LoseRead(d, s)
      PROVE  PostStep(d) /\ CopiesLearned(d)
  <2>1. UNCHANGED <<posts, deleted, queue, list, mPost, usedIds>>
    BY <1>5 DEF LoseRead
  <2>2. /\ \A r \in Slots : reads'[d][r] = reads[d][r] \/ reads'[d][r] = None
        /\ \A e \in Devices \ {d} : reads'[e] = reads[e]
    BY <1>0, <1>5 DEF LoseRead, TypeOK
  <2> QED
    BY <1>0, <2>1, <2>2, SamePosts, FewerCopies
<1> QED
  BY <1>1, <1>2, <1>3, <1>4, <1>5 DEF Server

LEMMA DieLife ==
    ASSUME LifeInv, NEW d \in Devices, Die(d)
    PROVE  PostStep(d) /\ CopiesLearned(d)
<1>0. TypeOK
  BY DEF LifeInv, CommentsInv
<1>1. PostStep(d)
  BY DEF Die, PostStep, Held, ghosts, history
<1>2. /\ \A e \in Devices \ {d} : /\ list'[e] = list[e] /\ mPost'[e] = mPost[e]
                                  /\ reads'[e] = reads[e]
      /\ \A p \in PostIds : list'[d][p] = None
      /\ mPost'[d] = None
      /\ \A s \in Slots : reads'[d][s] = None
      /\ UNCHANGED usedIds
  BY <1>0 DEF Die, TypeOK, ghosts, history
<1> QED
  BY <1>0, <1>1, <1>2, FewerCopies

-----------------------------------------------------------------------------
(* Deleted posts stay deleted *)

LEMMA InitLife == Init => LifeInv
<1> SUFFICES ASSUME Init PROVE LifeInv
  OBVIOUS
<1>1. CommentsInv
  BY InitComments
<1>2. NoResurrection
  BY DEF Init, NoResurrection
<1>3. \A d \in Devices : Len(queue[d]) = 0
  BY EmptySeq DEF Init
<1>4. NewIdsUnknown
  <2>1. \A d \in Devices, p \in PostIds : ~Knows(d, p)
    BY <1>3 DEF Knows, Init
  <2> QED
    BY <2>1 DEF NewIdsUnknown, Init
<1>5. \A d \in Devices : CreationsPrivate(d)
  BY <1>3 DEF CreationsPrivate
<1> QED
  BY <1>1, <1>2, <1>4, <1>5 DEF LifeInv

LEMMA NextLife == UniqueIds /\ LifeInv /\ [Next]_vars => LifeInv'
<1> SUFFICES ASSUME UniqueIds, LifeInv, [Next]_vars PROVE LifeInv'
  OBVIOUS
<1>1. CommentsInv'
  BY NextComments DEF LifeInv
<1>2. CASE UNCHANGED vars
  <2>1. UNCHANGED <<posts, deleted, usedIds, list, mPost, reads, queue>>
    BY <1>2 DEF vars
  <2>2. NoResurrection'
    BY <2>1 DEF LifeInv, NoResurrection
  <2>3. NewIdsUnknown'
    BY <2>1 DEF LifeInv, NewIdsUnknown, Knows
  <2>4. \A d \in Devices : CreationsPrivate(d)'
    BY <2>1 DEF LifeInv, CreationsPrivate, Creates, Private, Knows
  <2> QED
    BY <1>1, <2>2, <2>3, <2>4 DEF LifeInv
<1>3. ASSUME NEW d \in Devices, User(d) \/ Answer(d) \/ Server(d) \/ Die(d)
      PROVE  LifeInv'
  <2>1. PostStep(d) /\ CopiesLearned(d)
    BY <1>3, UserLife, AnswerLife, ServerLife, DieLife
  <2>2. \A e \in Devices : CreationsPrivate(e)'
    BY <2>1, PrivateStep
  <2> QED
    BY <1>1, <2>1, <2>2, NoResurrectionStep, NewIdsStep DEF LifeInv
<1> QED
  BY <1>2, <1>3 DEF Next

\* A deleted post is never back, whatever saves of its copies are still on
\* their way and whoever made them (forum_update_post updates, so it fails on
\* a post that is gone), as long as no id is made twice.
THEOREM StaysDeleted == UniqueIds => (Spec => []NoResurrection)
<1> SUFFICES ASSUME UniqueIds PROVE Spec => []NoResurrection
  OBVIOUS
<1>1. LifeInv /\ [Next]_vars => LifeInv'
  BY NextLife
<1>2. Spec => []LifeInv
  BY <1>1, InitLife, PTL DEF Spec
<1>3. LifeInv => NoResurrection
  BY DEF LifeInv
<1> QED
  BY <1>2, <1>3, PTL

-----------------------------------------------------------------------------
(* The forum keeps its promise *)

LEMMA InitPromise == Init => Promise!Init
<1> SUFFICES ASSUME Init PROVE Promise!Init
  OBVIOUS
<1>1. {c \in CommentIds : comments[c] # None} = {}
  BY DEF Init
<1>2. \A p \in PostIds : posts[p] # None => posts[p].comments = {}
  BY DEF Init
<1>3. [p \in PostIds |-> IF posts[p] = None THEN {} ELSE posts[p].comments]
      = [p \in PostIds |-> {}]
  BY <1>2
<1>4. deleted = {} /\ failed = {}
  BY DEF Init
<1> QED
  BY <1>1, <1>3, <1>4 DEF Promise!Init

\* Steps that change no document and refuse nothing are not seen.
LEMMA UnseenSteps ==
    ASSUME UNCHANGED <<posts, deleted, comments, failed>>
    PROVE  UNCHANGED Promise!vars
BY DEF Promise!vars

LEMMA CommentPromise ==
    ASSUME LifeInv, NEW d \in Devices, CommitComment(d)
    PROVE  Promise!Next
<1> USE DEF store, ghosts, history
<1>0. TypeOK
  BY DEF LifeInv, CommentsInv
<1> DEFINE w == Head(queue[d])
<1>1. /\ queue[d] # <<>> /\ w.op = "setComment"
      /\ comments' = [comments EXCEPT ![w.comment] = w.post]
      /\ UNCHANGED <<posts, deleted, failed>>
  BY DEF CommitComment, Oldest
<1>2. /\ w.comment \in CommentIds /\ w.post # None
  BY <1>0, <1>1, OldestWrite, NoneAssumption DEF Write
<1> HIDE DEF w
<1>3. {c \in CommentIds : comments'[c] # None}
      = {c \in CommentIds : comments[c] # None} \cup {w.comment}
  BY <1>0, <1>1, <1>2 DEF TypeOK
<1>4. PICK c \in CommentIds : c = w.comment
  BY <1>2
<1>5. Promise!Comment(c)
  BY <1>1, <1>3, <1>4 DEF Promise!Comment
<1> QED
  BY <1>5 DEF Promise!Next

LEMMA SavePromise ==
    ASSUME LifeInv, NEW d \in Devices, CommitSave(d)
    PROVE  Promise!Next
<1> USE DEF store, ghosts, history
<1>0. TypeOK /\ SavesCovered(d)
  BY DEF LifeInv, CommentsInv
<1> DEFINE w == Head(queue[d])
           live == {p \in PostIds : posts[p] # None}
           listed == [p \in PostIds |->
                        IF posts[p] = None THEN {} ELSE posts[p].comments]
<1>1. /\ queue[d] # <<>> /\ w.op \in {"setPost", "updatePost"}
      /\ Accepted(w)
      /\ posts' = [posts EXCEPT ![w.post] = w.doc]
      /\ UNCHANGED <<comments, deleted, failed>>
  BY DEF CommitSave, Oldest
<1>2. /\ w \in Write /\ w = queue[d][1] /\ 1 \in 1..Len(queue[d])
      /\ w.post \in PostIds /\ w.doc \in Docs /\ w.doc # None
  BY <1>0, <1>1, OldestWrite, NoneAssumption DEF Write
<1>3. w.doc.comments \subseteq CommentIds
  BY <1>2 DEF Docs
<1>4. \A c \in w.doc.comments : Known(c)
  <2>1. \A c \in w.doc.comments : Known(c) \/ SentBefore(d, c, 1)
    BY <1>0, <1>1, <1>2 DEF SavesCovered
  <2>2. \A c : ~SentBefore(d, c, 1)
    BY DEF SentBefore
  <2> QED
    BY <2>1, <2>2
<1>5. Creates(d, 1, w.post) => Private(d, 1, w.post)
  BY <1>2 DEF LifeInv, CreationsPrivate
<1>6. w.op = "setPost" => /\ posts[w.post] = None /\ w.post \notin deleted
                          /\ w.doc.comments = {}
  BY <1>2, <1>5 DEF Creates, Private
<1>7. w.op = "updatePost" => posts[w.post] # None
  BY <1>1 DEF Accepted
<1> HIDE DEF w
<1>8. live' = live \cup {w.post}
  BY <1>0, <1>1, <1>2 DEF TypeOK
<1>9. listed' = [listed EXCEPT ![w.post] = w.doc.comments]
  BY <1>0, <1>1, <1>2 DEF TypeOK
<1>10. PICK p \in PostIds, cs \in SUBSET CommentIds :
          p = w.post /\ cs = w.doc.comments
  BY <1>2, <1>3
<1>11. CASE w.op = "setPost"
  <2>1. w.post \notin live \cup deleted
    BY <1>6, <1>11
  <2>2. listed' = [listed EXCEPT ![w.post] = {}]
    BY <1>6, <1>9, <1>11
  <2>3. Promise!Publish(p)
    BY <1>1, <1>8, <1>10, <2>1, <2>2 DEF Promise!Publish
  <2> QED
    BY <2>3 DEF Promise!Next
<1>12. CASE w.op = "updatePost"
  <2>1. w.post \in live /\ live' = live
    BY <1>2, <1>7, <1>8, <1>12
  <2>2. w.doc.comments
           \subseteq {c \in CommentIds : comments[c] # None} \cup failed
    BY <1>3, <1>4 DEF Known
  <2>3. Promise!Save(p, cs)
    BY <1>1, <1>9, <1>10, <2>1, <2>2 DEF Promise!Save
  <2> QED
    BY <2>3 DEF Promise!Next
<1> QED
  BY <1>1, <1>11, <1>12

LEMMA DeletePromise ==
    ASSUME LifeInv, NEW d \in Devices, CommitDelete(d)
    PROVE  Promise!Next
<1> USE DEF store, ghosts, history
<1>0. TypeOK
  BY DEF LifeInv, CommentsInv
<1> DEFINE w == Head(queue[d])
           live == {p \in PostIds : posts[p] # None}
           listed == [p \in PostIds |->
                        IF posts[p] = None THEN {} ELSE posts[p].comments]
<1>1. /\ queue[d] # <<>>
      /\ posts' = [posts EXCEPT ![w.post] = None]
      /\ deleted' = deleted \cup {w.post}
      /\ UNCHANGED <<comments, failed>>
  BY DEF CommitDelete, Oldest
<1>2. w.post \in PostIds
  BY <1>0, <1>1, OldestWrite
<1> HIDE DEF w
<1>3. live' = live \ {w.post}
  BY <1>0, <1>1, <1>2 DEF TypeOK
<1>4. listed' = [listed EXCEPT ![w.post] = {}]
  BY <1>0, <1>1, <1>2 DEF TypeOK
<1>5. PICK p \in PostIds : p = w.post
  BY <1>2
<1>6. Promise!Retire(p)
  BY <1>1, <1>3, <1>4, <1>5 DEF Promise!Retire
<1> QED
  BY <1>6 DEF Promise!Next

LEMMA RejectPromise ==
    ASSUME LifeInv, NEW d \in Devices, Reject(d)
    PROVE  Promise!Next \/ UNCHANGED Promise!vars
<1> USE DEF store, ghosts, history
<1>0. TypeOK
  BY DEF LifeInv, CommentsInv
<1> DEFINE w == Head(queue[d])
<1>1. /\ queue[d] # <<>>
      /\ failed' = CASE w.op = "setComment" -> failed \cup {w.comment}
                     [] w.op = "setPost"    -> failed \cup {w.post}
                     [] OTHER               -> failed
      /\ UNCHANGED <<posts, deleted, comments>>
  BY DEF Reject
<1>2. /\ w.op = "setComment" => w.comment \in CommentIds
      /\ w.post \in PostIds
  BY <1>0, <1>1, OldestWrite, NoneAssumption DEF Write
<1> HIDE DEF w
<1>3. CASE failed' = failed
  BY <1>1, <1>3, UnseenSteps
<1>4. ASSUME NEW x \in PostIds \cup CommentIds, failed' = failed \cup {x}
      PROVE  Promise!Next
  <2>1. Promise!Refuse(x)
    BY <1>1, <1>4 DEF Promise!Refuse
  <2> QED
    BY <2>1 DEF Promise!Next
<1>5. \/ failed' = failed
      \/ \E x \in PostIds \cup CommentIds : failed' = failed \cup {x}
  BY <1>1, <1>2
<1> QED
  BY <1>3, <1>4, <1>5

LEMMA NextPromise ==
    LifeInv /\ [Next]_vars => [Promise!Next]_(Promise!vars)
<1> SUFFICES ASSUME LifeInv, [Next]_vars
             PROVE  Promise!Next \/ UNCHANGED Promise!vars
  OBVIOUS
<1>1. CASE UNCHANGED vars
  BY <1>1, UnseenSteps DEF vars
<1>2. ASSUME NEW d \in Devices, User(d) \/ Answer(d) \/ Server(d) \/ Die(d)
      PROVE  Promise!Next \/ UNCHANGED Promise!vars
  <2> USE DEF store, ghosts, history
  <2>1. CASE User(d)
    <3>1. UNCHANGED <<posts, deleted, comments, failed>>
      BY <2>1 DEF User, RefreshList, OpenForm, LikeTap, YCardTap, DeleteTap,
                  EditTap, BackFromDetail, BackFromForm, OpenDetail,
                  CommentTap, CreateTap, EditPostTap
    <3> QED
      BY <3>1, UnseenSteps
  <2>2. CASE Answer(d)
    <3>1. UNCHANGED <<posts, deleted, comments, failed>>
      BY <2>2 DEF Answer, Populate, Ignore, OnUpdateFields, OnUpdateComment,
                  OnUpdateValue, OnUpdateUserYCard, OnUpdateAfterYCard,
                  OnDeleteInPosts, OnDeleteInUsers, OnCreateInPosts,
                  OnFormDone
    <3> QED
      BY <3>1, UnseenSteps
  <2>3. CASE Die(d)
    <3>1. UNCHANGED <<posts, deleted, comments, failed>>
      BY <2>3 DEF Die
    <3> QED
      BY <3>1, UnseenSteps
  <2>4. CASE CommitUser(d) \/ \E s \in Slots : ServeRead(d, s) \/ LoseRead(d, s)
    <3>1. UNCHANGED <<posts, deleted, comments, failed>>
      BY <2>4 DEF CommitUser, ServeRead, LoseRead
    <3> QED
      BY <3>1, UnseenSteps
  <2>5. CASE CommitComment(d)
    BY <2>5, CommentPromise
  <2>6. CASE CommitSave(d)
    BY <2>6, SavePromise
  <2>7. CASE CommitDelete(d)
    BY <2>7, DeletePromise
  <2>8. CASE Reject(d)
    BY <2>8, RejectPromise
  <2> QED
    BY <1>2, <2>1, <2>2, <2>3, <2>4, <2>5, <2>6, <2>7, <2>8 DEF Server
<1> QED
  BY <1>1, <1>2 DEF Next

\* The documents, as all devices together change them, behave as ForumPromise
\* says: a post is published once, saved only while it is there, gone for good
\* when it is deleted, and lists no comment that was not sent before.
THEOREM PromiseIsKept == UniqueIds => (Spec => KeepsPromise)
<1> SUFFICES ASSUME UniqueIds PROVE Spec => KeepsPromise
  OBVIOUS
<1>1. LifeInv /\ [Next]_vars => LifeInv'
  BY NextLife
<1>2. Spec => []LifeInv
  BY <1>1, InitLife, PTL DEF Spec
<1> QED
  BY <1>2, InitPromise, NextPromise, PTL DEF Spec, KeepsPromise, Promise!Spec

-----------------------------------------------------------------------------
(* The user who waits: what is on its way belongs to the post on screen *)

\* Device d shows a post, or the form that covers it.
OnPost(d) == scr[d] \in {"detail", "editForm"}

\* A write of d that may be in its queue: on a post's screen, none that
\* creates one, and no delete of another one.  A post leaves its author's list
\* after it was deleted.
Fits(d, w) ==
    /\ OnPost(d) =>
          /\ w.tag # "CREATE_POST_IN_POSTS"
          /\ w.tag = "DELETE_POST_IN_POSTS" => w.post = mPost[d].id
    /\ w.tag = "DELETE_POST_IN_POSTS" => w.op = "deletePost"
    /\ w.op = "removePosts" => w.post \in deleted

\* A result that may reach d: on a post's screen, a successful delete is of
\* this post.
FitsAck(d, a) ==
    OnPost(d) =>
       /\ a.tag # "CREATE_POST_IN_POSTS"
       /\ a.ok /\ a.tag = "DELETE_POST_IN_POSTS" => mPost[d].id \in deleted

\* The creating write of post p was answered, or stands among the first n of d.
Created(p) == posts[p] # None \/ p \in deleted \cup failed
CreatedBefore(d, p, n) == Created(p) \/ \E j \in 1..n : Creates(d, j, p)

Focus(d) ==
    /\ OnPost(d) => \A s \in Slots :
                       reads[d][s] # None => reads[d][s].id = mPost[d].id
    /\ mNew[d] # None => OnPost(d) /\ mNew[d].id = mPost[d].id
    /\ \A i \in 1..Len(queue[d]) : Fits(d, queue[d][i])
    /\ \A i \in 1..Len(acks[d]) : FitsAck(d, acks[d][i])

Made(d) ==
    /\ \A i \in 1..Len(queue[d]) :
          queue[d][i].op = "unionPosts" =>
              CreatedBefore(d, queue[d][i].post, i - 1)
    /\ scr[d] = "newForm" /\ formNew[d] # None =>
          CreatedBefore(d, formNew[d], Len(queue[d]))

PatientInv ==
    /\ TypeOK
    /\ \A d \in Devices : Focus(d) /\ Made(d)
    /\ ProfilePostsWereCreated

\* What a step of device d may do: nothing to the other devices, and to its
\* own screen, queue, results, reads, copy and form what the rest says.
OthersStay(d) ==
    /\ \A e \in Devices \ {d} :
          /\ scr'[e] = scr[e] /\ mPost'[e] = mPost[e] /\ mNew'[e] = mNew[e]
          /\ formNew'[e] = formNew[e] /\ queue'[e] = queue[e]
          /\ acks'[e] = acks[e] /\ reads'[e] = reads[e]
    /\ deleted \subseteq deleted'
    /\ \A p \in PostIds : Created(p) => Created(p)'

ScreenMove(d) == OnPost(d)' => OnPost(d) /\ mPost'[d].id = mPost[d].id

QueueMove(d) ==
    \/ queue' = queue
    \/ queue' = [queue EXCEPT ![d] = Orphaned(d)]
    \/ /\ queue[d] # <<>>
       /\ queue' = [queue EXCEPT ![d] = Tail(@)]
       /\ \A p \in PostIds : Creates(d, 1, p) => Created(p)'
    \/ \E w \in Write :
          /\ queue' = [queue EXCEPT ![d] = Append(@, w)]
          /\ Fits(d, w)
          /\ w.op = "unionPosts" => CreatedBefore(d, w.post, Len(queue[d]))

AckMove(d) ==
    \/ acks' = acks
    \/ acks' = [acks EXCEPT ![d] = <<>>]
    \/ acks[d] # <<>> /\ Handled(d)
    \/ \E a \in Ack : /\ acks' = [acks EXCEPT ![d] = Append(@, a)]
                      /\ FitsAck(d, a)'

ReadMove(d) ==
    \A s \in Slots :
        \/ reads'[d][s] = None
        \/ reads[d][s] # None /\ reads'[d][s].id = reads[d][s].id
        \/ reads'[d][s].id = mPost[d].id

NewMove(d) ==
    \/ mNew'[d] = None
    \/ OnPost(d)' /\ (mNew'[d] = mNew[d] \/ mNew'[d].id = mPost[d].id)

FormMove(d) ==
    scr'[d] = "newForm" /\ formNew'[d] # None =>
        \/ scr[d] = "newForm" /\ formNew'[d] = formNew[d]
        \/ CreatedBefore(d, formNew[d], Len(queue[d]))'

Move(d) ==
    /\ OthersStay(d) /\ ScreenMove(d) /\ QueueMove(d) /\ AckMove(d)
    /\ ReadMove(d) /\ NewMove(d) /\ FormMove(d)

-----------------------------------------------------------------------------
(* Such a step keeps the invariant *)

\* The places of a queue after its first element was taken, or one was added.
LEMMA Taken ==
    ASSUME NEW T, NEW q \in Seq(T), q # <<>>
    PROVE  /\ Len(q) \in Nat /\ Len(Tail(q)) \in Nat
           /\ Len(q) = Len(Tail(q)) + 1
           /\ 1 \in 1..Len(q) /\ Head(q) = q[1] /\ Head(q) \in T
           /\ \A i \in 1..Len(Tail(q)) :
                 i + 1 \in 1..Len(q) /\ Tail(q)[i] = q[i + 1]
<1>1. /\ Len(q) \in Nat /\ Len(q) # 0
  BY EmptySeq, LenProperties
<1>2. /\ Len(Tail(q)) = Len(q) - 1
      /\ \A i \in 1..Len(Tail(q)) : Tail(q)[i] = q[i + 1]
      /\ Head(q) = q[1] /\ Head(q) \in T
  BY HeadTailProperties
<1> QED
  BY <1>1, <1>2

LEMMA Added ==
    ASSUME NEW T, NEW q \in Seq(T), NEW x \in T
    PROVE  /\ Len(q) \in Nat
           /\ Len(Append(q, x)) = Len(q) + 1
           /\ \A i \in 1..Len(q) : Append(q, x)[i] = q[i]
           /\ Append(q, x)[Len(q) + 1] = x
BY AppendProperties, LenProperties

\* A device's writes name the same posts when nobody waits for them any more.
LEMMA OrphanedPosts ==
    ASSUME TypeOK, NEW d \in Devices
    PROVE  \A i \in 1..Len(queue[d]) : Orphaned(d)[i].post = queue[d][i].post
<1>1. queue[d] \in Seq(Write)
  BY DEF TypeOK
<1>2. \A i \in 1..Len(queue[d]) :
         Orphaned(d)[i] = [queue[d][i] EXCEPT !.tag = None]
  BY <1>1, LenProperties DEF Orphaned
<1>3. \A i \in 1..Len(queue[d]) :
         [queue[d][i] EXCEPT !.tag = None].post = queue[d][i].post
  BY <1>1, ElementOfSeq DEF Write
<1> QED
  BY <1>2, <1>3

LEMMA FocusMove ==
    ASSUME TypeOK, NEW d \in Devices, Focus(d), Move(d)
    PROVE  Focus(d)'
<1>0. queue[d] \in Seq(Write) /\ acks[d] \in Seq(Ack)
  BY DEF TypeOK
<1>1. /\ OnPost(d)' => OnPost(d) /\ mPost'[d].id = mPost[d].id
      /\ deleted \subseteq deleted'
  BY DEF Move, OthersStay, ScreenMove
<1>2. OnPost(d)' => \A s \in Slots :
         reads'[d][s] # None => reads'[d][s].id = mPost'[d].id
  BY DEF Move, ScreenMove, ReadMove, Focus
<1>3. mNew'[d] # None => OnPost(d)' /\ mNew'[d].id = mPost'[d].id
  <2>1. CASE mNew'[d] = None
    BY <2>1
  <2>2. CASE mNew'[d] # None
    BY <1>1, <2>2 DEF Move, NewMove, Focus
  <2> QED
    BY <2>1, <2>2
<1>4. (\A i \in 1..Len(queue[d]) : Fits(d, queue[d][i]))'
  <2>1. CASE queue' = queue
    BY <1>1, <2>1 DEF Focus, Fits
  <2>2. CASE queue' = [queue EXCEPT ![d] = Orphaned(d)]
    <3>1. queue'[d] = Orphaned(d)
      BY <2>2 DEF TypeOK
    <3>2. Len(Orphaned(d)) = Len(queue[d])
      BY OrphanedProperties
    <3>3. \A i \in 1..Len(queue[d]) : Orphaned(d)[i].tag = None
      <4> SUFFICES ASSUME NEW i \in 1..Len(queue[d])
                   PROVE  Orphaned(d)[i].tag = None
        OBVIOUS
      <4>1. Orphaned(d)[i] = [queue[d][i] EXCEPT !.tag = None]
        BY <1>0, LenProperties DEF Orphaned
      <4>2. queue[d][i] \in Write
        BY <1>0, ElementOfSeq
      <4> QED
        BY <4>1, <4>2 DEF Write
    <3>4. None # "CREATE_POST_IN_POSTS" /\ None # "DELETE_POST_IN_POSTS"
      BY NoneAssumption DEF Tags, ResumedTags, FormTags
    <3>5. \A i \in 1..Len(queue[d]) :
             /\ Orphaned(d)[i].op = queue[d][i].op
             /\ Orphaned(d)[i].post = queue[d][i].post
      BY OrphanedProperties, OrphanedPosts
    <3> QED
      BY <1>1, <3>1, <3>2, <3>3, <3>4, <3>5 DEF Focus, Fits
  <2>3. CASE queue[d] # <<>> /\ queue' = [queue EXCEPT ![d] = Tail(@)]
    <3>1. queue'[d] = Tail(queue[d])
      BY <2>3 DEF TypeOK
    <3>2. \A i \in 1..Len(Tail(queue[d])) :
             i + 1 \in 1..Len(queue[d]) /\ Tail(queue[d])[i] = queue[d][i + 1]
      BY <1>0, <2>3, Taken
    <3> QED
      BY <1>1, <3>1, <3>2 DEF Focus, Fits
  <2>4. ASSUME NEW w \in Write, Fits(d, w),
               queue' = [queue EXCEPT ![d] = Append(@, w)]
        PROVE  (\A i \in 1..Len(queue[d]) : Fits(d, queue[d][i]))'
    <3>1. queue'[d] = Append(queue[d], w)
      BY <2>4 DEF TypeOK
    <3>2. /\ Len(queue[d]) \in Nat
          /\ Len(Append(queue[d], w)) = Len(queue[d]) + 1
          /\ \A i \in 1..Len(queue[d]) : Append(queue[d], w)[i] = queue[d][i]
          /\ Append(queue[d], w)[Len(queue[d]) + 1] = w
      BY <1>0, Added
    <3>3. \A i \in 1..Len(queue[d]) + 1 :
             i \in 1..Len(queue[d]) \/ i = Len(queue[d]) + 1
      BY <3>2
    <3> QED
      BY <1>1, <2>4, <3>1, <3>2, <3>3 DEF Focus, Fits
  <2> QED
    BY <2>1, <2>2, <2>3, <2>4 DEF Move, QueueMove
<1>5. (\A i \in 1..Len(acks[d]) : FitsAck(d, acks[d][i]))'
  <2>1. CASE acks' = acks
    BY <1>1, <2>1 DEF Focus, FitsAck
  <2>2. CASE acks' = [acks EXCEPT ![d] = <<>>]
    <3>1. Len(acks'[d]) = 0
      BY <2>2 DEF TypeOK
    <3> QED
      BY <3>1
  <2>3. CASE acks[d] # <<>> /\ Handled(d)
    <3>1. acks'[d] = Tail(acks[d])
      BY <2>3 DEF TypeOK, Handled
    <3>2. \A i \in 1..Len(Tail(acks[d])) :
             i + 1 \in 1..Len(acks[d]) /\ Tail(acks[d])[i] = acks[d][i + 1]
      BY <1>0, <2>3, Taken
    <3> QED
      BY <1>1, <3>1, <3>2 DEF Focus, FitsAck
  <2>4. ASSUME NEW a \in Ack, FitsAck(d, a)',
               acks' = [acks EXCEPT ![d] = Append(@, a)]
        PROVE  (\A i \in 1..Len(acks[d]) : FitsAck(d, acks[d][i]))'
    <3>1. acks'[d] = Append(acks[d], a)
      BY <2>4 DEF TypeOK
    <3>2. /\ Len(acks[d]) \in Nat
          /\ Len(Append(acks[d], a)) = Len(acks[d]) + 1
          /\ \A i \in 1..Len(acks[d]) : Append(acks[d], a)[i] = acks[d][i]
          /\ Append(acks[d], a)[Len(acks[d]) + 1] = a
      BY <1>0, Added
    <3>3. \A i \in 1..Len(acks[d]) + 1 :
             i \in 1..Len(acks[d]) \/ i = Len(acks[d]) + 1
      BY <3>2
    <3> QED
      BY <1>1, <2>4, <3>1, <3>2, <3>3 DEF Focus, FitsAck
  <2> QED
    BY <2>1, <2>2, <2>3, <2>4 DEF Move, AckMove
<1> QED
  BY <1>2, <1>3, <1>4, <1>5 DEF Focus

\* Who stood before a place of the queue still does, or was answered.
LEMMA BeforeStays ==
    ASSUME TypeOK, NEW d \in Devices, Move(d)
    PROVE  /\ queue' = queue \/ queue' = [queue EXCEPT ![d] = Orphaned(d)] =>
                /\ Len(queue'[d]) = Len(queue[d])
                /\ \A i \in 1..Len(queue[d]) :
                      /\ queue'[d][i].op = queue[d][i].op
                      /\ queue'[d][i].post = queue[d][i].post
                /\ \A p \in PostIds, n \in 0..Len(queue[d]) :
                      CreatedBefore(d, p, n) => CreatedBefore(d, p, n)'
           /\ /\ queue[d] # <<>>
              /\ queue' = [queue EXCEPT ![d] = Tail(@)]
              /\ \A p \in PostIds : Creates(d, 1, p) => Created(p)'
              => \A p \in PostIds, n \in Nat :
                    CreatedBefore(d, p, n + 1) /\ n < Len(queue[d])
                        => CreatedBefore(d, p, n)'
           /\ \A w \in Write :
                queue' = [queue EXCEPT ![d] = Append(@, w)] =>
                  \A p \in PostIds, n \in 0..Len(queue[d]) :
                      CreatedBefore(d, p, n) => CreatedBefore(d, p, n)'
<1>0. queue[d] \in Seq(Write) /\ Len(queue[d]) \in Nat
  BY LenProperties DEF TypeOK
<1>1. \A p \in PostIds : Created(p) => Created(p)'
  BY DEF Move, OthersStay
<1>2. ASSUME queue' = queue \/ queue' = [queue EXCEPT ![d] = Orphaned(d)]
      PROVE  /\ Len(queue'[d]) = Len(queue[d])
             /\ \A i \in 1..Len(queue[d]) :
                   /\ queue'[d][i].op = queue[d][i].op
                   /\ queue'[d][i].post = queue[d][i].post
             /\ \A p \in PostIds, n \in 0..Len(queue[d]) :
                   CreatedBefore(d, p, n) => CreatedBefore(d, p, n)'
  <2>1. queue'[d] = queue[d] \/ queue'[d] = Orphaned(d)
    BY <1>2 DEF TypeOK
  <2>2. /\ Len(queue'[d]) = Len(queue[d])
        /\ \A i \in 1..Len(queue[d]) :
              /\ queue'[d][i].op = queue[d][i].op
              /\ queue'[d][i].post = queue[d][i].post
    BY <2>1, OrphanedProperties, OrphanedPosts
  <2> QED
    BY <1>0, <1>1, <2>2 DEF CreatedBefore, Creates
<1>3. ASSUME queue[d] # <<>>,
             queue' = [queue EXCEPT ![d] = Tail(@)],
             \A p \in PostIds : Creates(d, 1, p) => Created(p)',
             NEW p \in PostIds, NEW n \in Nat, n < Len(queue[d]),
             CreatedBefore(d, p, n + 1)
      PROVE  CreatedBefore(d, p, n)'
  <2>1. queue'[d] = Tail(queue[d])
    BY <1>3 DEF TypeOK
  <2>2. /\ Len(queue[d]) = Len(Tail(queue[d])) + 1
        /\ Len(Tail(queue[d])) \in Nat
        /\ Head(queue[d]) = queue[d][1]
        /\ \A i \in 1..Len(Tail(queue[d])) : Tail(queue[d])[i] = queue[d][i + 1]
    BY <1>0, <1>3, Taken
  <2>3. CASE Created(p)
    BY <1>1, <2>3 DEF CreatedBefore
  <2>4. ASSUME NEW j \in 1..(n + 1), Creates(d, j, p)
        PROVE  CreatedBefore(d, p, n)'
    <3>1. CASE j = 1
      BY <1>3, <2>2, <2>4, <3>1 DEF Creates, CreatedBefore
    <3>2. CASE j # 1
      <4>1. j - 1 \in 1..n /\ j - 1 \in 1..Len(Tail(queue[d]))
            /\ (j - 1) + 1 = j
        BY <1>3, <2>2, <2>4, <3>2
      <4>2. queue'[d][j - 1] = queue[d][j]
        BY <2>1, <2>2, <4>1
      <4>3. PICK k \in 1..n : k = j - 1
        BY <4>1
      <4>4. Creates(d, k, p)'
        BY <2>4, <4>2, <4>3 DEF Creates
      <4> QED
        BY <4>4 DEF CreatedBefore
    <3> QED
      BY <3>1, <3>2
  <2> QED
    BY <1>3, <2>3, <2>4 DEF CreatedBefore
<1>4. ASSUME NEW w \in Write, queue' = [queue EXCEPT ![d] = Append(@, w)],
             NEW p \in PostIds, NEW n \in 0..Len(queue[d]),
             CreatedBefore(d, p, n)
      PROVE  CreatedBefore(d, p, n)'
  <2>1. queue'[d] = Append(queue[d], w)
    BY <1>4 DEF TypeOK
  <2>2. \A i \in 1..Len(queue[d]) : queue'[d][i] = queue[d][i]
    BY <1>0, <2>1, Added
  <2> QED
    BY <1>0, <1>1, <1>4, <2>2 DEF CreatedBefore, Creates
<1> QED
  BY <1>2, <1>3, <1>4

LEMMA MadeMove ==
    ASSUME TypeOK, NEW d \in Devices, Made(d), Move(d), TypeOK'
    PROVE  Made(d)'
<1>0. /\ queue[d] \in Seq(Write) /\ Len(queue[d]) \in Nat
      /\ queue'[d] \in Seq(Write) /\ Len(queue'[d]) \in Nat
  BY LenProperties DEF TypeOK
<1>1. /\ \A i \in 1..Len(queue[d]) : queue[d][i].post \in PostIds
      /\ \A i \in 1..Len(queue'[d]) : queue'[d][i].post \in PostIds
      /\ formNew[d] # None => formNew[d] \in PostIds
  BY <1>0, ElementOfSeq DEF TypeOK, Write
<1>2. CASE queue' = queue \/ queue' = [queue EXCEPT ![d] = Orphaned(d)]
  <2>1. /\ Len(queue'[d]) = Len(queue[d])
        /\ \A i \in 1..Len(queue[d]) :
              /\ queue'[d][i].op = queue[d][i].op
              /\ queue'[d][i].post = queue[d][i].post
        /\ \A p \in PostIds, n \in 0..Len(queue[d]) :
              CreatedBefore(d, p, n) => CreatedBefore(d, p, n)'
    BY <1>2, BeforeStays
  <2>2. ASSUME NEW i \in 1..Len(queue'[d]), queue'[d][i].op = "unionPosts"
        PROVE  CreatedBefore(d, queue[d][i].post, i - 1)'
    <3>1. PICK p \in PostIds, n \in 0..Len(queue[d]) :
             p = queue[d][i].post /\ n = i - 1
      BY <1>0, <1>1, <2>1
    <3>2. CreatedBefore(d, p, n)'
      BY <2>1, <2>2, <3>1 DEF Made
    <3>3. p = queue'[d][i].post
      BY <2>1, <3>1
    <3> QED
      BY <3>1, <3>2, <3>3 DEF CreatedBefore
  <2>3. ASSUME scr'[d] = "newForm", formNew'[d] # None
        PROVE  CreatedBefore(d, formNew[d], Len(queue[d]))'
    <3>1. CASE scr[d] = "newForm" /\ formNew'[d] = formNew[d]
      <4>1. PICK p \in PostIds, n \in 0..Len(queue[d]) :
               p = formNew[d] /\ n = Len(queue[d])
        BY <1>0, <1>1, <2>3, <3>1
      <4>2. CreatedBefore(d, p, n)'
        BY <2>1, <2>3, <3>1, <4>1 DEF Made
      <4> QED
        BY <2>1, <3>1, <4>1, <4>2 DEF CreatedBefore
    <3> QED
      BY <2>3, <3>1 DEF Move, FormMove
  <2> QED
    BY <2>2, <2>3 DEF Made
<1>3. CASE /\ queue[d] # <<>>
           /\ queue' = [queue EXCEPT ![d] = Tail(@)]
           /\ \A p \in PostIds : Creates(d, 1, p) => Created(p)'
  <2>1. queue'[d] = Tail(queue[d])
    BY <1>3 DEF TypeOK
  <2>2. /\ Len(queue[d]) = Len(queue'[d]) + 1
        /\ \A i \in 1..Len(queue'[d]) :
              i + 1 \in 1..Len(queue[d]) /\ queue'[d][i] = queue[d][i + 1]
    <3>1. queue[d] \in Seq(Write) /\ queue[d] # <<>>
      BY <1>3 DEF TypeOK
    <3> QED
      BY <2>1, <3>1, Taken
  <2>3. \A p \in PostIds, n \in Nat :
           CreatedBefore(d, p, n + 1) /\ n < Len(queue[d])
               => CreatedBefore(d, p, n)'
    BY <1>3, BeforeStays
  <2>4. ASSUME NEW i \in 1..Len(queue'[d]), queue'[d][i].op = "unionPosts"
        PROVE  CreatedBefore(d, queue[d][i].post, i - 1)'
    <3>1. PICK p \in PostIds, n \in Nat : p = queue'[d][i].post /\ n = i - 1
      BY <1>0, <1>1
    <3>2. CreatedBefore(d, queue[d][i + 1].post, (i + 1) - 1)
      BY <2>2, <2>4 DEF Made
    <3>3. queue[d][i + 1].post = p /\ (i + 1) - 1 = n + 1 /\ n < Len(queue[d])
      BY <1>0, <2>2, <3>1
    <3>4. CreatedBefore(d, p, n + 1)
      BY <3>2, <3>3
    <3>5. CreatedBefore(d, p, n)'
      BY <2>3, <3>3, <3>4
    <3> QED
      BY <3>1, <3>5 DEF CreatedBefore
  <2>5. ASSUME scr'[d] = "newForm", formNew'[d] # None
        PROVE  CreatedBefore(d, formNew[d], Len(queue[d]))'
    <3>1. CASE scr[d] = "newForm" /\ formNew'[d] = formNew[d]
      <4>1. PICK p \in PostIds, n \in Nat :
               p = formNew[d] /\ n = Len(queue'[d])
        BY <1>0, <1>1, <2>5, <3>1
      <4>2. CreatedBefore(d, p, n + 1) /\ n < Len(queue[d])
        BY <1>0, <2>2, <2>5, <3>1, <4>1 DEF Made
      <4>3. CreatedBefore(d, p, n)'
        BY <2>3, <4>2
      <4> QED
        BY <3>1, <4>1, <4>3 DEF CreatedBefore
    <3> QED
      BY <2>5, <3>1 DEF Move, FormMove
  <2> QED
    BY <2>4, <2>5 DEF Made
<1>4. ASSUME NEW w \in Write, queue' = [queue EXCEPT ![d] = Append(@, w)],
             w.op = "unionPosts" => CreatedBefore(d, w.post, Len(queue[d]))
      PROVE  Made(d)'
  <2>1. queue'[d] = Append(queue[d], w)
    BY <1>4 DEF TypeOK
  <2>2. /\ Len(queue'[d]) = Len(queue[d]) + 1
        /\ \A i \in 1..Len(queue[d]) : queue'[d][i] = queue[d][i]
        /\ queue'[d][Len(queue[d]) + 1] = w
    BY <1>0, <2>1, Added
  <2>3. \A p \in PostIds, n \in 0..Len(queue[d]) :
           CreatedBefore(d, p, n) => CreatedBefore(d, p, n)'
    BY <1>4, BeforeStays
  <2>4. ASSUME NEW i \in 1..Len(queue'[d]), queue'[d][i].op = "unionPosts"
        PROVE  CreatedBefore(d, queue[d][i].post, i - 1)'
    <3>1. PICK p \in PostIds, n \in 0..Len(queue[d]) :
             p = queue'[d][i].post /\ n = i - 1
      BY <1>0, <1>1, <2>2
    <3>2. CreatedBefore(d, p, n)
      <4>1. CASE i \in 1..Len(queue[d])
        BY <2>2, <2>4, <3>1, <4>1 DEF Made
      <4>2. CASE i = Len(queue[d]) + 1
        <5>1. n = Len(queue[d]) /\ p = w.post
          BY <1>0, <2>2, <3>1, <4>2
        <5> QED
          BY <1>4, <2>2, <2>4, <4>2, <5>1
      <4> QED
        BY <1>0, <2>2, <4>1, <4>2
    <3>3. CreatedBefore(d, p, n)'
      BY <2>3, <3>2
    <3> QED
      BY <3>1, <3>3 DEF CreatedBefore
  <2>5. ASSUME scr'[d] = "newForm", formNew'[d] # None
        PROVE  CreatedBefore(d, formNew[d], Len(queue[d]))'
    <3>1. CASE scr[d] = "newForm" /\ formNew'[d] = formNew[d]
      <4>1. PICK p \in PostIds, n \in 0..Len(queue[d]) :
               p = formNew[d] /\ n = Len(queue[d])
        BY <1>0, <1>1, <2>5, <3>1
      <4>2. CreatedBefore(d, p, n)'
        BY <2>3, <2>5, <3>1, <4>1 DEF Made
      <4> QED
        BY <1>0, <2>2, <3>1, <4>1, <4>2 DEF CreatedBefore
    <3> QED
      BY <2>5, <3>1 DEF Move, FormMove
  <2> QED
    BY <2>4, <2>5 DEF Made
<1> QED
  BY <1>2, <1>3, <1>4 DEF Move, QueueMove

\* The devices that do not move.
LEMMA OthersMove ==
    ASSUME TypeOK, NEW d \in Devices, OthersStay(d),
           NEW e \in Devices \ {d}, Focus(e), Made(e)
    PROVE  Focus(e)' /\ Made(e)'
<1>1. /\ scr'[e] = scr[e] /\ mPost'[e] = mPost[e] /\ mNew'[e] = mNew[e]
      /\ formNew'[e] = formNew[e] /\ queue'[e] = queue[e]
      /\ acks'[e] = acks[e] /\ reads'[e] = reads[e]
      /\ deleted \subseteq deleted'
  BY DEF OthersStay
<1>2. \A p \in PostIds, n \in Nat :
         CreatedBefore(e, p, n) => CreatedBefore(e, p, n)'
  BY <1>1 DEF OthersStay, CreatedBefore, Creates
<1>3. queue[e] \in Seq(Write) /\ Len(queue[e]) \in Nat
  BY LenProperties DEF TypeOK
<1>4. /\ \A i \in 1..Len(queue[e]) : queue[e][i].post \in PostIds
      /\ formNew[e] # None => formNew[e] \in PostIds
  BY <1>3, ElementOfSeq DEF TypeOK, Write
<1>5. Focus(e)'
  BY <1>1 DEF Focus, Fits, FitsAck, OnPost
<1>6. ASSUME NEW i \in 1..Len(queue'[e]), queue'[e][i].op = "unionPosts"
      PROVE  CreatedBefore(e, queue[e][i].post, i - 1)'
  <2>1. PICK p \in PostIds, n \in Nat : p = queue[e][i].post /\ n = i - 1
    BY <1>1, <1>3, <1>4
  <2>2. CreatedBefore(e, p, n)
    BY <1>1, <1>6, <2>1 DEF Made
  <2> QED
    BY <1>1, <1>2, <2>1, <2>2 DEF CreatedBefore
<1>7. ASSUME scr'[e] = "newForm", formNew'[e] # None
      PROVE  CreatedBefore(e, formNew[e], Len(queue[e]))'
  <2>1. PICK p \in PostIds, n \in Nat : p = formNew[e] /\ n = Len(queue[e])
    BY <1>1, <1>3, <1>4, <1>7
  <2>2. CreatedBefore(e, p, n)
    BY <1>1, <1>7, <2>1 DEF Made
  <2> QED
    BY <1>1, <1>2, <2>1, <2>2 DEF CreatedBefore
<1>8. Made(e)'
  BY <1>6, <1>7 DEF Made
<1> QED
  BY <1>5, <1>8

\* A post comes on the screen of a device that waits for nothing.
Arrival(d) ==
    /\ OthersStay(d)
    /\ scr'[d] = "detail"
    /\ queue'[d] = <<>> /\ acks'[d] = <<>>
    /\ mNew'[d] = None
    /\ \A s \in Slots : reads'[d][s] # None => reads'[d][s].id = mPost'[d].id

LEMMA PatientStep ==
    ASSUME TypeOK, TypeOK', \A e \in Devices : Focus(e) /\ Made(e),
           NEW d \in Devices, Move(d) \/ Arrival(d)
    PROVE  \A e \in Devices : Focus(e)' /\ Made(e)'
<1>1. OthersStay(d)
  BY DEF Move, Arrival
<1>2. Focus(d)' /\ Made(d)'
  <2>1. CASE Move(d)
    BY <2>1, FocusMove, MadeMove
  <2>2. CASE Arrival(d)
    <3>1. Len(queue'[d]) = 0 /\ Len(acks'[d]) = 0
      BY <2>2, EmptySeq DEF Arrival
    <3> QED
      BY <2>2, <3>1 DEF Arrival, Focus, Made
  <2> QED
    BY <2>1, <2>2
<1> QED
  BY <1>1, <1>2, OthersMove

-----------------------------------------------------------------------------
(* Every action is such a step *)

\* Steps that leave the posts alone.
LEMMA OthersSame ==
    ASSUME TypeOK, NEW d \in Devices, UNCHANGED <<posts, deleted, failed>>,
           \A e \in Devices \ {d} :
              /\ scr'[e] = scr[e] /\ mPost'[e] = mPost[e]
              /\ mNew'[e] = mNew[e] /\ formNew'[e] = formNew[e]
              /\ queue'[e] = queue[e] /\ acks'[e] = acks[e]
              /\ reads'[e] = reads[e]
    PROVE  OthersStay(d)
BY DEF OthersStay, Created

\* What a device asks for is the post on its screen.
LEMMA GetPostMove ==
    ASSUME TypeOK, NEW d \in Devices, NEW p, GetPost(d, p)
    PROVE  /\ \A s \in Slots : \/ reads'[d][s] = reads[d][s]
                               \/ reads'[d][s].id = p
           /\ \A e \in Devices \ {d} : reads'[e] = reads[e]
<1>1. PICK s \in Slots :
        reads' = [reads EXCEPT ![d][s] =
                     [id |-> p, served |-> FALSE, doc |-> None]]
  BY DEF GetPost
<1> QED
  BY <1>1 DEF TypeOK

\* Leaving the form, for the list or for the post it covered.
LEMMA CloseFormMove ==
    ASSUME TypeOK, NEW d \in Devices, Focus(d),
           UNCHANGED <<posts, deleted, failed, mPost, mNew, queue>>,
           scr[d] \in {"newForm", "editForm"}, CloseForm(d),
           AckMove(d), \A e \in Devices \ {d} : acks'[e] = acks[e]
    PROVE  Move(d)
<1>1. /\ scr'[d] = IF scr[d] = "editForm" THEN "detail" ELSE "list"
      /\ formNew'[d] = None
      /\ \A e \in Devices \ {d} : scr'[e] = scr[e] /\ formNew'[e] = formNew[e]
  BY DEF CloseForm, TypeOK
<1>2. /\ \A s \in Slots : reads'[d][s] = reads[d][s]
                          \/ reads'[d][s].id = mPost[d].id
      /\ \A e \in Devices \ {d} : reads'[e] = reads[e]
  BY GetPostMove DEF CloseForm
<1>3. OthersStay(d)
  BY <1>1, <1>2, OthersSame
<1>4. ScreenMove(d) /\ FormMove(d)
  BY <1>1 DEF ScreenMove, FormMove, OnPost
<1>5. ReadMove(d)
  BY <1>2 DEF ReadMove
<1>6. NewMove(d)
  BY <1>1 DEF NewMove, OnPost, Focus
<1> QED
  BY <1>3, <1>4, <1>5, <1>6 DEF Move, QueueMove

LEMMA UserMove ==
    ASSUME Patient, PatientInv, NEW d \in Devices, User(d)
    PROVE  Move(d) \/ Arrival(d)
<1> USE DEF history, store, detail, ghosts
<1>0. TypeOK /\ Focus(d) /\ Made(d)
  BY DEF PatientInv
<1> USE DEF Move, ScreenMove, QueueMove, AckMove, ReadMove, NewMove, FormMove
<1>1. CASE RefreshList(d)
  <2>1. UNCHANGED <<posts, deleted, failed, scr, mPost, mNew, formNew, queue,
                    acks, reads>>
    BY <1>1 DEF RefreshList
  <2>2. OthersStay(d)
    BY <1>0, <2>1, OthersSame
  <2> QED
    BY <1>0, <2>1, <2>2 DEF OnPost, Focus
<1>2. CASE OpenForm(d)
  <2>1. /\ UNCHANGED <<posts, deleted, failed, mPost, mNew, queue, acks, reads>>
        /\ scr[d] = "list"
        /\ scr' = [scr EXCEPT ![d] = "newForm"]
        /\ formNew' = [formNew EXCEPT ![d] = None]
    BY <1>2 DEF OpenForm
  <2>2. /\ scr'[d] = "newForm" /\ formNew'[d] = None
        /\ \A e \in Devices \ {d} : scr'[e] = scr[e] /\ formNew'[e] = formNew[e]
    BY <1>0, <2>1 DEF TypeOK
  <2>3. OthersStay(d)
    BY <1>0, <2>1, <2>2, OthersSame
  <2>4. mNew[d] = None
    BY <1>0, <2>1 DEF Focus, OnPost
  <2> QED
    BY <1>0, <2>1, <2>2, <2>3, <2>4 DEF OnPost, Focus
<1>3. CASE LikeTap(d)
  <2>1. /\ UNCHANGED <<posts, deleted, failed, scr, mPost, formNew, queue, acks,
                       reads>>
        /\ scr[d] = "detail"
        /\ mNew' = [mNew EXCEPT ![d] = mPost[d]]
    BY <1>3 DEF LikeTap
  <2>2. /\ mNew'[d] = mPost[d]
        /\ \A e \in Devices \ {d} : mNew'[e] = mNew[e]
    BY <1>0, <2>1 DEF TypeOK
  <2>3. OthersStay(d)
    BY <1>0, <2>1, <2>2, OthersSame
  <2> QED
    BY <1>0, <2>1, <2>2, <2>3 DEF OnPost, Focus
<1>4. CASE YCardTap(d)
  <2> DEFINE w == UserWrite("unionYCards", "UPDATE_USER_YCARD", mPost[d].id)
  <2>1. mPost[d].id \in PostIds
    BY <1>0, <1>4 DEF YCardTap, TypeOK, Copies
  <2>2. /\ w \in Write /\ w.op = "unionYCards"
        /\ w.tag = "UPDATE_USER_YCARD"
    BY <2>1, RequestTypes DEF Tags, LeakedTags, UserWrite
  <2>3. UNCHANGED <<posts, deleted, failed, scr, mPost, mNew, formNew, acks,
                    reads>>
        /\ queue' = [queue EXCEPT ![d] = Append(@, w)]
    BY <1>4 DEF YCardTap, Send
  <2> HIDE DEF w
  <2>4. Fits(d, w) /\ w.op # "unionPosts"
    BY <2>2 DEF Fits
  <2>5. OthersStay(d)
    BY <1>0, <2>3, OthersSame DEF TypeOK
  <2> QED
    BY <1>0, <2>2, <2>3, <2>4, <2>5 DEF OnPost, Focus
<1>5. CASE DeleteTap(d)
  <2> DEFINE w == DeletePost(mPost[d].id)
  <2>1. mPost[d].id \in PostIds
    BY <1>0, <1>5 DEF DeleteTap, TypeOK, Copies
  <2>2. /\ w \in Write /\ w.op = "deletePost" /\ w.post = mPost[d].id
        /\ w.tag = "DELETE_POST_IN_POSTS"
    BY <2>1, RequestTypes DEF DeletePost
  <2>3. UNCHANGED <<posts, deleted, failed, scr, mPost, mNew, formNew, acks,
                    reads>>
        /\ queue' = [queue EXCEPT ![d] = Append(@, w)]
    BY <1>5 DEF DeleteTap, Send
  <2> HIDE DEF w
  <2>4. Fits(d, w) /\ w.op # "unionPosts"
    BY <2>2 DEF Fits
  <2>5. OthersStay(d)
    BY <1>0, <2>3, OthersSame DEF TypeOK
  <2> QED
    BY <1>0, <2>2, <2>3, <2>4, <2>5 DEF OnPost, Focus
<1>6. CASE EditTap(d)
  <2>1. /\ UNCHANGED <<posts, deleted, failed, mPost, mNew, queue, acks, reads>>
        /\ scr[d] = "detail"
        /\ scr' = [scr EXCEPT ![d] = "editForm"]
        /\ formNew' = [formNew EXCEPT ![d] = None]
    BY <1>6 DEF EditTap
  <2>2. /\ scr'[d] = "editForm" /\ formNew'[d] = None
        /\ \A e \in Devices \ {d} : scr'[e] = scr[e] /\ formNew'[e] = formNew[e]
    BY <1>0, <2>1 DEF TypeOK
  <2>3. OthersStay(d)
    BY <1>0, <2>1, <2>2, OthersSame
  <2> QED
    BY <1>0, <2>1, <2>2, <2>3 DEF OnPost, Focus
<1>7. CASE BackFromDetail(d)
  <2>1. /\ UNCHANGED <<posts, deleted, failed, formNew, queue, acks, reads>>
        /\ CloseDetail(d)
    BY <1>7 DEF BackFromDetail
  <2>2. /\ scr'[d] = "list" /\ mNew'[d] = None
        /\ \A e \in Devices \ {d} : /\ scr'[e] = scr[e] /\ mNew'[e] = mNew[e]
                                    /\ mPost'[e] = mPost[e]
    BY <1>0, <2>1 DEF CloseDetail, TypeOK
  <2>3. OthersStay(d)
    BY <1>0, <2>1, <2>2, OthersSame
  <2> QED
    BY <1>0, <2>1, <2>2, <2>3 DEF OnPost, Focus
<1>8. CASE BackFromForm(d)
  <2>1. /\ UNCHANGED <<posts, deleted, failed, mPost, mNew, queue, acks>>
        /\ CloseForm(d)
        /\ scr[d] \in {"newForm", "editForm"}
    BY <1>8 DEF BackFromForm
  <2> QED
    BY <1>0, <2>1, CloseFormMove DEF AckMove
<1>9. ASSUME NEW p \in PostIds, OpenDetail(d, p) PROVE Arrival(d)
  <2>1. /\ UNCHANGED <<posts, deleted, failed, formNew, queue, acks>>
        /\ scr' = [scr EXCEPT ![d] = "detail"]
        /\ mPost' = [mPost EXCEPT ![d] = CopyOf(p, list[d][p])]
        /\ mNew' = [mNew EXCEPT ![d] = None]
        /\ GetPost(d, p)
    BY <1>9 DEF OpenDetail
  <2>2. /\ queue[d] = <<>> /\ acks[d] = <<>>
        /\ \A s \in Slots : reads[d][s] = None
    BY <1>9 DEF OpenDetail, Quiet
  <2>3. /\ \A s \in Slots : reads'[d][s] = reads[d][s] \/ reads'[d][s].id = p
        /\ \A e \in Devices \ {d} : reads'[e] = reads[e]
    BY <1>0, <2>1, GetPostMove
  <2>4. CopyOf(p, list[d][p]).id = p
    BY DEF CopyOf
  <2>5. /\ scr'[d] = "detail" /\ mNew'[d] = None /\ mPost'[d].id = p
        /\ \A e \in Devices \ {d} : /\ scr'[e] = scr[e] /\ mNew'[e] = mNew[e]
                                    /\ mPost'[e] = mPost[e]
    BY <1>0, <2>1, <2>4 DEF TypeOK
  <2>6. OthersStay(d)
    BY <1>0, <2>1, <2>3, <2>5, OthersSame
  <2> QED
    BY <2>1, <2>2, <2>3, <2>5, <2>6 DEF Arrival
<1>10. ASSUME NEW c \in CommentIds, CommentTap(d, c) PROVE Move(d)
  <2> DEFINE w == SetComment(c, mPost[d].id)
             appended == [mPost[d] EXCEPT !.comments = @ \cup {c}]
  <2>1. mPost[d] \in Copies /\ scr[d] = "detail"
    BY <1>0, <1>10 DEF CommentTap, TypeOK
  <2>2. w \in Write /\ w.op = "setComment" /\ w.tag = "UPDATE_COMMENT"
    BY <2>1, RequestTypes DEF SetComment, Copies
  <2>3. appended.id = mPost[d].id
    BY <2>1 DEF Copies
  <2>4. /\ mPost' = [mPost EXCEPT ![d] = appended]
        /\ mNew' = [mNew EXCEPT ![d] = appended]
        /\ UNCHANGED <<posts, deleted, failed, scr, formNew, acks, reads>>
        /\ queue' = [queue EXCEPT ![d] = Append(@, w)]
    BY <1>10 DEF CommentTap, Send
  <2> HIDE DEF appended, w
  <2>5. /\ mPost'[d].id = mPost[d].id /\ mNew'[d].id = mPost[d].id
        /\ \A e \in Devices \ {d} : /\ mPost'[e] = mPost[e]
                                    /\ mNew'[e] = mNew[e]
                                    /\ queue'[e] = queue[e]
    BY <1>0, <2>3, <2>4 DEF TypeOK
  <2>6. Fits(d, w) /\ w.op # "unionPosts"
    BY <2>2 DEF Fits
  <2>7. OthersStay(d)
    BY <1>0, <2>4, <2>5, OthersSame
  <2> QED
    BY <1>0, <2>1, <2>2, <2>4, <2>5, <2>6, <2>7 DEF OnPost, Focus
<1>11. ASSUME NEW p \in PostIds, NEW a \in Users, CreateTap(d, p, a)
       PROVE  Move(d)
  <2> DEFINE doc == [author |-> a, comments |-> {}]
             w   == SetPost(p, doc)
  <2>1. w \in Write /\ w.post = p /\ w.op = "setPost"
    BY RequestTypes DEF SetPost, Docs
  <2>2. /\ UNCHANGED <<posts, deleted, failed, scr, mPost, mNew, acks, reads>>
        /\ formNew' = [formNew EXCEPT ![d] = p]
        /\ queue' = [queue EXCEPT ![d] = Append(@, w)]
        /\ scr[d] = "newForm"
    BY <1>11 DEF CreateTap, Send
  <2> HIDE DEF w
  <2>3. /\ formNew'[d] = p /\ queue'[d] = Append(queue[d], w)
        /\ \A e \in Devices \ {d} : /\ formNew'[e] = formNew[e]
                                    /\ queue'[e] = queue[e]
    BY <1>0, <2>2 DEF TypeOK
  <2>4. OthersStay(d)
    BY <1>0, <2>2, <2>3, OthersSame
  <2>5. ~OnPost(d) /\ mNew[d] = None
    BY <1>0, <2>2 DEF Focus, OnPost
  <2>6. Fits(d, w) /\ w.op # "unionPosts"
    <3>1. w.tag # "DELETE_POST_IN_POSTS"
      BY DEF w, SetPost
    <3> QED
      BY <2>1, <2>5, <3>1 DEF Fits
  <2>7. CreatedBefore(d, formNew[d], Len(queue[d]))'
    <3>1. queue[d] \in Seq(Write)
      BY <1>0 DEF TypeOK
    <3>2. /\ Len(queue'[d]) = Len(queue[d]) + 1 /\ Len(queue[d]) \in Nat
          /\ queue'[d][Len(queue[d]) + 1] = w
      BY <2>1, <2>3, <3>1, Added
    <3>a. Len(queue[d]) + 1 \in 1..(Len(queue[d]) + 1)
      BY <3>2
    <3>b. Len(queue[d]) + 1 \in 1..Len(queue'[d])
      BY <3>2, <3>a
    <3>3. PICK n \in 1..Len(queue'[d]) : n = Len(queue[d]) + 1
      BY ONLY <3>b
    <3>4. Creates(d, n, formNew[d])'
      BY <2>1, <2>3, <3>2, <3>3 DEF Creates
    <3> QED
      BY <3>4 DEF CreatedBefore
  <2> QED
    BY <1>0, <2>1, <2>2, <2>4, <2>5, <2>6, <2>7 DEF OnPost, Focus
<1>12. ASSUME NEW p \in PostIds, NEW a \in Users, EditPostTap(d, p, a)
       PROVE  Move(d)
  <2> DEFINE doc == [author |-> a, comments |-> {}]
             w   == UpdatePost("UPDATE_POST_IN_POSTS", mPost[d], doc)
  <2>1. mPost[d] \in Copies /\ mPost[d] # None
    BY <1>0, <1>12 DEF EditPostTap, TypeOK
  <2>2. w \in Write
    BY <2>1, RequestTypes DEF Tags, FormTags, Docs
  <2>3. w.op = "updatePost" /\ w.tag = "UPDATE_POST_IN_POSTS"
    BY DEF UpdatePost
  <2>4. /\ UNCHANGED <<posts, deleted, failed, scr, mPost, mNew, acks, reads>>
        /\ formNew' = [formNew EXCEPT ![d] = p]
        /\ queue' = [queue EXCEPT ![d] = Append(@, w)]
        /\ scr[d] = "editForm"
    BY <1>12 DEF EditPostTap, Send
  <2> HIDE DEF w
  <2>5. \A e \in Devices \ {d} : /\ formNew'[e] = formNew[e]
                                 /\ queue'[e] = queue[e]
    BY <1>0, <2>4 DEF TypeOK
  <2>6. OthersStay(d)
    BY <1>0, <2>4, <2>5, OthersSame
  <2>7. Fits(d, w) /\ w.op # "unionPosts"
    BY <2>3 DEF Fits
  <2> QED
    BY <1>0, <2>2, <2>4, <2>6, <2>7 DEF OnPost, Focus
<1> QED
  BY <1>1, <1>2, <1>3, <1>4, <1>5, <1>6, <1>7, <1>8, <1>9, <1>10, <1>11,
     <1>12 DEF User

\* The oldest result of a device, and who is registered for it.
LEMMA OldestAck ==
    ASSUME TypeOK, NEW d \in Devices, Focus(d), acks[d] # <<>>
    PROVE  Head(acks[d]) \in Ack /\ FitsAck(d, Head(acks[d]))
<1>1. acks[d] \in Seq(Ack)
  BY DEF TypeOK
<1>2. /\ 1 \in 1..Len(acks[d]) /\ Head(acks[d]) = acks[d][1]
      /\ Head(acks[d]) \in Ack
  BY <1>1, Taken
<1> QED
  BY <1>2 DEF Focus

LEMMA AnswerMove ==
    ASSUME PatientInv, NEW d \in Devices, Answer(d)
    PROVE  Move(d)
<1> USE DEF history, store, detail, ghosts
<1>0. TypeOK /\ Focus(d) /\ Made(d)
  BY DEF PatientInv
<1> USE DEF Move, ScreenMove, QueueMove, AckMove, ReadMove, NewMove, FormMove
<1>1. CASE Populate(d)
  <2>1. UNCHANGED <<posts, deleted, failed, scr, mPost, mNew, formNew, queue,
                    acks, reads>>
    BY <1>1 DEF Populate
  <2>2. OthersStay(d)
    BY <1>0, <2>1, OthersSame
  <2> QED
    BY <1>0, <2>1, <2>2 DEF OnPost, Focus
<1>2. CASE Ignore(d)
  <2>1. /\ UNCHANGED <<posts, deleted, failed, scr, mPost, mNew, formNew, queue,
                       reads>>
        /\ acks[d] # <<>> /\ Handled(d)
    BY <1>2 DEF Ignore
  <2>2. OthersStay(d)
    BY <1>0, <2>1, OthersSame DEF Handled, TypeOK
  <2> QED
    BY <1>0, <2>1, <2>2 DEF OnPost, Focus
<1>3. ASSUME NEW s \in Slots, OnUpdateFields(d, s) PROVE Move(d)
  <2> DEFINE copy == CopyOf(reads[d][s].id, reads[d][s].doc)
  <2>1. copy.id = reads[d][s].id
    BY DEF CopyOf
  <2>2. /\ mPost' = IF scr[d] = "detail" THEN [mPost EXCEPT ![d] = copy]
                                        ELSE mPost
        /\ reads' = [reads EXCEPT ![d][s] = None]
        /\ reads[d][s] # None
        /\ UNCHANGED <<posts, deleted, failed, scr, mNew, formNew, queue, acks>>
    BY <1>3 DEF OnUpdateFields
  <2> HIDE DEF copy
  <2>3. /\ \A e \in Devices \ {d} : reads'[e] = reads[e]
        /\ \A r \in Slots : reads'[d][r] = reads[d][r] \/ reads'[d][r] = None
    <3>1. reads' = [reads EXCEPT ![d][s] = None]
      BY <2>2
    <3> QED
      BY <1>0, <3>1 DEF TypeOK
  <2>4. /\ \A e \in Devices \ {d} : mPost'[e] = mPost[e]
        /\ \/ mPost'[d] = mPost[d]
           \/ scr[d] = "detail" /\ mPost'[d].id = reads[d][s].id
    <3>1. CASE scr[d] = "detail"
      BY <1>0, <2>1, <2>2, <3>1 DEF TypeOK
    <3>2. CASE scr[d] # "detail"
      <4>1. mPost' = mPost
        BY <2>2, <3>2
      <4> QED
        BY <4>1
    <3> QED
      BY <3>1, <3>2
  <2>5. OthersStay(d)
    BY <1>0, <2>2, <2>3, <2>4, OthersSame
  <2> QED
    BY <1>0, <2>2, <2>3, <2>4, <2>5 DEF OnPost, Focus
<1>4. CASE OnUpdateComment(d)
  <2> DEFINE w == UpdatePost("UPDATE_VALUE", mPost[d], mNew[d])
  <2>1. mPost[d] \in Copies /\ mNew[d] \in Copies
    BY <1>0, <1>4 DEF OnUpdateComment, Receive, Registered, TypeOK, FormTags,
                      LeakedTags, ResumedTags
  <2>2. w \in Write
    BY <2>1, RequestTypes DEF Tags, ResumedTags
  <2>3. w.op = "updatePost" /\ w.tag = "UPDATE_VALUE"
    BY DEF UpdatePost
  <2>4. /\ UNCHANGED <<posts, deleted, failed, scr, mPost, mNew, formNew, reads>>
        /\ acks[d] # <<>> /\ Handled(d)
        /\ queue' = [queue EXCEPT ![d] = Append(@, w)]
    BY <1>4 DEF OnUpdateComment, Receive, Send
  <2> HIDE DEF w
  <2>5. OthersStay(d)
    BY <1>0, <2>4, OthersSame DEF Handled, TypeOK
  <2>6. Fits(d, w) /\ w.op # "unionPosts"
    BY <2>3 DEF Fits
  <2> QED
    BY <1>0, <2>2, <2>4, <2>5, <2>6 DEF OnPost, Focus
<1>5. CASE OnUpdateValue(d) \/ OnUpdateAfterYCard(d)
  <2>1. /\ UNCHANGED <<posts, deleted, failed, scr, mPost, mNew, formNew, queue>>
        /\ acks[d] # <<>> /\ Handled(d)
        /\ GetPost(d, mPost[d].id)
    BY <1>5 DEF OnUpdateValue, OnUpdateAfterYCard, Receive
  <2>2. /\ \A s \in Slots : reads'[d][s] = reads[d][s]
                            \/ reads'[d][s].id = mPost[d].id
        /\ \A e \in Devices \ {d} : reads'[e] = reads[e]
    BY <1>0, <2>1, GetPostMove
  <2>3. OthersStay(d)
    BY <1>0, <2>1, <2>2, OthersSame DEF Handled, TypeOK
  <2> QED
    BY <1>0, <2>1, <2>2, <2>3 DEF OnPost, Focus
<1>6. CASE OnUpdateUserYCard(d)
  <2> DEFINE w == UpdatePost("UPDATE_POST_AFTER_YCARD", mPost[d], mPost[d])
  <2>1. mPost[d] \in Copies /\ OnPost(d)
    BY <1>0, <1>6 DEF OnUpdateUserYCard, Receive, Registered, TypeOK, FormTags,
                      LeakedTags, ResumedTags, OnPost
  <2>2. w \in Write
    BY <2>1, RequestTypes DEF Tags, LeakedTags
  <2>3. w.op = "updatePost" /\ w.tag = "UPDATE_POST_AFTER_YCARD"
    BY DEF UpdatePost
  <2>4. /\ UNCHANGED <<posts, deleted, failed, scr, mPost, formNew, reads>>
        /\ acks[d] # <<>> /\ Handled(d)
        /\ queue' = [queue EXCEPT ![d] = Append(@, w)]
        /\ mNew' = [mNew EXCEPT ![d] = mPost[d]]
    BY <1>6 DEF OnUpdateUserYCard, Receive, Send
  <2> HIDE DEF w
  <2>5. mNew'[d] = mPost[d] /\ \A e \in Devices \ {d} : mNew'[e] = mNew[e]
    BY <1>0, <2>4 DEF TypeOK
  <2>6. OthersStay(d)
    BY <1>0, <2>4, <2>5, OthersSame DEF Handled, TypeOK
  <2>7. Fits(d, w) /\ w.op # "unionPosts"
    BY <2>3 DEF Fits
  <2> QED
    BY <1>0, <2>1, <2>2, <2>4, <2>5, <2>6, <2>7 DEF OnPost, Focus
<1>7. CASE OnDeleteInPosts(d)
  <2> DEFINE w == UserWrite("removePosts", "DELETE_POST_IN_USERS", mPost[d].id)
  <2>1. mPost[d].id \in PostIds /\ OnPost(d)
    BY <1>0, <1>7 DEF OnDeleteInPosts, Receive, Registered, TypeOK, FormTags,
                      LeakedTags, ResumedTags, Copies, OnPost
  <2>2. /\ w \in Write /\ w.op = "removePosts" /\ w.post = mPost[d].id
        /\ w.tag = "DELETE_POST_IN_USERS"
    BY <2>1, RequestTypes DEF Tags, ResumedTags, UserWrite
  <2>3. /\ UNCHANGED <<posts, deleted, failed, scr, mPost, mNew, formNew, reads>>
        /\ acks[d] # <<>> /\ Handled(d)
        /\ Head(acks[d]).tag = "DELETE_POST_IN_POSTS" /\ Head(acks[d]).ok
        /\ queue' = [queue EXCEPT ![d] = Append(@, w)]
    BY <1>7 DEF OnDeleteInPosts, Receive, Result, Send
  <2> HIDE DEF w
  <2>4. mPost[d].id \in deleted
    BY <1>0, <2>1, <2>3, OldestAck DEF FitsAck
  <2>5. OthersStay(d)
    BY <1>0, <2>3, OthersSame DEF Handled, TypeOK
  <2>6. Fits(d, w) /\ w.op # "unionPosts"
    BY <2>2, <2>4 DEF Fits
  <2> QED
    BY <1>0, <2>2, <2>3, <2>5, <2>6 DEF OnPost, Focus
<1>8. CASE OnDeleteInUsers(d)
  <2>1. /\ UNCHANGED <<posts, deleted, failed, formNew, queue, reads>>
        /\ acks[d] # <<>> /\ Handled(d)
        /\ CloseDetail(d)
    BY <1>8 DEF OnDeleteInUsers, Receive
  <2>2. /\ scr'[d] = "list" /\ mNew'[d] = None
        /\ \A e \in Devices \ {d} : /\ scr'[e] = scr[e] /\ mNew'[e] = mNew[e]
                                    /\ mPost'[e] = mPost[e]
    BY <1>0, <2>1 DEF CloseDetail, TypeOK
  <2>3. OthersStay(d)
    BY <1>0, <2>1, <2>2, OthersSame DEF Handled, TypeOK
  <2> QED
    BY <1>0, <2>1, <2>2, <2>3 DEF OnPost, Focus
<1>9. CASE OnCreateInPosts(d)
  <2> DEFINE w == UserWrite("unionPosts", "UPDATE_POST_IN_USERS", formNew[d])
  <2>1. formNew[d] \in PostIds /\ formNew[d] # None
    BY <1>0, <1>9 DEF OnCreateInPosts, TypeOK
  <2>2. /\ w \in Write /\ w.op = "unionPosts" /\ w.post = formNew[d]
        /\ w.tag = "UPDATE_POST_IN_USERS"
    BY <2>1, RequestTypes DEF Tags, FormTags, UserWrite
  <2>3. /\ UNCHANGED <<posts, deleted, failed, scr, mPost, mNew, formNew, reads>>
        /\ acks[d] # <<>> /\ Handled(d)
        /\ Head(acks[d]).tag = "CREATE_POST_IN_POSTS"
        /\ scr[d] \in {"newForm", "editForm"}
        /\ queue' = [queue EXCEPT ![d] = Append(@, w)]
    BY <1>9 DEF OnCreateInPosts, Receive, Registered, Send, ResumedTags,
                LeakedTags
  <2> HIDE DEF w
  <2>4. scr[d] = "newForm"
    BY <1>0, <2>3, OldestAck DEF FitsAck, OnPost
  <2>5. OthersStay(d)
    BY <1>0, <2>3, OthersSame DEF Handled, TypeOK
  <2>6. Fits(d, w)
    BY <2>2 DEF Fits
  <2>7. CreatedBefore(d, w.post, Len(queue[d]))
    BY <1>0, <2>1, <2>2, <2>4 DEF Made
  <2> QED
    BY <1>0, <2>2, <2>3, <2>5, <2>6, <2>7 DEF OnPost, Focus
<1>10. CASE OnFormDone(d)
  <2>1. /\ UNCHANGED <<posts, deleted, failed, mPost, mNew, queue>>
        /\ CloseForm(d)
        /\ acks[d] # <<>> /\ Handled(d)
        /\ scr[d] \in {"newForm", "editForm"}
    BY <1>10 DEF OnFormDone, Receive, Registered, ResumedTags, LeakedTags,
                 FormTags
  <2>2. \A e \in Devices \ {d} : acks'[e] = acks[e]
    BY <1>0, <2>1 DEF Handled, TypeOK
  <2> QED
    BY <1>0, <2>1, <2>2, CloseFormMove DEF AckMove
<1> QED
  BY <1>1, <1>2, <1>3, <1>4, <1>5, <1>6, <1>7, <1>8, <1>9, <1>10 DEF Answer

LEMMA DieMove ==
    ASSUME PatientInv, NEW d \in Devices, Die(d)
    PROVE  Move(d)
<1> USE DEF history, ghosts
<1>0. TypeOK
  BY DEF PatientInv
<1>1. /\ scr'[d] = "list" /\ mNew'[d] = None
      /\ \A s \in Slots : reads'[d][s] = None
      /\ queue' = [queue EXCEPT ![d] = Orphaned(d)]
      /\ acks' = [acks EXCEPT ![d] = <<>>]
      /\ UNCHANGED <<posts, deleted, failed>>
      /\ \A e \in Devices \ {d} :
            /\ scr'[e] = scr[e] /\ mPost'[e] = mPost[e]
            /\ mNew'[e] = mNew[e] /\ formNew'[e] = formNew[e]
            /\ queue'[e] = queue[e] /\ acks'[e] = acks[e]
            /\ reads'[e] = reads[e]
  BY <1>0 DEF Die, TypeOK
<1>2. OthersStay(d)
  BY <1>0, <1>1, OthersSame
<1> QED
  BY <1>1, <1>2 DEF Move, ScreenMove, QueueMove, AckMove, ReadMove, NewMove,
                    FormMove, OnPost

\* The oldest write is answered.
LEMMA CompleteMove ==
    ASSUME TypeOK, NEW d \in Devices, Focus(d), queue[d] # <<>>,
           NEW ok \in BOOLEAN, Complete(d, ok), UNCHANGED <<scr, mPost>>,
           deleted \subseteq deleted',
           ok /\ Head(queue[d]).op = "deletePost" =>
               Head(queue[d]).post \in deleted'
    PROVE  /\ AckMove(d)
           /\ \A e \in Devices \ {d} : queue'[e] = queue[e] /\ acks'[e] = acks[e]
<1>0. queue[d] \in Seq(Write)
  BY DEF TypeOK
<1>1. /\ 1 \in 1..Len(queue[d]) /\ Head(queue[d]) = queue[d][1]
      /\ Head(queue[d]) \in Write
  BY <1>0, Taken
<1>2. PICK w \in Write : w = Head(queue[d])
  BY <1>1
<1>3. Fits(d, w)
  BY <1>1, <1>2 DEF Focus
<1>4. CASE w.tag = None
  BY <1>2, <1>4 DEF Complete, AckMove, TypeOK
<1>5. CASE w.tag # None
  <2>1. [tag |-> w.tag, ok |-> ok] \in Ack
    BY DEF Write, Ack
  <2>2. PICK a \in Ack : a = [tag |-> w.tag, ok |-> ok]
    BY <2>1
  <2>3. /\ acks' = [acks EXCEPT ![d] = Append(@, a)]
        /\ queue' = [queue EXCEPT ![d] = Tail(@)]
    BY <1>2, <1>5, <2>2 DEF Complete
  <2>4. a.tag = w.tag /\ a.ok = ok
    BY <2>2
  <2>5. FitsAck(d, a)'
    BY <1>2, <1>3, <2>4 DEF Fits, FitsAck, OnPost
  <2> QED
    BY <2>3, <2>5 DEF AckMove, TypeOK
<1> QED
  BY <1>4, <1>5

\* An answered write changes no screen.
LEMMA ServedMove ==
    ASSUME TypeOK, NEW d \in Devices, Focus(d), queue[d] # <<>>,
           NEW ok \in BOOLEAN, Complete(d, ok),
           UNCHANGED <<scr, mPost, mNew, formNew, reads>>,
           deleted \subseteq deleted',
           ok /\ Head(queue[d]).op = "deletePost" =>
               Head(queue[d]).post \in deleted',
           \A p \in PostIds : Created(p) => Created(p)',
           \A p \in PostIds : Creates(d, 1, p) => Created(p)'
    PROVE  Move(d)
<1>1. /\ AckMove(d)
      /\ \A e \in Devices \ {d} : queue'[e] = queue[e] /\ acks'[e] = acks[e]
  BY CompleteMove
<1>2. OthersStay(d)
  BY <1>1 DEF OthersStay
<1>3. QueueMove(d)
  BY DEF QueueMove, Complete
<1> QED
  BY <1>1, <1>2, <1>3
     DEF Move, ScreenMove, ReadMove, NewMove, FormMove, OnPost, Focus

LEMMA ServerMove ==
    ASSUME PatientInv, NEW d \in Devices, Server(d)
    PROVE  Move(d)
<1> USE DEF history, store, detail, ghosts
<1>0. TypeOK /\ Focus(d) /\ Made(d)
  BY DEF PatientInv
<1>1. queue[d] # <<>> =>
         /\ Head(queue[d]) = queue[d][1] /\ Head(queue[d]) \in Write
  <2>1. queue[d] \in Seq(Write)
    BY <1>0 DEF TypeOK
  <2> QED
    BY <2>1, Taken
<1>2. CASE CommitComment(d) \/ CommitUser(d)
  <2>1. /\ queue[d] # <<>> /\ Complete(d, TRUE)
        /\ Head(queue[d]).op \notin {"deletePost", "setPost"}
        /\ UNCHANGED <<posts, deleted, failed, scr, mPost, mNew, formNew, reads>>
    BY <1>2 DEF CommitComment, CommitUser, Oldest
  <2>2. \A p \in PostIds : Created(p) => Created(p)'
    BY <2>1 DEF Created
  <2>3. \A p \in PostIds : ~Creates(d, 1, p)
    BY <1>1, <2>1 DEF Creates
  <2> QED
    BY <1>0, <2>1, <2>2, <2>3, ServedMove
<1>3. CASE CommitSave(d)
  <2> DEFINE w == Head(queue[d])
  <2>1. /\ queue[d] # <<>> /\ Complete(d, TRUE)
        /\ w.op \in {"setPost", "updatePost"}
        /\ posts' = [posts EXCEPT ![w.post] = w.doc]
        /\ UNCHANGED <<deleted, failed, scr, mPost, mNew, formNew, reads>>
    BY <1>3 DEF CommitSave, Oldest
  <2>2. w.doc # None /\ w.post \in PostIds
    BY <1>1, <2>1 DEF Write
  <2>3. \A p \in PostIds : Creates(d, 1, p) => w.post = p
    BY <1>1, <2>1 DEF Creates
  <2>4. w.op # "deletePost"
    BY <2>1
  <2>5. Complete(d, TRUE) /\ Head(queue[d]).op # "deletePost"
    BY <2>1, <2>4
  <2> HIDE DEF w
  <2>6. \A p \in PostIds : /\ Created(p) => Created(p)'
                           /\ w.post = p => Created(p)'
    BY <1>0, <2>1, <2>2 DEF Created, TypeOK
  <2> QED
    BY <1>0, <2>1, <2>3, <2>5, <2>6, ServedMove
<1>4. CASE CommitDelete(d)
  <2> DEFINE w == Head(queue[d])
  <2>1. /\ queue[d] # <<>> /\ Complete(d, TRUE)
        /\ w.op = "deletePost"
        /\ posts' = [posts EXCEPT ![w.post] = None]
        /\ deleted' = deleted \cup {w.post}
        /\ UNCHANGED <<failed, scr, mPost, mNew, formNew, reads>>
    BY <1>4 DEF CommitDelete, Oldest
  <2>2. \A p \in PostIds : ~Creates(d, 1, p)
    BY <1>1, <2>1 DEF Creates
  <2>3. Head(queue[d]).post \in deleted'
    BY <2>1
  <2> HIDE DEF w
  <2>4. \A p \in PostIds : Created(p) => Created(p)'
    BY <1>0, <2>1 DEF Created, TypeOK
  <2> QED
    BY <1>0, <2>1, <2>2, <2>3, <2>4, ServedMove
<1>5. CASE Reject(d)
  <2> DEFINE w == Head(queue[d])
  <2>1. /\ queue[d] # <<>> /\ Complete(d, FALSE)
        /\ failed' = CASE w.op = "setComment" -> failed \cup {w.comment}
                       [] w.op = "setPost"    -> failed \cup {w.post}
                       [] OTHER               -> failed
        /\ UNCHANGED <<posts, deleted, scr, mPost, mNew, formNew, reads>>
    BY <1>5 DEF Reject
  <2>2. \A p \in PostIds : Creates(d, 1, p) => w.op = "setPost" /\ w.post = p
    BY <1>1, <2>1 DEF Creates
  <2> HIDE DEF w
  <2>3. \A p \in PostIds : Created(p) => Created(p)'
    BY <2>1 DEF Created
  <2>4. \A p \in PostIds : Creates(d, 1, p) => Created(p)'
    BY <2>1, <2>2 DEF Created
  <2> QED
    BY <1>0, <2>1, <2>3, <2>4, ServedMove
<1>6. ASSUME NEW s \in Slots, ServeRead(d, s) \/ LoseRead(d, s) PROVE Move(d)
  <2>1. /\ UNCHANGED <<posts, deleted, failed, scr, mPost, mNew, formNew, queue,
                       acks>>
        /\ reads[d][s] # None
    BY <1>6 DEF ServeRead, LoseRead
  <2> DEFINE view == View(d, reads[d][s].id)
  <2>2. \/ reads' = [reads EXCEPT ![d][s].served = TRUE, ![d][s].doc = view]
        \/ reads' = [reads EXCEPT ![d][s] = None]
    BY <1>6 DEF ServeRead, LoseRead
  <2>3. reads[d][s] \in Read
    BY <1>0, <2>1 DEF TypeOK
  <2> HIDE DEF view
  <2>4. /\ \A e \in Devices \ {d} : reads'[e] = reads[e]
        /\ \A r \in Slots :
              \/ reads'[d][r] = None
              \/ reads'[d][r] = reads[d][r]
              \/ reads[d][r] # None /\ reads'[d][r].id = reads[d][r].id
    <3>1. CASE reads' = [reads EXCEPT ![d][s] = None]
      BY <1>0, <3>1 DEF TypeOK
    <3>2. CASE reads' = [reads EXCEPT ![d][s].served = TRUE,
                                      ![d][s].doc = view]
      BY <1>0, <2>1, <2>3, <3>2 DEF TypeOK, Read
    <3> QED
      BY <2>2, <3>1, <3>2
  <2>5. OthersStay(d)
    BY <1>0, <2>1, <2>4, OthersSame
  <2>6. ReadMove(d)
    BY <2>4 DEF ReadMove
  <2> QED
    BY <1>0, <2>1, <2>5, <2>6
       DEF Move, ScreenMove, QueueMove, AckMove, NewMove, FormMove, OnPost,
           Focus
<1> QED
  BY <1>2, <1>3, <1>4, <1>5, <1>6 DEF Server

-----------------------------------------------------------------------------
(* The posts a user's document names *)

LEMMA ProfileStep ==
    ASSUME PatientInv, NEW d \in Devices,
           User(d) \/ Answer(d) \/ Server(d) \/ Die(d)
    PROVE  \A u \in Users :
              /\ \A p \in userPosts'[u] : p \in userPosts[u] \/ Created(p)
              /\ \A p \in userPosts[u] \ userPosts'[u] : p \in deleted
<1>0. TypeOK /\ Focus(d) /\ Made(d)
  BY DEF PatientInv
<1>1. CASE CommitUser(d)
  <2> DEFINE w == Head(queue[d])
  <2>1. queue[d] # <<>> /\ queue[d] \in Seq(Write)
    BY <1>0, <1>1 DEF CommitUser, Oldest, TypeOK
  <2>2. /\ 1 \in 1..Len(queue[d]) /\ w = queue[d][1]
    BY <2>1, Taken
  <2>3. Fits(d, w)
    BY <1>0, <2>2 DEF Focus
  <2>4. w.op = "unionPosts" => Created(w.post)
    <3>1. \A p, n : n = 0 => (CreatedBefore(d, p, n) => Created(p))
      BY DEF CreatedBefore
    <3>2. w.op = "unionPosts" => CreatedBefore(d, w.post, 1 - 1)
      BY <1>0, <2>2 DEF Made
    <3> QED
      BY <3>1, <3>2
  <2>5. userPosts' = [userPosts EXCEPT ![UserOf[d]] =
                CASE w.op = "unionPosts"  -> @ \cup {w.post}
                  [] w.op = "removePosts" -> @ \ {w.post}
                  [] OTHER                -> @]
    BY <1>1 DEF CommitUser
  <2> HIDE DEF w
  <2>6. UserOf[d] \in Users
    BY ForumAssumption
  <2>7. CASE w.op = "unionPosts"
    BY <1>0, <2>4, <2>5, <2>6, <2>7 DEF TypeOK
  <2>8. CASE w.op = "removePosts"
    BY <1>0, <2>3, <2>5, <2>6, <2>8 DEF TypeOK, Fits
  <2>9. CASE w.op \notin {"unionPosts", "removePosts"}
    BY <1>0, <2>5, <2>6, <2>9 DEF TypeOK
  <2> QED
    BY <2>7, <2>8, <2>9
<1>2. ASSUME ~CommitUser(d) PROVE UNCHANGED userPosts
  <2> USE DEF store
  <2>1. CASE User(d)
    BY <2>1 DEF User, RefreshList, OpenForm, LikeTap, YCardTap, DeleteTap,
                EditTap, BackFromDetail, BackFromForm, OpenDetail, CommentTap,
                CreateTap, EditPostTap
  <2>2. CASE Answer(d)
    BY <2>2 DEF Answer, Populate, Ignore, OnUpdateFields, OnUpdateComment,
                OnUpdateValue, OnUpdateUserYCard, OnUpdateAfterYCard,
                OnDeleteInPosts, OnDeleteInUsers, OnCreateInPosts, OnFormDone
  <2>3. CASE Server(d)
    BY <1>2, <2>3 DEF Server, CommitComment, CommitSave, CommitDelete, Reject,
                      ServeRead, LoseRead
  <2>4. CASE Die(d)
    BY <2>4 DEF Die
  <2> QED
    BY <2>1, <2>2, <2>3, <2>4
<1> QED
  BY <1>1, <1>2

LEMMA InitPatient == Init => PatientInv
<1> SUFFICES ASSUME Init PROVE PatientInv
  OBVIOUS
<1>1. TypeOK
  BY InitTypes
<1>2. \A d \in Devices : Len(queue[d]) = 0 /\ Len(acks[d]) = 0
  BY EmptySeq DEF Init
<1>3. \A d \in Devices : Focus(d) /\ Made(d)
  <2> SUFFICES ASSUME NEW d \in Devices PROVE Focus(d) /\ Made(d)
    OBVIOUS
  <2>1. scr[d] = "list" /\ mNew[d] = None
    BY DEF Init
  <2>2. 1..Len(queue[d]) = {} /\ 1..Len(acks[d]) = {}
    BY <1>2
  <2>3. Focus(d)
    BY <2>1, <2>2 DEF Focus, OnPost
  <2>4. Made(d)
    BY <2>1, <2>2 DEF Made
  <2> QED
    BY <2>3, <2>4
<1>4. ProfilePostsWereCreated
  <2> SUFFICES ASSUME NEW u \in Users, NEW p \in userPosts[u]
               PROVE  posts[p] # None
    BY DEF ProfilePostsWereCreated
  <2>1. p \in PostIds /\ OldPosts[p] = u /\ u # None
    BY NoneAssumption DEF Init
  <2>2. posts[p] \in Docs
    BY <2>1, ForumAssumption DEF Init, Docs
  <2> QED
    BY <2>2, NoneAssumption
<1> QED
  BY <1>1, <1>3, <1>4 DEF PatientInv

LEMMA NextPatient == Patient /\ PatientInv /\ [Next]_vars => PatientInv'
<1> SUFFICES ASSUME Patient, PatientInv, [Next]_vars PROVE PatientInv'
  OBVIOUS
<1>1. TypeOK /\ TypeOK'
  BY NextTypes DEF PatientInv
<1>2. CASE UNCHANGED vars
  <2>1. \A d \in Devices : Focus(d)' /\ Made(d)'
    BY <1>2 DEF vars, PatientInv, Focus, Fits, FitsAck, OnPost, Made,
                CreatedBefore, Creates, Created
  <2>2. ProfilePostsWereCreated'
    BY <1>2 DEF vars, PatientInv, ProfilePostsWereCreated
  <2> QED
    BY <1>1, <2>1, <2>2 DEF PatientInv
<1>3. ASSUME NEW d \in Devices, User(d) \/ Answer(d) \/ Server(d) \/ Die(d)
      PROVE  PatientInv'
  <2>1. Move(d) \/ Arrival(d)
    BY <1>3, UserMove, AnswerMove, ServerMove, DieMove
  <2>2. \A e \in Devices : Focus(e)' /\ Made(e)'
    BY <1>1, <2>1, PatientStep DEF PatientInv
  <2>3. \A p \in PostIds : Created(p) => Created(p)'
    BY <2>1 DEF Move, Arrival, OthersStay
  <2>4. \A u \in Users : \A p \in userPosts'[u] : Created(p)'
    <3> SUFFICES ASSUME NEW u \in Users, NEW p \in userPosts'[u]
                 PROVE  Created(p)'
      OBVIOUS
    <3>1. p \in PostIds
      BY <1>1 DEF TypeOK
    <3>2. Created(p)
      BY <1>3, ProfileStep DEF PatientInv, ProfilePostsWereCreated, Created
    <3> QED
      BY <2>3, <3>1, <3>2
  <2>5. ProfilePostsWereCreated'
    BY <2>4 DEF ProfilePostsWereCreated, Created
  <2> QED
    BY <1>1, <2>2, <2>5 DEF PatientInv
<1> QED
  BY <1>2, <1>3 DEF Next

\* With a user who waits, the list of posts in a user's document names only
\* posts whose creation was answered: onPostTap's second request is made by the
\* first one's answer, with the id the form holds then.
THEOREM ProfilesNameCreated ==
    Patient => (Spec => []ProfilePostsWereCreated)
<1> SUFFICES ASSUME Patient PROVE Spec => []ProfilePostsWereCreated
  OBVIOUS
<1>1. PatientInv /\ [Next]_vars => PatientInv'
  BY NextPatient
<1>2. Spec => []PatientInv
  BY <1>1, InitPatient, PTL DEF Spec
<1>3. PatientInv => ProfilePostsWereCreated
  BY DEF PatientInv
<1> QED
  BY <1>2, <1>3, PTL

\* With a user who waits, a post leaves its author's list only after it was
\* deleted: the answer of the first delete makes the second request, and the
\* screen is still that of the post the answer is about.
THEOREM UnlistedLast == Patient => (Spec => UnlistedAfterDelete)
<1> SUFFICES ASSUME Patient PROVE Spec => UnlistedAfterDelete
  OBVIOUS
<1>1. PatientInv /\ [Next]_vars => PatientInv'
  BY NextPatient
<1>2. Spec => []PatientInv
  BY <1>1, InitPatient, PTL DEF Spec
<1>3. PatientInv /\ [Next]_vars =>
         [\A u \in Users : \A p \in userPosts[u] \ userPosts'[u] :
             p \in deleted]_vars
  <2> SUFFICES ASSUME PatientInv, Next
               PROVE  \A u \in Users : \A p \in userPosts[u] \ userPosts'[u] :
                         p \in deleted
    OBVIOUS
  <2> QED
    BY ProfileStep DEF Next
<1> QED
  BY <1>2, <1>3, PTL DEF Spec, UnlistedAfterDelete

-----------------------------------------------------------------------------
(* Every post has one author, every comment one post                       *)
(*                                                                         *)
(* o gives the author of each post that was made, h the post each comment  *)
(* was written to.  All copies of a post, wherever they are, agree with o  *)
(* and h.                                                                  *)

Good(o, h, p, doc) ==
    /\ p \in DOMAIN o /\ doc.author = o[p]
    /\ \A c \in doc.comments : c \in DOMAIN h /\ h[c] = p

Honest(d, o, h, w) ==
    /\ w.op \in {"setPost", "updatePost"} => Good(o, h, w.post, w.doc)
    /\ w.op = "setComment" => w.comment \in DOMAIN h /\ h[w.comment] = w.post
    /\ w.op = "deletePost" => w.post \in DOMAIN o /\ o[w.post] = UserOf[d]

\* The menu is shown, and the form opened over a post, for its author only.
Holds(d, o, h) ==
    /\ \A p \in PostIds : list[d][p] # None => Good(o, h, p, list[d][p])
    /\ mPost[d] # None => Good(o, h, mPost[d].id, mPost[d])
    /\ mNew[d] # None => Good(o, h, mNew[d].id, mNew[d])
    /\ \A s \in Slots : reads[d][s] # None /\ reads[d][s].doc # None =>
          Good(o, h, reads[d][s].id, reads[d][s].doc)
    /\ \A i \in 1..Len(queue[d]) : Honest(d, o, h, queue[d][i])
    /\ mine[d] => mPost[d] # None /\ o[mPost[d].id] = UserOf[d]
    /\ scr[d] = "editForm" => mine[d]

Belongs(o, h) ==
    /\ \A p \in PostIds : posts[p] # None => Good(o, h, p, posts[p])
    /\ \A c \in CommentIds :
          comments[c] # None => c \in DOMAIN h /\ comments[c] = h[c]
    /\ \A d \in Devices : Holds(d, o, h)

BelongInv ==
    /\ PatientInv
    /\ \E P \in SUBSET PostIds, C \in SUBSET CommentIds :
          /\ P \cup C \subseteq usedIds
          /\ \E o \in [P -> Users], h \in [C -> PostIds] : Belongs(o, h)

\* What a step may do: what is new agrees with o and h.
Carries(d, o, h) ==
    /\ \A e \in Devices \ {d} :
          /\ list'[e] = list[e] /\ mPost'[e] = mPost[e]
          /\ mNew'[e] = mNew[e] /\ reads'[e] = reads[e]
          /\ queue'[e] = queue[e]
          /\ mine'[e] = mine[e] /\ scr'[e] = scr[e]
    /\ \A p \in PostIds : \/ posts'[p] = posts[p]
                          \/ posts'[p] = None
                          \/ Good(o, h, p, posts'[p])
    /\ \A c \in CommentIds : \/ comments'[c] = comments[c]
                             \/ c \in DOMAIN h /\ comments'[c] = h[c]
    /\ \A p \in PostIds : \/ list'[d][p] = list[d][p]
                          \/ list'[d][p] = None
                          \/ Good(o, h, p, list'[d][p])
    /\ \/ mPost'[d] = mPost[d]
       \/ mPost'[d] = None
       \/ Good(o, h, mPost'[d].id, mPost'[d])
    /\ \/ mNew'[d] = mNew[d]
       \/ mNew'[d] = None
       \/ Good(o, h, mNew'[d].id, mNew'[d])
    /\ \A s \in Slots : \/ reads'[d][s] = reads[d][s]
                        \/ reads'[d][s] = None
                        \/ reads'[d][s].doc = None
                        \/ Good(o, h, reads'[d][s].id, reads'[d][s].doc)
    /\ \/ queue' = queue
       \/ queue' = [queue EXCEPT ![d] = Orphaned(d)]
       \/ queue[d] # <<>> /\ queue' = [queue EXCEPT ![d] = Tail(@)]
       \/ \E w \in Write : /\ queue' = [queue EXCEPT ![d] = Append(@, w)]
                           /\ Honest(d, o, h, w)
    /\ mine'[d] => mPost'[d] # None /\ o[mPost'[d].id] = UserOf[d]
    /\ scr'[d] = "editForm" => mine'[d]

LEMMA QueueCarried ==
    ASSUME TypeOK, NEW P \in SUBSET PostIds, NEW C \in SUBSET CommentIds,
           NEW o \in [P -> Users], NEW h \in [C -> PostIds],
           NEW d \in Devices, Holds(d, o, h), Carries(d, o, h)
    PROVE  \A i \in 1..Len(queue'[d]) : Honest(d, o, h, queue'[d][i])
<1>0. queue[d] \in Seq(Write)
  BY DEF TypeOK
<1>1. CASE queue' = queue
  BY <1>1 DEF Holds
<1>2. CASE queue' = [queue EXCEPT ![d] = Orphaned(d)]
  <2>1. queue'[d] = Orphaned(d)
    BY <1>2 DEF TypeOK
  <2>2. /\ Len(queue'[d]) = Len(queue[d])
        /\ \A i \in 1..Len(queue[d]) :
              /\ queue'[d][i].op = queue[d][i].op
              /\ queue'[d][i].post = queue[d][i].post
              /\ queue'[d][i].comment = queue[d][i].comment
              /\ queue'[d][i].doc = queue[d][i].doc
    BY <2>1, OrphanedProperties, OrphanedPosts
  <2> QED
    BY <2>2 DEF Holds, Honest
<1>3. CASE queue[d] # <<>> /\ queue' = [queue EXCEPT ![d] = Tail(@)]
  <2>1. queue'[d] = Tail(queue[d])
    BY <1>3 DEF TypeOK
  <2>2. \A i \in 1..Len(Tail(queue[d])) :
           i + 1 \in 1..Len(queue[d]) /\ Tail(queue[d])[i] = queue[d][i + 1]
    BY <1>0, <1>3, Taken
  <2> QED
    BY <2>1, <2>2 DEF Holds
<1>4. ASSUME NEW w \in Write, queue' = [queue EXCEPT ![d] = Append(@, w)],
             Honest(d, o, h, w)
      PROVE  \A i \in 1..Len(queue'[d]) : Honest(d, o, h, queue'[d][i])
  <2>1. queue'[d] = Append(queue[d], w)
    BY <1>4 DEF TypeOK
  <2>2. /\ Len(queue[d]) \in Nat
        /\ Len(queue'[d]) = Len(queue[d]) + 1
        /\ \A i \in 1..Len(queue[d]) : queue'[d][i] = queue[d][i]
        /\ queue'[d][Len(queue[d]) + 1] = w
    BY <1>0, <2>1, Added
  <2>3. \A i \in 1..Len(queue'[d]) :
           i \in 1..Len(queue[d]) \/ i = Len(queue[d]) + 1
    BY <2>2
  <2> QED
    BY <1>4, <2>2, <2>3 DEF Holds
<1> QED
  BY <1>1, <1>2, <1>3, <1>4 DEF Carries

LEMMA CarriedOn ==
    ASSUME TypeOK, NEW P \in SUBSET PostIds, NEW C \in SUBSET CommentIds,
           NEW o \in [P -> Users], NEW h \in [C -> PostIds],
           Belongs(o, h), NEW d \in Devices, Carries(d, o, h)
    PROVE  Belongs(o, h)'
<1>1. Holds(d, o, h)
  BY DEF Belongs
<1>2. ASSUME NEW p \in PostIds, posts'[p] # None
      PROVE  Good(o, h, p, posts'[p])
  BY <1>2 DEF Belongs, Carries
<1>3. ASSUME NEW c \in CommentIds, comments'[c] # None
      PROVE  c \in DOMAIN h /\ comments'[c] = h[c]
  BY <1>3 DEF Belongs, Carries
<1>4. Holds(d, o, h)'
  <2>1. ASSUME NEW p \in PostIds, list'[d][p] # None
        PROVE  Good(o, h, p, list'[d][p])
    BY <1>1, <2>1 DEF Holds, Carries
  <2>2. mPost'[d] # None => Good(o, h, mPost'[d].id, mPost'[d])
    BY <1>1 DEF Holds, Carries
  <2>3. mNew'[d] # None => Good(o, h, mNew'[d].id, mNew'[d])
    BY <1>1 DEF Holds, Carries
  <2>4. ASSUME NEW s \in Slots, reads'[d][s] # None, reads'[d][s].doc # None
        PROVE  Good(o, h, reads'[d][s].id, reads'[d][s].doc)
    BY <1>1, <2>4 DEF Holds, Carries
  <2>5. \A i \in 1..Len(queue'[d]) : Honest(d, o, h, queue'[d][i])
    BY <1>1, QueueCarried
  <2>6. /\ mine'[d] => mPost'[d] # None /\ o[mPost'[d].id] = UserOf[d]
        /\ scr'[d] = "editForm" => mine'[d]
    BY DEF Carries
  <2> QED
    BY <2>1, <2>2, <2>3, <2>4, <2>5, <2>6 DEF Holds, Honest, Good
<1>5. ASSUME NEW e \in Devices \ {d} PROVE Holds(e, o, h)'
  <2>1. Holds(e, o, h)
    BY DEF Belongs
  <2>2. /\ list'[e] = list[e] /\ mPost'[e] = mPost[e]
        /\ mNew'[e] = mNew[e] /\ reads'[e] = reads[e]
        /\ queue'[e] = queue[e]
        /\ mine'[e] = mine[e] /\ scr'[e] = scr[e]
    BY DEF Carries
  <2> QED
    BY <2>1, <2>2 DEF Holds, Honest, Good
<1> QED
  BY <1>2, <1>3, <1>4, <1>5 DEF Belongs, Good

\* What a device sees of a post is the post or a write of its own.
LEMMA ViewGood ==
    ASSUME TypeOK, NEW P \in SUBSET PostIds, NEW C \in SUBSET CommentIds,
           NEW o \in [P -> Users], NEW h \in [C -> PostIds],
           Belongs(o, h), NEW d \in Devices, NEW p \in PostIds,
           View(d, p) # None
    PROVE  Good(o, h, p, View(d, p))
<1> DEFINE last == LastOf(PostWrites(d, p, {"setPost", "updatePost"}))
<1>0. queue[d] \in Seq(Write)
  BY DEF TypeOK
<1>1. CASE last = {}
  <2>1. View(d, p) = posts[p]
    BY <1>1 DEF View
  <2> QED
    BY <2>1 DEF Belongs
<1>2. CASE last # {}
  <2>1. PICK i \in last : i = CHOOSE j \in last : TRUE
    BY <1>2
  <2>2. /\ i \in 1..Len(queue[d])
        /\ queue[d][i].post = p
        /\ queue[d][i].op \in {"setPost", "updatePost"}
    BY <1>0, <2>1, LenProperties DEF LastOf, PostWrites
  <2>3. View(d, p) = queue[d][i].doc
    BY <1>2, <2>1 DEF View
  <2>4. Good(o, h, p, queue[d][i].doc)
    BY <2>2 DEF Belongs, Holds, Honest
  <2> QED
    BY <2>3, <2>4
<1> QED
  BY <1>1, <1>2

\* Steps that leave the documents and the other devices alone.
LEMMA CarriesSame ==
    ASSUME TypeOK, NEW P \in SUBSET PostIds, NEW C \in SUBSET CommentIds,
           NEW o \in [P -> Users], NEW h \in [C -> PostIds],
           Belongs(o, h), NEW d \in Devices,
           UNCHANGED <<posts, comments, list, mPost, queue>>,
           \A e \in Devices \ {d} :
              /\ mNew'[e] = mNew[e] /\ reads'[e] = reads[e]
              /\ mine'[e] = mine[e] /\ scr'[e] = scr[e],
           mNew'[d] \in {mNew[d], mPost[d], None},
           \A s \in Slots : \/ reads'[d][s] = reads[d][s]
                            \/ reads'[d][s] = None
                            \/ reads'[d][s].doc = None,
           mine'[d] => mine[d],
           scr'[d] = "editForm" => mine'[d]
    PROVE  Carries(d, o, h)
<1>1. Holds(d, o, h)
  BY DEF Belongs
<1>2. mNew'[d] \in {mNew[d], None} \/ Good(o, h, mNew'[d].id, mNew'[d])
  BY <1>1 DEF Holds
<1>3. mine'[d] => mPost'[d] # None /\ o[mPost'[d].id] = UserOf[d]
  BY <1>1 DEF Holds
<1> QED
  BY <1>2, <1>3 DEF Carries

\* A request is sent and nothing else is changed that is carried on.
LEMMA CarriesSend ==
    ASSUME TypeOK, NEW P \in SUBSET PostIds, NEW C \in SUBSET CommentIds,
           NEW o \in [P -> Users], NEW h \in [C -> PostIds],
           Belongs(o, h), NEW d \in Devices,
           UNCHANGED <<posts, comments, list, mPost, reads, mine, scr>>,
           \A e \in Devices \ {d} : mNew'[e] = mNew[e],
           mNew'[d] \in {mNew[d], mPost[d]},
           NEW w \in Write, Send(d, w), Honest(d, o, h, w)
    PROVE  Carries(d, o, h)
<1>1. Holds(d, o, h)
  BY DEF Belongs
<1>2. mNew'[d] \in {mNew[d], None} \/ Good(o, h, mNew'[d].id, mNew'[d])
  BY <1>1 DEF Holds
<1>3. /\ mine[d] => mPost[d] # None /\ o[mPost[d].id] = UserOf[d]
      /\ scr[d] = "editForm" => mine[d]
  BY <1>1 DEF Holds
<1>4. queue' = [queue EXCEPT ![d] = Append(@, w)]
  BY DEF Send
<1>5. \A e \in Devices \ {d} : queue'[e] = queue[e]
  BY <1>4 DEF TypeOK
<1> QED
  BY <1>2, <1>3, <1>4, <1>5 DEF Carries

\* A screen is closed.
LEMMA CarriesClose ==
    ASSUME TypeOK, NEW P \in SUBSET PostIds, NEW C \in SUBSET CommentIds,
           NEW o \in [P -> Users], NEW h \in [C -> PostIds],
           Belongs(o, h), NEW d \in Devices, CloseDetail(d),
           UNCHANGED <<posts, comments, list, reads, queue>>
    PROVE  Carries(d, o, h)
<1>1. /\ scr'[d] = "list" /\ mPost'[d] = None /\ mNew'[d] = None
      /\ mine'[d] = FALSE
      /\ \A e \in Devices \ {d} : /\ scr'[e] = scr[e] /\ mPost'[e] = mPost[e]
                                  /\ mNew'[e] = mNew[e] /\ mine'[e] = mine[e]
  BY DEF CloseDetail, TypeOK
<1> QED
  BY <1>1 DEF Carries

LEMMA CarriesCloseForm ==
    ASSUME TypeOK, NEW P \in SUBSET PostIds, NEW C \in SUBSET CommentIds,
           NEW o \in [P -> Users], NEW h \in [C -> PostIds],
           Belongs(o, h), NEW d \in Devices, CloseForm(d),
           UNCHANGED <<posts, comments, list, mPost, mNew, mine, queue>>
    PROVE  Carries(d, o, h)
<1>1. /\ scr'[d] # "editForm"
      /\ \A e \in Devices \ {d} : scr'[e] = scr[e]
  BY DEF CloseForm, TypeOK
<1>2. /\ \A e \in Devices, s \in Slots :
            reads'[e][s] = reads[e][s] \/ reads'[e][s].doc = None
      /\ \A e \in Devices \ {d} : reads'[e] = reads[e]
  BY GetPostStep, GetPostMove DEF CloseForm
<1> QED
  BY <1>1, <1>2, CarriesSame

LEMMA UserCarries ==
    ASSUME Patient, PatientInv,
           NEW P \in SUBSET PostIds, NEW C \in SUBSET CommentIds,
           NEW o \in [P -> Users], NEW h \in [C -> PostIds],
           Belongs(o, h), NEW d \in Devices, User(d)
    PROVE  \/ Carries(d, o, h)
           \/ \E c \in CommentIds : CommentTap(d, c)
           \/ \E p \in PostIds, a \in Users : CreateTap(d, p, a)
<1> USE DEF history, store, detail, ghosts
<1>0. TypeOK /\ Holds(d, o, h)
  BY DEF PatientInv, Belongs
<1>1. CASE RefreshList(d)
  <2>1. /\ UNCHANGED <<posts, comments, mPost, mNew, reads, queue, mine, scr>>
        /\ list' = [list EXCEPT ![d] = [p \in PostIds |-> View(d, p)]]
    BY <1>1 DEF RefreshList
  <2>2. /\ \A p \in PostIds : list'[d][p] = View(d, p)
        /\ \A e \in Devices \ {d} : list'[e] = list[e]
    BY <1>0, <2>1 DEF TypeOK
  <2>3. \A p \in PostIds : list'[d][p] = None \/ Good(o, h, p, list'[d][p])
    BY <1>0, <2>2, ViewGood
  <2>4. /\ mine[d] => mPost[d] # None /\ o[mPost[d].id] = UserOf[d]
        /\ scr[d] = "editForm" => mine[d]
    BY <1>0 DEF Holds
  <2> QED
    BY <2>1, <2>2, <2>3, <2>4 DEF Carries
<1>2. CASE OpenForm(d)
  <2>1. /\ UNCHANGED <<posts, comments, list, mPost, mNew, reads, queue, mine>>
        /\ scr' = [scr EXCEPT ![d] = "newForm"]
    BY <1>2 DEF OpenForm
  <2>2. /\ scr'[d] # "editForm"
        /\ \A e \in Devices \ {d} : scr'[e] = scr[e]
    BY <1>0, <2>1 DEF TypeOK
  <2> QED
    BY <1>0, <2>1, <2>2, CarriesSame
<1>3. CASE LikeTap(d)
  <2>1. /\ UNCHANGED <<posts, comments, list, mPost, reads, queue, mine, scr>>
        /\ mNew' = [mNew EXCEPT ![d] = mPost[d]]
        /\ scr[d] = "detail"
    BY <1>3 DEF LikeTap
  <2>2. /\ mNew'[d] = mPost[d]
        /\ \A e \in Devices \ {d} : mNew'[e] = mNew[e]
    BY <1>0, <2>1 DEF TypeOK
  <2> QED
    BY <1>0, <2>1, <2>2, CarriesSame
<1>4. CASE YCardTap(d)
  <2> DEFINE w == UserWrite("unionYCards", "UPDATE_USER_YCARD", mPost[d].id)
  <2>1. mPost[d].id \in PostIds
    BY <1>0, <1>4 DEF YCardTap, TypeOK, Copies
  <2>2. w \in Write /\ w.op = "unionYCards"
    BY <2>1, RequestTypes DEF Tags, LeakedTags, UserWrite
  <2>3. Send(d, w) /\ UNCHANGED <<posts, comments, list, mPost, mNew, reads,
                                  mine, scr>>
    BY <1>4 DEF YCardTap
  <2> HIDE DEF w
  <2>4. Honest(d, o, h, w)
    BY <2>2 DEF Honest
  <2> QED
    BY <1>0, <2>2, <2>3, <2>4, CarriesSend
<1>5. CASE DeleteTap(d)
  <2> DEFINE w == DeletePost(mPost[d].id)
  <2>1. mPost[d].id \in PostIds /\ mine[d]
    BY <1>0, <1>5 DEF DeleteTap, TypeOK, Copies
  <2>2. w \in Write /\ w.op = "deletePost" /\ w.post = mPost[d].id
    BY <2>1, RequestTypes DEF DeletePost
  <2>3. Send(d, w) /\ UNCHANGED <<posts, comments, list, mPost, mNew, reads,
                                  mine, scr>>
    BY <1>5 DEF DeleteTap
  <2> HIDE DEF w
  <2>4. Honest(d, o, h, w)
    BY <1>0, <2>1, <2>2 DEF Honest, Holds, Good
  <2> QED
    BY <1>0, <2>2, <2>3, <2>4, CarriesSend
<1>6. CASE EditTap(d)
  <2>1. /\ UNCHANGED <<posts, comments, list, mPost, mNew, reads, queue, mine>>
        /\ scr' = [scr EXCEPT ![d] = "editForm"]
        /\ mine[d]
    BY <1>6 DEF EditTap
  <2>2. \A e \in Devices \ {d} : scr'[e] = scr[e]
    BY <1>0, <2>1 DEF TypeOK
  <2> QED
    BY <1>0, <2>1, <2>2, CarriesSame
<1>7. CASE BackFromDetail(d)
  BY <1>0, <1>7, CarriesClose DEF BackFromDetail
<1>8. CASE BackFromForm(d)
  BY <1>0, <1>8, CarriesCloseForm DEF BackFromForm
<1>9. ASSUME NEW p \in PostIds, OpenDetail(d, p) PROVE Carries(d, o, h)
  <2> DEFINE copy == CopyOf(p, list[d][p])
  <2>1. /\ UNCHANGED <<posts, comments, list, queue>>
        /\ scr' = [scr EXCEPT ![d] = "detail"]
        /\ mPost' = [mPost EXCEPT ![d] = copy]
        /\ mNew' = [mNew EXCEPT ![d] = None]
        /\ mine' = [mine EXCEPT ![d] = (list[d][p].author = UserOf[d])]
        /\ GetPost(d, p)
        /\ list[d][p] # None
    BY <1>9 DEF OpenDetail
  <2>2. /\ \A e \in Devices, s \in Slots :
              reads'[e][s] = reads[e][s] \/ reads'[e][s].doc = None
        /\ \A e \in Devices \ {d} : reads'[e] = reads[e]
    BY <1>0, <2>1, GetPostStep, GetPostMove
  <2>3. Good(o, h, p, list[d][p])
    BY <1>0, <2>1 DEF Holds
  <2>4. /\ Good(o, h, copy.id, copy) /\ copy.id = p
        /\ copy.author = list[d][p].author
    BY <2>3 DEF CopyOf, Good
  <2>5. copy # None
    <3>1. list[d][p] \in Docs
      BY <1>0, <2>1 DEF TypeOK
    <3>2. copy \in Copies
      BY <3>1 DEF CopyOf, Copies, Docs
    <3> QED
      BY <3>2, NoneAssumption
  <2>6. list[d][p].author = UserOf[d] => o[p] = UserOf[d]
    BY <2>3 DEF Good
  <2>7. mine'[d] = (list[d][p].author = UserOf[d])
    BY <1>0, <2>1 DEF TypeOK
  <2> HIDE DEF copy
  <2>8. /\ scr'[d] = "detail" /\ mNew'[d] = None /\ mPost'[d] = copy
        /\ \A e \in Devices \ {d} : /\ scr'[e] = scr[e] /\ mNew'[e] = mNew[e]
                                    /\ mPost'[e] = mPost[e]
                                    /\ mine'[e] = mine[e]
    BY <1>0, <2>1 DEF TypeOK
  <2>9. mine'[d] => mPost'[d] # None /\ o[mPost'[d].id] = UserOf[d]
    BY <2>4, <2>5, <2>6, <2>7, <2>8
  <2> QED
    BY <2>1, <2>2, <2>4, <2>8, <2>9 DEF Carries
<1>10. ASSUME NEW p \in PostIds, NEW a \in Users, EditPostTap(d, p, a)
       PROVE  Carries(d, o, h)
  <2> DEFINE doc == [author |-> a, comments |-> {}]
             w   == UpdatePost("UPDATE_POST_IN_POSTS", mPost[d], doc)
  <2>1. mPost[d] \in Copies /\ mPost[d] # None /\ a = UserOf[d]
    BY <1>0, <1>10 DEF EditPostTap, TypeOK, FormAuthors
  <2>2. w \in Write
    BY <2>1, RequestTypes DEF Tags, FormTags, Docs
  <2>3. /\ w.op = "updatePost" /\ w.post = mPost[d].id
        /\ w.doc.author = a /\ w.doc.comments = {}
    BY DEF UpdatePost, DocOf
  <2>4. Send(d, w) /\ UNCHANGED <<posts, comments, list, mPost, mNew, reads,
                                  mine, scr>>
        /\ scr[d] = "editForm"
    BY <1>10 DEF EditPostTap
  <2> HIDE DEF w
  <2>5. Honest(d, o, h, w)
    BY <1>0, <2>1, <2>3, <2>4 DEF Honest, Holds, Good
  <2> QED
    BY <1>0, <2>2, <2>4, <2>5, CarriesSend
<1> QED
  BY <1>1, <1>2, <1>3, <1>4, <1>5, <1>6, <1>7, <1>8, <1>9, <1>10 DEF User

\* Giving an author to one more post, or a post to one more comment.
LEMMA Grown ==
    ASSUME NEW P \in SUBSET PostIds, NEW C \in SUBSET CommentIds,
           NEW o \in [P -> Users], NEW h \in [C -> PostIds], Belongs(o, h),
           NEW P2 \in SUBSET PostIds, NEW C2 \in SUBSET CommentIds,
           NEW o2 \in [P2 -> Users], NEW h2 \in [C2 -> PostIds],
           P \subseteq P2, \A p \in P : o2[p] = o[p],
           C \subseteq C2, \A c \in C : h2[c] = h[c]
    PROVE  Belongs(o2, h2)
<1>1. \A p, doc : Good(o, h, p, doc) => Good(o2, h2, p, doc)
  BY DEF Good
<1>2. \A d \in Devices : \A w : Honest(d, o, h, w) => Honest(d, o2, h2, w)
  BY <1>1 DEF Honest
<1>3. \A d \in Devices : Holds(d, o2, h2)
  <2> SUFFICES ASSUME NEW d \in Devices PROVE Holds(d, o2, h2)
    OBVIOUS
  <2>1. Holds(d, o, h)
    BY DEF Belongs
  <2>2. mine[d] => mPost[d].id \in P /\ mPost[d] # None
                   /\ o[mPost[d].id] = UserOf[d]
    BY <2>1 DEF Holds, Good
  <2> QED
    BY <1>1, <1>2, <2>1, <2>2 DEF Holds
<1>4. \A c \in CommentIds :
         comments[c] # None => c \in DOMAIN h2 /\ comments[c] = h2[c]
  BY DEF Belongs
<1> QED
  BY <1>1, <1>3, <1>4 DEF Belongs

LEMMA CommentCarries ==
    ASSUME UniqueIds, PatientInv,
           NEW P \in SUBSET PostIds, NEW C \in SUBSET CommentIds,
           P \cup C \subseteq usedIds,
           NEW o \in [P -> Users], NEW h \in [C -> PostIds],
           Belongs(o, h), NEW d \in Devices,
           NEW c \in CommentIds, CommentTap(d, c)
    PROVE  \E C2 \in SUBSET CommentIds :
              /\ P \cup C2 \subseteq usedIds'
              /\ \E h2 \in [C2 -> PostIds] :
                    Belongs(o, h2) /\ Carries(d, o, h2)
<1> DEFINE C2 == C \cup {c}
           h2 == [x \in C2 |-> IF x = c THEN mPost[d].id ELSE h[x]]
           w  == SetComment(c, mPost[d].id)
           appended == [mPost[d] EXCEPT !.comments = @ \cup {c}]
<1>0. TypeOK
  BY DEF PatientInv
<1>1. mPost[d] \in Copies /\ mPost[d] # None /\ mPost[d].id \in PostIds
  BY <1>0, NoneAssumption DEF CommentTap, TypeOK, Copies
<1>2. /\ c \notin usedIds
      /\ usedIds' = usedIds \cup {c}
      /\ mPost' = [mPost EXCEPT ![d] = appended]
      /\ mNew' = [mNew EXCEPT ![d] = appended]
      /\ Send(d, w)
      /\ UNCHANGED <<posts, comments, list, reads, mine, scr>>
      /\ scr[d] = "detail"
  BY DEF CommentTap, NewId, store
<1>3. /\ C2 \in SUBSET CommentIds /\ P \cup C2 \subseteq usedIds'
      /\ h2 \in [C2 -> PostIds]
      /\ \A x \in C : h2[x] = h[x]
      /\ c \in DOMAIN h2 /\ h2[c] = mPost[d].id
  BY <1>1, <1>2
<1>4. PICK g \in [C2 -> PostIds] :
         /\ \A x \in C : g[x] = h[x]
         /\ c \in DOMAIN g /\ g[c] = mPost[d].id
  BY <1>3
<1>5. w \in Write /\ w.op = "setComment" /\ w.comment = c
      /\ w.post = mPost[d].id
  BY <1>1, RequestTypes DEF SetComment
<1>6. /\ appended.id = mPost[d].id /\ appended.author = mPost[d].author
      /\ appended.comments = mPost[d].comments \cup {c}
      /\ appended \in Copies
  BY <1>1 DEF Copies
<1>7. appended # None
  BY <1>6, NoneAssumption
<1> HIDE DEF appended, w
<1>8. Belongs(o, g)
  <2>1. P \in SUBSET PostIds /\ C2 \in SUBSET CommentIds
    BY <1>3
  <2> HIDE DEF C2
  <2>2. C \subseteq C2
    BY DEF C2
  <2> QED
    BY <1>4, <2>1, <2>2, Grown
<1>9. Holds(d, o, g)
  BY <1>8 DEF Belongs
<1>10. Good(o, g, appended.id, appended)
  BY <1>1, <1>4, <1>6, <1>9 DEF Holds, Good
<1>11. Honest(d, o, g, w)
  BY <1>4, <1>5 DEF Honest
<1>12. /\ queue' = [queue EXCEPT ![d] = Append(@, w)]
       /\ mPost'[d] = appended /\ mNew'[d] = appended
       /\ \A e \in Devices \ {d} : /\ mPost'[e] = mPost[e]
                                   /\ mNew'[e] = mNew[e]
                                   /\ queue'[e] = queue[e]
  BY <1>0, <1>2 DEF Send, TypeOK
<1>13. mine[d] => o[mPost[d].id] = UserOf[d]
  BY <1>9 DEF Holds
<1>14. Carries(d, o, g)
  <2>1. /\ Good(o, g, mPost'[d].id, mPost'[d])
        /\ Good(o, g, mNew'[d].id, mNew'[d])
    BY <1>6, <1>10, <1>12
  <2>2. \E x \in Write : /\ queue' = [queue EXCEPT ![d] = Append(@, x)]
                         /\ Honest(d, o, g, x)
    BY <1>5, <1>11, <1>12
  <2>3. /\ mine'[d] => mPost'[d] # None /\ o[mPost'[d].id] = UserOf[d]
        /\ scr'[d] = "editForm" => mine'[d]
    BY <1>2, <1>6, <1>7, <1>12, <1>13
  <2>4. \A e \in Devices \ {d} :
           /\ list'[e] = list[e] /\ mPost'[e] = mPost[e]
           /\ mNew'[e] = mNew[e] /\ reads'[e] = reads[e]
           /\ queue'[e] = queue[e]
           /\ mine'[e] = mine[e] /\ scr'[e] = scr[e]
    BY <1>2, <1>12
  <2> QED
    BY <1>2, <2>1, <2>2, <2>3, <2>4 DEF Carries
<1> QED
  BY <1>3, <1>8, <1>14

LEMMA CreateCarries ==
    ASSUME UniqueIds, PatientInv,
           NEW P \in SUBSET PostIds, NEW C \in SUBSET CommentIds,
           P \cup C \subseteq usedIds,
           NEW o \in [P -> Users], NEW h \in [C -> PostIds],
           Belongs(o, h), NEW d \in Devices,
           NEW p \in PostIds, NEW a \in Users, CreateTap(d, p, a)
    PROVE  \E P2 \in SUBSET PostIds :
              /\ P2 \cup C \subseteq usedIds'
              /\ \E o2 \in [P2 -> Users] :
                    Belongs(o2, h) /\ Carries(d, o2, h)
<1> DEFINE P2  == P \cup {p}
           o2  == [q \in P2 |-> IF q = p THEN a ELSE o[q]]
           doc == [author |-> a, comments |-> {}]
           w   == SetPost(p, doc)
<1>0. TypeOK
  BY DEF PatientInv
<1>1. /\ p \notin usedIds
      /\ usedIds' = usedIds \cup {p}
      /\ Send(d, w)
      /\ UNCHANGED <<posts, comments, list, mPost, mNew, reads, mine, scr>>
  BY DEF CreateTap, NewId, store, detail
<1>2. /\ P2 \in SUBSET PostIds /\ P2 \cup C \subseteq usedIds'
      /\ o2 \in [P2 -> Users]
      /\ \A q \in P : o2[q] = o[q]
      /\ p \in DOMAIN o2 /\ o2[p] = a
  BY <1>1
<1>3. PICK f \in [P2 -> Users] :
         /\ \A q \in P : f[q] = o[q]
         /\ p \in DOMAIN f /\ f[p] = a
  BY <1>2
<1>4. w \in Write /\ w.op = "setPost" /\ w.post = p
      /\ w.doc.author = a /\ w.doc.comments = {}
  BY RequestTypes DEF SetPost, Docs
<1> HIDE DEF w, P2
<1>5. Belongs(f, h)
  <2>1. P \subseteq P2
    BY DEF P2
  <2> QED
    BY <1>2, <1>3, <2>1, Grown
<1>6. Honest(d, f, h, w)
  BY <1>3, <1>4 DEF Honest, Good
<1>7. Carries(d, f, h)
  BY <1>0, <1>1, <1>2, <1>4, <1>5, <1>6, CarriesSend
<1> QED
  BY <1>2, <1>5, <1>7

LEMMA AnswerCarries ==
    ASSUME PatientInv,
           NEW P \in SUBSET PostIds, NEW C \in SUBSET CommentIds,
           NEW o \in [P -> Users], NEW h \in [C -> PostIds],
           Belongs(o, h), NEW d \in Devices, Answer(d)
    PROVE  Carries(d, o, h)
<1> USE DEF history, store, detail, ghosts
<1>0. TypeOK /\ Holds(d, o, h) /\ Focus(d)
  BY DEF PatientInv, Belongs
<1>1. /\ mine[d] => mPost[d] # None /\ o[mPost[d].id] = UserOf[d]
      /\ scr[d] = "editForm" => mine[d]
  BY <1>0 DEF Holds
<1>2. CASE Populate(d) \/ Ignore(d)
  <2>1. UNCHANGED <<posts, comments, list, mPost, mNew, reads, queue, mine, scr>>
    BY <1>2 DEF Populate, Ignore
  <2> QED
    BY <1>0, <1>1, <2>1, CarriesSame
<1>3. ASSUME NEW s \in Slots, OnUpdateFields(d, s) PROVE Carries(d, o, h)
  <2> DEFINE copy == CopyOf(reads[d][s].id, reads[d][s].doc)
  <2>1. /\ copy.id = reads[d][s].id
        /\ copy.author = reads[d][s].doc.author
        /\ copy.comments = reads[d][s].doc.comments
    BY DEF CopyOf
  <2>2. /\ mPost' = IF scr[d] = "detail" THEN [mPost EXCEPT ![d] = copy]
                                        ELSE mPost
        /\ reads' = [reads EXCEPT ![d][s] = None]
        /\ reads[d][s] # None /\ reads[d][s].doc # None
        /\ UNCHANGED <<posts, comments, list, mNew, queue, mine, scr>>
    BY <1>3 DEF OnUpdateFields
  <2>3. Good(o, h, copy.id, copy)
    BY <1>0, <2>1, <2>2 DEF Holds, Good
  <2>4. copy # None
    <3>1. reads[d][s].id \in PostIds /\ reads[d][s].doc \in Docs
      BY <1>0, <2>2 DEF TypeOK, Read
    <3>2. copy \in Copies
      BY <3>1 DEF CopyOf, Copies, Docs
    <3> QED
      BY <3>2, NoneAssumption
  <2> HIDE DEF copy
  <2>5. /\ \A e \in Devices \ {d} : reads'[e] = reads[e]
        /\ \A r \in Slots : reads'[d][r] = reads[d][r] \/ reads'[d][r] = None
    <3>1. reads' = [reads EXCEPT ![d][s] = None]
      BY <2>2
    <3> QED
      BY <1>0, <3>1 DEF TypeOK
  <2>6. CASE scr[d] = "detail"
    <3>1. /\ mPost'[d] = copy
          /\ \A e \in Devices \ {d} : mPost'[e] = mPost[e]
      BY <1>0, <2>2, <2>6 DEF TypeOK
    <3>2. copy.id = mPost[d].id
      BY <1>0, <2>1, <2>2, <2>6 DEF Focus, OnPost
    <3> QED
      BY <1>1, <2>2, <2>3, <2>4, <2>5, <2>6, <3>1, <3>2 DEF Carries
  <2>7. CASE scr[d] # "detail"
    <3>1. mPost' = mPost
      BY <2>2, <2>7
    <3> QED
      BY <1>1, <2>2, <2>5, <3>1 DEF Carries
  <2> QED
    BY <2>6, <2>7
<1>4. CASE OnUpdateComment(d)
  <2> DEFINE w == UpdatePost("UPDATE_VALUE", mPost[d], mNew[d])
  <2>1. mPost[d] \in Copies /\ mNew[d] \in Copies /\ mNew[d] # None
    BY <1>0, <1>4 DEF OnUpdateComment, Receive, Registered, TypeOK, FormTags,
                      LeakedTags, ResumedTags
  <2>2. w \in Write
    BY <2>1, RequestTypes DEF Tags, ResumedTags
  <2>3. /\ w.op = "updatePost" /\ w.post = mPost[d].id
        /\ w.doc.author = mNew[d].author
        /\ w.doc.comments = mNew[d].comments
    BY DEF UpdatePost, DocOf
  <2>4. /\ UNCHANGED <<posts, comments, list, mPost, mNew, reads, mine, scr>>
        /\ Send(d, w)
    BY <1>4 DEF OnUpdateComment
  <2> HIDE DEF w
  <2>5. Honest(d, o, h, w)
    BY <1>0, <2>1, <2>3 DEF Honest, Holds, Good, Focus
  <2> QED
    BY <1>0, <2>2, <2>4, <2>5, CarriesSend
<1>5. CASE OnUpdateValue(d) \/ OnUpdateAfterYCard(d)
  <2>1. /\ UNCHANGED <<posts, comments, list, mPost, mNew, queue, mine, scr>>
        /\ GetPost(d, mPost[d].id)
    BY <1>5 DEF OnUpdateValue, OnUpdateAfterYCard
  <2>2. /\ \A e \in Devices, s \in Slots :
              reads'[e][s] = reads[e][s] \/ reads'[e][s].doc = None
        /\ \A e \in Devices \ {d} : reads'[e] = reads[e]
    BY <1>0, <2>1, GetPostStep, GetPostMove
  <2> QED
    BY <1>0, <1>1, <2>1, <2>2, CarriesSame
<1>6. CASE OnUpdateUserYCard(d)
  <2> DEFINE w == UpdatePost("UPDATE_POST_AFTER_YCARD", mPost[d], mPost[d])
  <2>1. mPost[d] \in Copies /\ mPost[d] # None
    BY <1>0, <1>6, NoneAssumption
       DEF OnUpdateUserYCard, Receive, Registered, TypeOK, FormTags,
           LeakedTags, ResumedTags
  <2>2. w \in Write
    BY <2>1, RequestTypes DEF Tags, LeakedTags
  <2>3. /\ w.op = "updatePost" /\ w.post = mPost[d].id
        /\ w.doc.author = mPost[d].author
        /\ w.doc.comments = mPost[d].comments
    BY DEF UpdatePost, DocOf
  <2>4. /\ UNCHANGED <<posts, comments, list, mPost, reads, mine, scr>>
        /\ mNew' = [mNew EXCEPT ![d] = mPost[d]]
        /\ Send(d, w)
    BY <1>6 DEF OnUpdateUserYCard
  <2> HIDE DEF w
  <2>5. /\ mNew'[d] = mPost[d]
        /\ \A e \in Devices \ {d} : mNew'[e] = mNew[e]
    BY <1>0, <2>4 DEF TypeOK
  <2>6. Honest(d, o, h, w)
    BY <1>0, <2>1, <2>3 DEF Honest, Holds, Good
  <2> QED
    BY <1>0, <2>2, <2>4, <2>5, <2>6, CarriesSend
<1>7. CASE OnDeleteInPosts(d)
  <2> DEFINE w == UserWrite("removePosts", "DELETE_POST_IN_USERS", mPost[d].id)
  <2>1. mPost[d].id \in PostIds
    BY <1>0, <1>7 DEF OnDeleteInPosts, Receive, Registered, TypeOK, FormTags,
                      LeakedTags, ResumedTags, Copies
  <2>2. w \in Write /\ w.op = "removePosts"
    BY <2>1, RequestTypes DEF Tags, ResumedTags, UserWrite
  <2>3. /\ UNCHANGED <<posts, comments, list, mPost, mNew, reads, mine, scr>>
        /\ Send(d, w)
    BY <1>7 DEF OnDeleteInPosts
  <2> HIDE DEF w
  <2>4. Honest(d, o, h, w)
    BY <2>2 DEF Honest
  <2> QED
    BY <1>0, <2>2, <2>3, <2>4, CarriesSend
<1>8. CASE OnDeleteInUsers(d)
  BY <1>0, <1>8, CarriesClose DEF OnDeleteInUsers
<1>9. CASE OnCreateInPosts(d)
  <2> DEFINE w == UserWrite("unionPosts", "UPDATE_POST_IN_USERS", formNew[d])
  <2>1. formNew[d] \in PostIds
    BY <1>0, <1>9 DEF OnCreateInPosts, TypeOK
  <2>2. w \in Write /\ w.op = "unionPosts"
    BY <2>1, RequestTypes DEF Tags, FormTags, UserWrite
  <2>3. /\ UNCHANGED <<posts, comments, list, mPost, mNew, reads, mine, scr>>
        /\ Send(d, w)
    BY <1>9 DEF OnCreateInPosts
  <2> HIDE DEF w
  <2>4. Honest(d, o, h, w)
    BY <2>2 DEF Honest
  <2> QED
    BY <1>0, <2>2, <2>3, <2>4, CarriesSend
<1>10. CASE OnFormDone(d)
  BY <1>0, <1>10, CarriesCloseForm DEF OnFormDone
<1> QED
  BY <1>2, <1>3, <1>4, <1>5, <1>6, <1>7, <1>8, <1>9, <1>10 DEF Answer

\* Ids are only ever added.
LEMMA UsedStay ==
    ASSUME NEW d \in Devices, User(d) \/ Answer(d) \/ Server(d) \/ Die(d)
    PROVE  usedIds \subseteq usedIds'
<1> USE DEF history, ghosts
<1>1. CASE User(d)
  BY <1>1 DEF User, RefreshList, OpenForm, LikeTap, YCardTap, DeleteTap,
              EditTap, BackFromDetail, BackFromForm, OpenDetail, CommentTap,
              CreateTap, EditPostTap
<1>2. CASE Answer(d)
  BY <1>2 DEF Answer, Populate, Ignore, OnUpdateFields, OnUpdateComment,
              OnUpdateValue, OnUpdateUserYCard, OnUpdateAfterYCard,
              OnDeleteInPosts, OnDeleteInUsers, OnCreateInPosts, OnFormDone
<1>3. CASE Server(d)
  BY <1>3 DEF Server, CommitComment, CommitSave, CommitDelete, CommitUser,
              Reject, ServeRead, LoseRead
<1>4. CASE Die(d)
  BY <1>4 DEF Die
<1> QED
  BY <1>1, <1>2, <1>3, <1>4

\* A post goes only when a delete is committed.
LEMMA WhoDeletes ==
    ASSUME TypeOK, Next, NEW p \in PostIds, posts[p] # None, posts'[p] = None
    PROVE  \E d \in Devices : CommitDelete(d)
<1> USE DEF store
<1>1. PICK d \in Devices : User(d) \/ Answer(d) \/ Server(d) \/ Die(d)
  BY DEF Next
<1>2. posts' # posts
  OBVIOUS
<1>3. ~User(d)
  BY <1>2 DEF User, RefreshList, OpenForm, LikeTap, YCardTap, DeleteTap,
              EditTap, BackFromDetail, BackFromForm, OpenDetail, CommentTap,
              CreateTap, EditPostTap
<1>4. ~Answer(d)
  BY <1>2 DEF Answer, Populate, Ignore, OnUpdateFields, OnUpdateComment,
              OnUpdateValue, OnUpdateUserYCard, OnUpdateAfterYCard,
              OnDeleteInPosts, OnDeleteInUsers, OnCreateInPosts, OnFormDone
<1>5. ~Die(d)
  BY <1>2 DEF Die
<1>6. ~CommitSave(d)
  <2> SUFFICES ASSUME CommitSave(d) PROVE FALSE
    OBVIOUS
  <2> DEFINE w == Head(queue[d])
  <2>1. /\ queue[d] # <<>> /\ w.op \in {"setPost", "updatePost"}
        /\ posts' = [posts EXCEPT ![w.post] = w.doc]
    BY DEF CommitSave, Oldest
  <2>2. w.doc # None
    <3>1. queue[d] \in Seq(Write)
      BY DEF TypeOK
    <3>2. w \in Write
      BY <2>1, <3>1, Taken
    <3> QED
      BY <2>1, <3>2 DEF Write
  <2> HIDE DEF w
  <2> QED
    BY <2>1, <2>2 DEF TypeOK
<1>7. CommitDelete(d)
  BY <1>1, <1>2, <1>3, <1>4, <1>5, <1>6
     DEF Server, CommitComment, CommitUser, Reject, ServeRead, LoseRead
<1> QED
  BY <1>7

LEMMA ServerCarries ==
    ASSUME PatientInv,
           NEW P \in SUBSET PostIds, NEW C \in SUBSET CommentIds,
           NEW o \in [P -> Users], NEW h \in [C -> PostIds],
           Belongs(o, h), NEW d \in Devices, Server(d)
    PROVE  Carries(d, o, h)
<1> USE DEF history, store, detail, ghosts
<1>0. TypeOK /\ Holds(d, o, h)
  BY DEF PatientInv, Belongs
<1>1. /\ mine[d] => mPost[d] # None /\ o[mPost[d].id] = UserOf[d]
      /\ scr[d] = "editForm" => mine[d]
  BY <1>0 DEF Holds
<1>2. ASSUME NEW s \in Slots, ServeRead(d, s) PROVE Carries(d, o, h)
  <2> DEFINE view == View(d, reads[d][s].id)
  <2>1. /\ UNCHANGED <<posts, comments, list, mPost, mNew, queue, mine, scr>>
        /\ reads' = [reads EXCEPT ![d][s].served = TRUE, ![d][s].doc = view]
        /\ reads[d][s] # None
    BY <1>2 DEF ServeRead
  <2>2. reads[d][s] \in Read /\ reads[d][s].id \in PostIds
    BY <1>0, <2>1 DEF TypeOK, Read
  <2>3. view = None \/ Good(o, h, reads[d][s].id, view)
    BY <1>0, <2>2, ViewGood
  <2> HIDE DEF view
  <2>4. /\ \A e \in Devices \ {d} : reads'[e] = reads[e]
        /\ \A r \in Slots : r # s => reads'[d][r] = reads[d][r]
        /\ reads'[d][s].id = reads[d][s].id /\ reads'[d][s].doc = view
    BY <1>0, <2>1, <2>2 DEF TypeOK, Read
  <2>5. \A r \in Slots : \/ reads'[d][r] = reads[d][r]
                         \/ reads'[d][r].doc = None
                         \/ Good(o, h, reads'[d][r].id, reads'[d][r].doc)
    BY <2>3, <2>4
  <2> QED
    BY <1>1, <2>1, <2>4, <2>5 DEF Carries
<1>3. ASSUME NEW s \in Slots, LoseRead(d, s) PROVE Carries(d, o, h)
  <2>1. /\ UNCHANGED <<posts, comments, list, mPost, mNew, queue, mine, scr>>
        /\ reads' = [reads EXCEPT ![d][s] = None]
    BY <1>3 DEF LoseRead
  <2>2. /\ \A e \in Devices \ {d} : reads'[e] = reads[e]
        /\ \A r \in Slots : reads'[d][r] = reads[d][r] \/ reads'[d][r] = None
    BY <1>0, <2>1 DEF TypeOK
  <2> QED
    BY <1>0, <1>1, <2>1, <2>2, CarriesSame
<1>4. ASSUME ~\E s \in Slots : ServeRead(d, s) \/ LoseRead(d, s)
      PROVE  Carries(d, o, h)
  <2> DEFINE w == Head(queue[d])
  <2>1. /\ queue[d] # <<>>
        /\ queue' = [queue EXCEPT ![d] = Tail(@)]
        /\ UNCHANGED <<list, mPost, mNew, reads, mine, scr>>
    BY <1>4 DEF Server, CommitComment, CommitSave, CommitDelete, CommitUser,
                Reject, Complete, Oldest
  <2>2. \A e \in Devices \ {d} : queue'[e] = queue[e]
    BY <1>0, <2>1 DEF TypeOK
  <2>3. queue[d] \in Seq(Write)
    BY <1>0 DEF TypeOK
  <2>4. w = queue[d][1] /\ 1 \in 1..Len(queue[d]) /\ w \in Write
    BY <2>1, <2>3, Taken
  <2>5. Honest(d, o, h, w)
    BY <1>0, <2>4 DEF Holds
  <2> HIDE DEF w
  <2>6. \A p \in PostIds : \/ posts'[p] = posts[p]
                           \/ posts'[p] = None
                           \/ Good(o, h, p, posts'[p])
    <3>1. CASE CommitSave(d)
      <4>1. /\ w.op \in {"setPost", "updatePost"}
            /\ posts' = [posts EXCEPT ![w.post] = w.doc]
        BY <3>1 DEF CommitSave, Oldest, w
      <4>2. Good(o, h, w.post, w.doc)
        BY <2>5, <4>1 DEF Honest
      <4>3. \A p \in PostIds :
               posts'[p] = IF p = w.post THEN w.doc ELSE posts[p]
        BY <1>0, <4>1 DEF TypeOK
      <4> QED
        BY <4>2, <4>3
    <3>2. CASE CommitDelete(d)
      <4>1. posts' = [posts EXCEPT ![w.post] = None]
        BY <3>2 DEF CommitDelete, w
      <4> QED
        BY <1>0, <4>1 DEF TypeOK
    <3>3. CASE ~CommitSave(d) /\ ~CommitDelete(d)
      BY <1>4, <3>3 DEF Server, CommitComment, CommitUser, Reject
    <3> QED
      BY <3>1, <3>2, <3>3
  <2>7. \A c \in CommentIds : \/ comments'[c] = comments[c]
                              \/ c \in DOMAIN h /\ comments'[c] = h[c]
    <3>1. CASE CommitComment(d)
      <4>1. /\ w.op = "setComment"
            /\ comments' = [comments EXCEPT ![w.comment] = w.post]
        BY <3>1 DEF CommitComment, Oldest, w
      <4>2. w.comment \in DOMAIN h /\ w.post = h[w.comment]
        BY <2>5, <4>1 DEF Honest
      <4>3. \A c \in CommentIds :
               comments'[c] = IF c = w.comment THEN w.post ELSE comments[c]
        BY <1>0, <4>1 DEF TypeOK
      <4> QED
        BY <4>2, <4>3
    <3>2. CASE ~CommitComment(d)
      BY <1>4, <3>2 DEF Server, CommitSave, CommitDelete, CommitUser, Reject
    <3> QED
      BY <3>1, <3>2
  <2> QED
    BY <1>1, <2>1, <2>2, <2>6, <2>7 DEF Carries
<1> QED
  BY <1>2, <1>3, <1>4

LEMMA DieCarries ==
    ASSUME PatientInv,
           NEW P \in SUBSET PostIds, NEW C \in SUBSET CommentIds,
           NEW o \in [P -> Users], NEW h \in [C -> PostIds],
           Belongs(o, h), NEW d \in Devices, Die(d)
    PROVE  Carries(d, o, h)
<1>0. TypeOK
  BY DEF PatientInv
<1>1. /\ scr'[d] = "list" /\ mPost'[d] = None /\ mNew'[d] = None
      /\ mine'[d] = FALSE
      /\ \A p \in PostIds : list'[d][p] = None
      /\ \A s \in Slots : reads'[d][s] = None
      /\ queue' = [queue EXCEPT ![d] = Orphaned(d)]
      /\ UNCHANGED <<posts, comments>>
      /\ \A e \in Devices \ {d} :
            /\ list'[e] = list[e] /\ mPost'[e] = mPost[e]
            /\ mNew'[e] = mNew[e] /\ reads'[e] = reads[e]
            /\ queue'[e] = queue[e]
            /\ mine'[e] = mine[e] /\ scr'[e] = scr[e]
  BY <1>0 DEF Die, TypeOK
<1> QED
  BY <1>1 DEF Carries

-----------------------------------------------------------------------------
(* Comments stay with their post, and posts with their author *)

LEMMA InitBelong == Init => BelongInv
<1> SUFFICES ASSUME Init PROVE BelongInv
  OBVIOUS
<1>1. PatientInv
  BY InitPatient
<1> DEFINE P == {p \in PostIds : OldPosts[p] # None}
<1>2. \A p \in P : OldPosts[p] \in Users
  BY ForumAssumption
<1>3. PICK o \in [P -> Users] : \A p \in P : o[p] = OldPosts[p]
  <2>1. [p \in P |-> OldPosts[p]] \in [P -> Users]
    BY <1>2
  <2> QED
    BY <2>1
<1>4. PICK h \in [{} -> PostIds] : TRUE
  <2>1. [c \in {} |-> None] \in [{} -> PostIds]
    OBVIOUS
  <2> QED
    BY <2>1
<1>5. \A p \in PostIds : posts[p] # None => Good(o, h, p, posts[p])
  BY <1>3 DEF Init, Good
<1>6. \A d \in Devices : Holds(d, o, h)
  <2> SUFFICES ASSUME NEW d \in Devices PROVE Holds(d, o, h)
    OBVIOUS
  <2>1. queue[d] = <<>>
    BY DEF Init
  <2>2. 1..Len(queue[d]) = {}
    BY <2>1, EmptySeq
  <2>3. /\ scr[d] = "list" /\ mPost[d] = None /\ mNew[d] = None
        /\ mine[d] = FALSE
        /\ \A p \in PostIds : list[d][p] = None
        /\ \A s \in Slots : reads[d][s] = None
    BY DEF Init
  <2> QED
    BY <2>2, <2>3 DEF Holds
<1>7. \A c \in CommentIds : comments[c] = None
  BY DEF Init
<1>8. Belongs(o, h)
  BY <1>5, <1>6, <1>7 DEF Belongs
<1>9. P \in SUBSET PostIds /\ {} \in SUBSET CommentIds
      /\ P \cup {} \subseteq usedIds
  BY DEF Init
<1> QED
  BY <1>1, <1>8, <1>9 DEF BelongInv

\* A step of device d goes on from labels that fit, some of them perhaps new.
LEMMA BelongStep ==
    ASSUME UniqueIds, Patient, BelongInv, NEW d \in Devices,
           User(d) \/ Answer(d) \/ Server(d) \/ Die(d)
    PROVE  \E P \in SUBSET PostIds, C \in SUBSET CommentIds :
              /\ P \cup C \subseteq usedIds'
              /\ \E o \in [P -> Users], h \in [C -> PostIds] :
                    Belongs(o, h) /\ Carries(d, o, h)
<1>1. PICK P \in SUBSET PostIds, C \in SUBSET CommentIds :
         /\ P \cup C \subseteq usedIds
         /\ \E o \in [P -> Users], h \in [C -> PostIds] : Belongs(o, h)
  BY DEF BelongInv
<1>2. PICK o \in [P -> Users], h \in [C -> PostIds] : Belongs(o, h)
  BY <1>1
<1>3. PatientInv
  BY DEF BelongInv
<1>4. ASSUME NEW c \in CommentIds, CommentTap(d, c)
      PROVE  \E C2 \in SUBSET CommentIds :
                /\ P \cup C2 \subseteq usedIds'
                /\ \E h2 \in [C2 -> PostIds] :
                      Belongs(o, h2) /\ Carries(d, o, h2)
  BY <1>1, <1>2, <1>3, <1>4, CommentCarries
<1>5. ASSUME NEW p \in PostIds, NEW a \in Users, CreateTap(d, p, a)
      PROVE  \E P2 \in SUBSET PostIds :
                /\ P2 \cup C \subseteq usedIds'
                /\ \E o2 \in [P2 -> Users] :
                      Belongs(o2, h) /\ Carries(d, o2, h)
  <2>1. P \cup C \subseteq usedIds /\ P \in SUBSET PostIds
        /\ C \in SUBSET CommentIds
    BY <1>1
  <2> QED
    BY ONLY UniqueIds, <1>2, <1>3, <1>5, <2>1, CreateCarries, ZenonT(60)
<1>6. CASE Carries(d, o, h)
  <2>1. usedIds \subseteq usedIds'
    BY UsedStay
  <2> QED
    BY <1>1, <1>2, <1>6, <2>1
<1>7. \/ Carries(d, o, h)
      \/ \E c \in CommentIds : CommentTap(d, c)
      \/ \E p \in PostIds, a \in Users : CreateTap(d, p, a)
  BY <1>2, <1>3, UserCarries, AnswerCarries, ServerCarries, DieCarries
<1> QED
  BY <1>2, <1>4, <1>5, <1>6, <1>7

LEMMA NextBelong ==
    UniqueIds /\ Patient /\ BelongInv /\ [Next]_vars => BelongInv'
<1> SUFFICES ASSUME UniqueIds, Patient, BelongInv, [Next]_vars
             PROVE  BelongInv'
  OBVIOUS
<1>1. TypeOK /\ PatientInv'
  BY NextPatient DEF BelongInv, PatientInv
<1>2. ASSUME NEW P \in SUBSET PostIds, NEW C \in SUBSET CommentIds,
             NEW o \in [P -> Users], NEW h \in [C -> PostIds],
             P \cup C \subseteq usedIds', Belongs(o, h)'
      PROVE  BelongInv'
  BY <1>1, <1>2 DEF BelongInv
<1>3. CASE UNCHANGED vars
  <2>1. PICK P \in SUBSET PostIds, C \in SUBSET CommentIds :
           /\ P \cup C \subseteq usedIds
           /\ \E o \in [P -> Users], h \in [C -> PostIds] : Belongs(o, h)
    BY DEF BelongInv
  <2>2. PICK o \in [P -> Users], h \in [C -> PostIds] : Belongs(o, h)
    BY <2>1
  <2>3. Belongs(o, h)' /\ usedIds' = usedIds
    BY <1>3, <2>2 DEF vars, Belongs, Holds, Honest, Good
  <2> QED
    BY <1>2, <2>1, <2>3
<1>4. ASSUME NEW d \in Devices, User(d) \/ Answer(d) \/ Server(d) \/ Die(d)
      PROVE  BelongInv'
  <2>1. PICK P \in SUBSET PostIds, C \in SUBSET CommentIds :
           /\ P \cup C \subseteq usedIds'
           /\ \E o \in [P -> Users], h \in [C -> PostIds] :
                 Belongs(o, h) /\ Carries(d, o, h)
    BY <1>4, BelongStep
  <2>2. PICK o \in [P -> Users], h \in [C -> PostIds] :
           Belongs(o, h) /\ Carries(d, o, h)
    BY <2>1
  <2>3. Belongs(o, h)'
    BY <1>1, <2>2, CarriedOn
  <2> QED
    BY <1>2, <2>1, <2>3
<1> QED
  BY <1>3, <1>4 DEF Next

\* With users who wait and ids that are never made twice, a post lists only
\* comments that were written to it: every copy of a post that any device
\* holds or is about to save lists comments of that post alone.
THEOREM CommentsStayHome ==
    UniqueIds /\ Patient => (Spec => []CommentsBelong)
<1> SUFFICES ASSUME UniqueIds, Patient PROVE Spec => []CommentsBelong
  OBVIOUS
<1>1. BelongInv /\ [Next]_vars => BelongInv'
  BY NextBelong
<1>2. Spec => []BelongInv
  BY <1>1, InitBelong, PTL DEF Spec
<1>3. BelongInv => CommentsBelong
  <2> SUFFICES ASSUME BelongInv, NEW p \in PostIds, posts[p] # None,
                      NEW c \in posts[p].comments
               PROVE  comments[c] \in {p, None}
    BY DEF CommentsBelong
  <2>1. PICK P \in SUBSET PostIds, C \in SUBSET CommentIds :
           \E o \in [P -> Users], h \in [C -> PostIds] : Belongs(o, h)
    BY DEF BelongInv
  <2>2. PICK o \in [P -> Users], h \in [C -> PostIds] : Belongs(o, h)
    BY <2>1
  <2>3. c \in CommentIds /\ h[c] = p
    BY <2>2 DEF Belongs, Good
  <2> QED
    BY <2>2, <2>3 DEF Belongs
<1> QED
  BY <1>2, <1>3, PTL

\* With users who wait and ids that are never made twice, a post is deleted
\* from a device of its author only: the menu is shown on the author's copy
\* (mIsMyPost), and no save changes whose a post is.
THEOREM AuthorDeletes == UniqueIds /\ Patient => (Spec => OnlyAuthorDeletes)
<1> SUFFICES ASSUME UniqueIds, Patient PROVE Spec => OnlyAuthorDeletes
  OBVIOUS
<1>1. BelongInv /\ [Next]_vars => BelongInv'
  BY NextBelong
<1>2. Spec => []BelongInv
  BY <1>1, InitBelong, PTL DEF Spec
<1>3. BelongInv /\ [Next]_vars =>
         [\A p \in PostIds : posts[p] # None /\ posts'[p] = None =>
            \E d \in Devices : /\ queue[d] # queue'[d]
                               /\ UserOf[d] = posts[p].author]_vars
  <2> SUFFICES ASSUME BelongInv, Next, NEW p \in PostIds,
                      posts[p] # None, posts'[p] = None
               PROVE  \E d \in Devices : /\ queue[d] # queue'[d]
                                         /\ UserOf[d] = posts[p].author
    OBVIOUS
  <2>0. TypeOK
    BY DEF BelongInv, PatientInv
  <2>1. PICK P \in SUBSET PostIds, C \in SUBSET CommentIds :
           \E o \in [P -> Users], h \in [C -> PostIds] : Belongs(o, h)
    BY DEF BelongInv
  <2>2. PICK o \in [P -> Users], h \in [C -> PostIds] : Belongs(o, h)
    BY <2>1
  <2>3. PICK d \in Devices : CommitDelete(d)
    BY <2>0, WhoDeletes
  <2> DEFINE w == Head(queue[d])
  <2>4. /\ queue[d] # <<>> /\ w.op = "deletePost"
        /\ queue' = [queue EXCEPT ![d] = Tail(@)]
        /\ posts' = [posts EXCEPT ![w.post] = None]
    BY <2>3 DEF CommitDelete, Oldest, Complete
  <2>5. /\ 1 \in 1..Len(queue[d]) /\ w = queue[d][1]
        /\ queue'[d] = Tail(queue[d])
        /\ Len(queue[d]) = Len(Tail(queue[d])) + 1
        /\ Len(Tail(queue[d])) \in Nat
    <3>1. queue[d] \in Seq(Write)
      BY <2>0 DEF TypeOK
    <3> QED
      BY <2>0, <2>4, <3>1, Taken DEF TypeOK
  <2>6. queue[d] # queue'[d]
    <3>1. Len(queue[d]) # Len(Tail(queue[d]))
      BY <2>5
    <3> QED
      BY <2>5, <3>1, Zenon
  <2>7. Honest(d, o, h, w)
    BY <2>2, <2>5 DEF Belongs, Holds
  <2> HIDE DEF w
  <2>8. w.post = p
    BY <2>0, <2>4 DEF TypeOK
  <2>9. o[p] = UserOf[d]
    BY <2>4, <2>7, <2>8 DEF Honest
  <2>10. posts[p].author = o[p]
    BY <2>2 DEF Belongs, Good
  <2> QED
    BY <2>6, <2>9, <2>10
<1> QED
  BY <1>2, <1>3, PTL DEF Spec, OnlyAuthorDeletes
=============================================================================
