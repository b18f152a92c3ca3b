-------------------------- MODULE PostScreen_proofs --------------------------
(***************************************************************************)
(* Proofs about PostScreen, for any posts, comments and users and any      *)
(* number of reads and writes under way: each crash has its cause, nobody  *)
(* becomes the author of another's post, a comment on a quiet screen       *)
(* replies to what is shown and is not wiped before it is posted, a screen *)
(* at rest shows what is stored, and replies stay in their thread.         *)
(***************************************************************************)
EXTENDS PostScreen, SequenceTheorems, TLAPS

USE PostScreenAssumption, NullAssumption
    DEF Fine, Disturbed, Late, Lost, Crossed

-----------------------------------------------------------------------------
(* Sequences *)

LEMMA Grown ==
    ASSUME NEW S, NEW q \in Seq(S), NEW w \in S
    PROVE  /\ Append(q, w) \in Seq(S) /\ Append(q, w) # <<>>
           /\ Len(q) \in Nat /\ DOMAIN q = 1..Len(q)
           /\ DOMAIN Append(q, w) = 1..(Len(q) + 1)
           /\ \A i \in DOMAIN q : Append(q, w)[i] = q[i]
           /\ Append(q, w)[Len(q) + 1] = w
<1>1. Len(q) \in Nat /\ DOMAIN q = 1..Len(q)
  BY LenProperties
<1>2. /\ Append(q, w) \in Seq(S)
      /\ Len(Append(q, w)) = Len(q) + 1
      /\ \A i \in 1..Len(q) : Append(q, w)[i] = q[i]
      /\ Append(q, w)[Len(q) + 1] = w
  BY AppendProperties
<1>3. DOMAIN Append(q, w) = 1..(Len(q) + 1)
  BY <1>2, LenProperties
<1>4. Append(q, w) # <<>>
  BY <1>1, <1>2, EmptySeq
<1> QED
  BY <1>1, <1>2, <1>3, <1>4

LEMMA Joined ==
    ASSUME NEW S, NEW a \in Seq(S), NEW b \in Seq(S), NEW c, c = a \o b
    PROVE  /\ c \in Seq(S)
           /\ Len(a) \in Nat /\ DOMAIN a = 1..Len(a)
           /\ Len(b) \in Nat /\ DOMAIN b = 1..Len(b)
           /\ DOMAIN c = 1..(Len(a) + Len(b))
           /\ \A i \in DOMAIN a : c[i] = a[i]
           /\ \A i \in DOMAIN b :
                 Len(a) + i \in DOMAIN c /\ c[Len(a) + i] = b[i]
           /\ \A i \in DOMAIN c :
                 \/ i \in DOMAIN a /\ c[i] = a[i]
                 \/ \E j \in DOMAIN b : c[i] = b[j]
<1>1. /\ Len(a) \in Nat /\ DOMAIN a = 1..Len(a)
      /\ Len(b) \in Nat /\ DOMAIN b = 1..Len(b)
  BY LenProperties
<1>2. /\ c \in Seq(S) /\ Len(c) = Len(a) + Len(b)
      /\ \A k \in 1..(Len(a) + Len(b)) :
            c[k] = IF k <= Len(a) THEN a[k] ELSE b[k - Len(a)]
  BY ConcatProperties
<1>3. DOMAIN c = 1..(Len(a) + Len(b))
  BY <1>2, LenProperties
<1>4. \A i \in DOMAIN a : c[i] = a[i]
  BY <1>1, <1>2
<1>5. ASSUME NEW i \in DOMAIN b
      PROVE  Len(a) + i \in DOMAIN c /\ c[Len(a) + i] = b[i]
  <2>1. i \in Nat /\ 1 <= i /\ i <= Len(b)
    BY <1>1
  <2>2. Len(a) + i \in DOMAIN c /\ Len(a) + i - Len(a) = i
    BY <1>1, <1>3, <2>1
  <2>3. ~(Len(a) + i <= Len(a))
    BY <1>1, <2>1
  <2> QED
    BY <1>2, <1>3, <2>2, <2>3
<1>6. ASSUME NEW i \in DOMAIN c
      PROVE  \/ i \in DOMAIN a /\ c[i] = a[i]
             \/ \E j \in DOMAIN b : c[i] = b[j]
  <2>1. CASE i <= Len(a)
    BY <1>1, <1>2, <1>3, <2>1
  <2>2. CASE ~(i <= Len(a))
    <3>1. i - Len(a) \in DOMAIN b /\ c[i] = b[i - Len(a)]
      BY <1>1, <1>2, <1>3, <2>2
    <3> QED
      BY <3>1
  <2> QED
    BY <2>1, <2>2
<1> QED
  BY <1>1, <1>2, <1>3, <1>4, <1>5, <1>6

LEMMA Shifted ==
    ASSUME NEW S, NEW q \in Seq(S), q # <<>>
    PROVE  /\ Head(q) \in S /\ Tail(q) \in Seq(S)
           /\ 1 \in DOMAIN q /\ Head(q) = q[1]
           /\ DOMAIN q = 1..Len(q) /\ Len(q) \in Nat
           /\ \A i \in DOMAIN Tail(q) :
                 i + 1 \in DOMAIN q /\ Tail(q)[i] = q[i + 1]
<1>1. Len(q) \in Nat \ {0} /\ DOMAIN q = 1..Len(q)
  BY LenProperties, EmptySeq
<1>2. /\ Head(q) \in S /\ Tail(q) \in Seq(S)
      /\ Len(Tail(q)) = Len(q) - 1
      /\ \A i \in 1..Len(Tail(q)) : Tail(q)[i] = q[i + 1]
  BY HeadTailProperties
<1>3. DOMAIN Tail(q) = 1..(Len(q) - 1)
  BY <1>2, LenProperties
<1>4. 1 \in DOMAIN q /\ Head(q) = q[1]
  BY <1>1
<1> QED
  BY <1>1, <1>2, <1>3, <1>4

LEMMA Removed ==
    ASSUME NEW S, NEW q \in Seq(S), NEW i \in DOMAIN q
    PROVE  /\ RemoveAt(q, i) \in Seq(S)
           /\ \A j \in DOMAIN RemoveAt(q, i) : \E k \in DOMAIN q :
                 RemoveAt(q, i)[j] = q[k]
           /\ \A k \in DOMAIN q \ {i} : \E j \in DOMAIN RemoveAt(q, i) :
                 RemoveAt(q, i)[j] = q[k]
<1>1. Len(q) \in Nat /\ DOMAIN q = 1..Len(q) /\ i \in 1..Len(q)
  BY LenProperties
<1> DEFINE A == SubSeq(q, 1, i - 1)
           B == SubSeq(q, i + 1, Len(q))
<1>2. /\ A \in Seq(S) /\ Len(A) = i - 1
      /\ \A k \in 1..(i - 1) : A[k] = q[k]
  BY <1>1, SubSeqProperties
<1>3. /\ B \in Seq(S) /\ Len(B) = Len(q) - i
      /\ \A k \in 1..(Len(q) - i) : B[k] = q[i + k]
  BY <1>1, SubSeqProperties
<1>a. RemoveAt(q, i) = A \o B
  BY DEF RemoveAt
<1> HIDE DEF A, B
<1>4. PICK a \in Seq(S), b \in Seq(S), c \in {RemoveAt(q, i)} :
         /\ c = a \o b /\ c = RemoveAt(q, i)
         /\ Len(a) = i - 1 /\ \A k \in 1..(i - 1) : a[k] = q[k]
         /\ Len(b) = Len(q) - i
         /\ \A k \in 1..(Len(q) - i) : b[k] = q[i + k]
  BY <1>2, <1>3, <1>a
<1>5. /\ c \in Seq(S)
      /\ DOMAIN a = 1..Len(a) /\ DOMAIN b = 1..Len(b)
      /\ DOMAIN c = 1..(Len(a) + Len(b))
      /\ \A k \in DOMAIN a : c[k] = a[k]
      /\ \A k \in DOMAIN b :
            Len(a) + k \in DOMAIN c /\ c[Len(a) + k] = b[k]
      /\ \A k \in DOMAIN c :
            \/ k \in DOMAIN a /\ c[k] = a[k]
            \/ \E j \in DOMAIN b : c[k] = b[j]
  <2>1. c = a \o b
    BY <1>4
  <2> QED
    BY <2>1, Joined
<1>6. \A j \in DOMAIN c : \E k \in DOMAIN q : c[j] = q[k]
  <2>1. ASSUME NEW j \in DOMAIN a PROVE \E k \in DOMAIN q : a[j] = q[k]
    <3>1. j \in DOMAIN q /\ a[j] = q[j]
      BY <1>1, <1>4, <1>5
    <3> QED
      BY <3>1
  <2>2. ASSUME NEW j \in DOMAIN b PROVE \E k \in DOMAIN q : b[j] = q[k]
    <3>1. j \in 1..(Len(q) - i)
      BY <1>1, <1>4, <1>5
    <3>2. i + j \in DOMAIN q
      BY <1>1, <3>1
    <3>3. b[j] = q[i + j]
      BY <1>4, <3>1
    <3> QED
      BY <3>2, <3>3
  <2>3. ASSUME NEW j \in DOMAIN c PROVE \E k \in DOMAIN q : c[j] = q[k]
    <3>1. CASE j \in DOMAIN a /\ c[j] = a[j]
      BY <2>1, <3>1
    <3>2. ASSUME NEW k \in DOMAIN b, c[j] = b[k]
          PROVE  \E l \in DOMAIN q : c[j] = q[l]
      BY <2>2, <3>2
    <3> QED
      BY <1>5, <3>1, <3>2
  <2> QED
    BY <2>3
<1>7. ASSUME NEW k \in DOMAIN q \ {i} PROVE \E j \in DOMAIN c : c[j] = q[k]
  <2>1. CASE k < i
    <3>1. k \in DOMAIN a /\ a[k] = q[k] /\ k \in DOMAIN c
      BY <1>1, <1>4, <1>5, <2>1
    <3> QED
      BY <1>5, <3>1
  <2>2. CASE k > i
    <3>1. PICK j \in 1..(Len(q) - i) : j = k - i
      BY <1>1, <2>2
    <3>2. j \in DOMAIN b /\ b[j] = q[k]
      BY <1>1, <1>4, <1>5, <3>1, i + j = k
    <3> QED
      BY <1>5, <3>2
  <2> QED
    BY <1>1, <2>1, <2>2
<1> QED
  BY <1>4, <1>5, <1>6, <1>7

-----------------------------------------------------------------------------
(* Types *)

\* A read and a write that were made of something.
GoodRead ==
    {r \in Read :
        /\ r.tag = "author" => r.user \in Users
        /\ r.tag = "fields" => r.post \in Posts
        /\ r.val # None => r.tag = "fields" /\ r.val.id = r.post}
GoodWrite ==
    {w \in Write :
        /\ w.tag = "comment" => w.id \in Comments /\ w.doc = None
        /\ w.tag # "comment" => w.id = None /\ w.doc \in Doc}

\* What is there with a screen: no instance, no state of it.
Ready ==
    /\ screen # "list" <=> mPost # None
    /\ screen # "list" => mAuthor # None
    /\ screen = "list" => /\ mNewPost = None /\ ~ready /\ ~mUser /\ ~mine
                          /\ \A i \in DOMAIN reads : reads[i].stale
                          /\ \A i \in DOMAIN queue : queue[i].stale
    /\ ready => mUser
    /\ reply # None \/ popup # None => ready

TypeInv ==
    /\ TypeOK
    /\ reads \in Seq(GoodRead) /\ queue \in Seq(GoodWrite)
    /\ Ready

LEMMA GoodSeqs ==
    /\ \A q \in Seq(GoodRead) : q \in Seq(Read)
    /\ \A q \in Seq(GoodWrite) : q \in Seq(Write)
<1>1. ASSUME NEW S, NEW T, NEW q \in Seq(S), S \subseteq T
      PROVE  q \in Seq(T)
  <2>1. \A i \in 1..Len(q) : q[i] \in T
    BY <1>1, ElementOfSeq
  <2>2. Len(q) \in Nat /\ q = [i \in 1..Len(q) |-> q[i]]
    BY LenProperties
  <2>3. [i \in 1..Len(q) |-> q[i]] \in Seq(T)
    BY <2>1, <2>2, IsASeq
  <2> QED
    BY <2>2, <2>3
<1>2. GoodRead \subseteq Read /\ GoodWrite \subseteq Write
  BY DEF GoodRead, GoodWrite
<1> QED
  BY <1>1, <1>2

LEMMA Elements ==
    ASSUME TypeInv
    PROVE  /\ \A i \in DOMAIN reads : reads[i] \in GoodRead
           /\ \A i \in DOMAIN queue : queue[i] \in GoodWrite
           /\ DOMAIN reads = 1..Len(reads) /\ Len(reads) \in Nat
           /\ DOMAIN queue = 1..Len(queue) /\ Len(queue) \in Nat
BY ElementOfSeq, LenProperties DEF TypeInv

LEMMA Copies ==
    /\ \A p \in Posts, doc \in Doc :
          /\ CopyOf(p, doc) \in Copy /\ CopyOf(p, doc) # None
          /\ CopyOf(p, doc).id = p
          /\ CopyOf(p, doc).author = doc.author
          /\ CopyOf(p, doc).comments = doc.comments
    /\ \A copy \in Copy :
          /\ DocOf(copy) \in Doc
          /\ DocOf(copy).author = copy.author
          /\ DocOf(copy).comments = copy.comments
BY DEF CopyOf, DocOf, Copy, Doc

\* What is asked for is a fresh read, not yet answered.
LEMMA Requests ==
    /\ GetCurrent \in GoodRead /\ GetCurrent.tag = "current"
    /\ ~GetCurrent.stale /\ GetCurrent.val = None
    /\ \A u \in Users :
          /\ GetAuthor(u) \in GoodRead /\ GetAuthor(u).tag = "author"
          /\ ~GetAuthor(u).stale /\ GetAuthor(u).val = None
          /\ GetAuthor(u).user = u
    /\ \A p \in Posts :
          /\ GetPost(p) \in GoodRead /\ GetPost(p).tag = "fields"
          /\ ~GetPost(p).stale /\ GetPost(p).val = None
          /\ GetPost(p).post = p
    /\ \A S \in SUBSET Comments :
          /\ GetComments(S) \in GoodRead /\ GetComments(S).tag = "comments"
          /\ ~GetComments(S).stale /\ GetComments(S).val = None
          /\ GetComments(S).ids = S
BY DEF GetCurrent, GetAuthor, GetPost, GetComments, Request, GoodRead, Read

LEMMA Writes ==
    /\ \A tag \in {"save", "edit"}, p \in Posts, doc \in Doc :
          /\ Save(tag, p, doc) \in GoodWrite /\ ~Save(tag, p, doc).stale
          /\ Save(tag, p, doc).tag = tag /\ Save(tag, p, doc).post = p
          /\ Save(tag, p, doc).doc = doc
    /\ \A c \in Comments, p \in Posts, k \in Comments \cup {None} :
          /\ SetComment(c, p, k) \in GoodWrite /\ ~SetComment(c, p, k).stale
          /\ SetComment(c, p, k).tag = "comment"
          /\ SetComment(c, p, k).post = p /\ SetComment(c, p, k).id = c
          /\ SetComment(c, p, k).parent = k /\ SetComment(c, p, k).doc = None
BY DEF Save, SetComment, GoodWrite, Write

\* A post is seen as the server has it or as a pending write has it.
LEMMA ViewOf ==
    ASSUME TypeInv, NEW p \in Posts
    PROVE  /\ View(p) \in Doc
           /\ \/ View(p) = docs[p]
              \/ \E i \in DOMAIN queue :
                    /\ queue[i].doc # None /\ queue[i].post = p
                    /\ View(p) = queue[i].doc
<1>1. \/ View(p) = docs[p]
      \/ \E i \in DOMAIN queue :
            /\ queue[i].doc # None /\ queue[i].post = p
            /\ View(p) = queue[i].doc
  BY DEF View
<1>2. \A i \in DOMAIN queue : queue[i].doc \in Doc \cup {None}
  BY Elements DEF GoodWrite, Write
<1> QED
  BY <1>1, <1>2 DEF TypeInv, TypeOK

-----------------------------------------------------------------------------
(* What the operations make of reads and writes *)

\* Only the reads r are new.
Added(S) ==
    /\ \A i \in DOMAIN reads :
          i \in DOMAIN reads' /\ reads'[i] = reads[i]
    /\ \A i \in DOMAIN reads' :
          \/ i \in DOMAIN reads /\ reads'[i] = reads[i]
          \/ i \notin DOMAIN reads /\ reads'[i] \in S
    /\ \A r \in S : \E i \in DOMAIN reads' : reads'[i] = r

LEMMA AskStep ==
    ASSUME TypeInv, NEW r \in GoodRead, Ask(r)
    PROVE  reads' \in Seq(GoodRead) /\ Added({r})
<1>1. reads \in Seq(GoodRead) /\ reads' = Append(reads, r)
  BY DEF TypeInv, Ask
<1>2. /\ reads' \in Seq(GoodRead)
      /\ Len(reads) \in Nat /\ DOMAIN reads = 1..Len(reads)
      /\ DOMAIN reads' = 1..(Len(reads) + 1)
      /\ \A i \in DOMAIN reads : reads'[i] = reads[i]
      /\ reads'[Len(reads) + 1] = r
  BY <1>1, Grown
<1>3. Added({r})
  <2>1. Len(reads) + 1 \in DOMAIN reads' /\ Len(reads) + 1 \notin DOMAIN reads
    BY <1>2
  <2>2. \A i \in DOMAIN reads' : i \in DOMAIN reads \/ i = Len(reads) + 1
    BY <1>2
  <2>3. DOMAIN reads \subseteq DOMAIN reads'
    BY <1>2
  <2> QED
    BY <1>2, <2>1, <2>2, <2>3 DEF Added
<1> QED
  BY <1>2, <1>3

\* Only the write w is new.
Sent(w) ==
    /\ \A i \in DOMAIN queue :
          i \in DOMAIN queue' /\ queue'[i] = queue[i]
    /\ \A i \in DOMAIN queue' :
          \/ i \in DOMAIN queue /\ queue'[i] = queue[i]
          \/ queue'[i] = w

LEMMA SendStep ==
    ASSUME TypeInv, NEW w \in GoodWrite, Send(w)
    PROVE  queue' \in Seq(GoodWrite) /\ queue' # <<>> /\ Sent(w)
<1>1. queue \in Seq(GoodWrite) /\ queue' = Append(queue, w)
  BY DEF TypeInv, Send
<1>2. /\ queue' \in Seq(GoodWrite) /\ queue' # <<>>
      /\ Len(queue) \in Nat /\ DOMAIN queue = 1..Len(queue)
      /\ DOMAIN queue' = 1..(Len(queue) + 1)
      /\ \A i \in DOMAIN queue : queue'[i] = queue[i]
      /\ queue'[Len(queue) + 1] = w
  BY <1>1, Grown
<1> QED
  BY <1>2 DEF Sent

\* Read i is gone, and r is new if the post's screen is on top.
Taken(i, S) ==
    /\ \A j \in DOMAIN reads' :
          \/ \E k \in DOMAIN reads : reads'[j] = reads[k]
          \/ screen = "detail" /\ reads'[j] \in S
    /\ \A k \in DOMAIN reads \ {i} :
          \E j \in DOMAIN reads' : reads'[j] = reads[k]
    /\ screen = "detail" =>
          \A r \in S : \E j \in DOMAIN reads' : reads'[j] = r

\* What an answer makes of odd
Noticed(i, tag) ==
    /\ odd' \in odd..Crossed
    /\ screen # "list" =>
          /\ odd' # Crossed => ~reads[i].stale
          /\ odd' < Late => i = 1 /\ Heard(tag)

LEMMA Removal ==
    ASSUME TypeInv, NEW i \in DOMAIN reads, NEW b \in Seq(GoodRead),
           reads' = RemoveAt(reads, i) \o b
    PROVE  /\ reads' \in Seq(GoodRead)
           /\ \A j \in DOMAIN reads' :
                 \/ \E k \in DOMAIN reads : reads'[j] = reads[k]
                 \/ \E k \in DOMAIN b : reads'[j] = b[k]
           /\ \A k \in DOMAIN reads \ {i} :
                 \E j \in DOMAIN reads' : reads'[j] = reads[k]
           /\ \A k \in DOMAIN b : \E j \in DOMAIN reads' : reads'[j] = b[k]
<1>1. reads \in Seq(GoodRead)
  BY DEF TypeInv
<1>2. PICK a \in Seq(GoodRead) :
         /\ a = RemoveAt(reads, i)
         /\ \A j \in DOMAIN a : \E k \in DOMAIN reads : a[j] = reads[k]
         /\ \A k \in DOMAIN reads \ {i} : \E j \in DOMAIN a : a[j] = reads[k]
  BY <1>1, Removed
<1>3. /\ reads' \in Seq(GoodRead)
      /\ \A j \in DOMAIN a : j \in DOMAIN reads' /\ reads'[j] = a[j]
      /\ \A j \in DOMAIN b : Len(a) + j \in DOMAIN reads'
                             /\ reads'[Len(a) + j] = b[j]
      /\ \A j \in DOMAIN reads' :
            \/ j \in DOMAIN a /\ reads'[j] = a[j]
            \/ \E k \in DOMAIN b : reads'[j] = b[k]
  <2>1. reads' = a \o b
    BY <1>2
  <2> QED
    BY <2>1, Joined
<1>4. \A k \in DOMAIN reads \ {i} :
         \E j \in DOMAIN reads' : reads'[j] = reads[k]
  BY <1>2, <1>3
<1>5. \A k \in DOMAIN b : \E j \in DOMAIN reads' : reads'[j] = b[k]
  BY <1>3
<1>6. \A j \in DOMAIN reads' :
         \/ \E k \in DOMAIN reads : reads'[j] = reads[k]
         \/ \E k \in DOMAIN b : reads'[j] = b[k]
  BY <1>2, <1>3
<1> QED
  BY <1>3, <1>4, <1>5, <1>6

LEMMA Noticing ==
    ASSUME TypeInv, NEW i, NEW tag, NEW more, Deliver(i, tag, more)
    PROVE  /\ i \in DOMAIN reads /\ reads[i].tag = tag /\ Alive
           /\ Noticed(i, tag)
<1>1. i \in DOMAIN reads /\ reads[i].tag = tag /\ Alive
  BY DEF Deliver
<1>2. odd \in 0..4 /\ i \in 1..Len(reads) /\ Len(reads) \in Nat
  BY <1>1, Elements DEF TypeInv, TypeOK
<1>3. Noticed(i, tag)
  BY <1>2 DEF Noticed, Deliver, Strange
<1> QED
  BY <1>1, <1>3

\* One read is asked for, by the post's screen only.
LEMMA DeliverOne ==
    ASSUME TypeInv, NEW i, NEW tag, NEW r,
           screen = "detail" => r \in GoodRead,
           Deliver(i, tag, <<r>>)
    PROVE  reads' \in Seq(GoodRead) /\ Taken(i, {r})
<1>1. i \in DOMAIN reads
  BY DEF Deliver
<1>2. CASE screen = "detail"
  <2>0. <<r>> \in Seq(GoodRead)
    BY <1>2
  <2>1. PICK b \in Seq(GoodRead) : b = <<r>>
    BY <2>0
  <2>2. reads' = RemoveAt(reads, i) \o b
    BY <1>2, <2>1 DEF Deliver
  <2>3. /\ reads' \in Seq(GoodRead)
        /\ \A j \in DOMAIN reads' :
              \/ \E k \in DOMAIN reads : reads'[j] = reads[k]
              \/ \E k \in DOMAIN b : reads'[j] = b[k]
        /\ \A k \in DOMAIN reads \ {i} :
              \E j \in DOMAIN reads' : reads'[j] = reads[k]
        /\ \A k \in DOMAIN b : \E j \in DOMAIN reads' : reads'[j] = b[k]
    BY <1>1, <2>2, Removal
  <2>4. DOMAIN b = {1} /\ b[1] = r
    BY <2>1
  <2> QED
    BY <1>2, <2>3, <2>4 DEF Taken
<1>3. CASE screen # "detail"
  <2>0. <<>> \in Seq(GoodRead)
    OBVIOUS
  <2>1. PICK b \in Seq(GoodRead) : b = <<>>
    BY <2>0
  <2>2. reads' = RemoveAt(reads, i) \o b
    BY <1>3, <2>1 DEF Deliver
  <2>3. /\ reads' \in Seq(GoodRead)
        /\ \A j \in DOMAIN reads' :
              \/ \E k \in DOMAIN reads : reads'[j] = reads[k]
              \/ \E k \in DOMAIN b : reads'[j] = b[k]
        /\ \A k \in DOMAIN reads \ {i} :
              \E j \in DOMAIN reads' : reads'[j] = reads[k]
    BY <1>1, <2>2, Removal
  <2>4. DOMAIN b = {}
    BY <2>1
  <2> QED
    BY <1>3, <2>3, <2>4 DEF Taken
<1> QED
  BY <1>2, <1>3

\* Nothing is asked for.
LEMMA DeliverNone ==
    ASSUME TypeInv, NEW i, NEW tag, Deliver(i, tag, <<>>)
    PROVE  reads' \in Seq(GoodRead) /\ Taken(i, {})
<1>1. i \in DOMAIN reads
  BY DEF Deliver
<1>a. <<>> \in Seq(GoodRead)
  OBVIOUS
<1>2. PICK b \in Seq(GoodRead) : b = <<>>
  BY <1>a
<1>3. reads' = RemoveAt(reads, i) \o b
  BY <1>2 DEF Deliver
<1>4. /\ reads' \in Seq(GoodRead)
      /\ \A j \in DOMAIN reads' :
            \/ \E k \in DOMAIN reads : reads'[j] = reads[k]
            \/ \E k \in DOMAIN b : reads'[j] = b[k]
      /\ \A k \in DOMAIN reads \ {i} :
            \E j \in DOMAIN reads' : reads'[j] = reads[k]
  BY <1>1, <1>3, Removal
<1>5. DOMAIN b = {}
  BY <1>2
<1> QED
  BY <1>4, <1>5 DEF Taken

\* A read is answered by nothing.
LEMMA LoseStep ==
    ASSUME TypeInv, NEW i, LoseRead(i)
    PROVE  /\ i \in DOMAIN reads /\ Alive
           /\ reads' \in Seq(GoodRead)
           /\ \A j \in DOMAIN reads' :
                 \E k \in DOMAIN reads : reads'[j] = reads[k]
           /\ odd' \in odd..Crossed
           /\ screen # "list" => odd' >= Lost
<1>1. i \in DOMAIN reads /\ Alive /\ reads' = RemoveAt(reads, i)
  BY DEF LoseRead
<1>2. reads \in Seq(GoodRead)
  BY DEF TypeInv
<1>3. /\ reads' \in Seq(GoodRead)
      /\ \A j \in DOMAIN reads' :
            \E k \in DOMAIN reads : reads'[j] = reads[k]
  BY <1>1, <1>2, Removed
<1>4. odd \in 0..4
  BY DEF TypeInv, TypeOK
<1>5. odd' \in odd..Crossed /\ (screen # "list" => odd' >= Lost)
  BY <1>4 DEF LoseRead, Strange
<1> QED
  BY <1>1, <1>3, <1>5

LEMMA StrangeStep ==
    ASSUME TypeInv, NEW n \in Fine..Crossed, Strange(n)
    PROVE  /\ odd' \in odd..Crossed /\ odd' \in Fine..Crossed
           /\ screen # "list" => odd' >= n
<1>1. odd \in 0..4
  BY DEF TypeInv, TypeOK
<1> QED
  BY <1>1 DEF Strange

\* The answer to a write of an earlier instance, or one that the screen is
\* not there for, is remembered.
LEMMA WrongStep ==
    ASSUME TypeInv, NEW ok \in BOOLEAN, NEW heard \in BOOLEAN,
           Strange(Wrong(ok, heard))
    PROVE  /\ odd' \in odd..Crossed /\ odd' \in Fine..Crossed
           /\ screen # "list" =>
                 /\ odd' # Crossed => ~Head(queue).stale
                 /\ odd' < Late => heard
                 /\ odd' = Fine => ok
<1>1. PICK n \in 0..4 : n = Wrong(ok, heard)
  BY DEF Wrong
<1>2. /\ odd' \in odd..Crossed /\ odd' \in Fine..Crossed
      /\ screen # "list" => odd' >= n
  BY <1>1, StrangeStep
<1>3. /\ n # 4 => ~Head(queue).stale
      /\ n < 2 => heard
      /\ n = 0 => ok
  BY <1>1 DEF Wrong
<1>4. odd' \in 0..4
  BY <1>2
<1> QED
  BY <1>2, <1>3, <1>4

LEMMA CompleteStep ==
    ASSUME TypeInv, NEW tag, NEW ok \in BOOLEAN, Complete(tag, ok)
    PROVE  /\ Head(queue) \in GoodWrite /\ Head(queue).tag = tag
           /\ 1 \in DOMAIN queue /\ Head(queue) = queue[1]
           /\ Tail(queue) \in Seq(GoodWrite)
           /\ \A i \in DOMAIN Tail(queue) :
                 i + 1 \in DOMAIN queue /\ Tail(queue)[i] = queue[i + 1]
           /\ docs' \in [Posts -> Doc]
           /\ comments' \in [Comments -> Comment \cup {None}]
           /\ \A p \in Posts :
                 \/ docs'[p] = docs[p]
                 \/ /\ queue[1].doc # None /\ queue[1].post = p
                    /\ docs'[p] = queue[1].doc
<1>1. PICK q \in Seq(GoodWrite) : queue = q /\ q # <<>>
  BY DEF TypeInv, Complete
<1>2. /\ Head(q) \in GoodWrite /\ Tail(q) \in Seq(GoodWrite)
      /\ 1 \in DOMAIN q /\ Head(q) = q[1]
      /\ \A i \in DOMAIN Tail(q) :
            i + 1 \in DOMAIN q /\ Tail(q)[i] = q[i + 1]
  BY <1>1, Shifted
<1>3. PICK w \in GoodWrite : w = Head(queue) /\ w = queue[1]
  BY <1>1, <1>2
<1>4. /\ docs' = IF ok /\ w.doc # None
                 THEN [docs EXCEPT ![w.post] = w.doc] ELSE docs
      /\ comments' = IF ok /\ w.id # None
                     THEN [comments EXCEPT ![w.id] =
                              [post |-> w.post, parent |-> w.parent]]
                     ELSE comments
      /\ w.tag = tag
  BY <1>3 DEF Complete
<1>5. /\ w.post \in Posts /\ w.doc \in Doc \cup {None}
      /\ w.id \in Comments \cup {None}
      /\ [post |-> w.post, parent |-> w.parent] \in Comment
  BY DEF GoodWrite, Write, Comment
<1>6. /\ docs' \in [Posts -> Doc]
      /\ \A p \in Posts :
            \/ docs'[p] = docs[p]
            \/ w.doc # None /\ w.post = p /\ docs'[p] = w.doc
  BY <1>4, <1>5 DEF TypeInv, TypeOK
<1>7. comments' \in [Comments -> Comment \cup {None}]
  BY <1>4, <1>5 DEF TypeInv, TypeOK
<1> QED
  BY <1>1, <1>2, <1>3, <1>4, <1>6, <1>7

\* An instance goes: nobody waits for its answers.
LEMMA StaleSeqs ==
    ASSUME NEW S, NEW q \in Seq(S), NEW q2, q2 = Stale(q),
           \A s \in S : [s EXCEPT !.stale = TRUE] \in S
    PROVE  /\ q2 \in Seq(S) /\ DOMAIN q2 = DOMAIN q
           /\ \A i \in DOMAIN q : q2[i] = [q[i] EXCEPT !.stale = TRUE]
<1>1. Len(q) \in Nat /\ DOMAIN q = 1..Len(q)
      /\ \A i \in 1..Len(q) : q[i] \in S
  BY LenProperties, ElementOfSeq
<1>2. q2 = [i \in 1..Len(q) |-> [q[i] EXCEPT !.stale = TRUE]]
  BY <1>1 DEF Stale
<1>3. \A i \in 1..Len(q) : [q[i] EXCEPT !.stale = TRUE] \in S
  BY <1>1
<1>4. [i \in 1..Len(q) |-> [q[i] EXCEPT !.stale = TRUE]] \in Seq(S)
  BY <1>1, <1>3, IsASeq
<1> QED
  BY <1>1, <1>2, <1>4

LEMMA Aged ==
    /\ \A r \in GoodRead :
          /\ [r EXCEPT !.stale = TRUE] \in GoodRead
          /\ [r EXCEPT !.stale = TRUE].stale
          /\ [r EXCEPT !.stale = TRUE].val = r.val
          /\ [r EXCEPT !.stale = TRUE].ids = r.ids
    /\ \A w \in GoodWrite :
          /\ [w EXCEPT !.stale = TRUE] \in GoodWrite
          /\ [w EXCEPT !.stale = TRUE].stale
          /\ [w EXCEPT !.stale = TRUE].post = w.post
          /\ [w EXCEPT !.stale = TRUE].doc = w.doc
          /\ [w EXCEPT !.stale = TRUE].id = w.id
          /\ [w EXCEPT !.stale = TRUE].parent = w.parent
<1>1. ASSUME NEW r \in GoodRead
      PROVE  /\ [r EXCEPT !.stale = TRUE] \in GoodRead
             /\ [r EXCEPT !.stale = TRUE].stale
             /\ [r EXCEPT !.stale = TRUE].val = r.val
             /\ [r EXCEPT !.stale = TRUE].ids = r.ids
  <2> DEFINE v == [r EXCEPT !.stale = TRUE]
  <2>1. r \in Read
    BY DEF GoodRead
  <2>2. /\ v \in Read /\ v.stale /\ v.tag = r.tag /\ v.user = r.user
        /\ v.post = r.post /\ v.ids = r.ids /\ v.val = r.val
    BY <2>1 DEF Read
  <2> HIDE DEF v
  <2>3. v \in GoodRead
    BY <2>2 DEF GoodRead
  <2> QED
    BY <2>2, <2>3 DEF v
<1>2. ASSUME NEW w \in GoodWrite
      PROVE  /\ [w EXCEPT !.stale = TRUE] \in GoodWrite
             /\ [w EXCEPT !.stale = TRUE].stale
             /\ [w EXCEPT !.stale = TRUE].post = w.post
             /\ [w EXCEPT !.stale = TRUE].doc = w.doc
             /\ [w EXCEPT !.stale = TRUE].id = w.id
             /\ [w EXCEPT !.stale = TRUE].parent = w.parent
  <2> DEFINE v == [w EXCEPT !.stale = TRUE]
  <2>1. w \in Write
    BY DEF GoodWrite
  <2>2. /\ v \in Write /\ v.stale /\ v.tag = w.tag /\ v.post = w.post
        /\ v.id = w.id /\ v.parent = w.parent /\ v.doc = w.doc
    BY <2>1 DEF Write
  <2> HIDE DEF v
  <2>3. v \in GoodWrite
    BY <2>2 DEF GoodWrite
  <2> QED
    BY <2>2, <2>3 DEF v
<1> QED
  BY <1>1, <1>2

LEMMA BackStep ==
    ASSUME TypeInv, Back
    PROVE  /\ reads' \in Seq(GoodRead) /\ queue' \in Seq(GoodWrite)
           /\ DOMAIN reads' = DOMAIN reads /\ DOMAIN queue' = DOMAIN queue
           /\ \A i \in DOMAIN reads :
                 reads'[i].stale /\ reads'[i].val = reads[i].val
           /\ \A i \in DOMAIN queue :
                 /\ queue'[i].stale /\ queue'[i].post = queue[i].post
                 /\ queue'[i].doc = queue[i].doc
<1>1. /\ reads' \in Seq(GoodRead) /\ DOMAIN reads' = DOMAIN reads
      /\ \A i \in DOMAIN reads : reads'[i] = [reads[i] EXCEPT !.stale = TRUE]
  <2>1. reads \in Seq(GoodRead) /\ reads' = Stale(reads)
    BY DEF TypeInv, Back
  <2> QED
    BY <2>1, Aged, StaleSeqs
<1>2. /\ queue' \in Seq(GoodWrite) /\ DOMAIN queue' = DOMAIN queue
      /\ \A i \in DOMAIN queue : queue'[i] = [queue[i] EXCEPT !.stale = TRUE]
  <2>1. queue \in Seq(GoodWrite) /\ queue' = Stale(queue)
    BY DEF TypeInv, Back
  <2> QED
    BY <2>1, Aged, StaleSeqs
<1>3. ASSUME NEW i \in DOMAIN reads
      PROVE  reads'[i].stale /\ reads'[i].val = reads[i].val
  <2>1. PICK r \in GoodRead : r = reads[i]
    BY Elements
  <2>2. reads'[i] = [r EXCEPT !.stale = TRUE]
    BY <1>1, <2>1
  <2> QED
    BY <2>1, <2>2, Aged
<1>4. ASSUME NEW i \in DOMAIN queue
      PROVE  /\ queue'[i].stale /\ queue'[i].post = queue[i].post
             /\ queue'[i].doc = queue[i].doc
  <2>1. PICK w \in GoodWrite : w = queue[i]
    BY Elements
  <2>2. queue'[i] = [w EXCEPT !.stale = TRUE]
    BY <1>2, <2>1
  <2> QED
    BY <2>1, <2>2, Aged
<1> QED
  BY <1>1, <1>2, <1>3, <1>4

-----------------------------------------------------------------------------
(* Every step keeps the types *)

LEMMA InitType == Init => TypeInv
<1> SUFFICES ASSUME Init PROVE TypeInv
  OBVIOUS
<1>1. <<>> \in Seq(GoodRead) /\ <<>> \in Seq(GoodWrite)
      /\ <<>> \in Seq(Read) /\ <<>> \in Seq(Write)
  OBVIOUS
<1>2. docs \in [Posts -> Doc]
  <2>1. \A p \in Posts :
           [author   |-> AuthorOf[p],
            comments |-> {c \in Comments :
                             Old[c] # None /\ Old[c].post = p}] \in Doc
    BY DEF Doc
  <2> QED
    BY <2>1 DEF Init
<1>a. comments \in [Comments -> Comment \cup {None}]
  BY DEF Init, Comment
<1>b. ids \subseteq Comments /\ odd \in 0..4 /\ taps \in Nat
  BY DEF Init
<1>c. /\ mine = FALSE /\ mUser = FALSE /\ ready = FALSE /\ visible = TRUE
      /\ queue = <<>> /\ reads = <<>> /\ mComments = {} /\ rushed = {}
      /\ screen = "list" /\ mPost = None /\ mNewPost = None
      /\ mAuthor = None /\ formAuthor = None /\ reply = None /\ popup = None
      /\ text = "none" /\ crash = "none" /\ last = None
  BY DEF Init
<1>3. TypeOK
  BY <1>1, <1>2, <1>a, <1>b, <1>c DEF TypeOK
<1>4. reads \in Seq(GoodRead) /\ queue \in Seq(GoodWrite) /\ Ready
  BY <1>1, <1>c DEF Ready
<1> QED
  BY <1>3, <1>4 DEF TypeInv

LEMMA OpenType ==
    ASSUME TypeInv, NEW p \in Posts, Open(p)
    PROVE  TypeInv'
<1> USE DEF server, field, past
<1>1. View(p) \in Doc
  BY ViewOf
<1>2. mPost' \in Copy /\ mPost' # None
  BY <1>1, Copies DEF Open
<1>3. reads' \in Seq(GoodRead)
  <2>1. PICK a \in GoodRead, b \in GoodRead : a = GetCurrent /\ b = GetPost(p)
    BY Requests
  <2>2. <<a, b>> \in Seq(GoodRead)
    OBVIOUS
  <2>3. reads \in Seq(GoodRead) /\ reads' = reads \o <<a, b>>
    BY <2>1 DEF Open, TypeInv
  <2> QED
    BY <2>2, <2>3, Joined
<1>4. reads' \in Seq(Read)
  BY <1>3, GoodSeqs
<1>5. TypeOK'
  BY <1>2, <1>4 DEF Open, Tap, TypeInv, TypeOK
<1>6. Ready'
  BY <1>2 DEF Open, TypeInv, Ready
<1> QED
  BY <1>3, <1>5, <1>6 DEF Open, TypeInv

LEMMA BackType == ASSUME TypeInv, Back PROVE TypeInv'
<1> USE DEF server, past
<1>1. /\ reads' \in Seq(GoodRead) /\ queue' \in Seq(GoodWrite)
      /\ \A i \in DOMAIN reads' : reads'[i].stale
      /\ \A i \in DOMAIN queue' : queue'[i].stale
  BY BackStep
<1>2. reads' \in Seq(Read) /\ queue' \in Seq(Write)
  BY <1>1, GoodSeqs
<1>a. odd' \in 0..4
  BY DEF Back, TypeInv, TypeOK
<1>3. TypeOK'
  BY <1>2, <1>a DEF Back, TypeInv, TypeOK
<1>4. Ready'
  BY <1>1 DEF Back, Ready
<1> QED
  BY <1>1, <1>3, <1>4 DEF TypeInv

\* Steps that ask for one read at most, and write nothing.
LEMMA ScreenType ==
    ASSUME TypeInv, Leave \/ Return \/ EditTap \/ BackFromForm
    PROVE  TypeInv'
<1> USE DEF server, fields, field, past
<1>1. CASE Leave
  <2>1. TypeOK'
    BY <1>1 DEF Leave, Tap, TypeInv, TypeOK
  <2>2. Ready'
    BY <1>1 DEF Leave, TypeInv, Ready
  <2> QED
    BY <1>1, <2>1, <2>2 DEF Leave, TypeInv
<1>2. CASE Return \/ BackFromForm
  <2>1. Resume /\ screen \in {"away", "form"} /\ mPost \in Copy
    BY <1>2 DEF Return, BackFromForm, TypeInv, TypeOK, Ready
  <2>2. PICK r \in GoodRead : r = GetPost(mPost.id)
    BY <2>1, Requests DEF Copy
  <2>3. reads' \in Seq(GoodRead)
    BY <2>1, <2>2, AskStep DEF Resume
  <2>4. reads' \in Seq(Read)
    BY <2>3, GoodSeqs
  <2>5. TypeOK'
    BY <1>2, <2>4 DEF Return, BackFromForm, Resume, TypeInv, TypeOK
  <2>6. Ready'
    BY <1>2, <2>1 DEF Return, BackFromForm, Resume, TypeInv, Ready
  <2> QED
    BY <1>2, <2>3, <2>5, <2>6 DEF Return, BackFromForm, TypeInv
<1>3. CASE EditTap
  <2>1. PICK r \in GoodRead : r = GetAuthor(Me)
    BY Requests
  <2>2. reads' \in Seq(GoodRead)
    BY <1>3, <2>1, AskStep DEF EditTap
  <2>3. reads' \in Seq(Read)
    BY <2>2, GoodSeqs
  <2>4. TypeOK'
    BY <1>3, <2>3 DEF EditTap, Tap, TypeInv, TypeOK
  <2>5. Ready'
    BY <1>3 DEF EditTap, TypeInv, Ready
  <2> QED
    BY <1>3, <2>2, <2>4, <2>5 DEF EditTap, TypeInv
<1> QED
  BY <1>1, <1>2, <1>3

\* Steps in the comment field and the form.
LEMMA FieldType ==
    ASSUME TypeInv, Type \/ ReplyTap \/ UndoTap PROVE TypeInv'
<1> USE DEF server, fields, past
<1>1. TypeOK'
  <2>1. CASE Type
    BY <2>1 DEF Type, TypeInv, TypeOK
  <2>2. CASE ReplyTap
    <3>1. PICK k \in Shown : reply' = Top(k) /\ popup' = Top(k)
      BY <2>2 DEF ReplyTap, Listed, TypeInv, TypeOK
    <3>2. Top(k) \in Comments
      BY DEF Top, Shown
    <3> QED
      BY <2>2, <3>1, <3>2 DEF ReplyTap, Tap, TypeInv, TypeOK
  <2>3. CASE UndoTap
    BY <2>3 DEF UndoTap, TypeInv, TypeOK
  <2> QED
    BY <2>1, <2>2, <2>3
<1>2. Ready'
  BY DEF Type, ReplyTap, UndoTap, TypeInv, Ready
<1> QED
  BY <1>1, <1>2 DEF Type, ReplyTap, UndoTap, TypeInv

LEMMA CommentTapStep ==
    ASSUME TypeInv, NEW c \in Comments, CommentTap(c)
    PROVE  /\ mPost \in Copy /\ mPost' \in Copy /\ mPost' # None
           /\ mNewPost' = mPost' /\ mPost'.id = mPost.id
           /\ mPost'.author = mPost.author
           /\ mPost'.comments = mPost.comments \cup {c}
           /\ SetComment(c, mPost.id, reply) \in GoodWrite
           /\ queue' \in Seq(GoodWrite) /\ queue' # <<>>
           /\ Sent(SetComment(c, mPost.id, reply))
<1>1. mPost \in Copy
  BY DEF CommentTap, TypeInv, TypeOK, Ready
<1>2. mPost' = [mPost EXCEPT !.comments = @ \cup {c}]
  BY DEF CommentTap
<1>3. /\ mPost' \in Copy /\ mPost'.id = mPost.id
      /\ mPost'.author = mPost.author
      /\ mPost'.comments = mPost.comments \cup {c}
  BY <1>1, <1>2 DEF Copy
<1>4. PICK w \in GoodWrite : w = SetComment(c, mPost.id, reply)
  BY <1>1, Writes DEF Copy, TypeInv, TypeOK
<1>5. queue' \in Seq(GoodWrite) /\ queue' # <<>> /\ Sent(w)
  BY <1>4, SendStep DEF CommentTap
<1> QED
  BY <1>1, <1>3, <1>4, <1>5 DEF CommentTap

LEMMA CommentTapType ==
    ASSUME TypeInv, NEW c \in Comments, CommentTap(c)
    PROVE  TypeInv'
<1> USE DEF server, past
<1>1. /\ mPost' \in Copy /\ mPost' # None /\ mNewPost' = mPost'
      /\ queue' \in Seq(GoodWrite)
  BY CommentTapStep
<1>2. queue' \in Seq(Write)
  BY <1>1, GoodSeqs
<1>3. TypeOK'
  BY <1>1, <1>2 DEF CommentTap, TypeInv, TypeOK
<1>4. Ready'
  BY <1>1 DEF CommentTap, TypeInv, Ready
<1> QED
  BY <1>1, <1>3, <1>4 DEF CommentTap, TypeInv

\* The form saves the post under its id, with the author it has.
LEMMA PostTapStep ==
    ASSUME TypeInv, PostTap, formAuthor # None
    PROVE  /\ mPost \in Copy
           /\ \E w \in GoodWrite :
                 /\ w.tag = "edit" /\ ~w.stale /\ w.post = mPost.id
                 /\ w.doc \in Doc /\ w.doc.author = formAuthor
                 /\ w.doc.comments = {}
                 /\ queue' \in Seq(GoodWrite) /\ Sent(w)
           /\ crash' = crash
<1>1. mPost \in Copy /\ formAuthor \in Users
  BY DEF PostTap, TypeInv, TypeOK, Ready
<1>a. [author |-> formAuthor, comments |-> {}] \in Doc
  BY <1>1 DEF Doc
<1>2. PICK doc \in Doc : /\ doc = [author |-> formAuthor, comments |-> {}]
                         /\ doc.author = formAuthor /\ doc.comments = {}
  BY <1>a
<1>3. mPost.id \in Posts
  BY <1>1 DEF Copy
<1>4. PICK w \in GoodWrite :
         /\ w = Save("edit", mPost.id, doc)
         /\ w.tag = "edit" /\ ~w.stale /\ w.post = mPost.id /\ w.doc = doc
  BY <1>3, Writes
<1>5. Send(w)
  BY <1>2, <1>4 DEF PostTap
<1>6. queue' \in Seq(GoodWrite) /\ Sent(w)
  BY <1>5, SendStep
<1> QED
  BY <1>1, <1>2, <1>4, <1>6 DEF PostTap

LEMMA PostTapType == ASSUME TypeInv, PostTap PROVE TypeInv'
<1> USE DEF server, fields, field, past
<1>1. queue' \in Seq(GoodWrite)
  BY PostTapStep DEF PostTap, TypeInv
<1>2. queue' \in Seq(Write)
  BY <1>1, GoodSeqs
<1>3. TypeOK'
  BY <1>2 DEF PostTap, TypeInv, TypeOK
<1>4. Ready'
  BY DEF PostTap, TypeInv, Ready
<1> QED
  BY <1>1, <1>3, <1>4 DEF PostTap, TypeInv

\* The answer to a comment: its post is saved as mNewPost.
LEMMA UpdateCommentStep ==
    ASSUME TypeInv, NEW ok \in BOOLEAN, OnUpdateComment(ok)
    PROVE  /\ queue' \in Seq(GoodWrite)
           /\ \A i \in DOMAIN queue' :
                 \/ \E k \in DOMAIN queue : queue'[i] = queue[k]
                 \/ /\ screen = "detail" /\ ok
                    /\ mNewPost \in Copy /\ mPost \in Copy
                    /\ queue'[i] = Save("save", mPost.id, DocOf(mNewPost))
           /\ odd' \in odd..Crossed
           /\ screen # "list" =>
                 /\ odd' # Crossed => ~queue[1].stale
                 /\ odd' < Late => screen = "detail"
                 /\ odd' = Fine => ok
<1>1. Complete("comment", ok)
  BY DEF OnUpdateComment
<1>2. /\ Tail(queue) \in Seq(GoodWrite) /\ Head(queue) = queue[1]
      /\ \A i \in DOMAIN Tail(queue) :
            i + 1 \in DOMAIN queue /\ Tail(queue)[i] = queue[i + 1]
  BY <1>1, CompleteStep
<1>3. PICK t \in Seq(GoodWrite) :
         t = Tail(queue) /\ \A i \in DOMAIN t : \E k \in DOMAIN queue :
                               t[i] = queue[k]
  <2>1. PICK t \in Seq(GoodWrite) : t = Tail(queue)
    BY <1>2
  <2>2. ASSUME NEW i \in DOMAIN t
        PROVE  i + 1 \in DOMAIN queue /\ t[i] = queue[i + 1]
    BY <1>2, <2>1
  <2> QED
    BY <2>1, <2>2
<1>4. PICK heard \in BOOLEAN : /\ heard = (screen = "detail")
                               /\ Strange(Wrong(ok, heard))
  BY DEF OnUpdateComment
<1>5. /\ odd' \in odd..Crossed
      /\ screen # "list" =>
            /\ odd' # Crossed => ~queue[1].stale
            /\ odd' < Late => screen = "detail"
            /\ odd' = Fine => ok
  BY <1>2, <1>4, WrongStep
<1>6. CASE queue' = t
  BY <1>3, <1>5, <1>6
<1>7. CASE queue' # t
  <2>1. /\ screen = "detail" /\ ok /\ mNewPost \in Copy /\ mPost \in Copy
        /\ queue' = Append(t, Save("save", mPost.id, DocOf(mNewPost)))
    BY <1>3, <1>7 DEF OnUpdateComment, TypeInv, TypeOK, Ready
  <2>2. PICK w \in GoodWrite : w = Save("save", mPost.id, DocOf(mNewPost))
    BY <2>1, Writes, Copies DEF Copy
  <2>3. /\ queue' \in Seq(GoodWrite)
        /\ DOMAIN queue' = 1..(Len(t) + 1)
        /\ Len(t) \in Nat /\ DOMAIN t = 1..Len(t)
        /\ \A i \in DOMAIN t : queue'[i] = t[i]
        /\ queue'[Len(t) + 1] = w
    BY <2>1, <2>2, Grown
  <2>4. \A i \in DOMAIN queue' : i \in DOMAIN t \/ queue'[i] = w
    BY <2>3
  <2> QED
    BY <1>3, <1>5, <2>1, <2>2, <2>3, <2>4
<1> QED
  BY <1>6, <1>7

LEMMA UpdateCommentType ==
    ASSUME TypeInv, NEW ok \in BOOLEAN, OnUpdateComment(ok)
    PROVE  TypeInv'
<1> USE DEF fields, field, past
<1>1. queue' \in Seq(GoodWrite)
  BY UpdateCommentStep
<1>2. /\ docs' \in [Posts -> Doc]
      /\ comments' \in [Comments -> Comment \cup {None}]
  BY CompleteStep DEF OnUpdateComment
<1>3. odd' \in 0..4
  <2>1. odd \in 0..4 /\ odd' \in odd..4
    BY UpdateCommentStep DEF TypeInv, TypeOK
  <2> QED
    BY <2>1
<1>4. queue' \in Seq(Write)
  BY <1>1, GoodSeqs
<1>5. /\ crash' \in {"none", "noUser", "noAuthor", "noNewPost"}
      /\ UNCHANGED <<reads, screen, mPost, mine, mUser, mAuthor, mNewPost,
                     visible, mComments, ready, reply, popup, text,
                     formAuthor, last, rushed, ids, taps>>
  BY DEF OnUpdateComment, TypeInv, TypeOK
<1>6. TypeOK'
  BY <1>2, <1>3, <1>4, <1>5 DEF TypeInv, TypeOK
<1>7. screen = "list" => \A i \in DOMAIN queue' : queue'[i].stale
  BY UpdateCommentStep DEF TypeInv, Ready
<1>8. Ready'
  BY <1>5, <1>7 DEF TypeInv, Ready
<1> QED
  BY <1>1, <1>5, <1>6, <1>8 DEF TypeInv

\* The answer to a save, by the post's screen or the form.
LEMMA SavedStep ==
    ASSUME TypeInv, NEW ok \in BOOLEAN, OnUpdateValue(ok) \/ OnEdited(ok)
    PROVE  /\ queue' \in Seq(GoodWrite)
           /\ \A i \in DOMAIN queue' :
                 \E k \in DOMAIN queue : queue'[i] = queue[k]
           /\ docs' \in [Posts -> Doc]
           /\ comments' \in [Comments -> Comment \cup {None}]
           /\ odd' \in odd..Crossed /\ odd' \in Fine..Crossed
           /\ screen # "list" => (odd' # Crossed => ~queue[1].stale)
           /\ \/ UNCHANGED reads
              \/ /\ mPost \in Copy /\ screen' = "detail"
                 /\ screen \in {"detail", "form"}
                 /\ reads' \in Seq(GoodRead)
                 /\ Added({GetPost(mPost.id)})
<1>1. PICK tag \in {"save", "edit"}, heard \in BOOLEAN :
         Complete(tag, ok) /\ Strange(Wrong(ok, heard))
  BY DEF OnUpdateValue, OnEdited
<1>2. /\ Tail(queue) \in Seq(GoodWrite) /\ Head(queue) = queue[1]
      /\ \A i \in DOMAIN Tail(queue) :
            i + 1 \in DOMAIN queue /\ Tail(queue)[i] = queue[i + 1]
      /\ docs' \in [Posts -> Doc]
      /\ comments' \in [Comments -> Comment \cup {None}]
  BY <1>1, CompleteStep
<1>3. /\ odd' \in odd..Crossed /\ odd' \in Fine..Crossed
      /\ screen # "list" => (odd' # Crossed => ~queue[1].stale)
  BY <1>1, <1>2, WrongStep
<1>4. queue' = Tail(queue)
  BY DEF OnUpdateValue, OnEdited
<1>5. \/ UNCHANGED reads
      \/ /\ screen \in {"detail", "form"} /\ screen' = "detail"
         /\ Ask(GetPost(mPost.id))
  BY DEF OnUpdateValue, OnEdited, Resume
<1>6. ASSUME Ask(GetPost(mPost.id)), screen \in {"detail", "form"}
      PROVE  /\ mPost \in Copy /\ reads' \in Seq(GoodRead)
             /\ Added({GetPost(mPost.id)})
  <2>1. mPost \in Copy
    BY <1>6 DEF TypeInv, TypeOK, Ready
  <2>2. PICK r \in GoodRead : r = GetPost(mPost.id)
    BY <2>1, Requests DEF Copy
  <2>3. reads' \in Seq(GoodRead) /\ Added({r})
    BY <1>6, <2>2, AskStep
  <2> QED
    BY <2>1, <2>2, <2>3
<1> QED
  BY <1>2, <1>3, <1>4, <1>5, <1>6

LEMMA SavedType ==
    ASSUME TypeInv, NEW ok \in BOOLEAN, OnUpdateValue(ok) \/ OnEdited(ok)
    PROVE  TypeInv'
<1> USE DEF fields, field, past
<1>1. /\ queue' \in Seq(GoodWrite) /\ docs' \in [Posts -> Doc]
      /\ comments' \in [Comments -> Comment \cup {None}]
      /\ odd' \in 0..4
      /\ reads' \in Seq(GoodRead)
  BY SavedStep DEF TypeInv
<1>2. queue' \in Seq(Write) /\ reads' \in Seq(Read)
  BY <1>1, GoodSeqs
<1>3. /\ screen' = screen \/ (screen = "form" /\ screen' = "detail")
      /\ formAuthor' \in {formAuthor, None} /\ reply' \in {reply, None}
      /\ UNCHANGED <<mPost, mine, mUser, mAuthor, mNewPost,
                     visible, mComments, ready, popup, text, crash, last,
                     rushed, ids, taps>>
  BY DEF OnUpdateValue, OnEdited, Resume
<1>4. TypeOK'
  BY <1>1, <1>2, <1>3 DEF TypeInv, TypeOK
<1>5. screen' = "list" => /\ \A i \in DOMAIN queue' : queue'[i].stale
                          /\ UNCHANGED reads
  BY <1>3, SavedStep DEF TypeInv, Ready
<1>6. Ready'
  BY <1>3, <1>5 DEF TypeInv, Ready
<1> QED
  BY <1>1, <1>4, <1>6 DEF TypeInv

LEMMA OthersType ==
    ASSUME TypeInv, NEW p \in Posts, NEW c \in Comments, OthersComment(p, c)
    PROVE  TypeInv'
<1> USE DEF fields, field
<1>1. docs' \in [Posts -> Doc]
  BY DEF OthersComment, TypeInv, TypeOK, Doc
<1>2. comments' \in [Comments -> Comment \cup {None}]
  <2>1. [post |-> p, parent |-> None] \in Comment
    BY DEF Comment
  <2> QED
    BY <2>1 DEF OthersComment, TypeInv, TypeOK
<1>3. odd' \in 0..4
  BY StrangeStep DEF OthersComment
<1>4. TypeOK'
  BY <1>1, <1>2, <1>3 DEF OthersComment, TypeInv, TypeOK
<1>5. Ready'
  BY DEF OthersComment, TypeInv, Ready
<1> QED
  BY <1>4, <1>5 DEF OthersComment, TypeInv

\* The server has answered: the copy is of the post that was asked for.
LEMMA ServeStep ==
    ASSUME TypeInv, NEW i, ServeRead(i)
    PROVE  /\ reads' \in Seq(GoodRead) /\ DOMAIN reads' = DOMAIN reads
           /\ i \in DOMAIN reads /\ reads[i].post \in Posts
           /\ \A j \in DOMAIN reads :
                 /\ reads'[j].tag = reads[j].tag
                 /\ reads'[j].stale = reads[j].stale
                 /\ reads'[j].user = reads[j].user
                 /\ reads'[j].post = reads[j].post
                 /\ reads'[j].ids = reads[j].ids
                 /\ \/ reads'[j] = reads[j]
                    \/ reads'[j].val =
                          CopyOf(reads[i].post, View(reads[i].post))
<1>1. PICK r \in GoodRead : i \in DOMAIN reads /\ r = reads[i]
  BY Elements DEF ServeRead
<1>2. r.tag = "fields" /\ r.post \in Posts /\ r \in Read
  BY <1>1 DEF ServeRead, GoodRead
<1>3. PICK v \in Copy : v = CopyOf(r.post, View(r.post)) /\ v.id = r.post
  BY <1>2, ViewOf, Copies
<1> DEFINE x == [r EXCEPT !.val = v]
<1>4. /\ x \in Read /\ x.tag = r.tag /\ x.stale = r.stale
      /\ x.user = r.user /\ x.post = r.post /\ x.ids = r.ids /\ x.val = v
  BY <1>2 DEF Read
<1>5. reads' = [reads EXCEPT ![i] = x]
  BY <1>1, <1>3 DEF ServeRead
<1> HIDE DEF x
<1>6. PICK y \in GoodRead :
         /\ y.tag = r.tag /\ y.stale = r.stale
         /\ y.user = r.user /\ y.post = r.post /\ y.ids = r.ids /\ y.val = v
         /\ y = x
  BY <1>2, <1>3, <1>4 DEF GoodRead
<1>7. PICK q \in Seq(GoodRead) : q = reads
  BY DEF TypeInv
<1>8. i \in 1..Len(q) /\ DOMAIN q = 1..Len(q)
  BY <1>1, <1>7, LenProperties
<1>9. [q EXCEPT ![i] = y] \in Seq(GoodRead)
  BY <1>8, ExceptSeq
<1>10. /\ reads' \in Seq(GoodRead) /\ DOMAIN reads' = DOMAIN reads
       /\ reads'[i] = y
       /\ \A j \in DOMAIN reads \ {i} : reads'[j] = reads[j]
  BY <1>5, <1>6, <1>7, <1>8, <1>9
<1> QED
  BY <1>1, <1>2, <1>3, <1>6, <1>10

LEMMA ReadType ==
    ASSUME TypeInv, NEW i, ServeRead(i) \/ LoseRead(i)
    PROVE  TypeInv'
<1> USE DEF server, fields, field, past
<1>1. CASE ServeRead(i)
  <2>1. reads' \in Seq(GoodRead)
    BY <1>1, ServeStep
  <2>2. reads' \in Seq(Read)
    BY <2>1, GoodSeqs
  <2>3. TypeOK'
    BY <1>1, <2>2 DEF ServeRead, TypeInv, TypeOK
  <2>4. Ready'
    BY <1>1, ServeStep DEF ServeRead, TypeInv, Ready
  <2> QED
    BY <1>1, <2>1, <2>3, <2>4 DEF ServeRead, TypeInv
<1>2. CASE LoseRead(i)
  <2>1. /\ reads' \in Seq(GoodRead) /\ odd' \in 0..4
        /\ \A j \in DOMAIN reads' :
              \E k \in DOMAIN reads : reads'[j] = reads[k]
    <3>1. odd \in 0..4
      BY DEF TypeInv, TypeOK
    <3> QED
      BY <1>2, <3>1, LoseStep
  <2>2. reads' \in Seq(Read)
    BY <2>1, GoodSeqs
  <2>3. TypeOK'
    BY <1>2, <2>1, <2>2 DEF LoseRead, TypeInv, TypeOK
  <2>4. Ready'
    BY <1>2, <2>1 DEF LoseRead, TypeInv, Ready
  <2> QED
    BY <1>2, <2>1, <2>3, <2>4 DEF LoseRead, TypeInv
<1> QED
  BY <1>1, <1>2

\* Whatever read is answered, reads of an instance that is gone are stale.
LEMMA TakenStale ==
    ASSUME TypeInv, NEW i, NEW S, Taken(i, S), screen = "list"
    PROVE  \A j \in DOMAIN reads' : reads'[j].stale
BY DEF Taken, TypeInv, Ready

LEMMA CurrentStep ==
    ASSUME TypeInv, NEW i, OnCurrentUser(i)
    PROVE  /\ reads' \in Seq(GoodRead)
           /\ Taken(i, {GetAuthor(mPost.author)})
           /\ i \in DOMAIN reads /\ reads[i].tag = "current"
           /\ Noticed(i, "current")
           /\ screen = "detail" => mPost \in Copy
<1>1. screen = "detail" => mPost \in Copy
  BY DEF TypeInv, TypeOK, Ready
<1>2. PICK r : /\ r = GetAuthor(mPost.author)
               /\ screen = "detail" => r \in GoodRead
  BY <1>1, Requests DEF Copy
<1>3. Deliver(i, "current", <<r>>)
  BY <1>2 DEF OnCurrentUser
<1> QED
  BY <1>1, <1>2, <1>3, DeliverOne, Noticing

LEMMA AuthorStep ==
    ASSUME TypeInv, NEW i, OnAuthor(i)
    PROVE  /\ reads' \in Seq(GoodRead)
           /\ Taken(i, {GetComments(mPost.comments)})
           /\ i \in DOMAIN reads /\ reads[i].tag = "author"
           /\ reads[i].user \in Users
           /\ Noticed(i, "author")
           /\ screen = "detail" => mPost \in Copy
<1>1. screen = "detail" => mPost \in Copy
  BY DEF TypeInv, TypeOK, Ready
<1>2. PICK r : /\ r = GetComments(mPost.comments)
               /\ screen = "detail" => r \in GoodRead
  BY <1>1, Requests DEF Copy
<1>3. Deliver(i, "author", <<r>>)
  BY <1>2 DEF OnAuthor
<1>4. i \in DOMAIN reads /\ reads[i].tag = "author"
  BY <1>3, Noticing
<1>5. reads[i].user \in Users
  BY <1>4, Elements DEF GoodRead
<1> QED
  BY <1>1, <1>2, <1>3, <1>5, DeliverOne, Noticing

LEMMA FieldsStep ==
    ASSUME TypeInv, NEW i, OnFields(i)
    PROVE  /\ reads' \in Seq(GoodRead)
           /\ Taken(i, {GetComments(reads[i].val.comments)})
           /\ i \in DOMAIN reads /\ reads[i].tag = "fields"
           /\ reads[i].val \in Copy /\ reads[i].val # None
           /\ reads[i].val.id = reads[i].post
           /\ Noticed(i, "fields")
<1>1. i \in DOMAIN reads /\ reads[i].val # None
  BY DEF OnFields
<1>2. PICK r \in GoodRead : r = reads[i]
  BY <1>1, Elements
<1>3. r.val \in Copy /\ r.val.id = r.post
  BY <1>1, <1>2 DEF GoodRead, Read
<1>4. PICK a \in GoodRead : a = GetComments(reads[i].val.comments)
  BY <1>2, <1>3, Requests DEF Copy
<1>5. Deliver(i, "fields", <<a>>)
  BY <1>4 DEF OnFields
<1> QED
  BY <1>1, <1>2, <1>3, <1>4, <1>5, DeliverOne, Noticing

LEMMA CommentsStep ==
    ASSUME TypeInv, NEW i, OnComments(i)
    PROVE  /\ reads' \in Seq(GoodRead) /\ Taken(i, {})
           /\ i \in DOMAIN reads /\ reads[i].tag = "comments"
           /\ Noticed(i, "comments")
<1>1. Deliver(i, "comments", <<>>)
  BY DEF OnComments
<1> QED
  BY <1>1, DeliverNone, Noticing

LEMMA ParentType ==
    ASSUME TypeInv, NEW c \in Comments, Exists(c)
    PROVE  Parent(c) \in Comments \cup {None}
<1>1. CASE comments[c] # None
  BY <1>1 DEF Parent, Comment, TypeInv, TypeOK
<1>2. CASE comments[c] = None
  <2>1. PICK i \in DOMAIN queue : queue[i].id = c
    BY <1>2 DEF Exists
  <2>2. queue[i] \in Range(queue)
    BY <2>1 DEF Range
  <2>3. \E w \in Range(queue) : w.id = c
    BY <2>1, <2>2
  <2>4. PICK w \in Range(queue) : Parent(c) = w.parent
    BY <1>2, <2>3 DEF Parent
  <2>5. w \in GoodWrite
    BY Elements DEF Range
  <2> QED
    BY <2>4, <2>5 DEF GoodWrite, Write
<1> QED
  BY <1>1, <1>2

LEMMA AnsweredType ==
    ASSUME TypeInv, NEW i,
           OnCurrentUser(i) \/ OnAuthor(i) \/ OnFields(i) \/ OnComments(i)
    PROVE  TypeInv'
<1> USE DEF server, fields, field, past
<1>1. PICK S, tag : /\ reads' \in Seq(GoodRead) /\ Taken(i, S)
                    /\ Noticed(i, tag)
  BY CurrentStep, AuthorStep, FieldsStep, CommentsStep
<1>2. odd' \in 0..4
  <2>1. odd \in 0..4
    BY DEF TypeInv, TypeOK
  <2> QED
    BY <1>1, <2>1 DEF Noticed
<1>3. reads' \in Seq(Read)
  BY <1>1, GoodSeqs
<1>4. screen = "list" => \A j \in DOMAIN reads' : reads'[j].stale
  BY <1>1, TakenStale
<1>5. CASE OnCurrentUser(i)
  <2>1. TypeOK'
    BY <1>2, <1>3, <1>5 DEF OnCurrentUser, TypeInv, TypeOK
  <2>2. Ready'
    BY <1>4, <1>5 DEF OnCurrentUser, TypeInv, TypeOK, Ready
  <2> QED
    BY <1>1, <1>5, <2>1, <2>2 DEF OnCurrentUser, TypeInv
<1>6. CASE OnAuthor(i)
  <2>1. reads[i].user \in Users
    BY <1>6, AuthorStep
  <2>2. TypeOK'
    BY <1>2, <1>3, <1>6, <2>1 DEF OnAuthor, TypeInv, TypeOK
  <2>3. Ready'
    BY <1>4, <1>6, <2>1 DEF OnAuthor, TypeInv, Ready
  <2> QED
    BY <1>1, <1>6, <2>2, <2>3 DEF OnAuthor, TypeInv
<1>7. CASE OnFields(i)
  <2>1. reads[i].val \in Copy /\ reads[i].val # None
    BY <1>7, FieldsStep
  <2>2. TypeOK'
    BY <1>2, <1>3, <1>7, <2>1 DEF OnFields, TypeInv, TypeOK
  <2>3. Ready'
    BY <1>4, <1>7, <2>1 DEF OnFields, TypeInv, Ready
  <2> QED
    BY <1>1, <1>7, <2>2, <2>3 DEF OnFields, TypeInv
<1>8. CASE OnComments(i)
  <2>1. mComments' \subseteq Shown
    <3>1. PICK r \in GoodRead : r = reads[i]
      BY <1>8, CommentsStep, Elements
    <3>2. r.ids \subseteq Comments
      BY DEF GoodRead, Read
    <3>3. \A c \in {e \in r.ids : Exists(e)} :
             [id |-> c, parent |-> Parent(c)] \in Shown
      BY <3>2, ParentType DEF Shown
    <3>4. {[id |-> c, parent |-> Parent(c)] : c \in {e \in r.ids : Exists(e)}}
             \subseteq Shown
      BY <3>3
    <3> QED
      BY <1>8, <3>1, <3>4 DEF OnComments, TypeInv, TypeOK
  <2>2. /\ crash' \in {"none", "noUser", "noAuthor", "noNewPost"}
        /\ ready' \in BOOLEAN /\ visible' \in BOOLEAN
        /\ reply' \in {reply, None} /\ popup' \in {popup, None}
        /\ text' \in {text, "none"}
        /\ UNCHANGED <<docs, comments, queue, screen, mPost, mine, mUser,
                       mAuthor, mNewPost, formAuthor, last, rushed, ids, taps>>
    BY <1>8 DEF OnComments, Populate, TypeInv, TypeOK
  <2>3. TypeOK'
    BY <1>2, <1>3, <2>1, <2>2 DEF TypeInv, TypeOK
  <2>4. Ready'
    <3>1. \/ /\ screen = "detail" /\ mUser
             /\ reply' = None /\ popup' = None
          \/ UNCHANGED <<ready, reply, popup>>
      BY <1>8 DEF OnComments, Populate
    <3> QED
      BY <1>4, <2>2, <3>1 DEF TypeInv, Ready
  <2> QED
    BY <1>1, <2>2, <2>3, <2>4 DEF TypeInv
<1> QED
  BY <1>5, <1>6, <1>7, <1>8

LEMMA NextType == TypeInv /\ [Next]_vars => TypeInv'
<1>1. TypeInv /\ UNCHANGED vars => TypeInv'
  BY DEF vars, TypeInv, TypeOK, Ready
<1>2. TypeInv /\ User => TypeInv'
  BY OpenType, BackType, ScreenType, FieldType, CommentTapType, PostTapType
     DEF User
<1>3. TypeInv /\ Answer => TypeInv'
  BY UpdateCommentType, SavedType, ReadType, AnsweredType DEF Answer
<1>4. TypeInv /\ Next => TypeInv'
  BY <1>2, <1>3, ReadType, OthersType DEF Next
<1> QED
  BY <1>1, <1>4

-----------------------------------------------------------------------------
(* Each crash has its cause *)

\* The answer about the user is the first that this instance will get.
AwaitsUser(k) ==
    /\ reads[k].tag = "current" /\ ~reads[k].stale
    /\ \A j \in DOMAIN reads : j < k => reads[j].stale

UserComes ==
    odd < Late /\ screen # "list" /\ ~mUser =>
        \E k \in DOMAIN reads : AwaitsUser(k)

FormFilled == screen = "form" => formAuthor # None \/ odd >= Lost

\* Who hears of a new comment knows the post that has it.
PostIsThere ==
    odd # Crossed =>
        \A i \in DOMAIN queue :
            queue[i].tag = "comment" /\ ~queue[i].stale => mNewPost # None

CrashExplained ==
    /\ crash = "noUser"    => odd >= Late
    /\ crash = "noAuthor"  => odd >= Lost
    /\ crash = "noNewPost" => odd = Crossed

CauseInv == UserComes /\ FormFilled /\ PostIsThere /\ CrashExplained

LEMMA NothingAdded == ASSUME UNCHANGED reads PROVE Added({})
BY DEF Added

\* Reads that are added come behind.
LEMMA UserStillComes ==
    ASSUME TypeInv, TypeInv', UserComes, NEW S, Added(S),
           screen # "list", UNCHANGED mUser, odd' \in odd..Crossed
    PROVE  UserComes'
<1> SUFFICES ASSUME odd' < Late, ~mUser
             PROVE  \E k \in DOMAIN reads' : AwaitsUser(k)'
  BY DEF UserComes
<1>1. odd \in 0..4 /\ odd' \in 0..4
  BY DEF TypeInv, TypeOK
<1>2. PICK k \in DOMAIN reads : AwaitsUser(k)
  BY <1>1 DEF UserComes
<1>3. /\ DOMAIN reads = 1..Len(reads) /\ Len(reads) \in Nat
      /\ DOMAIN reads' = 1..Len(reads') /\ Len(reads') \in Nat
  BY LenProperties DEF TypeInv
<1>4. \A j \in DOMAIN reads' : j < k => j \in DOMAIN reads
  BY <1>3
<1>5. k \in DOMAIN reads' /\ AwaitsUser(k)'
  BY <1>2, <1>4 DEF AwaitsUser, Added
<1> QED
  BY <1>5

\* The first answer for this instance is the one about the user.
LEMMA UserFirst ==
    ASSUME TypeInv, TypeInv', UserComes, NEW i \in DOMAIN reads, NEW tag,
           reads[i].tag = tag, Noticed(i, tag),
           screen' = screen, tag # "current" => mUser' = mUser,
           tag = "current" /\ screen = "detail" => mUser'
    PROVE  /\ UserComes'
           /\ tag # "current" /\ screen # "list" /\ ~mUser => odd' >= Late
<1>1. odd \in 0..4 /\ odd' \in 0..4 /\ odd <= odd'
  BY DEF TypeInv, TypeOK, Noticed
<1>2. ASSUME tag # "current", screen # "list", ~mUser
      PROVE  odd' >= Late
  <2> SUFFICES ASSUME odd' < Late PROVE FALSE
    BY <1>1
  <2>1. PICK k \in DOMAIN reads : AwaitsUser(k)
    BY <1>1, <1>2 DEF UserComes
  <2>2. i = 1 /\ ~reads[1].stale
    BY <1>1, <1>2 DEF Noticed
  <2>3. k \in Nat /\ k >= 1
    BY Elements
  <2>4. k = 1
    BY <2>1, <2>2, <2>3 DEF AwaitsUser
  <2> QED
    BY <1>2, <2>1, <2>2, <2>4 DEF AwaitsUser
<1>3. ASSUME tag = "current", screen # "list", ~mUser'
      PROVE  odd' >= Late
  BY <1>1, <1>3 DEF Noticed, Heard
<1>4. UserComes'
  BY <1>1, <1>2, <1>3 DEF UserComes
<1> QED
  BY <1>2, <1>4

LEMMA OpenCause ==
    ASSUME TypeInv, TypeInv', CauseInv, NEW p \in Posts, Open(p)
    PROVE  CauseInv'
<1>1. UserComes'
  <2>1. PICK a \in GoodRead, b \in GoodRead :
           /\ a = GetCurrent /\ b = GetPost(p)
           /\ a.tag = "current" /\ ~a.stale
    BY Requests
  <2>2. <<a, b>> \in Seq(GoodRead)
    OBVIOUS
  <2>3. PICK n \in Seq(GoodRead) : n = <<a, b>>
    BY <2>2
  <2>4. reads \in Seq(GoodRead) /\ reads' = reads \o n
    BY <2>1, <2>3 DEF Open, TypeInv
  <2>5. /\ Len(reads) \in Nat /\ DOMAIN reads = 1..Len(reads)
        /\ \A j \in DOMAIN reads : reads'[j] = reads[j]
        /\ \A j \in DOMAIN n :
              /\ Len(reads) + j \in DOMAIN reads'
              /\ reads'[Len(reads) + j] = n[j]
        /\ DOMAIN reads' = 1..(Len(reads) + Len(n)) /\ Len(n) \in Nat
    BY <2>4, Joined
  <2>6. 1 \in DOMAIN n /\ n[1] = a
    BY <2>3
  <2>7. PICK k \in DOMAIN reads' : k = Len(reads) + 1 /\ reads'[k] = a
    BY <2>5, <2>6
  <2>8. \A j \in DOMAIN reads' : j < k => j \in DOMAIN reads
    BY <2>5, <2>7
  <2>9. \A j \in DOMAIN reads : reads[j].stale
    BY DEF Open, TypeInv, Ready
  <2>10. AwaitsUser(k)'
    BY <2>1, <2>5, <2>7, <2>8, <2>9 DEF AwaitsUser
  <2> QED
    BY <2>10 DEF UserComes
<1>2. FormFilled' /\ PostIsThere' /\ CrashExplained'
  BY DEF Open, TypeInv, Ready, FormFilled, PostIsThere, CrashExplained, Alive
<1> QED
  BY <1>1, <1>2 DEF CauseInv

LEMMA BackCause ==
    ASSUME TypeInv, CauseInv, Back PROVE CauseInv'
<1>1. DOMAIN queue' = DOMAIN queue /\ \A i \in DOMAIN queue : queue'[i].stale
  BY BackStep
<1>2. UserComes' /\ FormFilled' /\ PostIsThere' /\ CrashExplained'
  BY <1>1 DEF Back, UserComes, FormFilled, PostIsThere, CrashExplained, Alive
<1> QED
  BY <1>2 DEF CauseInv

LEMMA ScreenCause ==
    ASSUME TypeInv, TypeInv', CauseInv,
           Leave \/ Return \/ EditTap \/ BackFromForm
    PROVE  CauseInv'
<1> USE DEF fields, field, past
<1>1. screen # "list" /\ UNCHANGED <<mUser, odd, queue, mNewPost, crash>>
      /\ Alive
  BY DEF Leave, Return, EditTap, BackFromForm
<1>2. odd' \in odd..4
  BY <1>1 DEF TypeInv, TypeOK
<1>3. \E S : Added(S)
  <2>1. CASE Leave
    BY <2>1, NothingAdded DEF Leave
  <2>2. CASE EditTap
    <3>1. PICK r \in GoodRead : r = GetAuthor(Me)
      BY Requests
    <3> QED
      BY <2>2, <3>1, AskStep DEF EditTap
  <2>3. CASE Return \/ BackFromForm
    <3>1. Resume /\ mPost \in Copy
      BY <2>3 DEF Return, BackFromForm, TypeInv, TypeOK, Ready
    <3>2. PICK r \in GoodRead : r = GetPost(mPost.id)
      BY <3>1, Requests DEF Copy
    <3> QED
      BY <3>1, <3>2, AskStep DEF Resume
  <2> QED
    BY <2>1, <2>2, <2>3
<1>4. UserComes'
  BY <1>1, <1>2, <1>3, UserStillComes DEF CauseInv
<1>5. FormFilled'
  BY DEF Leave, Return, EditTap, BackFromForm, Resume, FormFilled, TypeInv,
         Ready
<1>6. PostIsThere' /\ CrashExplained'
  BY <1>1 DEF CauseInv, PostIsThere, CrashExplained
<1> QED
  BY <1>4, <1>5, <1>6 DEF CauseInv

\* Steps that leave the reads and the crash alone
LEMMA RestCause ==
    ASSUME TypeInv, TypeInv', CauseInv,
           UNCHANGED <<reads, screen, mUser, formAuthor, crash>>,
           odd' \in odd..Crossed, PostIsThere'
    PROVE  CauseInv'
<1>1. odd \in 0..4 /\ odd' \in 0..4 /\ odd <= odd'
  BY DEF TypeInv, TypeOK
<1>2. UserComes'
  BY <1>1 DEF CauseInv, UserComes, AwaitsUser
<1>3. FormFilled' /\ CrashExplained'
  BY <1>1 DEF CauseInv, FormFilled, CrashExplained
<1> QED
  BY <1>2, <1>3 DEF CauseInv

LEMMA FieldCause ==
    ASSUME TypeInv, TypeInv', CauseInv,
           \/ Type \/ ReplyTap \/ UndoTap
           \/ \E c \in Comments : CommentTap(c)
    PROVE  CauseInv'
<1>1. /\ UNCHANGED <<reads, screen, mUser, formAuthor, crash>>
      /\ odd' \in odd..Crossed
  BY DEF Type, ReplyTap, UndoTap, CommentTap, fields, field, past, TypeInv,
         TypeOK
<1>2. PostIsThere'
  <2>1. CASE Type \/ ReplyTap \/ UndoTap
    BY <2>1 DEF Type, ReplyTap, UndoTap, fields, CauseInv, PostIsThere
  <2>2. CASE \E c \in Comments : CommentTap(c)
    BY <2>2, CommentTapStep DEF PostIsThere
  <2> QED
    BY <2>1, <2>2
<1> QED
  BY <1>1, <1>2, RestCause

LEMMA PostTapCause ==
    ASSUME TypeInv, TypeInv', CauseInv, PostTap PROVE CauseInv'
<1>1. UNCHANGED <<reads, screen, mUser, formAuthor, mNewPost, odd>>
  BY DEF PostTap, fields, past
<1>2. odd \in 0..4
  BY DEF TypeInv, TypeOK
<1>3. CASE formAuthor # None
  <2>1. PostIsThere'
    BY <1>1, <1>3, PostTapStep DEF Sent, CauseInv, PostIsThere
  <2> QED
    BY <1>1, <1>2, <1>3, <2>1, PostTapStep, RestCause
<1>4. CASE formAuthor = None
  <2>1. UNCHANGED queue /\ crash' = "noAuthor" /\ odd >= Lost
    BY <1>2, <1>4 DEF PostTap, CauseInv, FormFilled
  <2> QED
    BY <1>1, <1>2, <2>1
       DEF CauseInv, UserComes, AwaitsUser, FormFilled, PostIsThere,
           CrashExplained
<1> QED
  BY <1>3, <1>4

LEMMA UpdateCommentCause ==
    ASSUME TypeInv, TypeInv', CauseInv, NEW ok \in BOOLEAN,
           OnUpdateComment(ok)
    PROVE  CauseInv'
<1>1. /\ UNCHANGED <<reads, screen, mUser, formAuthor, mNewPost>>
      /\ Alive /\ Complete("comment", ok)
  BY DEF OnUpdateComment, fields, past
<1>2. odd \in 0..4 /\ odd' \in 0..4 /\ odd <= odd'
  BY UpdateCommentStep DEF TypeInv, TypeOK
<1>3. PostIsThere'
  <2>1. ASSUME odd' # Crossed, NEW i \in DOMAIN queue',
               queue'[i].tag = "comment", ~queue'[i].stale
        PROVE  mNewPost # None
    <3>1. mPost \in Copy /\ mNewPost \in Copy =>
             Save("save", mPost.id, DocOf(mNewPost)).tag = "save"
      BY DEF Save
    <3>2. \E k \in DOMAIN queue : queue'[i] = queue[k]
      BY <2>1, <3>1, UpdateCommentStep
    <3> QED
      BY <1>2, <2>1, <3>2 DEF CauseInv, PostIsThere
  <2> QED
    BY <1>1, <2>1 DEF PostIsThere
<1>4. CrashExplained'
  <2>1. crash' = crash \/ crash' = "noNewPost"
    BY DEF OnUpdateComment
  <2>2. ASSUME crash' = "noNewPost", crash = "none"
        PROVE  odd' = Crossed
    <3>1. screen = "detail" /\ mNewPost = None
      BY <2>2 DEF OnUpdateComment
    <3>2. 1 \in DOMAIN queue /\ queue[1].tag = "comment"
      BY <1>1, CompleteStep
    <3>3. odd' # Crossed => ~queue[1].stale
      BY <3>1, UpdateCommentStep
    <3> QED
      BY <1>2, <3>1, <3>2, <3>3 DEF CauseInv, PostIsThere
  <2> QED
    BY <1>1, <1>2, <2>1, <2>2 DEF Alive, CrashExplained
<1>5. UserComes' /\ FormFilled'
  BY <1>1, <1>2 DEF CauseInv, UserComes, AwaitsUser, FormFilled
<1> QED
  BY <1>3, <1>4, <1>5 DEF CauseInv

LEMMA SavedCause ==
    ASSUME TypeInv, TypeInv', CauseInv, NEW ok \in BOOLEAN,
           OnUpdateValue(ok) \/ OnEdited(ok)
    PROVE  CauseInv'
<1>1. UNCHANGED <<mUser, mNewPost, crash>>
  BY DEF OnUpdateValue, OnEdited, fields, past
<1>2. odd \in 0..4 /\ odd' \in 0..4 /\ odd <= odd'
  BY SavedStep DEF TypeInv, TypeOK
<1>3. \/ UNCHANGED <<screen, formAuthor>>
      \/ screen' = "detail" /\ screen # "list"
  BY DEF OnUpdateValue, OnEdited, Resume
<1>4. UserComes'
  <2>1. CASE UNCHANGED reads
    <3>1. screen = "list" => screen' = "list"
      BY <1>3
    <3>2. CASE screen = "list"
      BY <3>1, <3>2 DEF UserComes
    <3>3. CASE screen # "list"
      <4>1. Added({})
        BY <2>1, NothingAdded
      <4> QED
        BY <1>1, <1>2, <3>3, <4>1, SavedStep, UserStillComes DEF CauseInv
    <3> QED
      BY <3>2, <3>3
  <2>2. CASE ~UNCHANGED reads
    <3>1. screen # "list" /\ Added({GetPost(mPost.id)})
      BY <2>2, SavedStep
    <3> QED
      BY <1>1, <3>1, SavedStep, UserStillComes DEF CauseInv
  <2> QED
    BY <2>1, <2>2
<1>5. FormFilled' /\ CrashExplained'
  BY <1>1, <1>2, <1>3 DEF CauseInv, FormFilled, CrashExplained
<1>6. PostIsThere'
  BY <1>1, <1>2, SavedStep DEF CauseInv, PostIsThere
<1> QED
  BY <1>4, <1>5, <1>6 DEF CauseInv

LEMMA OthersCause ==
    ASSUME TypeInv, TypeInv', CauseInv, NEW p \in Posts, NEW c \in Comments,
           OthersComment(p, c)
    PROVE  CauseInv'
<1>1. odd' \in odd..Crossed
  BY StrangeStep DEF OthersComment
<1>2. UNCHANGED <<reads, queue, screen, mUser, mNewPost, formAuthor, crash>>
  BY DEF OthersComment, fields
<1>3. PostIsThere'
  BY <1>1, <1>2 DEF CauseInv, PostIsThere, TypeInv, TypeOK
<1> QED
  BY <1>1, <1>2, <1>3, RestCause

LEMMA ReadCause ==
    ASSUME TypeInv, TypeInv', CauseInv, NEW i,
           ServeRead(i) \/ LoseRead(i)
    PROVE  CauseInv'
<1>1. UNCHANGED <<queue, screen, mUser, mNewPost, crash>> /\ Alive
  BY DEF ServeRead, LoseRead, fields, past
<1>2. CASE ServeRead(i)
  <2>1. UNCHANGED <<odd, formAuthor>>
    BY <1>2 DEF ServeRead, past
  <2>2. UserComes'
    BY <1>1, <1>2, <2>1, ServeStep DEF CauseInv, UserComes, AwaitsUser
  <2>3. FormFilled' /\ CrashExplained' /\ PostIsThere'
    BY <1>1, <2>1 DEF CauseInv, FormFilled, CrashExplained, PostIsThere
  <2> QED
    BY <2>2, <2>3 DEF CauseInv
<1>3. CASE LoseRead(i)
  <2>1. odd \in 0..4 /\ odd' \in 0..4 /\ odd <= odd'
    BY <1>3, LoseStep DEF TypeInv, TypeOK
  <2>2. screen # "list" => odd' >= Lost
    BY <1>3, LoseStep
  <2>3. UserComes' /\ FormFilled' /\ CrashExplained'
    BY <1>1, <2>1, <2>2 DEF UserComes, FormFilled, CrashExplained, Alive
  <2>4. PostIsThere'
    BY <1>1, <2>1 DEF CauseInv, PostIsThere
  <2> QED
    BY <2>3, <2>4 DEF CauseInv
<1> QED
  BY <1>2, <1>3

LEMMA AnsweredCause ==
    ASSUME TypeInv, TypeInv', CauseInv, NEW i,
           OnCurrentUser(i) \/ OnAuthor(i) \/ OnFields(i) \/ OnComments(i)
    PROVE  CauseInv'
<1>1. UNCHANGED <<queue, screen, mNewPost>> /\ Alive
  BY DEF OnCurrentUser, OnAuthor, OnFields, OnComments, Deliver
<1>2. PICK tag : /\ i \in DOMAIN reads /\ reads[i].tag = tag
                 /\ Noticed(i, tag)
                 /\ tag # "current" => mUser' = mUser
                 /\ tag = "current" /\ screen = "detail" => mUser'
                 /\ OnComments(i) => tag = "comments"
  <2>1. CASE OnCurrentUser(i)
    BY <2>1, CurrentStep DEF OnCurrentUser, OnComments, Deliver
  <2>2. CASE OnAuthor(i)
    BY <2>2, AuthorStep DEF OnAuthor, OnComments, Deliver
  <2>3. CASE OnFields(i)
    BY <2>3, FieldsStep DEF OnFields, OnComments, Deliver
  <2>4. CASE OnComments(i)
    BY <2>4, CommentsStep DEF OnComments
  <2> QED
    BY <2>1, <2>2, <2>3, <2>4
<1>3. /\ UserComes'
      /\ tag # "current" /\ screen # "list" /\ ~mUser => odd' >= Late
  BY <1>1, <1>2, UserFirst DEF CauseInv
<1>4. odd \in 0..4 /\ odd' \in 0..4 /\ odd <= odd'
  BY <1>2 DEF TypeInv, TypeOK, Noticed
<1>5. PostIsThere'
  BY <1>1, <1>4 DEF CauseInv, PostIsThere
<1>6. FormFilled'
  <2>1. formAuthor' = formAuthor \/ formAuthor' \in Users
    BY AuthorStep DEF OnCurrentUser, OnAuthor, OnFields, OnComments
  <2> QED
    BY <1>1, <1>4, <2>1 DEF CauseInv, FormFilled
<1>7. CrashExplained'
  <2>1. \/ crash' = crash
        \/ /\ crash' = "noUser" /\ screen = "detail" /\ ~mUser
           /\ OnComments(i)
    BY DEF OnCurrentUser, OnAuthor, OnFields, OnComments
  <2> QED
    BY <1>1, <1>2, <1>3, <1>4, <2>1 DEF Alive, CrashExplained
<1> QED
  BY <1>3, <1>5, <1>6, <1>7 DEF CauseInv

LEMMA NextCause ==
    TypeInv /\ TypeInv' /\ CauseInv /\ [Next]_vars => CauseInv'
<1>1. TypeInv /\ TypeInv' /\ CauseInv /\ UNCHANGED vars => CauseInv'
  BY RestCause DEF vars, CauseInv, UserComes, AwaitsUser, FormFilled,
     PostIsThere, CrashExplained
<1>2. TypeInv /\ TypeInv' /\ CauseInv /\ User => CauseInv'
  BY OpenCause, BackCause, ScreenCause, FieldCause, PostTapCause DEF User
<1>3. TypeInv /\ TypeInv' /\ CauseInv /\ Answer => CauseInv'
  BY UpdateCommentCause, SavedCause, ReadCause, AnsweredCause DEF Answer
<1>4. TypeInv /\ TypeInv' /\ CauseInv /\ Next => CauseInv'
  BY <1>2, <1>3, ReadCause, OthersCause DEF Next
<1> QED
  BY <1>1, <1>4

(* The three ways in which the process ends, for any posts and users and   *)
(* however many answers are under way: the screen is drawn without its     *)
(* user only if an answer was late or lost, the form has no author only if *)
(* a read failed, and onUpdateComment finds no mNewPost only for a comment *)
(* that an earlier instance sent; and every variable keeps its type.       *)
THEOREM CrashesExplained == Spec => []CrashHasCause
<1>1. Init => TypeInv /\ CauseInv
  <2>1. Init => CauseInv
    BY EmptySeq DEF Init, CauseInv, UserComes, FormFilled, PostIsThere,
       CrashExplained
  <2> QED
    BY <2>1, InitType
<1>2. TypeInv /\ CauseInv /\ [Next]_vars => TypeInv' /\ CauseInv'
  BY NextType, NextCause
<1>3. TypeInv /\ CauseInv => CrashHasCause
  BY DEF TypeInv, CauseInv, CrashExplained, CrashHasCause
<1> QED
  BY <1>1, <1>2, <1>3, PTL DEF Spec

-----------------------------------------------------------------------------
(* The author of a post *)

DocsKept == \A p \in Posts : docs[p].author = AuthorOf[p]

WritesKept ==
    \A i \in DOMAIN queue :
        queue[i].doc # None => queue[i].doc.author = AuthorOf[queue[i].post]

CopiesKept ==
    /\ mPost # None => mPost.author = AuthorOf[mPost.id]
    /\ mNewPost # None => /\ mPost # None /\ mNewPost.id = mPost.id
                          /\ mNewPost.author = AuthorOf[mPost.id]

\* A fresh answer is about the post that the screen shows.
ReadKept(r) ==
    /\ r.val # None => r.val.author = AuthorOf[r.val.id]
    /\ r.tag = "fields" /\ ~r.stale => mPost # None /\ r.post = mPost.id
    /\ r.tag = "author" /\ ~r.stale /\ mine => r.user = Me
ReadsKept == \A i \in DOMAIN reads : ReadKept(reads[i])

MineKept == mine => AuthorOf[mPost.id] = Me /\ mAuthor = Me
FormKept == screen = "form" => mine /\ formAuthor \in {Me, None}

AllKept == /\ DocsKept /\ WritesKept /\ CopiesKept /\ ReadsKept
           /\ MineKept /\ FormKept
KeptInv == odd # Crossed => AllKept

LEMMA ViewKept ==
    ASSUME TypeInv, DocsKept, WritesKept, NEW p \in Posts
    PROVE  View(p) \in Doc /\ View(p).author = AuthorOf[p]
BY ViewOf DEF DocsKept, WritesKept

\* Fields that a step must leave alone for the reads to stay as they are
LEMMA MoreReads ==
    ASSUME TypeInv, ReadsKept, NEW r \in GoodRead, Added({r}),
           mPost' = mPost, mine' = mine, ReadKept(r)
    PROVE  ReadsKept'
BY DEF ReadsKept, ReadKept, Added

LEMMA SameReads ==
    ASSUME ReadsKept, UNCHANGED <<reads, mPost, mine>> PROVE ReadsKept'
BY DEF ReadsKept, ReadKept

LEMMA OpenKept ==
    ASSUME TypeInv, TypeInv', KeptInv, NEW p \in Posts, Open(p)
    PROVE  KeptInv'
<1> SUFFICES ASSUME odd' # Crossed, AllKept PROVE AllKept'
  BY DEF Open, KeptInv, past
<1>1. /\ View(p) \in Doc /\ View(p).author = AuthorOf[p]
      /\ mPost' \in Copy /\ mPost'.id = p /\ mPost'.author = AuthorOf[p]
      /\ mPost' # None
      /\ mAuthor' = Me /\ mine' = (View(p).author = Me)
      /\ UNCHANGED <<server, queue, mNewPost>>
      /\ screen = "list" /\ screen' = "detail"
  BY ViewKept, Copies DEF AllKept, Open
<1>2. DocsKept' /\ WritesKept'
  BY <1>1 DEF AllKept, DocsKept, WritesKept, server
<1>3. CopiesKept' /\ FormKept' /\ MineKept'
  BY <1>1 DEF CopiesKept, FormKept, MineKept, TypeInv, Ready
<1>4. ReadsKept'
  <2>1. PICK a \in GoodRead, b \in GoodRead :
           /\ a = GetCurrent /\ b = GetPost(p)
           /\ a.tag = "current" /\ a.val = None
           /\ b.tag = "fields" /\ b.val = None /\ b.post = p
    BY Requests
  <2>2. <<a, b>> \in Seq(GoodRead)
    OBVIOUS
  <2>3. PICK n \in Seq(GoodRead) : n = <<a, b>>
    BY <2>2
  <2>4. reads \in Seq(GoodRead) /\ reads' = reads \o n
    BY <2>1, <2>3 DEF Open, TypeInv
  <2>5. \A i \in DOMAIN reads' :
           \/ i \in DOMAIN reads /\ reads'[i] = reads[i]
           \/ \E j \in DOMAIN n : reads'[i] = n[j]
    BY <2>4, Joined
  <2>6. \A j \in DOMAIN n : n[j] \in {a, b}
    BY <2>3
  <2>7. \A j \in DOMAIN reads : reads[j].stale
    BY DEF Open, TypeInv, Ready
  <2>8. ASSUME NEW i \in DOMAIN reads' PROVE ReadKept(reads[i])'
    <3>1. CASE i \in DOMAIN reads /\ reads'[i] = reads[i]
      BY <2>7, <3>1 DEF AllKept, ReadsKept, ReadKept
    <3>2. CASE reads'[i] \in {a, b}
      BY <1>1, <2>1, <3>2 DEF ReadKept
    <3> QED
      BY <2>5, <2>6, <3>1, <3>2
  <2> QED
    BY <2>8 DEF ReadsKept
<1> QED
  BY <1>2, <1>3, <1>4 DEF AllKept

LEMMA BackKept ==
    ASSUME TypeInv, KeptInv, Back PROVE KeptInv'
<1> SUFFICES ASSUME odd' # Crossed, AllKept PROVE AllKept'
  BY DEF Back, KeptInv
<1>1. /\ UNCHANGED server /\ mPost' = None /\ mNewPost' = None /\ ~mine'
      /\ screen' = "list"
  BY DEF Back
<1>2. DocsKept' /\ CopiesKept' /\ MineKept' /\ FormKept'
  BY <1>1 DEF AllKept, DocsKept, CopiesKept, MineKept, FormKept, server
<1>3. WritesKept'
  BY BackStep DEF AllKept, WritesKept
<1>4. ReadsKept'
  BY BackStep DEF AllKept, ReadsKept, ReadKept
<1> QED
  BY <1>2, <1>3, <1>4 DEF AllKept

LEMMA ScreenKept ==
    ASSUME TypeInv, TypeInv', KeptInv,
           Leave \/ Return \/ EditTap \/ BackFromForm
    PROVE  KeptInv'
<1> SUFFICES ASSUME odd' # Crossed, AllKept PROVE AllKept'
  BY DEF Leave, Return, EditTap, BackFromForm, KeptInv, past
<1>1. UNCHANGED <<docs, queue, mPost, mNewPost, mine, mAuthor>>
  BY DEF Leave, Return, EditTap, BackFromForm, fields, server
<1>2. DocsKept' /\ WritesKept' /\ CopiesKept' /\ MineKept'
  BY <1>1 DEF AllKept, DocsKept, WritesKept, CopiesKept, MineKept
<1>3. FormKept'
  BY <1>1 DEF Leave, Return, EditTap, BackFromForm, Resume, AllKept,
              FormKept, MineKept
<1>4. ReadsKept'
  <2>1. CASE Leave
    BY <1>1, <2>1, SameReads DEF Leave, AllKept
  <2>2. CASE EditTap
    <3>1. PICK r \in GoodRead :
             /\ r = GetAuthor(Me) /\ r.tag = "author" /\ r.val = None
             /\ r.user = Me
      BY Requests
    <3>2. Added({r}) /\ ReadKept(r)
      BY <2>2, <3>1, AskStep DEF EditTap, ReadKept
    <3> QED
      BY <1>1, <3>2, MoreReads DEF AllKept
  <2>3. CASE Return \/ BackFromForm
    <3>1. Resume /\ mPost \in Copy
      BY <2>3 DEF Return, BackFromForm, TypeInv, TypeOK, Ready
    <3>2. PICK r \in GoodRead :
             /\ r = GetPost(mPost.id) /\ r.tag = "fields" /\ r.val = None
             /\ r.post = mPost.id
      BY <3>1, Requests DEF Copy
    <3>3. Added({r}) /\ ReadKept(r)
      BY <3>1, <3>2, AskStep DEF Resume, ReadKept
    <3> QED
      BY <1>1, <3>3, MoreReads DEF AllKept
  <2> QED
    BY <2>1, <2>2, <2>3
<1> QED
  BY <1>2, <1>3, <1>4 DEF AllKept

LEMMA FieldKept ==
    ASSUME TypeInv, TypeInv', KeptInv, Type \/ ReplyTap \/ UndoTap
    PROVE  KeptInv'
<1> SUFFICES ASSUME odd' # Crossed, AllKept PROVE AllKept'
  BY DEF Type, ReplyTap, UndoTap, KeptInv, past
<1>1. UNCHANGED <<docs, queue, reads, screen, mPost, mNewPost, mine, mAuthor,
                  formAuthor>>
  BY DEF Type, ReplyTap, UndoTap, fields, server
<1> QED
  BY <1>1 DEF AllKept, DocsKept, WritesKept, CopiesKept, ReadsKept, ReadKept,
              MineKept, FormKept

LEMMA CommentTapKept ==
    ASSUME TypeInv, TypeInv', KeptInv, NEW c \in Comments, CommentTap(c)
    PROVE  KeptInv'
<1> SUFFICES ASSUME odd' # Crossed, AllKept PROVE AllKept'
  BY DEF CommentTap, KeptInv
<1>1. UNCHANGED <<docs, reads, screen, mine, mAuthor, formAuthor>>
  BY DEF CommentTap, server
<1>2. /\ mPost # None /\ mPost' # None /\ mNewPost' = mPost'
      /\ mPost'.id = mPost.id /\ mPost'.author = mPost.author
      /\ Sent(SetComment(c, mPost.id, reply))
  BY CommentTapStep DEF Copy
<1>3. DocsKept' /\ CopiesKept' /\ MineKept' /\ FormKept'
  BY <1>1, <1>2 DEF AllKept, DocsKept, CopiesKept, MineKept, FormKept
<1>4. ReadsKept'
  BY <1>1, <1>2 DEF AllKept, ReadsKept, ReadKept
<1>5. WritesKept'
  BY <1>2 DEF AllKept, WritesKept, Sent, SetComment
<1> QED
  BY <1>3, <1>4, <1>5 DEF AllKept

LEMMA PostTapKept ==
    ASSUME TypeInv, TypeInv', KeptInv, PostTap
    PROVE  KeptInv'
<1> SUFFICES ASSUME odd' # Crossed, AllKept PROVE AllKept'
  BY DEF PostTap, KeptInv, past
<1>1. UNCHANGED <<docs, reads, screen, mPost, mNewPost, mine, mAuthor,
                  formAuthor>>
  BY DEF PostTap, server, fields
<1>2. WritesKept'
  <2>1. CASE formAuthor = None
    BY <2>1 DEF PostTap, AllKept, WritesKept
  <2>2. CASE formAuthor # None
    <3>1. formAuthor = AuthorOf[mPost.id]
      BY <2>2 DEF PostTap, AllKept, FormKept, MineKept
    <3>2. PICK w \in GoodWrite :
             /\ w.post = mPost.id /\ w.doc.author = formAuthor /\ Sent(w)
      BY <2>2, PostTapStep
    <3> QED
      BY <3>1, <3>2 DEF AllKept, WritesKept, Sent
  <2> QED
    BY <2>1, <2>2
<1> QED
  BY <1>1, <1>2 DEF AllKept, DocsKept, CopiesKept, ReadsKept, ReadKept,
                    MineKept, FormKept

\* What a write carries comes from the post's author.
LEMMA CompleteKept ==
    ASSUME TypeInv, DocsKept, WritesKept, NEW tag, NEW ok \in BOOLEAN,
           Complete(tag, ok)
    PROVE  DocsKept'
BY CompleteStep DEF DocsKept, WritesKept

LEMMA UpdateCommentKept ==
    ASSUME TypeInv, TypeInv', KeptInv, NEW ok \in BOOLEAN,
           OnUpdateComment(ok)
    PROVE  KeptInv'
<1> SUFFICES ASSUME odd' # Crossed, AllKept PROVE AllKept'
  BY UpdateCommentStep DEF KeptInv, TypeInv, TypeOK
<1>1. /\ UNCHANGED <<reads, screen, mPost, mNewPost, mine, mAuthor,
                     formAuthor>>
      /\ Complete("comment", ok)
  BY DEF OnUpdateComment, fields
<1>2. DocsKept'
  BY <1>1, CompleteKept DEF AllKept
<1>3. WritesKept'
  <2>1. ASSUME NEW i \in DOMAIN queue'
        PROVE  queue'[i].doc # None =>
                  queue'[i].doc.author = AuthorOf[queue'[i].post]
    <3>1. CASE \E k \in DOMAIN queue : queue'[i] = queue[k]
      BY <3>1 DEF AllKept, WritesKept
    <3>2. CASE /\ mNewPost \in Copy /\ mPost \in Copy
               /\ queue'[i] = Save("save", mPost.id, DocOf(mNewPost))
      <4>1. mPost.id \in Posts /\ mPost # None /\ mNewPost # None
        BY <3>2 DEF Copy
      <4>2. /\ queue'[i].doc = DocOf(mNewPost)
            /\ queue'[i].post = mPost.id
            /\ DocOf(mNewPost).author = mNewPost.author
        BY <3>2, <4>1, Copies, Writes
      <4> QED
        BY <4>1, <4>2 DEF AllKept, CopiesKept
    <3> QED
      BY <3>1, <3>2, UpdateCommentStep
  <2> QED
    BY <2>1 DEF WritesKept
<1> QED
  BY <1>1, <1>2, <1>3 DEF AllKept, CopiesKept, ReadsKept, ReadKept, MineKept,
                          FormKept

LEMMA SavedKept ==
    ASSUME TypeInv, TypeInv', KeptInv, NEW ok \in BOOLEAN,
           OnUpdateValue(ok) \/ OnEdited(ok)
    PROVE  KeptInv'
<1> SUFFICES ASSUME odd' # Crossed, AllKept PROVE AllKept'
  BY SavedStep DEF KeptInv, TypeInv, TypeOK
<1>1. UNCHANGED <<mPost, mNewPost, mine, mAuthor>>
  BY DEF OnUpdateValue, OnEdited, fields
<1>2. DocsKept'
  BY CompleteKept DEF OnUpdateValue, OnEdited, AllKept
<1>3. WritesKept'
  BY SavedStep DEF AllKept, WritesKept
<1>4. CopiesKept' /\ MineKept'
  BY <1>1 DEF AllKept, CopiesKept, MineKept
<1>5. FormKept'
  BY <1>1 DEF OnUpdateValue, OnEdited, Resume, AllKept, FormKept
<1>6. ReadsKept'
  <2>1. CASE UNCHANGED reads
    BY <1>1, <2>1, SameReads DEF AllKept
  <2>2. CASE ~UNCHANGED reads
    <3>1. mPost \in Copy /\ mPost # None /\ Added({GetPost(mPost.id)})
      BY <2>2, SavedStep DEF Copy
    <3>2. PICK r \in GoodRead :
             /\ r = GetPost(mPost.id) /\ r.tag = "fields" /\ r.val = None
             /\ r.post = mPost.id
      BY <3>1, Requests DEF Copy
    <3>3. Added({r}) /\ ReadKept(r)
      BY <3>1, <3>2 DEF ReadKept
    <3> QED
      BY <1>1, <3>3, MoreReads DEF AllKept
  <2> QED
    BY <2>1, <2>2
<1> QED
  BY <1>2, <1>3, <1>4, <1>5, <1>6 DEF AllKept

LEMMA OthersKept ==
    ASSUME TypeInv, TypeInv', KeptInv, NEW p \in Posts, NEW c \in Comments,
           OthersComment(p, c)
    PROVE  KeptInv'
<1>1. odd' \in odd..Crossed
  BY StrangeStep DEF OthersComment
<1> SUFFICES ASSUME odd' # Crossed, AllKept PROVE AllKept'
  BY <1>1 DEF KeptInv, TypeInv, TypeOK
<1>2. UNCHANGED <<queue, reads, screen, mPost, mNewPost, mine, mAuthor,
                  formAuthor>>
  BY DEF OthersComment, fields
<1>3. DocsKept'
  BY DEF OthersComment, AllKept, DocsKept, TypeInv, TypeOK, Doc
<1> QED
  BY <1>2, <1>3 DEF AllKept, WritesKept, CopiesKept, ReadsKept, ReadKept,
                    MineKept, FormKept

LEMMA ServeKept ==
    ASSUME TypeInv, TypeInv', KeptInv, NEW i, ServeRead(i)
    PROVE  KeptInv'
<1> SUFFICES ASSUME odd' # Crossed, AllKept PROVE AllKept'
  BY DEF ServeRead, KeptInv, past
<1>1. UNCHANGED <<docs, queue, screen, mPost, mNewPost, mine, mAuthor,
                  formAuthor>>
  BY DEF ServeRead, fields, server
<1>2. PICK p \in Posts : p = reads[i].post
  BY ServeStep
<1>3. View(p) \in Doc /\ View(p).author = AuthorOf[p]
  BY ViewKept DEF AllKept
<1>4. PICK copy \in Copy :
         copy = CopyOf(p, View(p)) /\ copy.author = AuthorOf[copy.id]
  BY <1>3, Copies
<1>5. ReadsKept'
  <2>1. ASSUME NEW j \in DOMAIN reads' PROVE ReadKept(reads[j])'
    <3>1. /\ j \in DOMAIN reads
          /\ reads'[j].tag = reads[j].tag /\ reads'[j].stale = reads[j].stale
          /\ reads'[j].user = reads[j].user /\ reads'[j].post = reads[j].post
          /\ reads'[j] = reads[j] \/ reads'[j].val = copy
      BY <1>2, <1>4, ServeStep
    <3> QED
      BY <1>1, <1>4, <3>1 DEF AllKept, ReadsKept, ReadKept
  <2> QED
    BY <2>1 DEF ReadsKept
<1> QED
  BY <1>1, <1>5 DEF AllKept, DocsKept, WritesKept, CopiesKept, MineKept,
                    FormKept

LEMMA LoseKept ==
    ASSUME TypeInv, TypeInv', KeptInv, NEW i, LoseRead(i)
    PROVE  KeptInv'
<1> SUFFICES ASSUME odd' # Crossed, AllKept PROVE AllKept'
  BY LoseStep DEF KeptInv, TypeInv, TypeOK
<1>1. /\ UNCHANGED <<docs, queue, screen, mPost, mNewPost, mine, mAuthor>>
      /\ formAuthor' \in {formAuthor, None}
  BY DEF LoseRead, fields, server
<1>2. ReadsKept'
  BY <1>1, LoseStep DEF AllKept, ReadsKept, ReadKept
<1>3. FormKept'
  BY <1>1 DEF AllKept, FormKept
<1> QED
  BY <1>1, <1>2, <1>3 DEF AllKept, DocsKept, WritesKept, CopiesKept, MineKept

\* The reads after an answer that asked for what S holds
LEMMA TakenKept ==
    ASSUME TypeInv, ReadsKept, NEW i, NEW r, Taken(i, {r}),
           mine' = mine, mPost # None => mPost' # None /\ mPost'.id = mPost.id,
           screen = "detail" => ReadKept(r)'
    PROVE  ReadsKept'
<1>1. ASSUME NEW j \in DOMAIN reads' PROVE ReadKept(reads[j])'
  <2>1. CASE \E k \in DOMAIN reads : reads'[j] = reads[k]
    BY <2>1 DEF ReadsKept, ReadKept
  <2>2. CASE screen = "detail" /\ reads'[j] = r
    BY <2>2 DEF ReadKept
  <2> QED
    BY <2>1, <2>2 DEF Taken
<1> QED
  BY <1>1 DEF ReadsKept

LEMMA CurrentKept ==
    ASSUME TypeInv, TypeInv', KeptInv, NEW i, OnCurrentUser(i)
    PROVE  KeptInv'
<1>1. Noticed(i, "current")
  BY CurrentStep
<1> SUFFICES ASSUME odd' # Crossed, AllKept PROVE AllKept'
  BY <1>1 DEF Noticed, KeptInv, TypeInv, TypeOK
<1>2. UNCHANGED <<docs, queue, screen, mPost, mNewPost, mine, mAuthor,
                  formAuthor>>
  BY DEF OnCurrentUser, server
<1>3. PICK r : r = GetAuthor(mPost.author)
  OBVIOUS
<1>4. screen = "detail" => ReadKept(r)'
  <2>1. SUFFICES ASSUME screen = "detail" PROVE ReadKept(r)'
    OBVIOUS
  <2>2. mPost \in Copy /\ mPost # None /\ mPost.author \in Users
    BY <2>1, CurrentStep DEF Copy
  <2>3. /\ r.tag = "author" /\ r.val = None /\ r.user = mPost.author
    BY <1>3, <2>2, Requests
  <2>4. mine => mPost.author = Me
    BY <2>2 DEF AllKept, MineKept, CopiesKept
  <2> QED
    BY <1>2, <2>3, <2>4 DEF ReadKept
<1>5. ReadsKept'
  BY <1>2, <1>3, <1>4, CurrentStep, TakenKept DEF AllKept
<1> QED
  BY <1>2, <1>5 DEF AllKept, DocsKept, WritesKept, CopiesKept, MineKept,
                    FormKept

LEMMA AuthorKeeps ==
    ASSUME TypeInv, TypeInv', KeptInv, NEW i, OnAuthor(i)
    PROVE  KeptInv'
<1>1. Noticed(i, "author") /\ i \in DOMAIN reads /\ reads[i].tag = "author"
  BY AuthorStep
<1> SUFFICES ASSUME odd' # Crossed, AllKept PROVE AllKept'
  BY <1>1 DEF Noticed, KeptInv, TypeInv, TypeOK
<1>2. UNCHANGED <<docs, queue, screen, mPost, mNewPost, mine>>
  BY DEF OnAuthor, server
<1>3. screen # "list" /\ mine => reads[i].user = Me
  BY <1>1 DEF Noticed, AllKept, ReadsKept, ReadKept
<1>4. MineKept' /\ FormKept'
  BY <1>2, <1>3 DEF OnAuthor, AllKept, MineKept, FormKept, TypeInv, Ready
<1>5. PICK r : r = GetComments(mPost.comments)
  OBVIOUS
<1>6. screen = "detail" => ReadKept(r)'
  <2>1. ASSUME screen = "detail" PROVE mPost.comments \in SUBSET Comments
    BY <2>1, AuthorStep DEF Copy
  <2> QED
    BY <1>5, <2>1, Requests DEF ReadKept
<1>7. ReadsKept'
  BY <1>2, <1>5, <1>6, AuthorStep, TakenKept DEF AllKept
<1> QED
  BY <1>2, <1>4, <1>7 DEF AllKept, DocsKept, WritesKept, CopiesKept

LEMMA FieldsKept ==
    ASSUME TypeInv, TypeInv', KeptInv, NEW i, OnFields(i)
    PROVE  KeptInv'
<1>1. /\ Noticed(i, "fields") /\ i \in DOMAIN reads
      /\ reads[i].tag = "fields" /\ reads[i].val \in Copy
      /\ reads[i].val # None /\ reads[i].val.id = reads[i].post
  BY FieldsStep
<1> SUFFICES ASSUME odd' # Crossed, AllKept PROVE AllKept'
  BY <1>1 DEF Noticed, KeptInv, TypeInv, TypeOK
<1>2. UNCHANGED <<docs, queue, screen, mine, mNewPost, mAuthor, formAuthor>>
  BY DEF OnFields, server
<1>3. /\ reads[i].val.author = AuthorOf[reads[i].val.id]
      /\ screen # "list" => mPost # None /\ reads[i].post = mPost.id
  BY <1>1 DEF Noticed, AllKept, ReadsKept, ReadKept
<1>4. \/ UNCHANGED mPost
      \/ /\ screen = "detail" /\ mPost # None /\ mPost' # None
         /\ mPost'.id = mPost.id /\ mPost'.author = AuthorOf[mPost.id]
  BY <1>1, <1>3 DEF OnFields
<1>5. CopiesKept' /\ MineKept' /\ FormKept'
  BY <1>2, <1>4 DEF AllKept, CopiesKept, MineKept, FormKept, TypeInv, Ready
<1>6. PICK r : r = GetComments(reads[i].val.comments)
  OBVIOUS
<1>7. ReadKept(r)'
  <2>1. reads[i].val.comments \in SUBSET Comments
    BY <1>1 DEF Copy
  <2> QED
    BY <1>6, <2>1, Requests DEF ReadKept
<1>8. ReadsKept'
  BY <1>2, <1>4, <1>6, <1>7, FieldsStep, TakenKept DEF AllKept
<1> QED
  BY <1>2, <1>5, <1>8 DEF AllKept, DocsKept, WritesKept

LEMMA CommentsKept ==
    ASSUME TypeInv, TypeInv', KeptInv, NEW i, OnComments(i)
    PROVE  KeptInv'
<1>1. Noticed(i, "comments")
  BY CommentsStep
<1> SUFFICES ASSUME odd' # Crossed, AllKept PROVE AllKept'
  BY <1>1 DEF Noticed, KeptInv, TypeInv, TypeOK
<1>2. UNCHANGED <<docs, queue, screen, mPost, mNewPost, mine, mAuthor,
                  formAuthor>>
  BY DEF OnComments, server
<1>3. \A j \in DOMAIN reads' : \E k \in DOMAIN reads : reads'[j] = reads[k]
  BY CommentsStep DEF Taken
<1> QED
  BY <1>2, <1>3 DEF AllKept, DocsKept, WritesKept, CopiesKept, ReadsKept,
                    ReadKept, MineKept, FormKept

LEMMA NextKept ==
    TypeInv /\ TypeInv' /\ KeptInv /\ [Next]_vars => KeptInv'
<1>1. TypeInv /\ TypeInv' /\ KeptInv /\ UNCHANGED vars => KeptInv'
  BY DEF vars, KeptInv, AllKept, DocsKept, WritesKept, CopiesKept, ReadsKept,
         ReadKept, MineKept, FormKept
<1>2. TypeInv /\ TypeInv' /\ KeptInv /\ User => KeptInv'
  BY OpenKept, BackKept, ScreenKept, FieldKept, CommentTapKept, PostTapKept
     DEF User
<1>3. TypeInv /\ TypeInv' /\ KeptInv /\ Answer => KeptInv'
  BY UpdateCommentKept, SavedKept, ServeKept, CurrentKept, AuthorKeeps,
     FieldsKept, CommentsKept DEF Answer
<1>4. TypeInv /\ TypeInv' /\ KeptInv /\ Next => KeptInv'
  BY <1>2, <1>3, LoseKept, OthersKept DEF Next
<1> QED
  BY <1>1, <1>4

(* The author of a post stays its author, for any posts and users: the     *)
(* form takes the author from the screen under it, which has it from reads *)
(* that may be answered in any order, fail, or be answered late; only an   *)
(* answer asked for by a screen that was left can put another user there.  *)
THEOREM AuthorsStay == Spec => []AuthorKept
<1>1. Init => KeptInv
  BY EmptySeq DEF Init, KeptInv, AllKept, DocsKept, WritesKept, CopiesKept,
     ReadsKept, MineKept, FormKept
<1>2. TypeInv /\ KeptInv /\ [Next]_vars => TypeInv' /\ KeptInv'
  BY NextType, NextKept
<1>3. KeptInv => AuthorKept
  BY DEF KeptInv, AllKept, DocsKept, AuthorKept
<1> QED
  BY <1>1, <1>2, <1>3, InitType, PTL DEF Spec

-----------------------------------------------------------------------------
(* The target of a reply *)

\* A read whose answer will draw the screen
Draws(r) == r.tag \in {"fields", "comments"}

ReplyInv ==
    odd < Lost /\ screen = "detail" /\ reply # popup =>
        \E i \in DOMAIN reads : Draws(reads[i])

LEMMA ScreenReply ==
    ASSUME TypeInv, TypeInv', ReplyInv,
           \/ \E p \in Posts : Open(p)
           \/ Back \/ Leave \/ Return \/ EditTap \/ BackFromForm
    PROVE  ReplyInv'
<1>1. CASE \E p \in Posts : Open(p)
  BY <1>1 DEF Open, field, TypeInv, Ready, ReplyInv
<1>2. CASE Back \/ Leave \/ EditTap
  BY <1>2 DEF Back, Leave, EditTap, ReplyInv
<1>3. CASE Return \/ BackFromForm
  <2>1. Resume /\ mPost \in Copy
    BY <1>3 DEF Return, BackFromForm, TypeInv, TypeOK, Ready
  <2>2. PICK r \in GoodRead : r = GetPost(mPost.id) /\ r.tag = "fields"
    BY <2>1, Requests DEF Copy
  <2>3. \E i \in DOMAIN reads' : reads'[i] = r
    BY <2>1, <2>2, AskStep DEF Resume, Added
  <2> QED
    BY <2>2, <2>3 DEF ReplyInv, Draws
<1> QED
  BY <1>1, <1>2, <1>3

LEMMA FieldReply ==
    ASSUME TypeInv, ReplyInv,
           \/ Type \/ ReplyTap \/ UndoTap \/ PostTap
           \/ \E c \in Comments : CommentTap(c)
    PROVE  ReplyInv'
<1>1. UNCHANGED <<reads, screen, odd>>
  BY DEF Type, ReplyTap, UndoTap, PostTap, CommentTap, past
<1>2. reply' = popup' \/ UNCHANGED <<reply, popup>>
  BY DEF Type, ReplyTap, UndoTap, PostTap, CommentTap, field
<1> QED
  BY <1>1, <1>2 DEF ReplyInv, Draws

LEMMA WrittenReply ==
    ASSUME TypeInv, TypeInv', ReplyInv, NEW ok \in BOOLEAN,
           OnUpdateComment(ok) \/ OnUpdateValue(ok) \/ OnEdited(ok)
    PROVE  ReplyInv'
<1>1. odd \in 0..4 /\ odd' \in 0..4 /\ odd <= odd'
  BY UpdateCommentStep, SavedStep DEF TypeInv, TypeOK
<1>2. CASE UNCHANGED reads
  <2>1. \/ UNCHANGED <<screen, reply, popup>>
        \/ screen' # "detail"
    <3>1. CASE OnUpdateComment(ok)
      BY <3>1 DEF OnUpdateComment, field
    <3>2. CASE OnUpdateValue(ok) \/ OnEdited(ok)
      <4>1. \A p \in Posts : ~Ask(GetPost(p))
        <5>1. ASSUME NEW p \in Posts, Ask(GetPost(p)) PROVE FALSE
          <6>1. PICK r \in GoodRead : r = GetPost(p)
            BY Requests
          <6>2. Len(reads) \in Nat /\ reads' = Append(reads, r)
            BY <5>1, <6>1, Elements DEF Ask
          <6>3. Len(Append(reads, r)) = Len(reads) + 1
            BY <6>1, AppendProperties DEF TypeInv
          <6> QED
            BY <1>2, <6>2, <6>3
        <5> QED
          BY <5>1
      <4>2. screen \in {"detail", "form"} => mPost.id \in Posts
        BY DEF TypeInv, TypeOK, Ready, Copy
      <4>3. CASE OnUpdateValue(ok)
        BY <4>1, <4>2, <4>3 DEF OnUpdateValue
      <4>4. CASE OnEdited(ok)
        BY <4>1, <4>2, <4>4 DEF OnEdited, Resume, field
      <4> QED
        BY <3>2, <4>3, <4>4
    <3> QED
      BY <3>1, <3>2
  <2> QED
    BY <1>1, <1>2, <2>1 DEF ReplyInv, Draws
<1>3. CASE ~UNCHANGED reads
  <2>1. OnUpdateValue(ok) \/ OnEdited(ok)
    BY <1>3 DEF OnUpdateComment
  <2>2. mPost \in Copy /\ Added({GetPost(mPost.id)})
    BY <1>3, <2>1, SavedStep
  <2>3. PICK r \in GoodRead : r = GetPost(mPost.id) /\ r.tag = "fields"
    BY <2>2, Requests DEF Copy
  <2>4. \E i \in DOMAIN reads' : reads'[i] = r
    BY <2>2, <2>3 DEF Added
  <2> QED
    BY <2>3, <2>4 DEF ReplyInv, Draws
<1> QED
  BY <1>2, <1>3

LEMMA OthersReply ==
    ASSUME TypeInv, TypeInv', ReplyInv,
           NEW p \in Posts, NEW c \in Comments, OthersComment(p, c)
    PROVE  ReplyInv'
<1>1. odd \in 0..4 /\ odd' \in 0..4 /\ odd <= odd'
  BY StrangeStep DEF TypeInv, TypeOK, OthersComment
<1> QED
  BY <1>1 DEF OthersComment, field, ReplyInv, Draws

LEMMA ReadReply ==
    ASSUME TypeInv, TypeInv', ReplyInv, NEW i,
           ServeRead(i) \/ LoseRead(i)
    PROVE  ReplyInv'
<1>1. CASE ServeRead(i)
  BY <1>1, ServeStep DEF ServeRead, field, past, ReplyInv, Draws
<1>2. CASE LoseRead(i)
  BY <1>2, LoseStep DEF LoseRead, ReplyInv, TypeInv, TypeOK
<1> QED
  BY <1>1, <1>2

LEMMA AnsweredReply ==
    ASSUME TypeInv, TypeInv', ReplyInv, NEW i,
           OnCurrentUser(i) \/ OnAuthor(i) \/ OnFields(i) \/ OnComments(i)
    PROVE  ReplyInv'
<1>1. UNCHANGED screen
  BY DEF OnCurrentUser, OnAuthor, OnFields, OnComments
<1>2. odd \in 0..4 /\ odd' \in 0..4 /\ odd <= odd'
  <2>1. \E tag : Noticed(i, tag)
    <3>1. CASE OnCurrentUser(i)
      BY <3>1, CurrentStep
    <3>2. CASE OnAuthor(i)
      BY <3>2, AuthorStep
    <3>3. CASE OnFields(i)
      BY <3>3, FieldsStep
    <3>4. CASE OnComments(i)
      BY <3>4, CommentsStep
    <3> QED
      BY <3>1, <3>2, <3>3, <3>4
  <2> QED
    BY <2>1 DEF Noticed, TypeInv, TypeOK
<1>3. CASE OnCurrentUser(i) \/ OnAuthor(i)
  <2>1. /\ ~Draws(reads[i])
        /\ \A k \in DOMAIN reads \ {i} :
              \E j \in DOMAIN reads' : reads'[j] = reads[k]
        /\ UNCHANGED <<reply, popup>>
    BY <1>3, CurrentStep, AuthorStep
       DEF Taken, Draws, OnCurrentUser, OnAuthor, field
  <2> QED
    BY <1>1, <1>2, <2>1 DEF ReplyInv, Draws
<1>4. CASE OnFields(i)
  <2>1. ASSUME screen = "detail"
        PROVE  \E j \in DOMAIN reads' : Draws(reads'[j])
    <3>1. PICK r : r = GetComments(reads[i].val.comments)
      OBVIOUS
    <3>2. reads[i].val.comments \in SUBSET Comments
      BY <1>4, FieldsStep DEF Copy
    <3>3. r.tag = "comments"
      BY <3>1, <3>2, Requests
    <3>4. \E j \in DOMAIN reads' : reads'[j] = r
      BY <1>4, <2>1, <3>1, FieldsStep DEF Taken
    <3> QED
      BY <3>3, <3>4 DEF Draws
  <2> QED
    BY <1>1, <2>1 DEF ReplyInv, Draws
<1>5. CASE OnComments(i)
  <2>1. screen = "detail" => reply' = popup'
    BY <1>5 DEF OnComments, Populate, field, TypeInv, Ready
  <2> QED
    BY <1>1, <2>1 DEF ReplyInv
<1> QED
  BY <1>3, <1>4, <1>5

LEMMA NextReply ==
    TypeInv /\ TypeInv' /\ ReplyInv /\ [Next]_vars => ReplyInv'
<1>1. TypeInv /\ TypeInv' /\ ReplyInv /\ UNCHANGED vars => ReplyInv'
  BY DEF vars, ReplyInv, Draws
<1>2. TypeInv /\ TypeInv' /\ ReplyInv /\ User => ReplyInv'
  BY ScreenReply, FieldReply DEF User
<1>3. TypeInv /\ TypeInv' /\ ReplyInv /\ Answer => ReplyInv'
  BY WrittenReply, ReadReply, AnsweredReply DEF Answer
<1>4. TypeInv /\ TypeInv' /\ ReplyInv /\ Next => ReplyInv'
  BY <1>2, <1>3, ReadReply, OthersReply DEF Next
<1> QED
  BY <1>1, <1>4

(* What a comment replies to (mCurrentParentId) and what the popup shows   *)
(* are reset at different times, the one when the post is saved, the other *)
(* when the comments are there.  They agree whenever nothing is under way: *)
(* until then an answer is awaited that will draw the screen and reset     *)
(* both, unless a read failed.                                             *)
THEOREM ReplyIsShown == Spec => []ReplyAsShown
<1>1. Init => ReplyInv
  BY DEF Init, ReplyInv
<1>2. TypeInv /\ ReplyInv /\ [Next]_vars => TypeInv' /\ ReplyInv'
  BY NextType, NextReply
<1>3. TypeInv /\ ReplyInv => ReplyAsShown
  <2> SUFFICES ASSUME TypeInv, ReplyInv, screen = "detail", reads = <<>>,
                      ~(odd >= Lost)
               PROVE  reply = popup
    BY DEF ReplyAsShown, Quiet
  <2>1. odd < Lost
    BY DEF TypeInv, TypeOK
  <2>2. Len(reads) = 0 /\ DOMAIN reads = 1..Len(reads)
    BY Elements, EmptySeq
  <2> QED
    BY <2>1, <2>2 DEF ReplyInv
<1> QED
  BY <1>1, <1>2, <1>3, InitType, PTL DEF Spec
-----------------------------------------------------------------------------
(* The text in the comment field *)

\* A comment typed on a quiet screen is on its way: written, or saved with its
\* post, or stored while the screen reloads.
Committing == /\ reads = <<>> /\ DOMAIN queue = {1}
              /\ queue[1].tag = "comment"
              /\ mNewPost = mPost /\ last \in mPost.comments
Saving     == /\ reads = <<>> /\ DOMAIN queue = {1}
              /\ queue[1].tag = "save" /\ queue[1].post = mPost.id
              /\ last \in queue[1].doc.comments
Reloading  == /\ DOMAIN queue = {} /\ last \in docs[mPost.id].comments
              /\ \A i \in DOMAIN reads :
                    /\ ~reads[i].stale
                    /\ reads[i].tag = "fields" => reads[i].post = mPost.id

TextInv ==
    /\ text = "kept" => Quiet /\ screen = "detail"
    /\ text = "posted" =>
          /\ screen = "detail"
          /\ odd > Fine \/ Committing \/ Saving \/ Reloading

TextStep == [/\ text = "kept" /\ screen' # "list" => text' # "none"
             /\ text = "posted" /\ text' = "none" /\ screen' # "list" =>
                  last \in docs[mPost.id].comments \/ odd > Fine
            ]_vars

\* Steps of the user but posting
LEMMA UserText ==
    ASSUME TypeInv, TypeInv', TextInv,
           \/ \E p \in Posts : Open(p)
           \/ Back \/ Leave \/ Return \/ EditTap \/ BackFromForm
           \/ Type \/ ReplyTap \/ UndoTap \/ PostTap
    PROVE  TextInv' /\ TextStep
<1>1. CASE \/ \E p \in Posts : Open(p)
           \/ Back \/ Leave \/ EditTap
  BY <1>1 DEF Open, Back, Leave, EditTap, field, TextInv, TextStep
<1>2. CASE Return \/ BackFromForm \/ PostTap
  BY <1>2 DEF Return, BackFromForm, PostTap, Resume, field, TextInv, TextStep
<1>3. CASE Type
  BY <1>3 DEF Type, TextInv, TextStep, Quiet
<1>4. CASE ReplyTap \/ UndoTap
  BY <1>4 DEF ReplyTap, UndoTap, TextInv, TextStep, Quiet, Committing, Saving,
              Reloading, server, fields, past
<1> QED
  BY <1>1, <1>2, <1>3, <1>4

LEMMA CommentTapText ==
    ASSUME TypeInv, TypeInv', TextInv, NEW c \in Comments, CommentTap(c)
    PROVE  TextInv' /\ TextStep
<1>1. text' # "none" /\ text' # "kept"
  BY DEF CommentTap
<1>2. ASSUME text' = "posted" PROVE screen' = "detail" /\ Committing'
  <2>1. reads = <<>> /\ queue = <<>> /\ screen = "detail"
    BY <1>2 DEF CommentTap, TextInv, Quiet
  <2>2. PICK w \in GoodWrite : w = SetComment(c, mPost.id, reply)
                               /\ w.tag = "comment"
    <3>1. SetComment(c, mPost.id, reply) \in GoodWrite
      BY CommentTapStep
    <3> QED
      BY <3>1 DEF SetComment
  <2>3. queue' = <<w>>
    BY <2>1, <2>2 DEF CommentTap, Send
  <2>4. DOMAIN queue' = {1} /\ queue'[1].tag = "comment"
    BY <2>2, <2>3
  <2>5. mNewPost' = mPost' /\ last' \in mPost'.comments
    BY CommentTapStep DEF CommentTap
  <2> QED
    BY <2>1, <2>4, <2>5 DEF CommentTap, Committing
<1> QED
  BY <1>1, <1>2 DEF TextInv, TextStep

LEMMA WrittenText ==
    ASSUME TypeInv, TypeInv', TextInv, NEW ok \in BOOLEAN,
           OnUpdateComment(ok) \/ OnUpdateValue(ok) \/ OnEdited(ok)
    PROVE  TextInv' /\ TextStep
<1>1. PICK tag : /\ Complete(tag, ok) /\ tag = queue[1].tag /\ queue # <<>>
                 /\ 1 \in DOMAIN queue /\ Head(queue) = queue[1]
  BY CompleteStep DEF OnUpdateComment, OnUpdateValue, OnEdited, Complete
<1>2. UNCHANGED <<text, mPost, mNewPost, last>>
  BY DEF OnUpdateComment, OnUpdateValue, OnEdited, field, fields, past
<1>3. odd \in 0..4 /\ odd' \in 0..4 /\ odd <= odd'
  BY UpdateCommentStep, SavedStep DEF TypeInv, TypeOK
<1>4. TextStep
  BY <1>2 DEF TextStep
<1>5. text # "kept"
  BY <1>1 DEF TextInv, Quiet
<1>6. ASSUME text = "posted" PROVE screen = "detail" /\ screen' = "detail"
  BY <1>6 DEF TextInv, OnUpdateComment, OnUpdateValue, OnEdited, Resume
<1>7. ASSUME text = "posted", odd' = 0
      PROVE  Committing' \/ Saving' \/ Reloading'
  <2>1. odd = 0 /\ (Committing \/ Saving)
    BY <1>1, <1>3, <1>7 DEF TextInv, Reloading
  <2>2. /\ mPost \in Copy /\ mPost.id \in Posts /\ reads = <<>>
        /\ DOMAIN queue = {1} /\ screen = "detail"
    BY <1>6, <1>7, <2>1
       DEF TypeInv, TypeOK, Ready, Copy, Committing, Saving
  <2>3. PICK q \in Seq(GoodWrite) : q = queue /\ q # <<>>
    BY <1>1 DEF TypeInv
  <2>4. Tail(q) = <<>>
    <3>1. PICK n \in Nat : n = Len(q)
      BY LenProperties
    <3>a. 1..n = {1}
      BY <2>2, <2>3, <3>1, LenProperties
    <3>b. 1 \in 1..n /\ 2 \notin 1..n
      BY <3>a
    <3>c. n = 1
      BY <3>b
    <3>2. Len(q) = 1
      BY <3>1, <3>c
    <3>3. Tail(q) \in Seq(GoodWrite) /\ Len(Tail(q)) = 0
      BY <2>3, <3>2, HeadTailProperties
    <3> QED
      BY <3>3, EmptySeq
  <2>5. Tail(queue) = <<>>
    BY <2>3, <2>4
  <2>6. CASE OnUpdateComment(ok)
    <3>1. queue[1].tag = "comment"
      BY <1>1, <2>6, CompleteStep DEF OnUpdateComment
    <3>2. Committing
      BY <2>1, <3>1 DEF Saving
    <3>3. ok
      BY <1>7, <2>2, <2>6, UpdateCommentStep
    <3>4. mNewPost = mPost /\ mNewPost # None /\ last \in mPost.comments
      BY <2>2, <3>2 DEF Committing, TypeInv, Ready
    <3>5. PICK w \in GoodWrite :
             /\ w = Save("save", mPost.id, DocOf(mNewPost))
             /\ w.tag = "save" /\ w.post = mPost.id
             /\ w.doc.comments = mPost.comments
      BY <2>2, <3>4, Writes, Copies
    <3>6. queue' = <<w>>
      <4>a. queue' = Append(Tail(queue), Save("save", mPost.id,
                                              DocOf(mNewPost)))
        BY <2>2, <2>6, <3>3, <3>4 DEF OnUpdateComment
      <4>1. queue' = Append(Tail(queue), w)
        BY <3>5, <4>a
      <4>2. Append(<<>>, w) = <<w>>
        OBVIOUS
      <4> QED
        BY ONLY <2>5, <4>1, <4>2, Zenon
    <3>7. /\ DOMAIN queue' = {1} /\ queue'[1].tag = "save"
          /\ queue'[1].post = mPost.id
          /\ queue'[1].doc.comments = mPost.comments
      BY <3>5, <3>6
    <3>8. reads' = <<>>
      BY <2>2, <2>6 DEF OnUpdateComment
    <3> QED
      BY <1>2, <3>4, <3>7, <3>8 DEF Saving
  <2>7. CASE OnUpdateValue(ok)
    <3>1. queue[1].tag = "save"
      BY <1>1, <2>7, CompleteStep DEF OnUpdateValue
    <3>2. Saving
      BY <2>1, <3>1 DEF Committing
    <3>3. ok
      <4>1. Strange(Wrong(ok, TRUE))
        BY <2>2, <2>7 DEF OnUpdateValue
      <4> QED
        BY <1>7, <2>2, <4>1, WrongStep
    <3>4. PICK w \in GoodWrite :
             w = Head(queue) /\ w.post = mPost.id /\ w.doc \in Doc
             /\ last \in w.doc.comments
      <4>1. queue[1] \in GoodWrite
        BY <1>1, Elements
      <4>2. queue[1].doc \in Doc
        BY <3>1, <4>1 DEF GoodWrite
      <4> QED
        BY <1>1, <3>2, <4>1, <4>2 DEF Saving
    <3>5. docs' = [docs EXCEPT ![w.post] = w.doc]
      BY <2>7, <3>3, <3>4 DEF OnUpdateValue, Complete
    <3>6. last \in docs'[mPost.id].comments
      BY <2>2, <3>4, <3>5 DEF TypeInv, TypeOK
    <3>7. queue' = <<>>
      BY <2>5, <2>7 DEF OnUpdateValue
    <3>8. PICK r \in GoodRead : /\ r = GetPost(mPost.id) /\ ~r.stale
                                /\ r.post = mPost.id
      BY <2>2, Requests
    <3>9. reads' = <<r>>
      BY <2>2, <2>7, <3>8 DEF OnUpdateValue, Ask
    <3>10. /\ DOMAIN queue' = {}
           /\ \A i \in DOMAIN reads' : ~reads'[i].stale
                                       /\ reads'[i].post = mPost.id
      BY <3>7, <3>8, <3>9
    <3> QED
      BY <1>2, <3>6, <3>10 DEF Reloading
  <2>8. CASE OnEdited(ok)
    BY <1>1, <2>1, <2>8, CompleteStep DEF OnEdited, Committing, Saving
  <2> QED
    BY <2>6, <2>7, <2>8
<1>8. odd' = 0 \/ odd' > 0
  BY <1>3
<1> QED
  BY <1>2, <1>4, <1>5, <1>6, <1>7, <1>8 DEF TextInv

LEMMA OthersText ==
    ASSUME TypeInv, TypeInv', TextInv,
           NEW p \in Posts, NEW c \in Comments, OthersComment(p, c)
    PROVE  TextInv' /\ TextStep
<1>1. UNCHANGED <<text, screen, reads, queue>>
  BY DEF OthersComment, field
<1>2. screen # "list" => odd' >= 1
  BY StrangeStep DEF OthersComment
<1>3. odd' \in 0..4
  BY DEF TypeInv, TypeOK
<1> QED
  BY <1>1, <1>2, <1>3 DEF TextInv, TextStep, Quiet

LEMMA ReadText ==
    ASSUME TypeInv, TypeInv', TextInv, NEW i, ServeRead(i) \/ LoseRead(i)
    PROVE  TextInv' /\ TextStep
<1>1. /\ UNCHANGED <<text, screen, queue, mPost, mNewPost, docs, last>>
      /\ i \in DOMAIN reads /\ reads # <<>>
  BY DEF ServeRead, LoseRead, field, fields, server, past
<1>2. TextStep /\ text # "kept"
  BY <1>1 DEF TextInv, TextStep, Quiet
<1>3. CASE ServeRead(i)
  <2>1. ASSUME Reloading PROVE Reloading'
    BY <1>1, <1>3, <2>1, ServeStep DEF Reloading
  <2>2. UNCHANGED odd
    BY <1>3 DEF ServeRead
  <2> QED
    BY <1>1, <1>2, <2>1, <2>2 DEF TextInv, Committing, Saving
<1>4. CASE LoseRead(i)
  BY <1>1, <1>2, <1>4, LoseStep DEF TextInv, TypeInv, TypeOK
<1> QED
  BY <1>3, <1>4

LEMMA AnsweredText ==
    ASSUME TypeInv, TypeInv', TextInv, NEW i,
           OnCurrentUser(i) \/ OnAuthor(i) \/ OnFields(i) \/ OnComments(i)
    PROVE  TextInv' /\ TextStep
<1>1. /\ UNCHANGED <<screen, queue, docs, last>>
      /\ i \in DOMAIN reads /\ reads # <<>>
      /\ text' \in {text, "none"}
      /\ odd \in 0..4 /\ odd' \in odd..4
      /\ odd' \in 0..4
  <2>1. UNCHANGED <<screen, queue, docs, last>> /\ text' \in {text, "none"}
    BY DEF OnCurrentUser, OnAuthor, OnFields, OnComments, Populate, field,
           server, past
  <2>2. i \in DOMAIN reads /\ odd' \in odd..4
    BY CurrentStep, AuthorStep, FieldsStep, CommentsStep DEF Noticed
  <2> QED
    BY <2>1, <2>2 DEF TypeInv, TypeOK
<1>2. text # "kept"
  BY <1>1 DEF TextInv, Quiet
<1>3. ASSUME text = "posted" PROVE odd > 0 \/ Reloading
  BY <1>1, <1>3 DEF TextInv, Committing, Saving
<1>4. TextStep
  BY <1>1, <1>2, <1>3 DEF TextStep, Reloading
<1>5. ASSUME text' = "posted", odd' = 0 PROVE Reloading'
  <2>1. odd = 0 /\ Reloading /\ screen = "detail"
    BY <1>1, <1>3, <1>5 DEF TextInv
  <2>2. mPost \in Copy /\ mPost.id \in Posts /\ ~reads[i].stale
    BY <1>1, <2>1 DEF Reloading, TypeInv, TypeOK, Ready, Copy
  <2>3. mPost'.id = mPost.id
    BY <1>1, <2>1, <2>2, FieldsStep
       DEF OnCurrentUser, OnAuthor, OnFields, OnComments, Reloading
  <2>4. \A j \in DOMAIN reads' :
           \/ \E k \in DOMAIN reads : reads'[j] = reads[k]
           \/ ~reads'[j].stale /\ reads'[j].tag # "fields"
    <3>1. CASE OnCurrentUser(i)
      <4>1. PICK r : /\ r = GetAuthor(mPost.author) /\ ~r.stale
                     /\ r.tag = "author"
        BY <2>2, Requests DEF Copy
      <4> QED
        BY <3>1, <4>1, CurrentStep DEF Taken
    <3>2. CASE OnAuthor(i)
      <4>1. PICK r : /\ r = GetComments(mPost.comments) /\ ~r.stale
                     /\ r.tag = "comments"
        BY <2>2, Requests DEF Copy
      <4> QED
        BY <3>2, <4>1, AuthorStep DEF Taken
    <3>3. CASE OnFields(i)
      <4>1. PICK r : /\ r = GetComments(reads[i].val.comments) /\ ~r.stale
                     /\ r.tag = "comments"
        <5>1. reads[i].val.comments \in SUBSET Comments
          BY <3>3, FieldsStep DEF Copy
        <5> QED
          BY <5>1, Requests
      <4> QED
        BY <3>3, <4>1, FieldsStep DEF Taken
    <3>4. CASE OnComments(i)
      BY <3>4, CommentsStep DEF Taken
    <3> QED
      BY <3>1, <3>2, <3>3, <3>4
  <2> QED
    BY <1>1, <2>1, <2>3, <2>4 DEF Reloading
<1> QED
  BY <1>1, <1>2, <1>3, <1>4, <1>5 DEF TextInv

LEMMA NextText ==
    TypeInv /\ TypeInv' /\ TextInv /\ [Next]_vars => TextInv' /\ TextStep
<1>1. TypeInv /\ TypeInv' /\ TextInv /\ UNCHANGED vars
         => TextInv' /\ TextStep
  BY DEF vars, TextInv, TextStep, Quiet, Committing, Saving, Reloading
<1>2. TypeInv /\ TypeInv' /\ TextInv /\ User => TextInv' /\ TextStep
  BY UserText, CommentTapText DEF User
<1>3. TypeInv /\ TypeInv' /\ TextInv /\ Answer => TextInv' /\ TextStep
  BY WrittenText, ReadText, AnsweredText DEF Answer
<1>4. TypeInv /\ TypeInv' /\ TextInv /\ Next => TextInv' /\ TextStep
  BY <1>2, <1>3, ReadText, OthersText DEF Next
<1> QED
  BY <1>1, <1>4

(* The comments' answer wipes the comment field, whoever asked for it.  A  *)
(* text typed on a quiet screen is safe from it: nothing is asked for      *)
(* until the text is posted, and what is asked for then waits for the      *)
(* comment, for the save of its post, and for the reload, in this order.   *)
THEOREM TextIsKept == Spec => TextKept
<1>1. Init => TextInv
  BY DEF Init, TextInv
<1>2. TypeInv /\ TextInv /\ [Next]_vars => TypeInv' /\ TextInv' /\ TextStep
  BY NextType, NextText
<1> QED
  BY <1>1, <1>2, InitType, PTL DEF Spec, TextKept, TextStep
-----------------------------------------------------------------------------
(* The reads in their order *)

\* The first k reads are gone, and only those in S are new, behind the others.
Shift(k, S) ==
    /\ \A j \in DOMAIN reads' :
          \/ j + k \in DOMAIN reads /\ reads'[j] = reads[j + k]
          \/ j + k \notin DOMAIN reads /\ reads'[j] \in S
    /\ \A j \in DOMAIN reads : j > k =>
          j - k \in DOMAIN reads' /\ reads'[j - k] = reads[j]
    /\ \A r \in S : \E j \in DOMAIN reads' :
          j + k \notin DOMAIN reads /\ reads'[j] = r

LEMMA AskShift ==
    ASSUME TypeInv, NEW r \in GoodRead, Ask(r) PROVE Shift(0, {r})
<1>1. reads \in Seq(GoodRead) /\ reads' = Append(reads, r)
  BY DEF TypeInv, Ask
<1>2. /\ Len(reads) \in Nat /\ DOMAIN reads = 1..Len(reads)
      /\ DOMAIN reads' = 1..(Len(reads) + 1)
      /\ \A i \in DOMAIN reads : reads'[i] = reads[i]
      /\ reads'[Len(reads) + 1] = r
  BY <1>1, Grown
<1>3. PICK n \in Nat : n = Len(reads)
  BY <1>2
<1>4. /\ DOMAIN reads = 1..n /\ DOMAIN reads' = 1..(n + 1)
      /\ \A i \in 1..n : reads'[i] = reads[i]
      /\ reads'[n + 1] = r
  BY <1>2, <1>3
<1>5. ASSUME NEW j \in DOMAIN reads'
      PROVE  \/ j + 0 \in DOMAIN reads /\ reads'[j] = reads[j + 0]
             \/ j + 0 \notin DOMAIN reads /\ reads'[j] \in {r}
  BY <1>4
<1>6. ASSUME NEW j \in DOMAIN reads
      PROVE  j - 0 \in DOMAIN reads' /\ reads'[j - 0] = reads[j]
  BY <1>4
<1>7. (n + 1) + 0 \notin DOMAIN reads /\ n + 1 \in DOMAIN reads'
  BY <1>4
<1> QED
  BY <1>4, <1>5, <1>6, <1>7 DEF Shift

LEMMA RemovedFirst ==
    ASSUME NEW S, NEW q \in Seq(S), 1 \in DOMAIN q
    PROVE  /\ RemoveAt(q, 1) \in Seq(S)
           /\ Len(q) \in Nat \ {0} /\ DOMAIN q = 1..Len(q)
           /\ Len(RemoveAt(q, 1)) = Len(q) - 1
           /\ \A j \in 1..(Len(q) - 1) : RemoveAt(q, 1)[j] = q[j + 1]
<1>1. Len(q) \in Nat /\ DOMAIN q = 1..Len(q)
  BY LenProperties
<1>a. Len(q) \in Nat \ {0}
  BY <1>1
<1> DEFINE A == SubSeq(q, 1, 1 - 1)
           B == SubSeq(q, 1 + 1, Len(q))
<1>2. A \in Seq(S) /\ Len(A) = 0
  BY <1>1, <1>a, SubSeqProperties
<1>3. /\ B \in Seq(S) /\ Len(B) = Len(q) - 1
      /\ \A k \in 1..(Len(q) - 1) : B[k] = q[1 + k]
  BY <1>1, <1>a, SubSeqProperties
<1>4. RemoveAt(q, 1) = A \o B
  BY DEF RemoveAt
<1> HIDE DEF A, B
<1>5. /\ A \o B \in Seq(S) /\ Len(A \o B) = Len(q) - 1
      /\ \A k \in 1..(0 + Len(B)) :
            (A \o B)[k] = IF k <= 0 THEN A[k] ELSE B[k - 0]
  BY <1>a, <1>2, <1>3, ConcatProperties
<1>6. ASSUME NEW j \in 1..(Len(q) - 1) PROVE (A \o B)[j] = q[j + 1]
  BY <1>a, <1>3, <1>5
<1> QED
  BY <1>1, <1>a, <1>4, <1>5, <1>6

LEMMA DeliverShift ==
    ASSUME TypeInv, NEW i, i = 1, i \in DOMAIN reads,
           NEW b \in Seq(GoodRead), reads' = RemoveAt(reads, i) \o b
    PROVE  Shift(1, {b[j] : j \in DOMAIN b})
<1>1. reads \in Seq(GoodRead)
  BY DEF TypeInv
<1>2. PICK a \in Seq(GoodRead), n \in Nat :
         /\ a = RemoveAt(reads, 1) /\ n = Len(a)
         /\ DOMAIN reads = 1..(n + 1)
         /\ \A j \in 1..n : a[j] = reads[j + 1]
  <2>1. PICK q \in Seq(GoodRead) : q = reads /\ 1 \in DOMAIN q
    BY <1>1
  <2>2. /\ RemoveAt(q, 1) \in Seq(GoodRead)
        /\ Len(q) \in Nat \ {0} /\ DOMAIN q = 1..Len(q)
        /\ Len(RemoveAt(q, 1)) = Len(q) - 1
        /\ \A j \in 1..(Len(q) - 1) : RemoveAt(q, 1)[j] = q[j + 1]
    BY <2>1, RemovedFirst
  <2>a. Len(q) - 1 \in Nat
    BY <2>2
  <2>3. PICK n \in Nat : n = Len(q) - 1
    BY <2>a
  <2>4. Len(q) = n + 1
    BY <2>2, <2>3
  <2>5. PICK r \in Seq(GoodRead) : r = RemoveAt(reads, 1)
    BY <2>1, <2>2
  <2>6. /\ n = Len(r) /\ DOMAIN reads = 1..(n + 1)
        /\ \A j \in 1..n : r[j] = reads[j + 1]
    BY <2>1, <2>2, <2>3, <2>4, <2>5
  <2> QED
    BY <2>5, <2>6
<1>3. /\ DOMAIN a = 1..n /\ Len(b) \in Nat /\ DOMAIN b = 1..Len(b)
      /\ DOMAIN reads' = 1..(n + Len(b))
      /\ \A j \in DOMAIN a : reads'[j] = a[j]
      /\ \A j \in DOMAIN b : reads'[n + j] = b[j]
  <2>1. reads' = a \o b
    BY <1>2
  <2> QED
    BY <1>2, <2>1, Joined
<1>4. PICK m \in Nat : m = Len(b)
  BY <1>3
<1>5. /\ DOMAIN b = 1..m /\ DOMAIN reads' = 1..(n + m)
      /\ \A j \in 1..n : reads'[j] = reads[j + 1]
      /\ \A j \in 1..m : reads'[n + j] = b[j]
  BY <1>2, <1>3, <1>4
<1>6. ASSUME NEW j \in DOMAIN reads'
      PROVE  \/ j + 1 \in DOMAIN reads /\ reads'[j] = reads[j + 1]
             \/ /\ j + 1 \notin DOMAIN reads
                /\ reads'[j] \in {b[k] : k \in DOMAIN b}
  <2>1. CASE j <= n
    BY <1>2, <1>5, <2>1
  <2>2. CASE ~(j <= n)
    <3>1. PICK k \in 1..m : j = n + k
      <4>0. j \in 1..(n + m)
        BY <1>5
      <4>1. j - n \in 1..m /\ j = n + (j - n)
        BY <4>0, <2>2
      <4> QED
        BY <4>1
    <3>2. reads'[j] = b[k] /\ k \in DOMAIN b
      BY <1>5, <3>1
    <3>3. j + 1 \notin DOMAIN reads
      BY <1>2, <1>5, <2>2
    <3> QED
      BY <3>2, <3>3
  <2> QED
    BY <2>1, <2>2
<1>7. ASSUME NEW j \in DOMAIN reads, j > 1
      PROVE  j - 1 \in DOMAIN reads' /\ reads'[j - 1] = reads[j]
  <2>1. j - 1 \in 1..n /\ (j - 1) + 1 = j /\ j - 1 \in 1..(n + m)
    BY <1>2, <1>7
  <2> QED
    BY <1>5, <2>1
<1>8. ASSUME NEW r \in {b[k] : k \in DOMAIN b}
      PROVE  \E j \in DOMAIN reads' : j + 1 \notin DOMAIN reads
                                      /\ reads'[j] = r
  <2>1. PICK k \in 1..m : r = b[k]
    BY <1>5
  <2>2. n + k \in DOMAIN reads' /\ (n + k) + 1 \notin DOMAIN reads
    BY <1>2, <1>5
  <2> QED
    BY <1>5, <2>1, <2>2
<1> QED
  BY <1>6, <1>7, <1>8 DEF Shift

\* An answer that leaves nothing odd is the oldest, and is heard.
LEMMA InOrder ==
    ASSUME TypeInv, NEW i, NEW tag, NEW more, Deliver(i, tag, more),
           odd' = Fine, screen # "list"
    PROVE  /\ odd = Fine /\ i = 1 /\ i \in DOMAIN reads
           /\ reads[1].tag = tag /\ ~reads[1].stale
           /\ Heard(tag)
<1>1. /\ i \in DOMAIN reads /\ reads[i].tag = tag /\ Noticed(i, tag)
  BY Noticing
<1>2. odd \in 0..4
  BY DEF TypeInv, TypeOK
<1> QED
  BY <1>1, <1>2 DEF Noticed

LEMMA DeliveredOne ==
    ASSUME TypeInv, NEW i, NEW tag, NEW r \in GoodRead,
           Deliver(i, tag, <<r>>), odd' = Fine, screen = "detail"
    PROVE  Shift(1, {r})
<1>1. i = 1 /\ i \in DOMAIN reads
  BY InOrder
<1>2. <<r>> \in Seq(GoodRead)
  OBVIOUS
<1>3. PICK b \in Seq(GoodRead) : b = <<r>>
  BY <1>2
<1>4. reads' = RemoveAt(reads, i) \o b
  BY <1>3 DEF Deliver
<1>5. Shift(1, {b[j] : j \in DOMAIN b})
  BY <1>1, <1>4, DeliverShift
<1>6. {b[j] : j \in DOMAIN b} = {r}
  BY <1>3
<1> QED
  BY <1>5, <1>6

LEMMA DeliveredNone ==
    ASSUME TypeInv, NEW i, NEW tag, NEW more, Deliver(i, tag, more),
           more = <<>> \/ screen # "detail",
           odd' = Fine, screen # "list"
    PROVE  Shift(1, {})
<1>1. i = 1 /\ i \in DOMAIN reads
  BY InOrder
<1>2. <<>> \in Seq(GoodRead)
  OBVIOUS
<1>3. PICK b \in Seq(GoodRead) : b = <<>>
  BY <1>2
<1>4. reads' = RemoveAt(reads, i) \o b
  BY <1>3 DEF Deliver
<1>5. Shift(1, {b[j] : j \in DOMAIN b})
  BY <1>1, <1>4, DeliverShift
<1>6. {b[j] : j \in DOMAIN b} = {}
  BY <1>3
<1> QED
  BY <1>5, <1>6

\* A read with this tag is under way, and those behind it are in G.
Asked(tag)   == \E i \in DOMAIN reads : reads[i].tag = tag
Come(tag, G) ==
    \E i \in DOMAIN reads :
        /\ reads[i].tag = tag
        /\ \A j \in DOMAIN reads :
              j >= i /\ reads[j].tag = tag => reads[j] \in G

LEMMA ComeAsked == ASSUME NEW tag, NEW G, Come(tag, G) PROVE Asked(tag)
BY DEF Come, Asked

LEMMA ComeNew ==
    ASSUME TypeInv, TypeInv', NEW tag, NEW G, NEW k \in {0, 1},
           NEW r \in G, r.tag = tag, Shift(k, {r})
    PROVE  Come(tag, G)' /\ Asked(tag)'
<1>1. PICK i \in DOMAIN reads' : i + k \notin DOMAIN reads /\ reads'[i] = r
  BY DEF Shift
<1>2. PICK n \in Nat : DOMAIN reads = 1..n
  BY Elements
<1>3. PICK n2 \in Nat : DOMAIN reads' = 1..n2
  BY LenProperties DEF TypeInv
<1>4. ASSUME NEW j \in DOMAIN reads', j >= i PROVE reads'[j] \in G
  <2>1. j + k \notin DOMAIN reads
    BY <1>1, <1>2, <1>3, <1>4
  <2> QED
    BY <2>1 DEF Shift
<1> QED
  BY <1>1, <1>4 DEF Come, Asked

LEMMA ComeStays ==
    ASSUME TypeInv, TypeInv', NEW tag, NEW G, NEW k \in {0, 1}, NEW S,
           Shift(k, S), Come(tag, G), k = 1 => reads[1].tag # tag,
           \A r \in S : r.tag # tag
    PROVE  Come(tag, G)'
<1>1. PICK i \in DOMAIN reads :
         /\ reads[i].tag = tag
         /\ \A j \in DOMAIN reads :
               j >= i /\ reads[j].tag = tag => reads[j] \in G
  BY DEF Come
<1>2. PICK n \in Nat : DOMAIN reads = 1..n
  BY Elements
<1>3. PICK n2 \in Nat : DOMAIN reads' = 1..n2
  BY LenProperties DEF TypeInv
<1>4. i \in Nat /\ i > k
  BY <1>1, <1>2
<1>5. PICK m \in DOMAIN reads' : m = i - k /\ reads'[m] = reads[i]
  BY <1>4 DEF Shift
<1>6. ASSUME NEW j \in DOMAIN reads', j >= m, reads'[j].tag = tag
      PROVE  reads'[j] \in G
  <2>1. j + k \in DOMAIN reads /\ reads'[j] = reads[j + k]
    BY <1>6 DEF Shift
  <2>2. j + k >= i
    BY <1>2, <1>3, <1>4, <1>5, <1>6
  <2> QED
    BY <1>1, <1>6, <2>1, <2>2
<1> QED
  BY <1>1, <1>5, <1>6 DEF Come

LEMMA ComeTaken ==
    ASSUME TypeInv, TypeInv', NEW tag, NEW G, NEW S,
           Shift(1, S), Come(tag, G), reads[1].tag = tag,
           \A r \in S : r.tag # tag
    PROVE  Come(tag, G)' \/ (reads[1] \in G /\ ~Asked(tag)')
<1>1. PICK i \in DOMAIN reads :
         /\ reads[i].tag = tag
         /\ \A j \in DOMAIN reads :
               j >= i /\ reads[j].tag = tag => reads[j] \in G
  BY DEF Come
<1>2. PICK n \in Nat : DOMAIN reads = 1..n
  BY Elements
<1>3. PICK n2 \in Nat : DOMAIN reads' = 1..n2
  BY LenProperties DEF TypeInv
<1>4. ASSUME NEW e \in DOMAIN reads, e > 1, e >= i, reads[e].tag = tag
      PROVE  Come(tag, G)'
  <2>1. PICK m \in DOMAIN reads' : m = e - 1 /\ reads'[m] = reads[e]
    BY <1>4 DEF Shift
  <2>2. ASSUME NEW j \in DOMAIN reads', j >= m, reads'[j].tag = tag
        PROVE  reads'[j] \in G
    <3>1. j + 1 \in DOMAIN reads /\ reads'[j] = reads[j + 1]
      BY <2>2 DEF Shift
    <3>2. j + 1 >= i
      BY <1>2, <1>3, <1>4, <2>1, <2>2
    <3> QED
      BY <1>1, <2>2, <3>1, <3>2
  <2> QED
    BY <1>4, <2>1, <2>2 DEF Come
<1>5. CASE i > 1
  BY <1>1, <1>2, <1>4, <1>5
<1>6. CASE ~(i > 1)
  <2>1. i = 1 /\ reads[1] \in G
    BY <1>1, <1>2, <1>6
  <2>2. ASSUME Asked(tag)' PROVE Come(tag, G)'
    <3>1. PICK j \in DOMAIN reads' : reads'[j].tag = tag
      BY <2>2 DEF Asked
    <3>2. j + 1 \in DOMAIN reads /\ reads'[j] = reads[j + 1]
      BY <3>1 DEF Shift
    <3>3. j + 1 > 1 /\ j + 1 >= i
      BY <1>3, <2>1
    <3> QED
      BY <1>4, <3>1, <3>2, <3>3
  <2> QED
    BY <2>1, <2>2
<1> QED
  BY <1>5, <1>6

LEMMA AskedStays ==
    ASSUME TypeInv, TypeInv', NEW tag, NEW k \in {0, 1}, NEW S, Shift(k, S),
           k = 1 => reads[1].tag # tag, \A r \in S : r.tag # tag
    PROVE  Asked(tag)' <=> Asked(tag)
<1>1. ASSUME Asked(tag)' PROVE Asked(tag)
  BY <1>1 DEF Asked, Shift
<1>2. ASSUME Asked(tag) PROVE Asked(tag)'
  <2>1. PICK i \in DOMAIN reads : reads[i].tag = tag
    BY <1>2 DEF Asked
  <2>2. PICK n \in Nat : DOMAIN reads = 1..n
    BY Elements
  <2>3. i > k
    BY <2>1, <2>2
  <2> QED
    BY <2>1, <2>3 DEF Asked, Shift
<1> QED
  BY <1>1, <1>2
-----------------------------------------------------------------------------
(* A post as it is seen, and the comments that exist *)

Saves(i, p)  == queue[i].doc # None /\ queue[i].post = p
Newest(i, p) == /\ i \in DOMAIN queue /\ Saves(i, p)
                /\ \A j \in DOMAIN queue : j > i => ~Saves(j, p)
Unsaved(p)   == \A i \in DOMAIN queue : ~Saves(i, p)

\* Of the writes of a post, one is the newest.
NewestInv == \A p \in Posts : Unsaved(p) \/ \E i \in DOMAIN queue : Newest(i, p)

LEMMA ViewUnsaved ==
    ASSUME NEW p, Unsaved(p) PROVE View(p) = docs[p]
BY DEF View, Unsaved, Saves

LEMMA ViewNewest ==
    ASSUME TypeInv, NEW p, NEW i, Newest(i, p) PROVE View(p) = queue[i].doc
<1> DEFINE newest == {k \in DOMAIN queue :
                         Saves(k, p) /\ \A j \in DOMAIN queue :
                                           j > k => ~Saves(j, p)}
<1>1. View(p) = IF newest = {} THEN docs[p]
                ELSE queue[CHOOSE k \in newest : TRUE].doc
  BY DEF View, Saves
<1>2. PICK n \in Nat : DOMAIN queue = 1..n
  BY Elements
<1>3. newest = {i}
  BY <1>2 DEF Newest
<1>4. (CHOOSE k \in newest : TRUE) = i
  BY <1>3
<1> QED
  BY <1>1, <1>3, <1>4

\* The same after a step
LEMMA ViewUnsavedNext ==
    ASSUME NEW p, Unsaved(p)' PROVE View(p)' = docs'[p]
BY DEF View, Unsaved, Saves

LEMMA ViewNewestNext ==
    ASSUME TypeInv', NEW p, NEW i, Newest(i, p)'
    PROVE  View(p)' = queue'[i].doc
<1> DEFINE newest == {k \in DOMAIN queue' :
                         Saves(k, p)' /\ \A j \in DOMAIN queue' :
                                            j > k => ~Saves(j, p)'}
<1>1. View(p)' = IF newest = {} THEN docs'[p]
                 ELSE queue'[CHOOSE k \in newest : TRUE].doc
  BY DEF View, Saves
<1>2. PICK n \in Nat : DOMAIN queue' = 1..n
  BY LenProperties DEF TypeInv
<1>3. newest = {i}
  BY <1>2 DEF Newest
<1>4. (CHOOSE k \in newest : TRUE) = i
  BY <1>3
<1> QED
  BY <1>1, <1>3, <1>4

\* A write is sent.
Appended(w) ==
    \E n \in Nat : /\ DOMAIN queue = 1..n /\ DOMAIN queue' = 1..(n + 1)
                   /\ \A i \in 1..n : queue'[i] = queue[i]
                   /\ queue'[n + 1] = w

LEMMA SendAppends ==
    ASSUME TypeInv, NEW w \in GoodWrite, Send(w) PROVE Appended(w)
<1>1. queue \in Seq(GoodWrite) /\ queue' = Append(queue, w)
  BY DEF TypeInv, Send
<1>2. /\ Len(queue) \in Nat /\ DOMAIN queue = 1..Len(queue)
      /\ DOMAIN queue' = 1..(Len(queue) + 1)
      /\ \A i \in DOMAIN queue : queue'[i] = queue[i]
      /\ queue'[Len(queue) + 1] = w
  BY <1>1, Grown
<1> QED
  BY <1>2 DEF Appended

LEMMA AppendedNewest ==
    ASSUME NewestInv, NEW w, Appended(w)
    PROVE  NewestInv'
<1>1. PICK n \in Nat : /\ DOMAIN queue = 1..n /\ DOMAIN queue' = 1..(n + 1)
                       /\ \A i \in 1..n : queue'[i] = queue[i]
                       /\ queue'[n + 1] = w
  BY DEF Appended
<1>2. ASSUME NEW p \in Posts
      PROVE  Unsaved(p)' \/ \E i \in DOMAIN queue' : Newest(i, p)'
  <2>1. CASE w.doc # None /\ w.post = p
    <3>1. Newest(n + 1, p)'
      BY <1>1, <2>1 DEF Newest, Saves
    <3> QED
      BY <1>1, <3>1
  <2>2. CASE ~(w.doc # None /\ w.post = p)
    <3>1. CASE Unsaved(p)
      BY <1>1, <2>2, <3>1 DEF Unsaved, Saves
    <3>2. CASE ~Unsaved(p)
      <4>1. PICK i \in DOMAIN queue : Newest(i, p)
        BY <3>2 DEF NewestInv
      <4>2. Newest(i, p)' /\ i \in DOMAIN queue'
        BY <1>1, <2>2, <4>1 DEF Newest, Saves
      <4> QED
        BY <4>2
    <3> QED
      BY <3>1, <3>2
  <2> QED
    BY <2>1, <2>2
<1> QED
  BY <1>2 DEF NewestInv

LEMMA AppendedView ==
    ASSUME TypeInv, TypeInv', NewestInv, NEW w, Appended(w),
           UNCHANGED docs, NEW p \in Posts
    PROVE  View(p)' = IF w.doc # None /\ w.post = p THEN w.doc ELSE View(p)
<1>1. PICK n \in Nat : /\ DOMAIN queue = 1..n /\ DOMAIN queue' = 1..(n + 1)
                       /\ \A i \in 1..n : queue'[i] = queue[i]
                       /\ queue'[n + 1] = w
  BY DEF Appended
<1>2. CASE w.doc # None /\ w.post = p
  <2>1. Newest(n + 1, p)'
    BY <1>1, <1>2 DEF Newest, Saves
  <2>2. View(p)' = queue'[n + 1].doc
    BY <2>1, ViewNewestNext
  <2> QED
    BY <1>1, <1>2, <2>2
<1>3. CASE ~(w.doc # None /\ w.post = p)
  <2>1. CASE Unsaved(p)
    <3>1. Unsaved(p)'
      BY <1>1, <1>3, <2>1 DEF Unsaved, Saves
    <3>2. View(p)' = docs'[p] /\ View(p) = docs[p]
      BY <2>1, <3>1, ViewUnsaved, ViewUnsavedNext
    <3> QED
      BY <1>3, <3>2
  <2>2. CASE ~Unsaved(p)
    <3>1. PICK i \in DOMAIN queue : Newest(i, p)
      BY <2>2 DEF NewestInv
    <3>2. Newest(i, p)' /\ queue'[i] = queue[i]
      BY <1>1, <1>3, <3>1 DEF Newest, Saves
    <3>3. View(p)' = queue'[i].doc /\ View(p) = queue[i].doc
      BY <3>1, <3>2, ViewNewest, ViewNewestNext
    <3> QED
      BY <1>3, <3>2, <3>3
  <2> QED
    BY <2>1, <2>2
<1> QED
  BY <1>2, <1>3

\* A write is answered, and nothing sent.
Dropped ==
    \E n \in Nat : /\ DOMAIN queue = 1..(n + 1) /\ DOMAIN queue' = 1..n
                   /\ \A i \in 1..n : queue'[i] = queue[i + 1]

\* A write is answered, and another sent.
Replaced(w) ==
    \E n \in Nat : /\ DOMAIN queue = 1..(n + 1) /\ DOMAIN queue' = 1..(n + 1)
                   /\ \A i \in 1..n : queue'[i] = queue[i + 1]
                   /\ queue'[n + 1] = w

LEMMA TailStep ==
    ASSUME TypeInv, queue # <<>>
    PROVE  \E n \in Nat : /\ DOMAIN queue = 1..(n + 1)
                          /\ DOMAIN Tail(queue) = 1..n /\ Len(Tail(queue)) = n
                          /\ \A i \in 1..n : Tail(queue)[i] = queue[i + 1]
<1>1. PICK q \in Seq(GoodWrite) : queue = q /\ q # <<>>
  BY DEF TypeInv
<1>2. Len(q) \in Nat \ {0} /\ DOMAIN q = 1..Len(q)
  BY <1>1, LenProperties, EmptySeq
<1>3. /\ Tail(q) \in Seq(GoodWrite)
      /\ Len(Tail(q)) = Len(q) - 1
      /\ \A i \in 1..Len(Tail(q)) : Tail(q)[i] = q[i + 1]
  BY <1>1, HeadTailProperties
<1>a. Len(q) - 1 \in Nat
  BY <1>2
<1>4. PICK n \in Nat : n = Len(q) - 1
  BY <1>a
<1>5. Len(q) = n + 1
  BY <1>2, <1>4
<1>6. DOMAIN Tail(q) = 1..n
  BY <1>3, <1>4, LenProperties
<1> QED
  BY <1>1, <1>2, <1>3, <1>4, <1>5, <1>6

LEMMA TailDrops ==
    ASSUME TypeInv, queue # <<>>, queue' = Tail(queue) PROVE Dropped
BY TailStep DEF Dropped

LEMMA TailReplaces ==
    ASSUME TypeInv, queue # <<>>, NEW w \in GoodWrite,
           queue' = Append(Tail(queue), w)
    PROVE  Replaced(w)
<1>1. PICK n \in Nat : /\ DOMAIN queue = 1..(n + 1)
                       /\ DOMAIN Tail(queue) = 1..n /\ Len(Tail(queue)) = n
                       /\ \A i \in 1..n : Tail(queue)[i] = queue[i + 1]
  BY TailStep
<1>2. Tail(queue) \in Seq(GoodWrite)
  BY HeadTailProperties DEF TypeInv
<1>3. PICK t \in Seq(GoodWrite) : t = Tail(queue)
  BY <1>2
<1>4. /\ Len(t) = n /\ DOMAIN t = 1..n
      /\ \A i \in 1..n : t[i] = queue[i + 1]
  BY <1>1, <1>3
<1>5. queue' = Append(t, w)
  BY <1>3
<1>6. /\ DOMAIN queue' = 1..(n + 1) /\ queue'[n + 1] = w
      /\ \A i \in DOMAIN t : queue'[i] = t[i]
  BY <1>4, <1>5, Grown
<1> QED
  BY <1>1, <1>4, <1>6 DEF Replaced

LEMMA DroppedNewest ==
    ASSUME TypeInv, TypeInv', NewestInv, Dropped PROVE NewestInv'
<1>1. PICK n \in Nat : /\ DOMAIN queue = 1..(n + 1) /\ DOMAIN queue' = 1..n
                       /\ \A i \in 1..n : queue'[i] = queue[i + 1]
  BY DEF Dropped
<1>2. ASSUME NEW p \in Posts, ~Unsaved(p)'
      PROVE  \E i \in DOMAIN queue' : Newest(i, p)'
  <2>1. PICK k \in 1..n : Saves(k, p)'
    BY <1>1, <1>2 DEF Unsaved
  <2>2. k + 1 \in DOMAIN queue /\ Saves(k + 1, p)
    BY <1>1, <2>1 DEF Saves
  <2>3. PICK i \in DOMAIN queue : Newest(i, p)
    BY <2>2 DEF NewestInv, Unsaved
  <2>4. i >= k + 1
    BY <1>1, <2>1, <2>2, <2>3 DEF Newest
  <2>5. PICK m \in 1..n : m = i - 1 /\ m + 1 = i
    <3>1. i - 1 \in 1..n /\ (i - 1) + 1 = i
      BY <1>1, <2>1, <2>4
    <3> QED
      BY <3>1
  <2>6. Saves(m, p)'
    BY <1>1, <2>3, <2>5 DEF Newest, Saves
  <2>7. ASSUME NEW j \in DOMAIN queue', j > m PROVE ~Saves(j, p)'
    <3>1. j + 1 \in DOMAIN queue /\ j + 1 > i /\ queue'[j] = queue[j + 1]
      BY <1>1, <2>5, <2>7
    <3> QED
      BY <2>3, <3>1 DEF Newest, Saves
  <2>8. Newest(m, p)'
    BY <1>1, <2>6, <2>7 DEF Newest
  <2> QED
    BY <1>1, <2>8
<1> QED
  BY <1>2 DEF NewestInv

\* What the queue is after its first write was answered, seen as one that was
\* sent after that
LEMMA ReplacedNewest ==
    ASSUME TypeInv, TypeInv', NewestInv, NEW w, Replaced(w)
    PROVE  NewestInv'
<1>1. PICK n \in Nat :
         /\ DOMAIN queue = 1..(n + 1) /\ DOMAIN queue' = 1..(n + 1)
         /\ \A i \in 1..n : queue'[i] = queue[i + 1]
         /\ queue'[n + 1] = w
  BY DEF Replaced
<1>2. ASSUME NEW p \in Posts, ~Unsaved(p)'
      PROVE  \E i \in DOMAIN queue' : Newest(i, p)'
  <2>1. CASE w.doc # None /\ w.post = p
    <3>1. Newest(n + 1, p)'
      BY <1>1, <2>1 DEF Newest, Saves
    <3> QED
      BY <1>1, <3>1
  <2>2. CASE ~(w.doc # None /\ w.post = p)
    <3>1. PICK k \in 1..n : Saves(k, p)'
      BY <1>1, <1>2, <2>2 DEF Unsaved, Saves
    <3>2. k + 1 \in DOMAIN queue /\ Saves(k + 1, p)
      BY <1>1, <3>1 DEF Saves
    <3>3. PICK i \in DOMAIN queue : Newest(i, p)
      BY <3>2 DEF NewestInv, Unsaved
    <3>4. i >= k + 1
      BY <1>1, <3>1, <3>2, <3>3 DEF Newest
    <3>5. PICK m \in 1..n : m = i - 1 /\ m + 1 = i
      <4>1. i - 1 \in 1..n /\ (i - 1) + 1 = i
        BY <1>1, <3>1, <3>4
      <4> QED
        BY <4>1
    <3>6. Saves(m, p)'
      BY <1>1, <3>3, <3>5 DEF Newest, Saves
    <3>7. ASSUME NEW j \in DOMAIN queue', j > m PROVE ~Saves(j, p)'
      <4>1. CASE j = n + 1
        BY <1>1, <2>2, <4>1 DEF Saves
      <4>2. CASE j # n + 1
        <5>1. j \in 1..n /\ j + 1 \in DOMAIN queue /\ j + 1 > i
          BY <1>1, <3>5, <3>7, <4>2
        <5> QED
          BY <1>1, <3>3, <5>1 DEF Newest, Saves
      <4> QED
        BY <4>1, <4>2
    <3>8. Newest(m, p)'
      BY <1>1, <3>6, <3>7 DEF Newest
    <3> QED
      BY <1>1, <3>8
  <2> QED
    BY <2>1, <2>2
<1> QED
  BY <1>2 DEF NewestInv

\* The commit of a write changes nothing for a device that had sent it.
LEMMA DroppedView ==
    ASSUME TypeInv, TypeInv', NewestInv, NEW tag, Complete(tag, TRUE),
           Dropped, NEW p \in Posts
    PROVE  View(p)' = View(p)
<1>1. PICK n \in Nat : /\ DOMAIN queue = 1..(n + 1) /\ DOMAIN queue' = 1..n
                       /\ \A i \in 1..n : queue'[i] = queue[i + 1]
  BY DEF Dropped
<1>2. PICK w \in GoodWrite : w = Head(queue) /\ w = queue[1]
  BY CompleteStep
<1>3. docs' = IF w.doc # None THEN [docs EXCEPT ![w.post] = w.doc] ELSE docs
  BY <1>2 DEF Complete
<1>4. CASE Unsaved(p)
  <2>1. ASSUME NEW i \in DOMAIN queue' PROVE ~Saves(i, p)'
    <3>1. i + 1 \in DOMAIN queue
      BY <1>1
    <3> QED
      BY <1>1, <1>4, <3>1 DEF Unsaved, Saves
  <2>2. View(p)' = docs'[p] /\ View(p) = docs[p]
    BY <1>4, <2>1, ViewUnsaved, ViewUnsavedNext DEF Unsaved
  <2>3. ~(w.doc # None /\ w.post = p)
    BY <1>1, <1>2, <1>4 DEF Unsaved, Saves
  <2>4. docs'[p] = docs[p]
    BY <1>3, <2>3 DEF TypeInv, TypeOK
  <2> QED
    BY <2>2, <2>4
<1>5. CASE ~Unsaved(p)
  <2>1. PICK i \in DOMAIN queue : Newest(i, p)
    BY <1>5 DEF NewestInv
  <2>2. View(p) = queue[i].doc
    BY <2>1, ViewNewest
  <2>3. CASE i = 1
    <3>1. ASSUME NEW j \in DOMAIN queue' PROVE ~Saves(j, p)'
      <4>1. j + 1 \in DOMAIN queue /\ j + 1 > 1
        BY <1>1
      <4> QED
        BY <1>1, <2>1, <2>3, <4>1 DEF Newest, Saves
    <3>2. View(p)' = docs'[p]
      BY <3>1, ViewUnsavedNext DEF Unsaved
    <3>3. w.doc # None /\ w.post = p
      BY <1>2, <2>1, <2>3 DEF Newest, Saves
    <3>4. docs'[p] = w.doc
      BY <1>3, <3>3 DEF TypeInv, TypeOK
    <3> QED
      BY <1>2, <2>2, <2>3, <3>2, <3>4
  <2>4. CASE i # 1
    <3>1. PICK m \in 1..n : m = i - 1 /\ m + 1 = i
      <4>1. i - 1 \in 1..n /\ (i - 1) + 1 = i
        BY <1>1, <2>1, <2>4
      <4> QED
        BY <4>1
    <3>2. ASSUME NEW j \in DOMAIN queue', j > m PROVE ~Saves(j, p)'
      <4>1. j + 1 \in DOMAIN queue /\ j + 1 > i /\ queue'[j] = queue[j + 1]
        BY <1>1, <3>1, <3>2
      <4> QED
        BY <2>1, <4>1 DEF Newest, Saves
    <3>3. Newest(m, p)'
      BY <1>1, <2>1, <3>1, <3>2 DEF Newest, Saves
    <3>4. View(p)' = queue'[m].doc
      BY <3>3, ViewNewestNext
    <3> QED
      BY <1>1, <2>2, <3>1, <3>4
  <2> QED
    BY <2>3, <2>4
<1> QED
  BY <1>4, <1>5

LEMMA ReplacedView ==
    ASSUME TypeInv, TypeInv', NEW w, Replaced(w), w.doc # None
    PROVE  View(w.post)' = w.doc
<1>1. PICK n \in Nat : DOMAIN queue' = 1..(n + 1) /\ queue'[n + 1] = w
  BY DEF Replaced
<1>2. PICK p : p = w.post
  OBVIOUS
<1>3. Newest(n + 1, p)'
  BY <1>1, <1>2 DEF Newest, Saves
<1>4. View(p)' = queue'[n + 1].doc
  BY <1>3, ViewNewestNext
<1> QED
  BY <1>1, <1>2, <1>4
-----------------------------------------------------------------------------
(* What the screen shows *)

\* Nothing odd happened to this instance, and all that is under way is its own.
Own  == /\ \A i \in DOMAIN reads : ~reads[i].stale
        /\ \A i \in DOMAIN queue : ~queue[i].stale
Live == odd = Fine /\ screen # "list" /\ Own

Written(tag) == \E i \in DOMAIN queue : queue[i].tag = tag
WillSave     == Written("comment") \/ Written("save")

Stored(p)  == CopyOf(p, View(p))
Right(p)   == {r \in GoodRead : r.val \in {None, Stored(p)}}
Current(S) == {r \in GoodRead : r.ids = S}
Found(S)   == \E c \in S : Exists(c)

\* The comments shown are those of mPost that exist.
Lists == \A c \in Comments :
            (\E k \in mComments : k.id = c) <=> c \in mPost.comments /\ Exists(c)

\* The post is there, or on its way, or will be asked for.
PostComes(p) ==
    \/ WillSave \/ screen # "detail"
    \/ ~Asked("fields") /\ mPost = Stored(p)
    \/ Come("fields", Right(p))

\* So are its comments.
CommentsCome ==
    \/ WillSave \/ screen # "detail" \/ Asked("fields")
    \/ ~Asked("comments") /\ (visible => Lists)
    \/ Come("comments", Current(mPost.comments))

\* A post whose comments do not exist was never shown with others.
Nowhere ==
    /\ mComments = {} /\ ~Found(mPost.comments)
    /\ \A i \in DOMAIN reads :
          /\ ~Found(reads[i].ids)
          /\ reads[i].val # None => ~Found(reads[i].val.comments)
NothingFound(p) ==
    \/ View(p).comments = {} \/ Found(View(p).comments) \/ Written("comment")
    \/ Nowhere

OfPost(p) ==
    /\ \A i \in DOMAIN queue : queue[i].post = p
    /\ \A i \in DOMAIN reads : reads[i].tag = "fields" => reads[i].post = p
    /\ mNewPost # None => Found(mNewPost.comments)

Shows(p) ==
    PostComes(p) /\ CommentsCome /\ NothingFound(p) /\ OfPost(p)

ShownInv ==
    /\ NewestInv
    /\ screen = "list" => mComments = {}
    /\ Live => \A p \in Posts : mPost.id = p => Shows(p)

LEMMA ViewComments ==
    ASSUME TypeInv, NEW p \in Posts
    PROVE  /\ View(p) \in Doc /\ View(p).comments \subseteq Comments
           /\ Stored(p) \in Copy /\ Stored(p) # None /\ Stored(p).id = p
           /\ Stored(p).comments = View(p).comments
BY ViewOf, Copies DEF Stored, Doc

LEMMA ReadIds ==
    ASSUME TypeInv, NEW i \in DOMAIN reads
    PROVE  /\ reads[i] \in GoodRead /\ reads[i].ids \subseteq Comments
           /\ reads[i].val # None => reads[i].val.comments \subseteq Comments
BY Elements DEF GoodRead, Read, Copy

LEMMA ExistsSent ==
    ASSUME NEW w, Appended(w), UNCHANGED comments, NEW c \in Comments
    PROVE  Exists(c)' <=> Exists(c) \/ w.id = c
<1>1. PICK n \in Nat : /\ DOMAIN queue = 1..n /\ DOMAIN queue' = 1..(n + 1)
                       /\ \A i \in 1..n : queue'[i] = queue[i]
                       /\ queue'[n + 1] = w
  BY DEF Appended
<1>2. ASSUME NEW i \in DOMAIN queue PROVE i \in DOMAIN queue'
  BY <1>1
<1>3. n + 1 \in DOMAIN queue'
  BY <1>1
<1>4. ASSUME NEW i \in DOMAIN queue', i # n + 1 PROVE i \in DOMAIN queue
  BY <1>1, <1>4
<1> QED
  BY <1>1, <1>2, <1>3, <1>4 DEF Exists

\* A comment that is committed is there as it was when it was pending.
LEMMA ExistsDone ==
    ASSUME TypeInv, NEW tag, Complete(tag, TRUE), NEW w,
           Dropped \/ (Replaced(w) /\ w.id = None), NEW c \in Comments
    PROVE  Exists(c)' <=> Exists(c)
<1>1. PICK n \in Nat :
         /\ DOMAIN queue = 1..(n + 1)
         /\ \/ DOMAIN queue' = 1..n
            \/ DOMAIN queue' = 1..(n + 1) /\ queue'[n + 1].id = None
         /\ \A i \in 1..n : queue'[i] = queue[i + 1]
  BY DEF Dropped, Replaced
<1>2. PICK v \in GoodWrite : v = Head(queue) /\ v = queue[1]
  BY CompleteStep
<1>3. comments' = IF v.id # None
                  THEN [comments EXCEPT ![v.id] =
                           [post |-> v.post, parent |-> v.parent]]
                  ELSE comments
  BY <1>2 DEF Complete
<1>4. [post |-> v.post, parent |-> v.parent] # None
  <2>1. [post |-> v.post, parent |-> v.parent] \in Comment
    BY DEF Comment, GoodWrite, Write
  <2> QED
    BY <2>1
<1>5. v.id = c => Exists(c)' /\ Exists(c)
  <2>1. v.id = c => comments'[c] # None
    BY <1>3, <1>4 DEF TypeInv, TypeOK
  <2> QED
    BY <1>1, <1>2, <2>1 DEF Exists
<1>6. v.id # c => comments'[c] = comments[c]
  BY <1>3 DEF TypeInv, TypeOK
<1>7. ASSUME v.id # c, NEW i \in DOMAIN queue, queue[i].id = c
      PROVE  \E j \in DOMAIN queue' : queue'[j].id = c
  <2>1. i # 1
    BY <1>2, <1>7
  <2>2. PICK m \in 1..n : m = i - 1 /\ m + 1 = i
    <3>1. i - 1 \in 1..n /\ (i - 1) + 1 = i
      BY <1>1, <2>1
    <3> QED
      BY <3>1
  <2>3. m \in DOMAIN queue'
    BY <1>1
  <2> QED
    BY <1>1, <1>7, <2>2, <2>3
<1>8. ASSUME NEW j \in DOMAIN queue', queue'[j].id = c
      PROVE  \E i \in DOMAIN queue : queue[i].id = c
  <2>1. j \in 1..n
    BY <1>1, <1>8
  <2>2. j + 1 \in DOMAIN queue /\ queue'[j] = queue[j + 1]
    BY <1>1, <2>1
  <2> QED
    BY <1>8, <2>2
<1>9. CASE v.id = c
  BY <1>5, <1>9
<1>10. CASE v.id # c
  BY <1>6, <1>7, <1>8, <1>10 DEF Exists
<1> QED
  BY <1>9, <1>10

\* The queue is there but for its first write.
LEMMA RestWritten ==
    ASSUME NEW w, Dropped \/ Replaced(w), NEW tag, Written(tag),
           queue[1].tag # tag
    PROVE  Written(tag)'
<1>1. PICK n \in Nat :
         /\ DOMAIN queue = 1..(n + 1)
         /\ DOMAIN queue' = 1..n \/ DOMAIN queue' = 1..(n + 1)
         /\ \A i \in 1..n : queue'[i] = queue[i + 1]
  BY DEF Dropped, Replaced
<1>2. PICK i \in DOMAIN queue : queue[i].tag = tag
  BY DEF Written
<1>3. PICK m \in 1..n : m = i - 1 /\ m + 1 = i
  <2>1. i - 1 \in 1..n /\ (i - 1) + 1 = i
    BY <1>1, <1>2
  <2> QED
    BY <2>1
<1>4. m \in DOMAIN queue'
  BY <1>1
<1> QED
  BY <1>1, <1>2, <1>3, <1>4 DEF Written

LEMMA RestQueue ==
    ASSUME NEW w, Dropped \/ Replaced(w)
    PROVE  /\ \A i \in DOMAIN queue :
                 i # 1 => \E j \in DOMAIN queue' : queue'[j] = queue[i]
           /\ \A j \in DOMAIN queue' :
                 queue'[j] = w \/ \E i \in DOMAIN queue : queue'[j] = queue[i]
           /\ Dropped => \A j \in DOMAIN queue' :
                            \E i \in DOMAIN queue : queue'[j] = queue[i]
<1>1. PICK n \in Nat :
         /\ DOMAIN queue = 1..(n + 1)
         /\ \/ DOMAIN queue' = 1..n
            \/ DOMAIN queue' = 1..(n + 1) /\ queue'[n + 1] = w
         /\ \A i \in 1..n : queue'[i] = queue[i + 1]
  BY DEF Dropped, Replaced
<1>2. ASSUME NEW i \in DOMAIN queue, i # 1
      PROVE  \E j \in DOMAIN queue' : queue'[j] = queue[i]
  <2>1. PICK m \in 1..n : m = i - 1 /\ m + 1 = i
    <3>1. i - 1 \in 1..n /\ (i - 1) + 1 = i
      BY <1>1, <1>2
    <3> QED
      BY <3>1
  <2>2. m \in DOMAIN queue'
    BY <1>1
  <2> QED
    BY <1>1, <2>1, <2>2
<1>3. ASSUME NEW j \in DOMAIN queue', j \in 1..n
      PROVE  \E i \in DOMAIN queue : queue'[j] = queue[i]
  <2>1. j + 1 \in DOMAIN queue
    BY <1>1, <1>3
  <2> QED
    BY <1>1, <1>3, <2>1
<1>4. ASSUME NEW j \in DOMAIN queue'
      PROVE  queue'[j] = w \/ \E i \in DOMAIN queue : queue'[j] = queue[i]
  BY <1>1, <1>3
<1>5. ASSUME Dropped, NEW j \in DOMAIN queue'
      PROVE  \E i \in DOMAIN queue : queue'[j] = queue[i]
  <2>1. PICK m \in Nat : /\ DOMAIN queue = 1..(m + 1) /\ DOMAIN queue' = 1..m
                         /\ \A i \in 1..m : queue'[i] = queue[i + 1]
    BY <1>5 DEF Dropped
  <2>2. j + 1 \in DOMAIN queue
    BY <2>1
  <2> QED
    BY <2>1, <2>2
<1> QED
  BY <1>2, <1>4, <1>5

LEMMA LivePost ==
    ASSUME TypeInv, ShownInv, Live
    PROVE  \E p \in Posts : mPost.id = p /\ Shows(p) /\ mPost \in Copy
BY DEF Live, ShownInv, TypeInv, TypeOK, Ready, Copy

LEMMA RequestIds ==
    /\ GetCurrent.ids = {}
    /\ \A u \in Users : GetAuthor(u).ids = {}
    /\ \A p \in Posts : GetPost(p).ids = {}
BY DEF GetCurrent, GetAuthor, GetPost, Request

\* Steps that leave alone what is shown
LEMMA SameShows ==
    ASSUME NEW p \in Posts, Shows(p),
           UNCHANGED <<docs, comments, queue, reads, mPost, mComments,
                       mNewPost, visible>>,
           screen' = "detail" => screen = "detail"
    PROVE  Shows(p)'
<1>1. View(p)' = View(p)
  BY DEF View
<1>2. ASSUME NEW c PROVE Exists(c)' <=> Exists(c)
  BY DEF Exists
<1>3. Stored(p)' = Stored(p)
  BY <1>1 DEF Stored
<1>4. Right(p)' = Right(p)
  BY <1>3 DEF Right
<1>5. PostComes(p)'
  BY <1>3, <1>4 DEF Shows, PostComes, WillSave, Written, Asked, Come
<1>6. CommentsCome'
  BY <1>2 DEF Shows, CommentsCome, WillSave, Written, Asked, Come, Lists,
              Current
<1>7. NothingFound(p)'
  BY <1>1, <1>2 DEF Shows, NothingFound, Nowhere, Found, Written
<1>8. OfPost(p)'
  BY <1>2 DEF Shows, OfPost, Found
<1> QED
  BY <1>5, <1>6, <1>7, <1>8 DEF Shows

\* The post is asked for.
LEMMA AskedShows ==
    ASSUME TypeInv, TypeInv', NEW p \in Posts, NEW k \in {0, 1},
           NEW r \in GoodRead, r.tag = "fields", r.val = None, Shift(k, {r})
    PROVE  PostComes(p)' /\ CommentsCome'
<1>1. PICK G : G = Right(p)'
  OBVIOUS
<1>2. r \in G
  BY <1>1 DEF Right
<1>3. Come("fields", G)' /\ Asked("fields")'
  BY <1>2, ComeNew
<1>4. Come("fields", Right(p))'
  BY <1>1, <1>3 DEF Come
<1> QED
  BY <1>3, <1>4 DEF PostComes, CommentsCome

LEMMA NothingStays ==
    ASSUME TypeInv, TypeInv', NEW p \in Posts, NothingFound(p),
           View(p)' = View(p),
           \A c \in Comments : Exists(c)' <=> Exists(c),
           Written("comment") => Written("comment")',
           Nowhere => mComments' = {},
           mPost' \in Copy,
           Nowhere => \A c \in mPost'.comments : ~Exists(c),
           \A j \in DOMAIN reads' :
              \/ \E i \in DOMAIN reads : reads'[j] = reads[i]
              \/ /\ reads'[j].val = None
                 /\ Nowhere => \A c \in reads'[j].ids : ~Exists(c)
    PROVE  NothingFound(p)'
<1>1. CASE View(p).comments = {} \/ Found(View(p).comments)
  BY <1>1, ViewComments DEF NothingFound, Found
<1>2. CASE Written("comment")
  BY <1>2 DEF NothingFound
<1>3. CASE Nowhere
  <2>1. ~Found(mPost.comments)'
    BY <1>3 DEF Found, Copy
  <2>2. ASSUME NEW j \in DOMAIN reads'
        PROVE  /\ ~Found(reads[j].ids)'
               /\ reads'[j].val # None => ~Found(reads[j].val.comments)'
    <3>1. reads'[j] \in GoodRead
      BY ElementOfSeq, LenProperties DEF TypeInv
    <3>2. PICK r \in GoodRead : r = reads'[j]
      BY <3>1
    <3>3. r.ids \subseteq Comments
          /\ (r.val # None => r.val.comments \subseteq Comments)
      BY DEF GoodRead, Read, Copy
    <3>4. CASE \E i \in DOMAIN reads : reads'[j] = reads[i]
      <4>1. /\ \A c \in r.ids : ~Exists(c)
            /\ r.val # None => \A c \in r.val.comments : ~Exists(c)
        BY <1>3, <3>2, <3>4 DEF Nowhere, Found
      <4> QED
        BY <3>2, <3>3, <4>1 DEF Found
    <3>5. CASE /\ reads'[j].val = None
               /\ Nowhere => \A c \in reads'[j].ids : ~Exists(c)
      BY <1>3, <3>2, <3>3, <3>5 DEF Found
    <3> QED
      BY <3>4, <3>5
  <2>3. Nowhere'
    BY <1>3, <2>1, <2>2 DEF Nowhere
  <2> QED
    BY <2>3 DEF NothingFound
<1> QED
  BY <1>1, <1>2, <1>3 DEF NothingFound

LEMMA OfPostStays ==
    ASSUME TypeInv, NEW p \in Posts, OfPost(p), mNewPost' = mNewPost,
           \A c \in Comments : Exists(c) => Exists(c)',
           \A j \in DOMAIN queue' :
              \/ \E i \in DOMAIN queue : queue'[j] = queue[i]
              \/ queue'[j].post = p,
           \A j \in DOMAIN reads' :
              \/ \E i \in DOMAIN reads : reads'[j] = reads[i]
              \/ reads'[j].tag = "fields" => reads'[j].post = p
    PROVE  OfPost(p)'
<1>1. mNewPost # None => mNewPost.comments \subseteq Comments
  BY DEF TypeInv, TypeOK, Copy
<1>2. mNewPost # None => Found(mNewPost.comments)'
  BY <1>1 DEF OfPost, Found
<1>3. \A j \in DOMAIN queue' : queue'[j].post = p
  BY DEF OfPost
<1>4. \A j \in DOMAIN reads' : reads'[j].tag = "fields" => reads'[j].post = p
  BY DEF OfPost
<1> QED
  BY <1>2, <1>3, <1>4 DEF OfPost

LEMMA OpenShows ==
    ASSUME TypeInv, TypeInv', ShownInv, NEW p \in Posts, Open(p), Live'
    PROVE  \E q \in Posts : mPost'.id = q /\ Shows(q)'
<1>1. PICK a \in GoodRead, b \in GoodRead :
         /\ a = GetCurrent /\ b = GetPost(p)
         /\ a.tag = "current" /\ a.val = None /\ a.ids = {}
         /\ b.tag = "fields" /\ b.val = None /\ b.ids = {} /\ b.post = p
  BY Requests, RequestIds
<1>2. <<a, b>> \in Seq(GoodRead)
  OBVIOUS
<1>3. PICK n \in Seq(GoodRead) : n = <<a, b>>
  BY <1>2
<1>4. reads \in Seq(GoodRead) /\ reads' = reads \o n
  BY <1>1, <1>3 DEF Open, TypeInv
<1>5. /\ \A i \in DOMAIN reads' :
            \/ i \in DOMAIN reads /\ reads'[i] = reads[i]
            \/ \E j \in DOMAIN n : reads'[i] = n[j]
      /\ \A j \in DOMAIN n : Len(reads) + j \in DOMAIN reads'
                             /\ reads'[Len(reads) + j] = n[j]
  BY <1>4, Joined
<1>6. DOMAIN n = {1, 2} /\ n[1] = a /\ n[2] = b
  BY <1>3
<1>7. \A i \in DOMAIN reads : reads[i].stale
  BY DEF Open, TypeInv, Ready
<1>8. \A i \in DOMAIN reads' : reads'[i] \in {a, b}
  BY <1>5, <1>6, <1>7 DEF Live, Own
<1>9. \E i \in DOMAIN reads' : reads'[i] = b
  BY <1>5, <1>6
<1>10. /\ UNCHANGED <<docs, comments, queue, mNewPost, mComments>>
       /\ mNewPost = None /\ mComments = {}
       /\ mPost' = CopyOf(p, View(p)) /\ screen' = "detail"
  BY DEF Open, server, TypeInv, Ready, ShownInv
<1>11. \A i \in DOMAIN queue' : FALSE
  BY <1>10 DEF Open, TypeInv, Ready, Live, Own
<1>12. /\ View(p)' = View(p)
       /\ \A c : Exists(c)' <=> Exists(c)
  BY <1>10 DEF View, Exists
<1>13. mPost'.id = p /\ mPost'.comments = View(p).comments
  BY <1>10, ViewOf, Copies
<1>14. b \in Right(p)'
  BY <1>1 DEF Right
<1>15. Come("fields", Right(p))'
  BY <1>1, <1>8, <1>9, <1>14 DEF Come
<1>16. PostComes(p)' /\ CommentsCome'
  BY <1>1, <1>9, <1>15 DEF PostComes, CommentsCome, Asked
<1>17. NothingFound(p)'
  <2>1. CASE View(p).comments = {} \/ Found(View(p).comments)
    BY <1>12, <2>1 DEF NothingFound, Found
  <2>2. CASE ~Found(View(p).comments)
    <3>1. Nowhere'
      BY <1>1, <1>8, <1>10, <1>12, <1>13, <2>2 DEF Nowhere, Found
    <3> QED
      BY <3>1 DEF NothingFound
  <2> QED
    BY <2>1, <2>2
<1>18. OfPost(p)'
  BY <1>1, <1>8, <1>10, <1>11 DEF OfPost
<1> QED
  BY <1>13, <1>16, <1>17, <1>18 DEF Shows

LEMMA ScreenShows ==
    ASSUME TypeInv, TypeInv', ShownInv, Live',
           Leave \/ Return \/ EditTap \/ BackFromForm
    PROVE  \E q \in Posts : mPost'.id = q /\ Shows(q)'
<1> USE DEF server, fields, field, past
<1>1. UNCHANGED <<docs, comments, queue, mPost, mComments, mNewPost, visible,
                  odd>>
      /\ screen # "list"
  BY DEF Leave, Return, EditTap, BackFromForm
<1>2. CASE Leave
  <2>1. UNCHANGED reads /\ screen' = "away"
    BY <1>2 DEF Leave
  <2>2. Live
    BY <1>1, <2>1 DEF Live, Own
  <2>3. PICK p \in Posts : mPost.id = p /\ Shows(p)
    BY <2>2, LivePost
  <2>4. Shows(p)'
    BY <1>1, <2>1, <2>3, SameShows
  <2> QED
    BY <1>1, <2>3, <2>4
<1>3. ASSUME NEW r \in GoodRead, Ask(r), r.ids = {}, r.val = None,
             \/ screen' # "detail" /\ r.tag # "fields"
             \/ r.tag = "fields" /\ r.post = mPost.id
      PROVE  \E q \in Posts : mPost'.id = q /\ Shows(q)'
  <2>1. Added({r}) /\ Shift(0, {r})
    BY <1>3, AskStep, AskShift
  <2>2. Live
    BY <1>1, <2>1 DEF Live, Own, Added
  <2>3. PICK p \in Posts : mPost.id = p /\ Shows(p) /\ mPost \in Copy
    BY <2>2, LivePost
  <2>4. PostComes(p)' /\ CommentsCome'
    <3>1. CASE screen' # "detail"
      BY <3>1 DEF PostComes, CommentsCome
    <3>2. CASE r.tag = "fields"
      BY <1>3, <2>1, <3>2, AskedShows
    <3> QED
      BY <1>3, <3>1, <3>2
  <2>5. /\ View(p)' = View(p)
        /\ \A c \in Comments : Exists(c)' <=> Exists(c)
        /\ Written("comment") => Written("comment")'
        /\ Nowhere => mComments' = {}
        /\ Nowhere => \A c \in mPost'.comments : ~Exists(c)
    BY <1>1 DEF View, Exists, Written, Nowhere, Found
  <2>6. \A j \in DOMAIN reads' :
           \/ \E i \in DOMAIN reads : reads'[j] = reads[i]
           \/ reads'[j] = r
    BY <2>1 DEF Added
  <2>7. NothingFound(p)'
    <3>1. NothingFound(p) /\ mPost' \in Copy
      BY <1>1, <2>3 DEF Shows
    <3>2. \A j \in DOMAIN reads' :
             \/ \E i \in DOMAIN reads : reads'[j] = reads[i]
             \/ /\ reads'[j].val = None
                /\ Nowhere => \A c \in reads'[j].ids : ~Exists(c)
      BY <1>3, <2>6
    <3> QED
      BY <2>5, <3>1, <3>2, NothingStays
  <2>8. OfPost(p)'
    <3>1. \A j \in DOMAIN reads' :
             \/ \E i \in DOMAIN reads : reads'[j] = reads[i]
             \/ reads'[j].tag = "fields" => reads'[j].post = p
      BY <1>3, <2>3, <2>6
    <3> QED
      BY <1>1, <2>3, <2>5, <3>1, OfPostStays DEF Shows
  <2> QED
    BY <1>1, <2>3, <2>4, <2>7, <2>8 DEF Shows
<1>4. CASE EditTap
  <2>1. PICK r \in GoodRead :
           r = GetAuthor(Me) /\ r.tag = "author" /\ r.val = None /\ r.ids = {}
    BY Requests, RequestIds
  <2>2. Ask(r) /\ screen' = "form"
    BY <1>4, <2>1 DEF EditTap
  <2> QED
    BY <1>3, <2>1, <2>2
<1>5. CASE Return \/ BackFromForm
  <2>1. Resume /\ mPost \in Copy
    BY <1>5 DEF Return, BackFromForm, TypeInv, TypeOK, Ready
  <2>2. PICK r \in GoodRead :
           /\ r = GetPost(mPost.id) /\ r.tag = "fields" /\ r.val = None
           /\ r.ids = {} /\ r.post = mPost.id
    BY <2>1, Requests, RequestIds DEF Copy
  <2>3. Ask(r)
    BY <2>1, <2>2 DEF Resume
  <2> QED
    BY <1>3, <2>2, <2>3
<1> QED
  BY <1>2, <1>4, <1>5

LEMMA FieldShows ==
    ASSUME TypeInv, TypeInv', ShownInv, Live', Type \/ ReplyTap \/ UndoTap
    PROVE  \E q \in Posts : mPost'.id = q /\ Shows(q)'
<1>1. UNCHANGED <<docs, comments, queue, reads, screen, mPost, mComments,
                  mNewPost, visible, odd>>
  BY DEF Type, ReplyTap, UndoTap, server, fields, past
<1>2. Live
  BY <1>1 DEF Live, Own
<1>3. PICK p \in Posts : mPost.id = p /\ Shows(p)
  BY <1>2, LivePost
<1>4. Shows(p)'
  BY <1>1, <1>3, SameShows
<1> QED
  BY <1>1, <1>3, <1>4

LEMMA CommentTapShows ==
    ASSUME TypeInv, TypeInv', ShownInv, Live',
           NEW c \in Comments, CommentTap(c)
    PROVE  \E q \in Posts : mPost'.id = q /\ Shows(q)'
<1>1. UNCHANGED <<docs, comments, reads, screen, mComments, odd>>
  BY DEF CommentTap, server
<1>2. PICK w \in GoodWrite :
         /\ w = SetComment(c, mPost.id, reply)
         /\ w.tag = "comment" /\ w.id = c /\ w.post = mPost.id
         /\ Send(w)
  BY CommentTapStep DEF CommentTap, SetComment
<1>3. /\ mNewPost' = mPost' /\ mPost'.id = mPost.id
      /\ c \in mPost'.comments
      /\ Sent(w)
  BY <1>2, CommentTapStep
<1>4. Live
  BY <1>1, <1>3 DEF Live, Own, Sent
<1>5. PICK p \in Posts : mPost.id = p /\ Shows(p)
  BY <1>4, LivePost
<1>6. PICK n \in Nat : /\ DOMAIN queue' = 1..(n + 1) /\ queue'[n + 1] = w
  BY <1>2, SendAppends DEF Appended
<1>7. n + 1 \in DOMAIN queue' /\ queue'[n + 1].tag = "comment"
      /\ queue'[n + 1].id = c
  BY <1>2, <1>6
<1>8. Written("comment")' /\ Exists(c)'
  BY <1>7 DEF Written, Exists
<1>9. PostComes(p)' /\ CommentsCome' /\ NothingFound(p)'
  BY <1>8 DEF PostComes, CommentsCome, NothingFound, WillSave
<1>10. OfPost(p)'
  BY <1>1, <1>2, <1>3, <1>5, <1>8 DEF Shows, OfPost, Found, Sent
<1> QED
  BY <1>3, <1>5, <1>9, <1>10 DEF Shows

LEMMA PostTapShows ==
    ASSUME TypeInv, TypeInv', ShownInv, Live', PostTap
    PROVE  \E q \in Posts : mPost'.id = q /\ Shows(q)'
<1>1. UNCHANGED <<docs, comments, reads, screen, mPost, mComments, mNewPost,
                  visible, odd>>
      /\ screen = "form"
  BY DEF PostTap, server, fields, past
<1>2. CASE formAuthor = None
  <2>1. UNCHANGED queue
    BY <1>2 DEF PostTap
  <2>2. Live
    BY <1>1, <2>1 DEF Live, Own
  <2>3. PICK p \in Posts : mPost.id = p /\ Shows(p)
    BY <2>2, LivePost
  <2>4. Shows(p)'
    BY <1>1, <2>1, <2>3, SameShows
  <2> QED
    BY <1>1, <2>3, <2>4
<1>3. CASE formAuthor # None
  <2>1. mPost \in Copy /\ mPost.id \in Posts /\ formAuthor \in Users
    BY <1>1, <1>3 DEF TypeInv, TypeOK, Ready, Copy
  <2>a. [author |-> formAuthor, comments |-> {}] \in Doc
    BY <2>1 DEF Doc
  <2>2. PICK doc \in Doc : /\ doc = [author |-> formAuthor, comments |-> {}]
                           /\ doc.comments = {} /\ doc # None
    BY <2>a
  <2>3. PICK w \in GoodWrite :
           /\ w = Save("edit", mPost.id, doc)
           /\ w.post = mPost.id /\ w.doc = doc
    BY <2>1, Writes
  <2>4. Send(w)
    BY <1>3, <2>2, <2>3 DEF PostTap
  <2>5. Appended(w) /\ Sent(w)
    BY <2>4, SendAppends, SendStep
  <2>6. Live
    BY <1>1, <2>5 DEF Live, Own, Sent
  <2>7. PICK p \in Posts : mPost.id = p /\ Shows(p)
    BY <2>6, LivePost
  <2>8. View(p)' = doc
    BY <1>1, <2>2, <2>3, <2>5, <2>7, AppendedView DEF ShownInv
  <2>9. PostComes(p)' /\ CommentsCome' /\ NothingFound(p)'
    BY <1>1, <2>2, <2>8 DEF PostComes, CommentsCome, NothingFound
  <2>10. OfPost(p)'
    <3>1. \A c \in Comments : Exists(c) => Exists(c)'
      BY <1>1, <2>5, ExistsSent
    <3> QED
      BY <1>1, <2>3, <2>5, <2>7, <3>1, OfPostStays DEF Shows, Sent
  <2> QED
    BY <1>1, <2>7, <2>9, <2>10 DEF Shows
<1> QED
  BY <1>2, <1>3

\* A comment was committed: its post will be saved, with the comment.
LEMMA UpdateCommentShows ==
    ASSUME TypeInv, TypeInv', CauseInv', ShownInv, Live',
           NEW ok \in BOOLEAN, OnUpdateComment(ok)
    PROVE  \E q \in Posts : mPost'.id = q /\ Shows(q)'
<1>1. /\ UNCHANGED <<reads, screen, mPost, mComments, mNewPost, visible>>
      /\ Complete("comment", ok) /\ queue # <<>> /\ Alive
  BY DEF OnUpdateComment, Complete, fields
<1>2. /\ odd' = 0 /\ screen # "list" /\ odd \in 0..4 /\ odd' \in odd..4
      /\ ok /\ screen = "detail" /\ ~queue[1].stale
  BY <1>1, UpdateCommentStep DEF Live, TypeInv, TypeOK
<1>3. odd = 0
  BY <1>2
<1>4. mNewPost # None
  <2>1. crash' # "noNewPost"
    BY <1>2 DEF CauseInv, CrashExplained
  <2> QED
    BY <1>2, <2>1 DEF OnUpdateComment
<1>5. mPost \in Copy /\ mNewPost \in Copy /\ mPost.id \in Posts
  BY <1>2, <1>4 DEF TypeInv, TypeOK, Ready, Copy
<1>6. PICK w \in GoodWrite :
         /\ w = Save("save", mPost.id, DocOf(mNewPost))
         /\ w.tag = "save" /\ w.post = mPost.id /\ w.id = None
         /\ w.doc # None /\ w.doc.comments = mNewPost.comments
  <2>1. PICK doc \in Doc : /\ doc = DocOf(mNewPost) /\ doc # None
                           /\ doc.comments = mNewPost.comments
    BY <1>5, Copies
  <2>2. PICK w \in GoodWrite :
           /\ w = Save("save", mPost.id, doc) /\ w.tag = "save"
           /\ w.post = mPost.id /\ w.doc = doc
    BY <1>5, Writes
  <2>3. w.id = None
    BY <2>2 DEF GoodWrite
  <2> QED
    BY <2>1, <2>2, <2>3
<1>7. queue' = Append(Tail(queue), w)
  <2>1. queue' = Append(Tail(queue), Save("save", mPost.id, DocOf(mNewPost)))
    BY <1>2, <1>4 DEF OnUpdateComment
  <2> QED
    BY <1>6, <2>1
<1>8. Replaced(w)
  BY <1>1, <1>7, TailReplaces
<1>9. Live
  <2>1. \A i \in DOMAIN queue : ~queue[i].stale
    BY <1>2, <1>8, RestQueue DEF Live, Own
  <2> QED
    BY <1>1, <1>2, <1>3, <2>1 DEF Live, Own
<1>10. PICK p \in Posts : mPost.id = p /\ Shows(p)
  BY <1>9, LivePost
<1>11. Complete("comment", TRUE)
  BY <1>1, <1>2
<1>12. View(p)' = w.doc
  BY <1>6, <1>8, <1>10, ReplacedView
<1>13. \A c \in Comments : Exists(c)' <=> Exists(c)
  BY <1>6, <1>8, <1>11, ExistsDone
<1>14. Written("save")'
  <2>1. PICK n \in Nat : DOMAIN queue' = 1..(n + 1) /\ queue'[n + 1] = w
    BY <1>8 DEF Replaced
  <2>2. n + 1 \in DOMAIN queue'
    BY <2>1
  <2> QED
    BY <1>6, <2>1, <2>2 DEF Written
<1>15. PostComes(p)' /\ CommentsCome'
  BY <1>14 DEF PostComes, CommentsCome, WillSave
<1>16. OfPost(p)'
  <2>1. \A j \in DOMAIN queue' :
           \/ \E i \in DOMAIN queue : queue'[j] = queue[i]
           \/ queue'[j].post = p
    BY <1>6, <1>8, <1>10, RestQueue
  <2> QED
    BY <1>1, <1>10, <1>13, <2>1, OfPostStays DEF Shows
<1>17. NothingFound(p)'
  BY <1>1, <1>4, <1>6, <1>12, <1>16 DEF OfPost, NothingFound, Found
<1> QED
  BY <1>1, <1>10, <1>15, <1>16, <1>17 DEF Shows

\* A post was saved.
LEMMA SavedShows ==
    ASSUME TypeInv, TypeInv', ShownInv, Live',
           NEW ok \in BOOLEAN, OnUpdateValue(ok) \/ OnEdited(ok)
    PROVE  \E q \in Posts : mPost'.id = q /\ Shows(q)'
<1>1. PICK tag \in {"save", "edit"}, heard \in BOOLEAN :
         /\ Complete(tag, ok) /\ Strange(Wrong(ok, heard))
         /\ OnUpdateValue(ok) => tag = "save" /\ heard = (screen = "detail")
         /\ OnEdited(ok) => tag = "edit"
  <2>1. CASE OnUpdateValue(ok) /\ OnEdited(ok)
    BY <2>1 DEF OnUpdateValue, OnEdited, Complete
  <2>2. CASE OnUpdateValue(ok) /\ ~OnEdited(ok)
    BY <2>2 DEF OnUpdateValue
  <2>3. CASE OnEdited(ok) /\ ~OnUpdateValue(ok)
    BY <2>3 DEF OnEdited
  <2> QED
    BY <2>1, <2>2, <2>3
<1>2. /\ UNCHANGED <<mPost, mComments, mNewPost, visible>>
      /\ queue # <<>> /\ queue' = Tail(queue)
      /\ screen # "list"
  BY DEF OnUpdateValue, OnEdited, Complete, fields, Resume, Live
<1>3. /\ odd' = 0 /\ odd \in 0..4 /\ odd' \in odd..4
      /\ ok /\ heard /\ ~queue[1].stale /\ queue[1].tag = tag
  BY <1>1, <1>2, WrongStep, CompleteStep DEF Live, TypeInv, TypeOK
<1>4. odd = 0
  BY <1>3
<1>5. Dropped
  BY <1>2, TailDrops
<1>6. Live
  <2>1. \A i \in DOMAIN queue : ~queue[i].stale
    BY <1>3, <1>5, RestQueue DEF Live, Own
  <2>2. \A i \in DOMAIN reads : ~reads[i].stale
    BY SavedStep DEF Live, Own, Added
  <2> QED
    BY <1>2, <1>4, <2>1, <2>2 DEF Live, Own
<1>7. PICK p \in Posts : mPost.id = p /\ Shows(p) /\ mPost \in Copy
  BY <1>6, LivePost
<1>8. Complete(tag, TRUE)
  BY <1>1, <1>3
<1>9. View(p)' = View(p)
  BY <1>5, <1>8, DroppedView DEF ShownInv
<1>10. \A c \in Comments : Exists(c)' <=> Exists(c)
  BY <1>5, <1>8, ExistsDone
<1>11. Written("comment") => Written("comment")'
  BY <1>1, <1>3, <1>5, RestWritten
<1>12. \A j \in DOMAIN queue' :
          \E i \in DOMAIN queue : queue'[j] = queue[i]
  BY <1>5, RestQueue
<1>13. ASSUME NEW r \in GoodRead, Ask(r), r.tag = "fields", r.val = None,
              r.ids = {}, r.post = p
       PROVE  Shows(p)'
  <2>1. Added({r}) /\ Shift(0, {r})
    BY <1>13, AskStep, AskShift
  <2>2. PostComes(p)' /\ CommentsCome'
    BY <1>13, <2>1, AskedShows
  <2>3. \A j \in DOMAIN reads' :
           (\E i \in DOMAIN reads : reads'[j] = reads[i]) \/ reads'[j] = r
    BY <2>1 DEF Added
  <2>4. NothingFound(p)'
    <3>1. /\ NothingFound(p) /\ mPost' \in Copy
          /\ Nowhere => mComments' = {}
          /\ Nowhere => \A c \in mPost'.comments : ~Exists(c)
      BY <1>2, <1>7 DEF Shows, Nowhere, Found
    <3>2. \A j \in DOMAIN reads' :
             \/ \E i \in DOMAIN reads : reads'[j] = reads[i]
             \/ /\ reads'[j].val = None
                /\ Nowhere => \A c \in reads'[j].ids : ~Exists(c)
      BY <1>13, <2>3
    <3> QED
      BY <1>9, <1>10, <1>11, <3>1, <3>2, NothingStays
  <2>5. OfPost(p)'
    <3>1. \A j \in DOMAIN reads' :
             \/ \E i \in DOMAIN reads : reads'[j] = reads[i]
             \/ reads'[j].tag = "fields" => reads'[j].post = p
      BY <1>13, <2>3
    <3> QED
      BY <1>2, <1>7, <1>10, <1>12, <3>1, OfPostStays DEF Shows
  <2> QED
    BY <2>2, <2>4, <2>5 DEF Shows
<1>14. ASSUME OnUpdateValue(ok) \/ screen = "form" PROVE Shows(p)'
  <2>1. PICK r \in GoodRead :
           /\ r = GetPost(mPost.id) /\ r.tag = "fields" /\ r.val = None
           /\ r.ids = {} /\ r.post = p
    BY <1>7, Requests, RequestIds
  <2>2. Ask(GetPost(mPost.id))
    <3>1. CASE OnUpdateValue(ok)
      BY <1>1, <1>3, <3>1 DEF OnUpdateValue
    <3>2. CASE OnEdited(ok)
      BY <1>1, <1>3, <1>14, <3>2, CompleteStep DEF OnEdited, Resume,
         OnUpdateValue
    <3> QED
      BY <3>1, <3>2
  <2>3. Ask(r)
    BY <2>1, <2>2
  <2> QED
    BY <1>13, <2>1, <2>3
<1>15. ASSUME OnEdited(ok), screen # "form" PROVE Shows(p)'
  <2>1. UNCHANGED <<reads, screen>>
    BY <1>15 DEF OnEdited
  <2>2. queue[1].tag = "edit"
    BY <1>1, <1>3, <1>15
  <2>3. WillSave => WillSave'
    BY <1>5, <2>2, RestWritten DEF WillSave
  <2>4. Stored(p)' = Stored(p)
    BY <1>9 DEF Stored
  <2>5. Right(p)' = Right(p)
    BY <2>4 DEF Right
  <2>6. PostComes(p)'
    BY <1>2, <1>7, <2>1, <2>3, <2>4, <2>5
       DEF Shows, PostComes, Asked, Come
  <2>7. CommentsCome'
    BY <1>2, <1>7, <1>10, <2>1, <2>3
       DEF Shows, CommentsCome, Asked, Come, Lists, Current
  <2>8. NothingFound(p)'
    <3>1. /\ NothingFound(p) /\ mPost' \in Copy
          /\ Nowhere => mComments' = {}
          /\ Nowhere => \A c \in mPost'.comments : ~Exists(c)
          /\ \A j \in DOMAIN reads' :
                \E i \in DOMAIN reads : reads'[j] = reads[i]
      BY <1>2, <1>7, <2>1 DEF Shows, Nowhere, Found
    <3> QED
      BY <1>9, <1>10, <1>11, <3>1, NothingStays
  <2>9. OfPost(p)'
    BY <1>2, <1>7, <1>10, <1>12, <2>1, OfPostStays DEF Shows
  <2> QED
    BY <2>6, <2>7, <2>8, <2>9 DEF Shows
<1> QED
  BY <1>2, <1>7, <1>14, <1>15

\* The server answers as the post is seen.
LEMMA ServeShows ==
    ASSUME TypeInv, TypeInv', ShownInv, Live', NEW i, ServeRead(i)
    PROVE  \E q \in Posts : mPost'.id = q /\ Shows(q)'
<1>1. /\ UNCHANGED <<docs, comments, queue, screen, mPost, mComments,
                     mNewPost, visible, odd>>
      /\ i \in DOMAIN reads /\ reads[i].tag = "fields"
  BY DEF ServeRead, server, fields, past
<1>2. Live
  BY <1>1, ServeStep DEF Live, Own
<1>3. PICK p \in Posts : mPost.id = p /\ Shows(p) /\ mPost \in Copy
  BY <1>2, LivePost
<1>4. reads[i].post = p
  BY <1>1, <1>3 DEF Shows, OfPost
<1>5. /\ DOMAIN reads' = DOMAIN reads
      /\ \A j \in DOMAIN reads :
            /\ reads'[j].tag = reads[j].tag
            /\ reads'[j].post = reads[j].post
            /\ reads'[j].ids = reads[j].ids
            /\ reads'[j] = reads[j] \/ reads'[j].val = Stored(p)
  BY <1>4, ServeStep DEF Stored
<1>6. /\ View(p)' = View(p)
      /\ \A c : Exists(c)' <=> Exists(c)
  BY <1>1 DEF View, Exists
<1>7. Stored(p)' = Stored(p)
  BY <1>6 DEF Stored
<1>8. Right(p)' = Right(p)
  BY <1>7 DEF Right
<1>9. \A j \in DOMAIN reads' : reads'[j] \in GoodRead
  BY ElementOfSeq, LenProperties DEF TypeInv
<1>10. PostComes(p)'
  <2>1. CASE WillSave \/ screen # "detail"
    BY <1>1, <2>1 DEF PostComes, WillSave, Written
  <2>2. CASE Come("fields", Right(p))
    <3>1. PICK k \in DOMAIN reads :
             /\ reads[k].tag = "fields"
             /\ \A j \in DOMAIN reads :
                   j >= k /\ reads[j].tag = "fields" => reads[j] \in Right(p)
      BY <2>2 DEF Come
    <3>2. ASSUME NEW j \in DOMAIN reads', j >= k, reads'[j].tag = "fields"
          PROVE  reads'[j] \in Right(p)
      <4>1. CASE reads'[j] = reads[j]
        BY <1>5, <3>1, <3>2, <4>1
      <4>2. CASE reads'[j].val = Stored(p)
        BY <1>9, <3>2, <4>2 DEF Right
      <4> QED
        BY <1>5, <3>2, <4>1, <4>2
    <3> QED
      BY <1>5, <1>8, <3>1, <3>2 DEF PostComes, Come
  <2> QED
    BY <1>1, <1>3, <2>1, <2>2 DEF Shows, PostComes, Asked
<1>11. CommentsCome'
  BY <1>1, <1>5 DEF CommentsCome, Asked
<1>12. NothingFound(p)'
  <2>1. CASE View(p).comments = {} \/ Found(View(p).comments)
    BY <1>6, <2>1 DEF NothingFound, Found
  <2>2. CASE Written("comment")
    BY <1>1, <2>2 DEF NothingFound, Written
  <2>3. CASE Nowhere /\ ~Found(View(p).comments)
    <3>1. Stored(p).comments = View(p).comments
      BY ViewComments
    <3>2. ASSUME NEW j \in DOMAIN reads'
          PROVE  /\ ~Found(reads[j].ids)'
                 /\ reads'[j].val # None => ~Found(reads[j].val.comments)'
      <4>1. PICK r : r = reads'[j]
        OBVIOUS
      <4>2. \A c \in r.ids : ~Exists(c)
        BY <1>5, <2>3, <4>1 DEF Nowhere, Found
      <4>3. ASSUME r.val # None PROVE \A c \in r.val.comments : ~Exists(c)
        BY <1>5, <2>3, <3>1, <4>1, <4>3 DEF Nowhere, Found
      <4> QED
        BY <1>6, <4>1, <4>2, <4>3 DEF Found
    <3>3. Nowhere'
      BY <1>1, <1>6, <2>3, <3>2 DEF Nowhere, Found
    <3> QED
      BY <3>3 DEF NothingFound
  <2> QED
    BY <1>3, <2>1, <2>2, <2>3 DEF Shows, NothingFound
<1>13. OfPost(p)'
  BY <1>1, <1>3, <1>5, <1>6 DEF Shows, OfPost, Found
<1> QED
  BY <1>1, <1>3, <1>10, <1>11, <1>12, <1>13 DEF Shows

\* The oldest answer came, and is this instance's own.
LEMMA AnsweredLive ==
    ASSUME TypeInv, ShownInv, Live', NEW i, NEW tag, NEW more, NEW S,
           Deliver(i, tag, more), Taken(i, S),
           UNCHANGED <<docs, comments, queue, screen>>
    PROVE  /\ i = 1 /\ 1 \in DOMAIN reads /\ reads[1].tag = tag
           /\ Heard(tag) /\ screen # "list" /\ odd' = Fine
           /\ \E p \in Posts :
                 /\ mPost.id = p /\ Shows(p) /\ mPost \in Copy
                 /\ View(p)' = View(p) /\ Right(p)' = Right(p)
           /\ \A c \in Comments : Exists(c)' <=> Exists(c)
           /\ \A t : Written(t)' <=> Written(t)
<1>1. odd' = Fine /\ screen # "list"
  BY DEF Live
<1>2. /\ odd = Fine /\ i = 1 /\ i \in DOMAIN reads
      /\ reads[1].tag = tag /\ ~reads[1].stale /\ Heard(tag)
  BY <1>1, InOrder
<1>3. Live
  <2>1. ASSUME NEW k \in DOMAIN reads PROVE ~reads[k].stale
    <3>1. CASE k = i
      BY <1>2, <3>1
    <3>2. CASE k # i
      <4>1. PICK j \in DOMAIN reads' : reads'[j] = reads[k]
        BY <3>2 DEF Taken
      <4> QED
        BY <4>1 DEF Live, Own
    <3> QED
      BY <3>1, <3>2
  <2> QED
    BY <1>1, <1>2, <2>1 DEF Live, Own
<1>4. PICK p \in Posts : mPost.id = p /\ Shows(p) /\ mPost \in Copy
  BY <1>3, LivePost
<1>5. View(p)' = View(p)
  BY DEF View
<1>6. Stored(p)' = Stored(p)
  BY <1>5 DEF Stored
<1>7. Right(p)' = Right(p)
  BY <1>6 DEF Right
<1>8. /\ \A c \in Comments : Exists(c)' <=> Exists(c)
      /\ \A t : Written(t)' <=> Written(t)
  BY DEF Exists, Written
<1> QED
  BY <1>1, <1>2, <1>4, <1>5, <1>7, <1>8

\* An answer that the screen's posts and comments do not depend on
LEMMA OtherAnswerShows ==
    ASSUME TypeInv, TypeInv', NEW p \in Posts, Shows(p), mPost \in Copy,
           NEW S \in SUBSET GoodRead, Shift(1, S),
           reads[1].tag \in {"current", "author"},
           \A r \in S : r.tag # "fields" /\ r.val = None,
           \/ \A r \in S : r.tag # "comments" /\ r.ids = {}
           \/ \E r : S = {r} /\ r.tag = "comments" /\ r.ids = mPost.comments,
           UNCHANGED <<mPost, mComments, mNewPost, visible, screen, queue>>,
           View(p)' = View(p), Right(p)' = Right(p),
           \A c \in Comments : Exists(c)' <=> Exists(c),
           \A t : Written(t)' <=> Written(t)
    PROVE  Shows(p)'
<1>1. /\ PostComes(p) /\ CommentsCome /\ NothingFound(p) /\ OfPost(p)
      /\ \A r \in S : r \in GoodRead
  BY DEF Shows
<1>2. WillSave' <=> WillSave
  BY DEF WillSave
<1>3. Asked("fields")' <=> Asked("fields")
  BY AskedStays
<1>4. PostComes(p)'
  <2>1. CASE Come("fields", Right(p))
    <3>1. PICK G : G = Right(p) /\ G = Right(p)'
      OBVIOUS
    <3>2. Come("fields", G)'
      BY <2>1, <3>1, ComeStays
    <3>3. Come("fields", Right(p))'
      BY <3>1, <3>2 DEF Come
    <3> QED
      BY <3>3 DEF PostComes
  <2>2. CASE ~Asked("fields") /\ mPost = Stored(p)
    BY <1>3, <2>2 DEF PostComes, Stored
  <2> QED
    BY <1>1, <1>2, <2>1, <2>2 DEF PostComes
<1>5. CommentsCome'
  <2>1. CASE \E r : S = {r} /\ r.tag = "comments" /\ r.ids = mPost.comments
    <3>1. PICK r \in GoodRead : /\ S = {r} /\ r.tag = "comments"
                                /\ r.ids = mPost.comments
      BY <1>1, <2>1
    <3>2. PICK G : G = Current(mPost.comments)
      OBVIOUS
    <3>3. r \in G
      BY <3>1, <3>2 DEF Current
    <3>4. Come("comments", G)'
      BY <3>1, <3>3, ComeNew
    <3> QED
      BY <3>2, <3>4 DEF CommentsCome, Come, Current
  <2>2. CASE \A r \in S : r.tag # "comments"
    <3>1. Asked("comments")' <=> Asked("comments")
      BY <2>2, AskedStays
    <3>2. CASE Come("comments", Current(mPost.comments))
      <4>1. PICK G : G = Current(mPost.comments)
        OBVIOUS
      <4>2. Come("comments", G)'
        BY <2>2, <3>2, <4>1, ComeStays
      <4> QED
        BY <4>1, <4>2 DEF CommentsCome, Come, Current
    <3>3. CASE ~Asked("comments") /\ (visible => Lists)
      BY <3>1, <3>3 DEF CommentsCome, Lists
    <3> QED
      BY <1>1, <1>2, <1>3, <3>2, <3>3 DEF CommentsCome
  <2> QED
    BY <2>1, <2>2
<1>6. \A j \in DOMAIN reads' :
         (\E i \in DOMAIN reads : reads'[j] = reads[i]) \/ reads'[j] \in S
  BY DEF Shift
<1>7. NothingFound(p)'
  <2>1. /\ Nowhere => mComments' = {}
        /\ mPost' \in Copy
        /\ Nowhere => \A c \in mPost'.comments : ~Exists(c)
        /\ Nowhere => \A c \in mPost.comments : ~Exists(c)
    BY DEF Nowhere, Found
  <2>2. \A j \in DOMAIN reads' :
           \/ \E i \in DOMAIN reads : reads'[j] = reads[i]
           \/ /\ reads'[j].val = None
              /\ Nowhere => \A c \in reads'[j].ids : ~Exists(c)
    BY <1>6, <2>1
  <2> QED
    BY <1>1, <2>1, <2>2, NothingStays
<1>8. OfPost(p)'
  <2>1. \A j \in DOMAIN reads' :
           \/ \E i \in DOMAIN reads : reads'[j] = reads[i]
           \/ reads'[j].tag = "fields" => reads'[j].post = p
    BY <1>6
  <2> QED
    BY <1>1, <2>1, OfPostStays
<1> QED
  BY <1>4, <1>5, <1>7, <1>8 DEF Shows

LEMMA CurrentShows ==
    ASSUME TypeInv, TypeInv', ShownInv, Live', NEW i, OnCurrentUser(i)
    PROVE  \E q \in Posts : mPost'.id = q /\ Shows(q)'
<1>1. /\ UNCHANGED <<docs, comments, queue, screen, mPost, mComments,
                     mNewPost, visible>>
      /\ Deliver(i, "current", <<GetAuthor(mPost.author)>>)
      /\ Taken(i, {GetAuthor(mPost.author)})
  BY CurrentStep DEF OnCurrentUser, server
<1>2. /\ i = 1 /\ reads[1].tag = "current" /\ odd' = Fine
      /\ Heard("current")
      /\ \A c \in Comments : Exists(c)' <=> Exists(c)
      /\ \A t : Written(t)' <=> Written(t)
  BY <1>1, AnsweredLive
<1>3. PICK p \in Posts : /\ mPost.id = p /\ Shows(p) /\ mPost \in Copy
                         /\ View(p)' = View(p) /\ Right(p)' = Right(p)
  BY <1>1, AnsweredLive
<1>4. PICK r \in GoodRead : /\ r = GetAuthor(mPost.author)
                            /\ r.tag = "author" /\ r.val = None /\ r.ids = {}
  BY <1>3, Requests, RequestIds DEF Copy
<1>5. Deliver(i, "current", <<r>>) /\ screen = "detail"
  BY <1>1, <1>2, <1>4 DEF Heard
<1>6. Shift(1, {r})
  BY <1>2, <1>5, DeliveredOne
<1>7. {r} \in SUBSET GoodRead
  OBVIOUS
<1>8. Shows(p)'
  BY <1>1, <1>2, <1>3, <1>4, <1>6, <1>7, OtherAnswerShows
<1> QED
  BY <1>1, <1>3, <1>8

LEMMA AuthorShows ==
    ASSUME TypeInv, TypeInv', ShownInv, Live', NEW i, OnAuthor(i)
    PROVE  \E q \in Posts : mPost'.id = q /\ Shows(q)'
<1>1. /\ UNCHANGED <<docs, comments, queue, screen, mPost, mComments,
                     mNewPost, visible>>
      /\ Deliver(i, "author", <<GetComments(mPost.comments)>>)
      /\ Taken(i, {GetComments(mPost.comments)})
  BY AuthorStep DEF OnAuthor, server
<1>2. /\ i = 1 /\ reads[1].tag = "author" /\ odd' = Fine
      /\ Heard("author") /\ screen # "list"
      /\ \A c \in Comments : Exists(c)' <=> Exists(c)
      /\ \A t : Written(t)' <=> Written(t)
  BY <1>1, AnsweredLive
<1>3. PICK p \in Posts : /\ mPost.id = p /\ Shows(p) /\ mPost \in Copy
                         /\ View(p)' = View(p) /\ Right(p)' = Right(p)
  BY <1>1, AnsweredLive
<1>4. mPost.comments \in SUBSET Comments
  BY <1>3 DEF Copy
<1>5. PICK r \in GoodRead : /\ r = GetComments(mPost.comments)
                            /\ r.tag = "comments" /\ r.val = None
                            /\ r.ids = mPost.comments
  BY <1>4, Requests
<1>6. PICK S \in SUBSET GoodRead : Shift(1, S) /\ S \in {{}, {r}}
  <2>1. CASE screen = "detail"
    <3>1. Deliver(i, "author", <<r>>)
      BY <1>1, <1>5
    <3>2. Shift(1, {r})
      BY <1>2, <2>1, <3>1, DeliveredOne
    <3> QED
      BY <3>2
  <2>2. CASE screen # "detail"
    <3>1. Shift(1, {})
      BY <1>1, <1>2, <2>2, DeliveredNone
    <3> QED
      BY <3>1
  <2> QED
    BY <2>1, <2>2
<1>7. /\ \A e \in S : e.tag # "fields" /\ e.val = None
      /\ \/ \A e \in S : e.tag # "comments" /\ e.ids = {}
         \/ \E e : S = {e} /\ e.tag = "comments" /\ e.ids = mPost.comments
  BY <1>5, <1>6
<1>8. Shows(p)'
  BY <1>1, <1>2, <1>3, <1>6, <1>7, OtherAnswerShows
<1> QED
  BY <1>1, <1>3, <1>8

\* The post is shown as the answer has it, and its comments asked for.
LEMMA FieldsShows ==
    ASSUME TypeInv, TypeInv', ShownInv, Live', NEW i, OnFields(i)
    PROVE  \E q \in Posts : mPost'.id = q /\ Shows(q)'
<1>1. /\ UNCHANGED <<docs, comments, queue, screen, mComments, mNewPost,
                     visible>>
      /\ Deliver(i, "fields", <<GetComments(reads[i].val.comments)>>)
      /\ Taken(i, {GetComments(reads[i].val.comments)})
      /\ mPost' = IF screen = "detail" THEN reads[i].val ELSE mPost
      /\ reads[i].val \in Copy /\ reads[i].val # None
      /\ reads[i].val.id = reads[i].post
  BY FieldsStep DEF OnFields, server
<1>2. /\ i = 1 /\ 1 \in DOMAIN reads /\ reads[1].tag = "fields"
      /\ odd' = Fine /\ Heard("fields")
      /\ \A c \in Comments : Exists(c)' <=> Exists(c)
      /\ \A t : Written(t)' <=> Written(t)
  BY <1>1, AnsweredLive
<1>3. PICK p \in Posts : /\ mPost.id = p /\ Shows(p) /\ mPost \in Copy
                         /\ View(p)' = View(p) /\ Right(p)' = Right(p)
  BY <1>1, AnsweredLive
<1>4. PICK v \in Copy : v = reads[1].val
  BY <1>1, <1>2
<1>5. v # None /\ v.id = p /\ screen = "detail" /\ mPost' = v
  BY <1>1, <1>2, <1>3, <1>4 DEF Heard, Shows, OfPost
<1>6. v.comments \in SUBSET Comments
  BY DEF Copy
<1>7. PICK r \in GoodRead : /\ r = GetComments(v.comments)
                            /\ r.tag = "comments" /\ r.val = None
                            /\ r.ids = v.comments
  BY <1>6, Requests
<1>8. Shift(1, {r})
  <2>1. Deliver(i, "fields", <<r>>)
    BY <1>1, <1>2, <1>4, <1>7
  <2> QED
    BY <1>2, <1>5, <2>1, DeliveredOne
<1>9. CommentsCome'
  <2>1. PICK G : G = Current(v.comments)
    OBVIOUS
  <2>2. r \in G
    BY <1>7, <2>1 DEF Current
  <2>3. Come("comments", G)'
    BY <1>7, <1>8, <2>2, ComeNew
  <2> QED
    BY <1>5, <2>1, <2>3 DEF CommentsCome, Come, Current
<1>10. PostComes(p)'
  <2>1. CASE WillSave
    BY <1>2, <2>1 DEF PostComes, WillSave
  <2>2. CASE Come("fields", Right(p))
    <3>1. PICK G : G = Right(p) /\ G = Right(p)'
      BY <1>3
    <3>2. Come("fields", G)' \/ (reads[1] \in G /\ ~Asked("fields")')
      BY <1>2, <1>7, <1>8, <2>2, <3>1, ComeTaken
    <3>3. CASE Come("fields", G)'
      BY <3>1, <3>3 DEF PostComes, Come
    <3>4. CASE reads[1] \in G /\ ~Asked("fields")'
      <4>1. v = Stored(p)
        BY <1>4, <1>5, <3>1, <3>4 DEF Right
      <4>2. mPost' = Stored(p)'
        BY <1>3, <1>5, <4>1 DEF Stored
      <4> QED
        BY <3>4, <4>2 DEF PostComes
    <3> QED
      BY <3>2, <3>3, <3>4
  <2> QED
    BY <1>2, <1>3, <1>5, <2>1, <2>2 DEF Shows, PostComes, Asked
<1>11. \A j \in DOMAIN reads' :
          (\E k \in DOMAIN reads : reads'[j] = reads[k]) \/ reads'[j] = r
  BY <1>8 DEF Shift
<1>12. NothingFound(p)'
  <2>1. Nowhere => mComments' = {} /\ \A c \in v.comments : ~Exists(c)
    BY <1>1, <1>2, <1>4, <1>5 DEF Nowhere, Found
  <2>2. \A j \in DOMAIN reads' :
           \/ \E k \in DOMAIN reads : reads'[j] = reads[k]
           \/ /\ reads'[j].val = None
              /\ Nowhere => \A c \in reads'[j].ids : ~Exists(c)
    BY <1>7, <1>11, <2>1
  <2> QED
    BY <1>2, <1>3, <1>5, <2>1, <2>2, NothingStays DEF Shows
<1>13. OfPost(p)'
  <2>1. \A j \in DOMAIN reads' :
           \/ \E k \in DOMAIN reads : reads'[j] = reads[k]
           \/ reads'[j].tag = "fields" => reads'[j].post = p
    BY <1>7, <1>11
  <2> QED
    BY <1>1, <1>2, <1>3, <2>1, OfPostStays DEF Shows
<1> QED
  BY <1>5, <1>9, <1>10, <1>12, <1>13 DEF Shows

\* The comments are shown, if any of them exists.
LEMMA CommentsShows ==
    ASSUME TypeInv, TypeInv', CauseInv', ShownInv, Live',
           NEW i, OnComments(i)
    PROVE  \E q \in Posts : mPost'.id = q /\ Shows(q)'
<1>1. /\ UNCHANGED <<docs, comments, queue, screen, mPost, mNewPost>>
      /\ Deliver(i, "comments", <<>>) /\ Taken(i, {})
  BY CommentsStep DEF OnComments, server
<1>2. /\ i = 1 /\ 1 \in DOMAIN reads /\ reads[1].tag = "comments"
      /\ odd' = Fine /\ Heard("comments") /\ screen # "list"
      /\ \A c \in Comments : Exists(c)' <=> Exists(c)
      /\ \A t : Written(t)' <=> Written(t)
  BY <1>1, AnsweredLive
<1>3. PICK p \in Posts : /\ mPost.id = p /\ Shows(p) /\ mPost \in Copy
                         /\ View(p)' = View(p) /\ Right(p)' = Right(p)
  BY <1>1, AnsweredLive
<1>4. screen = "detail" /\ mUser
  <2>1. screen = "detail"
    BY <1>2 DEF Heard
  <2>2. crash' # "noUser"
    BY <1>2 DEF CauseInv, CrashExplained
  <2> QED
    BY <2>1, <2>2 DEF OnComments
<1>5. visible' = (visible /\ mPost.comments # {})
  BY <1>4 DEF OnComments, Populate
<1> DEFINE found == {[id |-> c, parent |-> Parent(c)] :
                        c \in {e \in reads[1].ids : Exists(e)}}
<1>6. mComments' = IF found # {} THEN found ELSE mComments
  BY <1>2, <1>4 DEF OnComments
<1>7. reads[1].ids \subseteq Comments /\ mPost.comments \subseteq Comments
  BY <1>2, <1>3, ReadIds DEF Copy
<1>8. \A c : (\E k \in found : k.id = c) <=> c \in reads[1].ids /\ Exists(c)
  <2>1. ASSUME NEW k \in found PROVE k.id \in reads[1].ids /\ Exists(k.id)
    <3>1. PICK c \in {e \in reads[1].ids : Exists(e)} :
             k = [id |-> c, parent |-> Parent(c)]
      BY <2>1
    <3>2. k.id = c
      BY <3>1
    <3> QED
      BY <3>2
  <2>2. ASSUME NEW c \in reads[1].ids, Exists(c)
        PROVE  \E k \in found : k.id = c
    <3>1. PICK k : k = [id |-> c, parent |-> Parent(c)]
      OBVIOUS
    <3>2. k \in found
      BY <2>2, <3>1
    <3>3. k.id = c
      BY <3>1
    <3> QED
      BY <3>2, <3>3
  <2> QED
    BY <2>1, <2>2
<1>9. found = {} <=> \A c \in reads[1].ids : ~Exists(c)
  BY <1>8
<1> HIDE DEF found
<1>10. Shift(1, {})
  BY <1>1, <1>2, DeliveredNone
<1>11. /\ PostComes(p) /\ CommentsCome /\ NothingFound(p) /\ OfPost(p)
       /\ WillSave' <=> WillSave
  BY <1>2, <1>3 DEF Shows, WillSave
<1>12. Asked("fields")' <=> Asked("fields")
  BY <1>2, <1>10, AskedStays
<1>13. PostComes(p)'
  <2>1. CASE Come("fields", Right(p))
    <3>1. PICK G : G = Right(p) /\ G = Right(p)'
      BY <1>3
    <3>2. Come("fields", G)'
      BY <1>2, <1>10, <2>1, <3>1, ComeStays
    <3> QED
      BY <3>1, <3>2 DEF PostComes, Come
  <2>2. CASE ~Asked("fields") /\ mPost = Stored(p)
    BY <1>1, <1>3, <1>12, <2>2 DEF PostComes, Stored
  <2> QED
    BY <1>1, <1>11, <2>1, <2>2 DEF PostComes
<1>14. CommentsCome'
  <2>1. CASE WillSave \/ Asked("fields")
    BY <1>11, <1>12, <2>1 DEF CommentsCome
  <2>2. CASE ~WillSave /\ ~Asked("fields")
    <3>1. Come("comments", Current(mPost.comments))
      BY <1>2, <1>4, <1>11, <2>2 DEF CommentsCome, Asked
    <3>2. PICK G : G = Current(mPost.comments)
      OBVIOUS
    <3>3. \/ Come("comments", G)'
          \/ reads[1] \in G /\ ~Asked("comments")'
      BY <1>2, <1>10, <3>1, <3>2, ComeTaken
    <3>4. CASE Come("comments", G)'
      BY <1>1, <3>2, <3>4 DEF CommentsCome, Come, Current
    <3>5. CASE reads[1] \in G /\ ~Asked("comments")'
      <4>1. reads[1].ids = mPost.comments
        BY <3>2, <3>5 DEF Current
      <4>2. ASSUME visible', found = {} PROVE mComments = {}
        <5>1. mPost = Stored(p)
          BY <1>4, <1>11, <2>2, ComeAsked DEF PostComes
        <5>2. View(p).comments = mPost.comments
          BY <5>1, ViewComments
        <5>3. View(p).comments # {} /\ ~Found(View(p).comments)
          BY <1>5, <1>9, <4>1, <4>2, <5>2 DEF Found
        <5>4. ~Written("comment")
          BY <2>2 DEF WillSave
        <5> QED
          BY <1>11, <5>3, <5>4 DEF NothingFound, Nowhere
      <4>3. ASSUME visible', NEW c \in Comments
            PROVE  (\E k \in mComments' : k.id = c)
                      <=> c \in mPost.comments /\ Exists(c)
        <5>1. CASE found = {}
          BY <1>6, <1>9, <4>1, <4>2, <4>3, <5>1
        <5>2. CASE found # {}
          BY <1>6, <1>8, <4>1, <5>2
        <5> QED
          BY <5>1, <5>2
      <4>4. visible' => Lists'
        BY <1>1, <1>2, <4>3 DEF Lists
      <4> QED
        BY <3>5, <4>4 DEF CommentsCome
    <3> QED
      BY <3>3, <3>4, <3>5
  <2> QED
    BY <2>1, <2>2
<1>15. \A j \in DOMAIN reads' : \E k \in DOMAIN reads : reads'[j] = reads[k]
  BY <1>10 DEF Shift
<1>16. NothingFound(p)'
  <2>1. Nowhere => mComments' = {}
    BY <1>2, <1>6, <1>9 DEF Nowhere, Found
  <2>2. Nowhere => \A c \in mPost'.comments : ~Exists(c)
    BY <1>1 DEF Nowhere, Found
  <2>3. mPost' \in Copy
    BY <1>1, <1>3
  <2> QED
    BY <1>2, <1>3, <1>11, <1>15, <2>1, <2>2, <2>3, NothingStays
<1>17. OfPost(p)'
  BY <1>1, <1>2, <1>11, <1>15, OfPostStays
<1> QED
  BY <1>1, <1>3, <1>13, <1>14, <1>16, <1>17 DEF Shows

\* Steps after which something odd has happened to the instance, if any
LEMMA OddNotLive ==
    ASSUME TypeInv, NEW i, NEW p, NEW c,
           LoseRead(i) \/ OthersComment(p, c) \/ Back
    PROVE  ~Live'
<1>1. odd \in 0..4
  BY DEF TypeInv, TypeOK
<1>2. CASE LoseRead(i)
  BY <1>2, LoseStep DEF Live, LoseRead, fields
<1>3. CASE OthersComment(p, c)
  BY <1>1, <1>3 DEF OthersComment, Strange, Live
<1>4. CASE Back
  BY <1>4 DEF Back, Live
<1> QED
  BY <1>2, <1>3, <1>4

LEMMA NewestStays ==
    ASSUME TypeInv, TypeInv', NewestInv, Next PROVE NewestInv'
<1>1. CASE UNCHANGED queue
  BY <1>1 DEF NewestInv, Unsaved, Newest, Saves
<1>2. CASE Back
  <2>1. /\ DOMAIN queue' = DOMAIN queue
        /\ \A i \in DOMAIN queue :
              queue'[i].post = queue[i].post /\ queue'[i].doc = queue[i].doc
    BY <1>2, BackStep
  <2> QED
    BY <2>1 DEF NewestInv, Unsaved, Newest, Saves
<1>3. ASSUME NEW w \in GoodWrite, Send(w) PROVE NewestInv'
  BY <1>3, SendAppends, AppendedNewest
<1>4. ASSUME NEW c \in Comments, CommentTap(c) PROVE NewestInv'
  <2>1. PICK w \in GoodWrite : w = SetComment(c, mPost.id, reply)
    BY <1>4, CommentTapStep
  <2> QED
    BY <1>3, <1>4, <2>1 DEF CommentTap
<1>5. CASE PostTap
  <2>1. CASE formAuthor = None
    BY <1>1, <1>5, <2>1 DEF PostTap
  <2>2. CASE formAuthor # None
    <3>1. mPost.id \in Posts /\ formAuthor \in Users
      BY <1>5, <2>2 DEF PostTap, TypeInv, TypeOK, Ready, Copy
    <3>2. [author |-> formAuthor, comments |-> {}] \in Doc
      BY <3>1 DEF Doc
    <3>3. PICK w \in GoodWrite :
             w = Save("edit", mPost.id,
                      [author |-> formAuthor, comments |-> {}])
      BY <3>1, <3>2, Writes
    <3> QED
      BY <1>3, <1>5, <2>2, <3>3 DEF PostTap
  <2> QED
    BY <2>1, <2>2
<1>6. ASSUME NEW ok \in BOOLEAN, OnUpdateValue(ok) \/ OnEdited(ok)
      PROVE  NewestInv'
  <2>1. queue # <<>> /\ queue' = Tail(queue)
    BY <1>6 DEF OnUpdateValue, OnEdited, Complete
  <2> QED
    BY <2>1, TailDrops, DroppedNewest
<1>7. ASSUME NEW ok \in BOOLEAN, OnUpdateComment(ok) PROVE NewestInv'
  <2>1. queue # <<>>
    BY <1>7 DEF OnUpdateComment, Complete
  <2>2. CASE queue' = Tail(queue)
    BY <2>1, <2>2, TailDrops, DroppedNewest
  <2>3. CASE screen = "detail" /\ mNewPost # None
             /\ queue' = Append(Tail(queue),
                                Save("save", mPost.id, DocOf(mNewPost)))
    <3>1. mPost.id \in Posts /\ mNewPost \in Copy
      BY <2>3 DEF TypeInv, TypeOK, Ready, Copy
    <3>2. DocOf(mNewPost) \in Doc
      BY <3>1, Copies
    <3>3. PICK w \in GoodWrite : w = Save("save", mPost.id, DocOf(mNewPost))
      BY <3>1, <3>2, Writes
    <3> QED
      BY <2>1, <2>3, <3>3, TailReplaces, ReplacedNewest
  <2> QED
    BY <1>7, <2>2, <2>3 DEF OnUpdateComment
<1>8. User => NewestInv'
  BY <1>1, <1>2, <1>4, <1>5
     DEF User, Open, Leave, Return, EditTap, BackFromForm, Type, ReplyTap,
         UndoTap
<1>9. Answer => NewestInv'
  BY <1>1, <1>6, <1>7
     DEF Answer, ServeRead, OnCurrentUser, OnAuthor, OnFields, OnComments
<1> QED
  BY <1>1, <1>8, <1>9 DEF Next, LoseRead, OthersComment

LEMMA NextShown ==
    TypeInv /\ TypeInv' /\ CauseInv' /\ ShownInv /\ [Next]_vars => ShownInv'
<1> SUFFICES ASSUME TypeInv, TypeInv', CauseInv', ShownInv, [Next]_vars
             PROVE  ShownInv'
  OBVIOUS
<1>1. CASE UNCHANGED vars
  <2>1. NewestInv' /\ (screen' = "list" => mComments' = {})
    BY <1>1 DEF vars, ShownInv, NewestInv, Unsaved, Newest, Saves
  <2>2. ASSUME Live', NEW p \in Posts, mPost'.id = p PROVE Shows(p)'
    <3>1. Live /\ mPost.id = p
      BY <1>1, <2>2 DEF vars, Live, Own
    <3>2. Shows(p)
      BY <3>1 DEF ShownInv
    <3> QED
      BY <1>1, <3>2, SameShows DEF vars
  <2> QED
    BY <2>1, <2>2 DEF ShownInv
<1>2. CASE Next
  <2>1. NewestInv'
    BY <1>2, NewestStays DEF ShownInv
  <2>2. screen' = "list" => mComments' = {}
    <3>1. CASE User
      BY <3>1 DEF User, ShownInv, Open, CommentTap, Back, Leave, Return,
         Resume, EditTap, BackFromForm, Type, ReplyTap, UndoTap, PostTap
    <3>2. CASE Answer
      BY <3>2 DEF Answer, ShownInv, OnUpdateComment, OnUpdateValue, OnEdited,
         Resume, ServeRead, OnCurrentUser, OnAuthor, OnFields, OnComments
    <3> QED
      BY <1>2, <3>1, <3>2 DEF Next, ShownInv, LoseRead, OthersComment
  <2>3. ASSUME Live' PROVE \E q \in Posts : mPost'.id = q /\ Shows(q)'
    <3>1. CASE User
      BY <2>3, <3>1, OpenShows, ScreenShows, FieldShows, CommentTapShows,
         PostTapShows, OddNotLive DEF User
    <3>2. CASE Answer
      BY <2>3, <3>2, UpdateCommentShows, SavedShows, ServeShows,
         CurrentShows, AuthorShows, FieldsShows, CommentsShows DEF Answer
    <3> QED
      BY <1>2, <2>3, <3>1, <3>2, OddNotLive DEF Next
  <2> QED
    BY <2>1, <2>2, <2>3 DEF ShownInv
<1> QED
  BY <1>1, <1>2

LEMMA ShownAlways == Spec => [](TypeInv /\ ShownInv)
<1>1. Init => TypeInv /\ CauseInv /\ ShownInv
  <2>1. Init => CauseInv
    BY EmptySeq DEF Init, CauseInv, UserComes, FormFilled, PostIsThere,
       CrashExplained
  <2>2. Init => ShownInv
    BY EmptySeq DEF Init, ShownInv, NewestInv, Unsaved, Live
  <2> QED
    BY <2>1, <2>2, InitType
<1>2. TypeInv /\ CauseInv /\ ShownInv /\ [Next]_vars
         => TypeInv' /\ CauseInv' /\ ShownInv'
  BY NextType, NextCause, NextShown
<1> QED
  BY <1>1, <1>2, PTL DEF Spec

(* Every answer draws the screen, also one that was asked for long ago, and *)
(* what it draws may be old by then.  But each change of the post is        *)
(* followed by another request, and the requests are answered in order: so  *)
(* the last answer finds what is stored, unless one failed or came late.    *)
THEOREM ShowsStored == Spec => []ShownIsStored
<1>1. TypeInv /\ ShownInv => ShownIsStored
  <2> SUFFICES ASSUME TypeInv, ShownInv, screen = "detail", Quiet, odd = Fine
               PROVE  /\ mPost = CopyOf(mPost.id, docs[mPost.id])
                      /\ visible => {k.id : k \in mComments} =
                                       {c \in mPost.comments :
                                             comments[c] # None}
    BY DEF ShownIsStored
  <2>1. DOMAIN reads = {} /\ DOMAIN queue = {}
    BY DEF Quiet
  <2>2. Live
    BY <2>1 DEF Live, Own
  <2>3. PICK p \in Posts : mPost.id = p /\ Shows(p) /\ mPost \in Copy
    BY <2>2, LivePost
  <2>4. ~WillSave /\ ~Asked("fields") /\ ~Asked("comments")
    BY <2>1 DEF WillSave, Written, Asked
  <2>5. mPost = Stored(p) /\ (visible => Lists)
    BY <2>3, <2>4, ComeAsked DEF Shows, PostComes, CommentsCome
  <2>6. View(p) = docs[p]
    BY <2>1, ViewUnsaved DEF Unsaved
  <2>7. \A c : Exists(c) <=> comments[c] # None
    BY <2>1 DEF Exists
  <2>8. ASSUME visible
        PROVE  {k.id : k \in mComments} =
                  {c \in mPost.comments : comments[c] # None}
    <3>1. mPost.comments \subseteq Comments
      BY <2>3 DEF Copy
    <3>2. \A k \in mComments : k.id \in Comments
      BY DEF TypeInv, TypeOK, Shown
    <3> QED
      BY <2>5, <2>7, <2>8, <3>1, <3>2 DEF Lists
  <2> QED
    BY <2>3, <2>5, <2>6, <2>8 DEF Stored
<1> QED
  BY <1>1, ShownAlways, PTL
-----------------------------------------------------------------------------
(* Comments and their threads *)

Parents == Comments \cup {None}

\* A comment that is stored, or will be
Made(c, p, k) ==
    \/ comments[c] = [post |-> p, parent |-> k]
    \/ \E i \in DOMAIN queue :
          queue[i].id = c /\ queue[i].post = p /\ queue[i].parent = k

\* If the comment was made, then so.
Rec(c, p, k) ==
    /\ c \in ids
    /\ \A q \in Posts, j \in Parents : Made(c, q, j) => q = p /\ j = k

\* The parents of the comments in a list are in it; all are of one post.
Closed(S) ==
    /\ S \subseteq ids
    /\ \A c \in S \ rushed, p \in Posts, k \in Parents :
          Made(c, p, k) => k \in S \cup {None}
Of(S, p) == \A c \in S, q \in Posts, k \in Parents : Made(c, q, k) => q = p

\* Where a post's list of comments may be
InDocs(S, p)   == S = docs[p].comments
InCopies(S, p) == \E copy \in {mPost, mNewPost} :
                     copy # None /\ mPost.id = p /\ S = copy.comments
InReads(S, p)  == \E i \in DOMAIN reads :
                     \/ ~reads[i].stale /\ mPost.id = p /\ S = reads[i].ids
                     \/ /\ reads[i].val # None /\ reads[i].val.id = p
                        /\ S = reads[i].val.comments
InWrites(S, p) == \E i \in DOMAIN queue :
                     /\ queue[i].doc # None /\ queue[i].post = p
                     /\ S = queue[i].doc.comments
Holds(S, p) == InDocs(S, p) \/ InCopies(S, p) \/ InReads(S, p)
                  \/ InWrites(S, p)

OnceInv == \A c \in Comments, p \in Posts, k \in Parents :
              Made(c, p, k) => Rec(c, p, k)
ListsInv == \A S : \A p \in Posts :
               Holds(S, p) => Closed(S) /\ (odd # Crossed => Of(S, p))
ReplyTo == reply # None =>
              visible /\ [id |-> reply, parent |-> None] \in mComments
KnownInv == odd # Crossed =>
               \A m \in mComments : Rec(m.id, mPost.id, m.parent)
Levels == odd # Crossed =>
             \A c \in Comments, p \in Posts, k \in Comments :
                Made(c, p, k) => /\ Rec(k, p, None)
                                 /\ c \in rushed \/ comments[k] # None
ThreadInv == OnceInv /\ ListsInv /\ ReplyTo /\ KnownInv /\ Levels

\* No comment is new but perhaps c0, no stored one goes.
Grew(c0, p0, k0) ==
    /\ ids \subseteq ids' /\ rushed \subseteq rushed'
    /\ \A c \in Comments : comments[c] # None => comments'[c] # None
    /\ \A c \in Comments, p \in Posts, k \in Parents : Made(c, p, k)' =>
          \/ Made(c, p, k)
          \/ c = c0 /\ p = p0 /\ k = k0 /\ c \notin ids /\ c \in ids'

LEMMA GrewRec ==
    ASSUME NEW c0, NEW p0, NEW k0, Grew(c0, p0, k0),
           NEW c \in Comments, NEW p, NEW k, Rec(c, p, k)
    PROVE  Rec(c, p, k)'
BY DEF Grew, Rec

LEMMA GrewClosed ==
    ASSUME TypeInv, NEW c0, NEW p0, NEW k0, Grew(c0, p0, k0),
           NEW S, Closed(S)
    PROVE  Closed(S)'
<1>1. S \subseteq ids /\ ids \subseteq Comments
  BY DEF Closed, TypeInv, TypeOK
<1>2. ASSUME NEW c \in S \ rushed', NEW p \in Posts, NEW k \in Parents,
             Made(c, p, k)'
      PROVE  k \in S \cup {None}
  <2>1. c \in S \ rushed /\ c \in ids /\ c \in Comments
    BY <1>1, <1>2 DEF Grew
  <2>2. Made(c, p, k)
    BY <1>2, <2>1 DEF Grew
  <2> QED
    BY <2>1, <2>2 DEF Closed
<1>3. S \subseteq ids'
  BY <1>1 DEF Grew
<1> QED
  BY <1>2, <1>3 DEF Closed

LEMMA GrewOf ==
    ASSUME TypeInv, NEW c0, NEW p0, NEW k0, Grew(c0, p0, k0),
           NEW S, NEW p, Closed(S), Of(S, p)
    PROVE  Of(S, p)'
<1>1. S \subseteq ids /\ ids \subseteq Comments
  BY DEF Closed, TypeInv, TypeOK
<1>2. ASSUME NEW c \in S, NEW q \in Posts, NEW k \in Parents, Made(c, q, k)'
      PROVE  q = p
  <2>1. c \in ids /\ c \in Comments
    BY <1>1
  <2>2. Made(c, q, k)
    BY <1>2, <2>1 DEF Grew
  <2> QED
    BY <2>2 DEF Of
<1> QED
  BY <1>2 DEF Of

LEMMA GrewOnce ==
    ASSUME OnceInv, NEW c0, NEW p0, NEW k0, Grew(c0, p0, k0)
    PROVE  OnceInv'
<1>1. ASSUME NEW c \in Comments, NEW p \in Posts, NEW k \in Parents,
             Made(c, p, k)'
      PROVE  Rec(c, p, k)'
  <2>1. CASE Made(c, p, k)
    <3>1. Rec(c, p, k)
      BY <2>1 DEF OnceInv
    <3> QED
      BY <3>1, GrewRec
  <2>2. CASE ~Made(c, p, k)
    <3>1. c = c0 /\ p = p0 /\ k = k0 /\ c \notin ids /\ c \in ids'
      BY <1>1, <2>2 DEF Grew
    <3>2. ASSUME NEW q \in Posts, NEW j \in Parents, Made(c, q, j)'
          PROVE  q = p /\ j = k
      <4>1. ~Made(c, q, j)
        BY <3>1 DEF OnceInv, Rec
      <4> QED
        BY <3>1, <3>2, <4>1 DEF Grew
    <3> QED
      BY <3>1, <3>2 DEF Rec
  <2> QED
    BY <2>1, <2>2
<1> QED
  BY <1>1 DEF OnceInv

\* A list was there before, or is as it should be.
Filed(S, p) ==
    \/ S = {}
    \/ \E q \in Posts : Holds(S, q) /\ (q = p \/ odd' = Crossed)
    \/ Closed(S)' /\ (odd' # Crossed => Of(S, p)')

LEMMA GrewLists ==
    ASSUME TypeInv, ListsInv, NEW c0, NEW p0, NEW k0, Grew(c0, p0, k0),
           odd = Crossed => odd' = Crossed,
           \A S : \A p \in Posts : Holds(S, p)' => Filed(S, p)
    PROVE  ListsInv'
<1>1. ASSUME NEW S, NEW p \in Posts, Holds(S, p)'
      PROVE  Closed(S)' /\ (odd' # Crossed => Of(S, p)')
  <2>1. CASE S = {}
    BY <2>1 DEF Closed, Of
  <2>2. ASSUME NEW q \in Posts, Holds(S, q), q = p \/ odd' = Crossed
        PROVE  Closed(S)' /\ (odd' # Crossed => Of(S, p)')
    <3>1. Closed(S) /\ (odd # Crossed => Of(S, q))
      BY <2>2 DEF ListsInv
    <3>2. Closed(S)'
      BY <3>1, GrewClosed
    <3>3. ASSUME odd' # Crossed PROVE Of(S, p)'
      <4>1. Of(S, p)
        BY <2>2, <3>1, <3>3
      <4> QED
        BY <3>1, <4>1, GrewOf
    <3> QED
      BY <3>2, <3>3
  <2> QED
    BY <1>1, <2>1, <2>2 DEF Filed
<1> QED
  BY <1>1 DEF ListsInv

LEMMA GrewLevels ==
    ASSUME TypeInv, Levels, NEW c0, NEW p0, NEW k0, Grew(c0, p0, k0),
           odd = Crossed => odd' = Crossed,
           odd' # Crossed /\ k0 # None =>
              Rec(k0, p0, None) /\ (c0 \in rushed' \/ comments'[k0] # None)
    PROVE  Levels'
<1>1. ASSUME odd' # Crossed, NEW c \in Comments, NEW p \in Posts,
             NEW k \in Comments, Made(c, p, k)'
      PROVE  Rec(k, p, None)' /\ (c \in rushed' \/ comments'[k] # None)
  <2>1. CASE Made(c, p, k)
    <3>1. Rec(k, p, None) /\ (c \in rushed \/ comments[k] # None)
      BY <1>1, <2>1 DEF Levels
    <3> QED
      BY <3>1, GrewRec DEF Grew
  <2>2. CASE ~Made(c, p, k)
    <3>1. c = c0 /\ p = p0 /\ k = k0
      BY <1>1, <2>2 DEF Grew, Parents
    <3>2. Rec(k, p, None) /\ (c \in rushed' \/ comments'[k] # None)
      BY <1>1, <3>1
    <3> QED
      BY <3>2, GrewRec
  <2> QED
    BY <2>1, <2>2
<1> QED
  BY <1>1 DEF Levels

LEMMA GrewKnown ==
    ASSUME TypeInv, KnownInv, NEW c0, NEW p0, NEW k0, Grew(c0, p0, k0),
           odd = Crossed => odd' = Crossed, UNCHANGED mComments,
           mComments # {} /\ odd' # Crossed => mPost'.id = mPost.id
    PROVE  KnownInv'
<1>1. ASSUME odd' # Crossed, NEW m \in mComments'
      PROVE  Rec(m.id, mPost.id, m.parent)'
  <2>1. m \in mComments /\ mPost'.id = mPost.id
    BY <1>1
  <2>2. PICK c \in Comments, p \in {mPost.id}, k \in {m.parent} : c = m.id
    BY <2>1 DEF TypeInv, TypeOK, Shown
  <2>3. Rec(c, p, k)
    BY <1>1, <2>1, <2>2 DEF KnownInv
  <2>4. Rec(c, p, k)'
    BY <2>3, GrewRec
  <2> QED
    BY <2>1, <2>2, <2>4
<1> QED
  BY <1>1 DEF KnownInv

LEMMA SameGrew ==
    ASSUME UNCHANGED <<comments, queue, ids, rushed>>
    PROVE  Grew(None, None, None)
BY DEF Grew, Made

LEMMA BackGrew == ASSUME TypeInv, Back PROVE Grew(None, None, None)
<1>1. /\ DOMAIN queue' = DOMAIN queue
      /\ \A i \in DOMAIN queue : queue'[i] = [queue[i] EXCEPT !.stale = TRUE]
  <2>1. queue \in Seq(GoodWrite) /\ queue' = Stale(queue)
    BY DEF TypeInv, Back
  <2>2. \A s \in GoodWrite : [s EXCEPT !.stale = TRUE] \in GoodWrite
    BY Aged
  <2> QED
    BY <2>1, <2>2, StaleSeqs
<1>2. \A i \in DOMAIN queue :
         /\ queue'[i].id = queue[i].id /\ queue'[i].post = queue[i].post
         /\ queue'[i].parent = queue[i].parent
  BY <1>1, Aged, Elements
<1>3. UNCHANGED <<comments, ids, rushed>>
  BY DEF Back, server, past
<1> QED
  BY <1>1, <1>2, <1>3 DEF Grew, Made

LEMMA SentGrew ==
    ASSUME NEW w, Sent(w), w.id \notin Comments,
           UNCHANGED <<comments, ids, rushed>>
    PROVE  Grew(None, None, None)
<1>1. ASSUME NEW c \in Comments, NEW p \in Posts, NEW k \in Parents,
             Made(c, p, k)'
      PROVE  Made(c, p, k)
  BY <1>1 DEF Made, Sent
<1> QED
  BY <1>1 DEF Grew

LEMMA CommentTapGrew ==
    ASSUME TypeInv, NEW c \in Comments, CommentTap(c)
    PROVE  Grew(c, mPost.id, reply)
<1>1. PICK w \in GoodWrite :
         /\ w = SetComment(c, mPost.id, reply)
         /\ w.id = c /\ w.post = mPost.id /\ w.parent = reply
         /\ Sent(w)
  BY CommentTapStep DEF SetComment
<1>2. /\ c \notin ids /\ ids' = ids \cup {c} /\ rushed \subseteq rushed'
      /\ UNCHANGED comments
  BY DEF CommentTap, server
<1>3. ASSUME NEW e \in Comments, NEW p \in Posts, NEW k \in Parents,
             Made(e, p, k)', ~Made(e, p, k)
      PROVE  e = c /\ p = mPost.id /\ k = reply
  BY <1>1, <1>2, <1>3 DEF Made, Sent
<1> QED
  BY <1>2, <1>3 DEF Grew

\* A write is answered: what it says of a comment was said before.
LEMMA AnsweredGrew ==
    ASSUME TypeInv, NEW tag, NEW ok \in BOOLEAN, Complete(tag, ok),
           NEW w, Dropped \/ (Replaced(w) /\ w.id \notin Comments),
           UNCHANGED <<ids, rushed>>
    PROVE  Grew(None, None, None)
<1>1. PICK v \in GoodWrite : /\ v = Head(queue) /\ v = queue[1]
                             /\ 1 \in DOMAIN queue
  BY CompleteStep
<1>2. comments' = IF ok /\ v.id # None
                  THEN [comments EXCEPT ![v.id] =
                           [post |-> v.post, parent |-> v.parent]]
                  ELSE comments
  BY <1>1 DEF Complete
<1>3. [post |-> v.post, parent |-> v.parent] # None
  <2>1. [post |-> v.post, parent |-> v.parent] \in Comment
    BY DEF Comment, GoodWrite, Write
  <2> QED
    BY <2>1
<1>4. comments \in [Comments -> Comment \cup {None}]
  BY DEF TypeInv, TypeOK
<1>5. \A c \in Comments : comments[c] # None => comments'[c] # None
  BY <1>2, <1>3, <1>4
<1>6. ASSUME NEW c \in Comments, NEW p \in Posts, NEW k \in Parents,
             Made(c, p, k)'
      PROVE  Made(c, p, k)
  <2>1. CASE comments'[c] = [post |-> p, parent |-> k]
    <3>1. CASE ok /\ v.id = c
      <4>1. comments'[c] = [post |-> v.post, parent |-> v.parent]
        BY <1>2, <1>4, <3>1
      <4>2. v.post = p /\ v.parent = k
        BY <2>1, <4>1
      <4> QED
        BY <1>1, <3>1, <4>2 DEF Made
    <3>2. CASE ~(ok /\ v.id = c)
      <4>1. comments'[c] = comments[c]
        BY <1>2, <1>4, <3>2
      <4> QED
        BY <2>1, <4>1 DEF Made
    <3> QED
      BY <3>1, <3>2
  <2>2. CASE \E j \in DOMAIN queue' :
                queue'[j].id = c /\ queue'[j].post = p /\ queue'[j].parent = k
    <3>1. PICK j \in DOMAIN queue' :
             queue'[j].id = c /\ queue'[j].post = p /\ queue'[j].parent = k
      BY <2>2
    <3>2. \E i \in DOMAIN queue : queue'[j] = queue[i]
      BY <3>1, RestQueue
    <3> QED
      BY <3>1, <3>2 DEF Made
  <2> QED
    BY <1>6, <2>1, <2>2 DEF Made
<1> QED
  BY <1>5, <1>6 DEF Grew

LEMMA OthersGrew ==
    ASSUME TypeInv, NEW p \in Posts, NEW c \in Comments, OthersComment(p, c)
    PROVE  Grew(c, p, None)
<1>1. /\ c \notin ids /\ ids' = ids \cup {c} /\ UNCHANGED <<rushed, queue>>
      /\ comments' = [comments EXCEPT ![c] = [post |-> p, parent |-> None]]
      /\ comments \in [Comments -> Comment \cup {None}]
  BY DEF OthersComment, TypeInv, TypeOK
<1>2. [post |-> p, parent |-> None] # None
  <2>1. [post |-> p, parent |-> None] \in Comment
    BY DEF Comment
  <2> QED
    BY <2>1
<1>3. ASSUME NEW e \in Comments, NEW q \in Posts, NEW k \in Parents,
             Made(e, q, k)', ~Made(e, q, k)
      PROVE  e = c /\ q = p /\ k = None
  <2>1. comments'[e] = [post |-> q, parent |-> k]
    BY <1>1, <1>3 DEF Made
  <2>2. e = c
    BY <1>1, <1>3, <2>1 DEF Made
  <2>3. [post |-> q, parent |-> k] = [post |-> p, parent |-> None]
    BY <1>1, <2>1, <2>2
  <2> QED
    BY <2>2, <2>3
<1> QED
  BY <1>1, <1>2, <1>3 DEF Grew

\* The lists in what is read
LEMMA ViewHolds ==
    ASSUME TypeInv, NEW p \in Posts PROVE Holds(View(p).comments, p)
BY ViewOf DEF Holds, InDocs, InWrites

\* The reads of a step that looks for nothing but the comments shown
Plain == \A j \in DOMAIN reads' :
            \/ \E i \in DOMAIN reads : reads'[j] = reads[i]
            \/ /\ reads'[j].val = None
               /\ \/ reads'[j].ids = {}
                  \/ mPost # None /\ reads'[j].ids = mPost.comments

LEMMA PlainFiled ==
    ASSUME Plain, UNCHANGED mPost, NEW S, NEW p, InReads(S, p)'
    PROVE  InReads(S, p) \/ InCopies(S, p) \/ S = {}
BY DEF Plain, InReads, InCopies

LEMMA ThreadStep ==
    ASSUME TypeInv, ThreadInv, Grew(None, None, None),
           odd = Crossed => odd' = Crossed,
           \A S : \A p \in Posts : Holds(S, p)' => Filed(S, p),
           ReplyTo', KnownInv'
    PROVE  ThreadInv'
<1>1. OnceInv'
  BY GrewOnce DEF ThreadInv
<1>2. ListsInv'
  BY GrewLists DEF ThreadInv
<1>3. Levels'
  BY GrewLevels DEF ThreadInv
<1> QED
  BY <1>1, <1>2, <1>3 DEF ThreadInv

\* The screen's comments stay.
LEMMA ScreenStays ==
    ASSUME TypeInv, ThreadInv, Grew(None, None, None),
           odd = Crossed => odd' = Crossed, UNCHANGED mComments,
           mComments # {} /\ odd' # Crossed => mPost'.id = mPost.id,
           (reply' = reply /\ visible' = visible) \/ reply' = None
    PROVE  ReplyTo' /\ KnownInv'
<1>1. KnownInv'
  BY GrewKnown DEF ThreadInv
<1>2. ReplyTo'
  BY DEF ThreadInv, ReplyTo
<1> QED
  BY <1>1, <1>2

LEMMA OpenThreads ==
    ASSUME TypeInv, ShownInv, ThreadInv, NEW p \in Posts, Open(p)
    PROVE  ThreadInv'
<1>1. PICK a \in GoodRead, b \in GoodRead :
         /\ a = GetCurrent /\ b = GetPost(p)
         /\ a.val = None /\ a.ids = {} /\ b.val = None /\ b.ids = {}
  BY Requests, RequestIds
<1>2. <<a, b>> \in Seq(GoodRead)
  OBVIOUS
<1>3. PICK n \in Seq(GoodRead) : n = <<a, b>>
  BY <1>2
<1>4. reads \in Seq(GoodRead) /\ reads' = reads \o n
  BY <1>1, <1>3 DEF Open, TypeInv
<1>5. \A i \in DOMAIN reads' :
         \/ i \in DOMAIN reads /\ reads'[i] = reads[i]
         \/ \E j \in DOMAIN n : reads'[i] = n[j]
  BY <1>4, Joined
<1>6. \A j \in DOMAIN n : n[j] \in {a, b}
  BY <1>3
<1>7. \A i \in DOMAIN reads : reads[i].stale
  BY DEF Open, TypeInv, Ready
<1>8. /\ UNCHANGED <<docs, comments, queue, mNewPost, mComments, ids, rushed,
                     odd, reply, visible>>
      /\ mNewPost = None /\ mComments = {}
      /\ mPost' = CopyOf(p, View(p))
  BY DEF Open, server, field, past, TypeInv, Ready, ShownInv
<1>9. mPost'.id = p /\ mPost'.comments = View(p).comments
  BY <1>8, ViewOf, Copies
<1>10. Grew(None, None, None)
  BY <1>8, SameGrew
<1>11. ASSUME NEW S, NEW q \in Posts, Holds(S, q)' PROVE Filed(S, q)
  <2>1. CASE InDocs(S, q)' \/ InWrites(S, q)'
    BY <1>8, <2>1 DEF InDocs, InWrites, Holds, Filed
  <2>2. CASE InCopies(S, q)'
    <3>1. q = p /\ S = View(p).comments
      BY <1>8, <1>9, <2>2 DEF InCopies
    <3> QED
      BY <3>1, ViewHolds DEF Filed
  <2>3. CASE InReads(S, q)'
    <3>1. InReads(S, q) \/ S = {}
      BY <1>1, <1>5, <1>6, <1>7, <2>3 DEF InReads
    <3> QED
      BY <3>1 DEF Holds, Filed
  <2> QED
    BY <1>11, <2>1, <2>2, <2>3 DEF Holds
<1>12. ReplyTo' /\ KnownInv'
  BY <1>8, <1>10, ScreenStays
<1> QED
  BY <1>8, <1>10, <1>11, <1>12, ThreadStep

LEMMA BackThreads == ASSUME TypeInv, ThreadInv, Back PROVE ThreadInv'
<1>1. /\ UNCHANGED docs /\ mPost' = None /\ mNewPost' = None
      /\ mComments' = {} /\ reply' = None
      /\ odd = Crossed => odd' = Crossed
  BY DEF Back, server
<1>2. Grew(None, None, None)
  BY BackGrew
<1>3. ASSUME NEW S, NEW q \in Posts, Holds(S, q)' PROVE Filed(S, q)
  <2>1. InDocs(S, q) \/ InWrites(S, q) \/ InReads(S, q)
    BY <1>1, <1>3, BackStep DEF Holds, InDocs, InCopies, InReads, InWrites
  <2> QED
    BY <2>1 DEF Holds, Filed
<1>4. ReplyTo' /\ KnownInv'
  BY <1>1 DEF ReplyTo, KnownInv
<1> QED
  BY <1>1, <1>2, <1>3, <1>4, ThreadStep

\* Only reads are new.
LEMMA ReadsFiled ==
    ASSUME Plain, UNCHANGED <<mPost, mNewPost, docs, queue>>,
           NEW S, NEW p \in Posts, Holds(S, p)'
    PROVE  Filed(S, p)
<1>1. CASE InDocs(S, p)' \/ InWrites(S, p)' \/ InCopies(S, p)'
  BY <1>1 DEF Holds, InDocs, InWrites, InCopies, Filed
<1>2. CASE InReads(S, p)'
  BY <1>2, PlainFiled DEF Holds, Filed
<1> QED
  BY <1>1, <1>2 DEF Holds

LEMMA ScreenThreads ==
    ASSUME TypeInv, ThreadInv,
           \/ Leave \/ Return \/ EditTap \/ BackFromForm
           \/ Type \/ ReplyTap \/ UndoTap
    PROVE  ThreadInv'
<1> USE DEF server, fields, field, past
<1>1. UNCHANGED <<docs, comments, queue, mPost, mComments, mNewPost, visible,
                  odd, ids, rushed>>
  BY DEF Leave, Return, EditTap, BackFromForm, Type, ReplyTap, UndoTap
<1>2. Grew(None, None, None)
  BY <1>1, SameGrew
<1>3. Plain
  <2>1. CASE UNCHANGED reads
    BY <2>1 DEF Plain
  <2>2. CASE EditTap
    <3>1. PICK r \in GoodRead :
             r = GetAuthor(Me) /\ r.val = None /\ r.ids = {}
      BY Requests, RequestIds
    <3>2. Added({r})
      BY <2>2, <3>1, AskStep DEF EditTap
    <3> QED
      BY <3>1, <3>2 DEF Added, Plain
  <2>3. CASE Return \/ BackFromForm
    <3>1. Resume /\ mPost \in Copy
      BY <2>3 DEF Return, BackFromForm, TypeInv, TypeOK, Ready
    <3>2. PICK r \in GoodRead :
             r = GetPost(mPost.id) /\ r.val = None /\ r.ids = {}
      BY <3>1, Requests, RequestIds DEF Copy
    <3>3. Added({r})
      BY <3>1, <3>2, AskStep DEF Resume
    <3> QED
      BY <3>2, <3>3 DEF Added, Plain
  <2> QED
    BY <2>1, <2>2, <2>3 DEF Leave, Type, ReplyTap, UndoTap
<1>4. ASSUME NEW S, NEW q \in Posts, Holds(S, q)' PROVE Filed(S, q)
  BY <1>1, <1>3, <1>4, ReadsFiled
<1>5. ReplyTo' /\ KnownInv'
  <2>1. CASE ~ReplyTap
    <3>1. reply' = reply \/ reply' = None
      BY <2>1 DEF Leave, Return, EditTap, BackFromForm, Type, UndoTap
    <3> QED
      BY <1>1, <1>2, <3>1, ScreenStays
  <2>2. CASE ReplyTap
    <3>1. KnownInv'
      BY <1>1, <1>2, GrewKnown DEF ThreadInv
    <3>2. PICK k \in mComments, t \in mComments :
             t.parent = None /\ t.id = Top(k) /\ reply' = Top(k)
      BY <2>2 DEF ReplyTap, Listed
    <3>3. t \in Shown
      BY DEF TypeInv, TypeOK
    <3>4. t = [id |-> Top(k), parent |-> None]
      BY <3>2, <3>3 DEF Shown
    <3>5. visible
      BY <2>2 DEF ReplyTap
    <3> QED
      BY <1>1, <3>1, <3>2, <3>4, <3>5 DEF ReplyTo
  <2> QED
    BY <2>1, <2>2
<1> QED
  BY <1>1, <1>2, <1>4, <1>5, ThreadStep

LEMMA PostTapThreads ==
    ASSUME TypeInv, ThreadInv, PostTap PROVE ThreadInv'
<1>1. UNCHANGED <<docs, comments, reads, mPost, mComments, mNewPost, visible,
                  odd, ids, rushed, reply>>
  BY DEF PostTap, server, fields, field, past
<1>2. PICK w : /\ w.doc # None => w.doc.comments = {}
               /\ w.id \notin Comments /\ Sent(w)
  <2>1. CASE formAuthor = None
    <3>1. UNCHANGED queue
      BY <2>1 DEF PostTap
    <3>2. PICK w : w = [doc |-> None, id |-> None]
      OBVIOUS
    <3> QED
      BY <3>1, <3>2 DEF Sent
  <2>2. CASE formAuthor # None
    <3>1. PICK w \in GoodWrite :
             w.tag = "edit" /\ w.doc.comments = {} /\ Sent(w)
      BY <2>2, PostTapStep
    <3>2. w.id = None
      BY <3>1 DEF GoodWrite
    <3> QED
      BY <3>1, <3>2
  <2> QED
    BY <2>1, <2>2
<1>3. Grew(None, None, None)
  BY <1>1, <1>2, SentGrew
<1>4. ASSUME NEW S, NEW q \in Posts, Holds(S, q)' PROVE Filed(S, q)
  <2>1. CASE InDocs(S, q)' \/ InCopies(S, q)' \/ InReads(S, q)'
    BY <1>1, <2>1 DEF Holds, InDocs, InCopies, InReads, Filed
  <2>2. CASE InWrites(S, q)'
    BY <1>2, <2>2 DEF Holds, InWrites, Filed, Sent
  <2> QED
    BY <1>4, <2>1, <2>2 DEF Holds
<1>5. ReplyTo' /\ KnownInv'
  BY <1>1, <1>3, ScreenStays
<1> QED
  BY <1>1, <1>3, <1>4, <1>5, ThreadStep

\* A comment is posted: in its own list, and under its parent.
LEMMA CommentTapThreads ==
    ASSUME TypeInv, ShownIsStored, ThreadInv, NEW c \in Comments,
           CommentTap(c)
    PROVE  ThreadInv'
<1>1. /\ UNCHANGED <<docs, comments, reads, screen, mComments, odd, reply,
                     ready>>
      /\ visible' /\ screen = "detail" /\ ready
      /\ c \notin ids /\ ids' = ids \cup {c}
      /\ rushed' = IF Quiet /\ odd = Fine THEN rushed ELSE rushed \cup {c}
  BY DEF CommentTap, server
<1>2. PICK p \in Posts : p = mPost.id
  BY CommentTapStep DEF Copy
<1>3. PICK w \in GoodWrite : w.doc = None /\ Sent(w)
  BY CommentTapStep DEF SetComment
<1>4. /\ mPost \in Copy /\ mPost # None /\ mPost' # None
      /\ mNewPost' = mPost' /\ mPost'.id = p
      /\ mPost'.comments = mPost.comments \cup {c}
      /\ reply \in Parents
  BY <1>2, CommentTapStep DEF TypeInv, TypeOK, Parents
<1>5. Grew(c, p, reply)
  BY <1>2, CommentTapGrew
<1>6. OnceInv'
  BY <1>5, GrewOnce DEF ThreadInv
<1>7. ASSUME reply # None
      PROVE  /\ reply \in Comments /\ (odd # Crossed => Rec(reply, p, None))
             /\ \/ c \in rushed'
                \/ reply \in mPost.comments /\ comments[reply] # None
  <2>1. reply \in Comments /\ visible
        /\ [id |-> reply, parent |-> None] \in mComments
    BY <1>4, <1>7 DEF ThreadInv, ReplyTo, Parents
  <2>2. PICK m \in mComments : m.id = reply /\ m.parent = None
    BY <2>1
  <2>3. odd # Crossed => Rec(reply, p, None)
    BY <1>2, <2>2 DEF ThreadInv, KnownInv
  <2>4. ASSUME c \notin rushed'
        PROVE  reply \in mPost.comments /\ comments[reply] # None
    <3>1. Quiet /\ odd = Fine
      BY <1>1, <2>4
    <3>2. {k.id : k \in mComments} =
             {e \in mPost.comments : comments[e] # None}
      BY <1>1, <2>1, <3>1 DEF ShownIsStored
    <3>3. reply \in {k.id : k \in mComments}
      BY <2>2
    <3> QED
      BY <3>2, <3>3
  <2> QED
    BY <2>1, <2>3, <2>4
<1>8. Levels'
  BY <1>1, <1>5, <1>7, GrewLevels DEF ThreadInv
<1>9. KnownInv'
  BY <1>1, <1>2, <1>4, <1>5, GrewKnown DEF ThreadInv
<1>10. ReplyTo'
  BY <1>1 DEF ThreadInv, ReplyTo
<1>11. /\ Closed(mPost.comments)
       /\ odd # Crossed => Of(mPost.comments, p)
  <2>1. InCopies(mPost.comments, p)
    BY <1>2, <1>4 DEF InCopies
  <2> QED
    BY <2>1 DEF ThreadInv, ListsInv, Holds
<1>12. PICK S : S = mPost.comments \cup {c}
  OBVIOUS
<1>13. ASSUME NEW e \in S, NEW q \in Posts, NEW k \in Parents, Made(e, q, k)'
       PROVE  \/ e \in mPost.comments /\ Made(e, q, k)
              \/ e = c /\ q = p /\ k = reply
  <2>1. e \in Comments /\ mPost.comments \subseteq ids
    BY <1>4, <1>11, <1>12 DEF Copy, Closed
  <2>2. CASE e = c
    <3>1. ~Made(e, q, k)
      BY <1>1, <2>1, <2>2 DEF ThreadInv, OnceInv, Rec
    <3> QED
      BY <1>5, <1>13, <2>1, <2>2, <3>1 DEF Grew
  <2>3. CASE e # c
    BY <1>5, <1>12, <1>13, <2>1, <2>3 DEF Grew
  <2> QED
    BY <2>2, <2>3
<1>14. Closed(S)'
  <2>1. S \subseteq ids'
    BY <1>1, <1>11, <1>12 DEF Closed
  <2>2. ASSUME NEW e \in S \ rushed', NEW q \in Posts, NEW k \in Parents,
               Made(e, q, k)'
        PROVE  k \in S \cup {None}
    <3>1. CASE e \in mPost.comments /\ Made(e, q, k)
      <4>1. e \in mPost.comments \ rushed
        BY <1>5, <3>1 DEF Grew
      <4>2. k \in mPost.comments \cup {None}
        BY <1>11, <3>1, <4>1 DEF Closed
      <4> QED
        BY <1>12, <4>2
    <3>2. CASE e = c /\ q = p /\ k = reply
      BY <1>7, <1>12, <3>2
    <3> QED
      BY <1>13, <2>2, <3>1, <3>2
  <2> QED
    BY <2>1, <2>2 DEF Closed
<1>15. ASSUME odd' # Crossed PROVE Of(S, p)'
  <2>1. ASSUME NEW e \in S, NEW q \in Posts, NEW k \in Parents, Made(e, q, k)'
        PROVE  q = p
    BY <1>1, <1>11, <1>13, <1>15, <2>1 DEF Of
  <2> QED
    BY <2>1 DEF Of
<1>16. ASSUME NEW T, NEW q \in Posts, Holds(T, q)' PROVE Filed(T, q)
  <2>1. CASE InDocs(T, q)'
    BY <1>1, <2>1 DEF Holds, InDocs, Filed
  <2>2. CASE InCopies(T, q)'
    <3>1. q = p /\ T = S
      BY <1>4, <1>12, <2>2 DEF InCopies
    <3> QED
      BY <1>14, <1>15, <3>1 DEF Filed
  <2>3. CASE InReads(T, q)'
    BY <1>1, <1>2, <1>4, <2>3 DEF Holds, InReads, Filed
  <2>4. CASE InWrites(T, q)'
    BY <1>3, <2>4 DEF Holds, InWrites, Filed, Sent
  <2> QED
    BY <1>16, <2>1, <2>2, <2>3, <2>4 DEF Holds
<1>17. ListsInv'
  BY <1>1, <1>5, <1>16, GrewLists DEF ThreadInv
<1> QED
  BY <1>6, <1>8, <1>9, <1>10, <1>17 DEF ThreadInv

\* The oldest write was answered.
LEMMA UpdateCommentThreads ==
    ASSUME TypeInv, ThreadInv, NEW ok \in BOOLEAN, OnUpdateComment(ok)
    PROVE  ThreadInv'
<1>1. /\ UNCHANGED <<reads, mPost, mComments, mNewPost, visible, reply,
                     ids, rushed>>
      /\ Complete("comment", ok) /\ queue # <<>>
      /\ odd \in 0..4 /\ odd' \in odd..4
      /\ odd = 4 => odd' = 4
  <2>1. odd \in 0..4 /\ odd' \in odd..4
    BY UpdateCommentStep DEF TypeInv, TypeOK
  <2>2. odd = 4 => odd' = 4
    BY <2>1
  <2> QED
    BY <2>1, <2>2 DEF OnUpdateComment, Complete, fields, field, past
<1>2. Grew(None, None, None)
  <2>1. CASE queue' = Tail(queue)
    BY <1>1, <2>1, TailDrops, AnsweredGrew
  <2>2. CASE screen = "detail" /\ mNewPost # None
             /\ queue' = Append(Tail(queue),
                                Save("save", mPost.id, DocOf(mNewPost)))
    <3>1. mPost.id \in Posts /\ mNewPost \in Copy
      BY <2>2 DEF TypeInv, TypeOK, Ready, Copy
    <3>2. DocOf(mNewPost) \in Doc
      BY <3>1, Copies
    <3>3. PICK w \in GoodWrite : /\ w = Save("save", mPost.id, DocOf(mNewPost))
                                 /\ w.tag = "save"
      BY <3>1, <3>2, Writes
    <3>4. w.id \notin Comments
      BY <3>3 DEF GoodWrite
    <3>5. Replaced(w)
      BY <1>1, <2>2, <3>3, TailReplaces
    <3> QED
      BY <1>1, <3>4, <3>5, AnsweredGrew
  <2> QED
    BY <2>1, <2>2 DEF OnUpdateComment
<1>3. \A p \in Posts : \/ docs'[p] = docs[p]
                       \/ /\ 1 \in DOMAIN queue
                          /\ queue[1].doc # None /\ queue[1].post = p
                          /\ docs'[p] = queue[1].doc
  BY <1>1, CompleteStep
<1>4. ASSUME NEW S, NEW q \in Posts, Holds(S, q)' PROVE Filed(S, q)
  <2>1. CASE InDocs(S, q)'
    BY <1>3, <2>1 DEF InDocs, InWrites, Holds, Filed
  <2>2. CASE InCopies(S, q)' \/ InReads(S, q)'
    BY <1>1, <2>2 DEF InCopies, InReads, Holds, Filed
  <2>3. CASE InWrites(S, q)'
    <3>1. PICK j \in DOMAIN queue' :
             /\ queue'[j].doc # None /\ queue'[j].post = q
             /\ S = queue'[j].doc.comments
      BY <2>3 DEF InWrites
    <3>2. CASE \E k \in DOMAIN queue : queue'[j] = queue[k]
      BY <3>1, <3>2 DEF InWrites, Holds, Filed
    <3>3. CASE /\ mNewPost \in Copy /\ mPost \in Copy
               /\ queue'[j] = Save("save", mPost.id, DocOf(mNewPost))
      <4>1. /\ queue'[j].post = mPost.id
            /\ queue'[j].doc.comments = mNewPost.comments
        BY <3>3, Copies DEF Save
      <4>2. mNewPost # None
        BY <3>3
      <4> QED
        BY <3>1, <4>1, <4>2 DEF InCopies, Holds, Filed
    <3> QED
      BY <3>1, <3>2, <3>3, UpdateCommentStep
  <2> QED
    BY <1>4, <2>1, <2>2, <2>3 DEF Holds
<1>5. ReplyTo' /\ KnownInv'
  BY <1>1, <1>2, ScreenStays
<1> QED
  BY <1>1, <1>2, <1>4, <1>5, ThreadStep

LEMMA SavedThreads ==
    ASSUME TypeInv, ThreadInv, NEW ok \in BOOLEAN,
           OnUpdateValue(ok) \/ OnEdited(ok)
    PROVE  ThreadInv'
<1>1. PICK tag : Complete(tag, ok) /\ queue # <<>> /\ queue' = Tail(queue)
  BY DEF OnUpdateValue, OnEdited, Complete
<1>2. /\ UNCHANGED <<mPost, mComments, mNewPost, visible, ids, rushed>>
      /\ reply' \in {reply, None}
      /\ odd \in 0..4 /\ odd' \in odd..4
      /\ odd = 4 => odd' = 4
  <2>1. odd \in 0..4 /\ odd' \in odd..4
    BY SavedStep DEF TypeInv, TypeOK
  <2>2. odd = 4 => odd' = 4
    BY <2>1
  <2> QED
    BY <2>1, <2>2 DEF OnUpdateValue, OnEdited, fields, field, past
<1>3. Dropped
  BY <1>1, TailDrops
<1>4. Grew(None, None, None)
  BY <1>1, <1>2, <1>3, AnsweredGrew
<1>5. Plain
  <2>1. CASE UNCHANGED reads
    BY <2>1 DEF Plain
  <2>2. CASE mPost \in Copy /\ Added({GetPost(mPost.id)})
    <3>1. PICK r \in GoodRead :
             r = GetPost(mPost.id) /\ r.val = None /\ r.ids = {}
      BY <2>2, Requests, RequestIds DEF Copy
    <3>2. Added({r})
      BY <2>2, <3>1
    <3> QED
      BY <3>1, <3>2 DEF Added, Plain
  <2> QED
    BY <2>1, <2>2, SavedStep
<1>6. \A p \in Posts : \/ docs'[p] = docs[p]
                       \/ /\ 1 \in DOMAIN queue
                          /\ queue[1].doc # None /\ queue[1].post = p
                          /\ docs'[p] = queue[1].doc
  BY <1>1, CompleteStep
<1>7. ASSUME NEW S, NEW q \in Posts, Holds(S, q)' PROVE Filed(S, q)
  <2>1. CASE InDocs(S, q)'
    BY <1>6, <2>1 DEF InDocs, InWrites, Holds, Filed
  <2>2. CASE InCopies(S, q)'
    BY <1>2, <2>2 DEF InCopies, Holds, Filed
  <2>3. CASE InReads(S, q)'
    BY <1>2, <1>5, <2>3, PlainFiled DEF Holds, Filed
  <2>4. CASE InWrites(S, q)'
    BY <1>3, <2>4, RestQueue DEF InWrites, Holds, Filed
  <2> QED
    BY <1>7, <2>1, <2>2, <2>3, <2>4 DEF Holds
<1>8. ReplyTo' /\ KnownInv'
  BY <1>2, <1>4, ScreenStays
<1> QED
  BY <1>2, <1>4, <1>7, <1>8, ThreadStep

\* Another device comments: in the list of its post.
LEMMA OthersThreads ==
    ASSUME TypeInv, ThreadInv, NEW p \in Posts, NEW c \in Comments,
           OthersComment(p, c)
    PROVE  ThreadInv'
<1>1. /\ UNCHANGED <<queue, reads, mPost, mComments, mNewPost, visible, reply,
                     rushed>>
      /\ docs' = [docs EXCEPT ![p].comments = @ \cup {c}]
      /\ docs \in [Posts -> Doc]
      /\ c \notin ids /\ ids' = ids \cup {c}
      /\ odd = 4 => odd' = 4
  BY DEF OthersComment, fields, field, past, Strange, TypeInv, TypeOK
<1>2. Grew(c, p, None)
  BY OthersGrew
<1>3. OnceInv'
  BY <1>2, GrewOnce DEF ThreadInv
<1>4. Levels'
  BY <1>1, <1>2, GrewLevels DEF ThreadInv
<1>5. KnownInv'
  BY <1>1, <1>2, GrewKnown DEF ThreadInv
<1>6. ReplyTo'
  BY <1>1 DEF ThreadInv, ReplyTo
<1>7. PICK B : B = docs[p].comments
  OBVIOUS
<1>8. /\ \A q \in Posts : q # p => docs'[q] = docs[q]
      /\ docs'[p].comments = B \cup {c}
      /\ B \subseteq Comments
  BY <1>1, <1>7 DEF Doc
<1>9. Closed(B) /\ (odd # Crossed => Of(B, p))
  BY <1>7 DEF ThreadInv, ListsInv, Holds, InDocs
<1>10. PICK S : S = B \cup {c}
  OBVIOUS
<1>11. ASSUME NEW e \in S, NEW q \in Posts, NEW k \in Parents, Made(e, q, k)'
       PROVE  \/ e \in B /\ Made(e, q, k)
              \/ e = c /\ q = p /\ k = None
  <2>1. e \in Comments
    BY <1>8, <1>10
  <2>2. CASE e = c
    <3>1. ~Made(e, q, k)
      BY <1>1, <2>1, <2>2 DEF ThreadInv, OnceInv, Rec
    <3> QED
      BY <1>2, <1>11, <2>1, <2>2, <3>1 DEF Grew
  <2>3. CASE e # c
    BY <1>2, <1>10, <1>11, <2>1, <2>3 DEF Grew
  <2> QED
    BY <2>2, <2>3
<1>12. Closed(S)'
  <2>1. S \subseteq ids'
    BY <1>1, <1>9, <1>10 DEF Closed
  <2>2. ASSUME NEW e \in S \ rushed', NEW q \in Posts, NEW k \in Parents,
               Made(e, q, k)'
        PROVE  k \in S \cup {None}
    <3>1. CASE e \in B /\ Made(e, q, k)
      <4>1. k \in B \cup {None}
        BY <1>1, <1>9, <2>2, <3>1 DEF Closed
      <4> QED
        BY <1>10, <4>1
    <3> QED
      BY <1>11, <2>2, <3>1
  <2> QED
    BY <2>1, <2>2 DEF Closed
<1>13. ASSUME odd' # Crossed PROVE Of(S, p)'
  <2>1. ASSUME NEW e \in S, NEW q \in Posts, NEW k \in Parents, Made(e, q, k)'
        PROVE  q = p
    BY <1>1, <1>9, <1>11, <1>13, <2>1 DEF Of
  <2> QED
    BY <2>1 DEF Of
<1>14. ASSUME NEW T, NEW q \in Posts, Holds(T, q)' PROVE Filed(T, q)
  <2>1. CASE InDocs(T, q)'
    <3>1. CASE q = p
      <4>1. T = S
        BY <1>8, <1>10, <2>1, <3>1 DEF InDocs
      <4> QED
        BY <1>12, <1>13, <3>1, <4>1 DEF Filed
    <3>2. CASE q # p
      BY <1>8, <2>1, <3>2 DEF Holds, InDocs, Filed
    <3> QED
      BY <3>1, <3>2
  <2>2. CASE InCopies(T, q)' \/ InReads(T, q)' \/ InWrites(T, q)'
    BY <1>1, <2>2 DEF Holds, InCopies, InReads, InWrites, Filed
  <2> QED
    BY <1>14, <2>1, <2>2 DEF Holds
<1>15. ListsInv'
  BY <1>1, <1>2, <1>14, GrewLists DEF ThreadInv
<1> QED
  BY <1>3, <1>4, <1>5, <1>6, <1>15 DEF ThreadInv

\* An answer came.
LEMMA ReadThreads ==
    ASSUME TypeInv, ThreadInv, NEW i, ServeRead(i) \/ LoseRead(i)
    PROVE  ThreadInv'
<1>1. /\ UNCHANGED <<docs, comments, queue, mPost, mComments, mNewPost,
                     visible, reply, ids, rushed>>
      /\ odd = Crossed => odd' = Crossed
  BY DEF ServeRead, LoseRead, server, fields, field, past, Strange
<1>2. Grew(None, None, None)
  BY <1>1, SameGrew
<1>3. ASSUME NEW S, NEW q \in Posts, Holds(S, q)' PROVE Filed(S, q)
  <2>1. CASE LoseRead(i)
    <3>1. Plain
      BY <2>1, LoseStep DEF Plain
    <3> QED
      BY <1>1, <1>3, <3>1, ReadsFiled
  <2>2. CASE ServeRead(i)
    <3>1. CASE InDocs(S, q)' \/ InCopies(S, q)' \/ InWrites(S, q)'
      BY <1>1, <3>1 DEF InDocs, InCopies, InWrites, Holds, Filed
    <3>2. CASE InReads(S, q)'
      <4>1. PICK p \in Posts : p = reads[i].post
        BY <2>2, ServeStep
      <4>2. /\ CopyOf(p, View(p)).id = p
            /\ CopyOf(p, View(p)).comments = View(p).comments
        BY ViewOf, Copies
      <4>3. InReads(S, q) \/ (q = p /\ S = View(p).comments)
        BY <1>1, <2>2, <3>2, <4>1, <4>2, ServeStep DEF InReads
      <4> QED
        BY <4>3, ViewHolds DEF Holds, Filed
    <3> QED
      BY <1>3, <3>1, <3>2 DEF Holds
  <2> QED
    BY <2>1, <2>2
<1>4. ReplyTo' /\ KnownInv'
  BY <1>1, <1>2, ScreenStays
<1> QED
  BY <1>1, <1>2, <1>3, <1>4, ThreadStep

LEMMA OtherAnswerThreads ==
    ASSUME TypeInv, ThreadInv, NEW i, OnCurrentUser(i) \/ OnAuthor(i)
    PROVE  ThreadInv'
<1>1. /\ UNCHANGED <<docs, comments, queue, mPost, mComments, mNewPost,
                     visible, reply, ids, rushed>>
      /\ odd = Crossed => odd' = Crossed
  BY DEF OnCurrentUser, OnAuthor, Deliver, server, field, past, Strange
<1>2. Grew(None, None, None)
  BY <1>1, SameGrew
<1>3. screen = "detail" => mPost \in Copy /\ mPost # None
  BY DEF TypeInv, TypeOK, Ready
<1>4. Plain
  <2>1. CASE OnCurrentUser(i)
    <3>1. screen = "detail" => /\ GetAuthor(mPost.author).val = None
                               /\ GetAuthor(mPost.author).ids = {}
      BY <1>3, Requests, RequestIds DEF Copy
    <3> QED
      BY <2>1, <3>1, CurrentStep DEF Taken, Plain
  <2>2. CASE OnAuthor(i)
    <3>1. ASSUME screen = "detail"
          PROVE  /\ GetComments(mPost.comments).val = None
                 /\ GetComments(mPost.comments).ids = mPost.comments
      <4>1. mPost.comments \in SUBSET Comments
        BY <1>3, <3>1 DEF Copy
      <4> QED
        BY <4>1, Requests
    <3> QED
      BY <1>3, <2>2, <3>1, AuthorStep DEF Taken, Plain
  <2> QED
    BY <2>1, <2>2
<1>5. ASSUME NEW S, NEW q \in Posts, Holds(S, q)' PROVE Filed(S, q)
  BY <1>1, <1>4, <1>5, ReadsFiled
<1>6. ReplyTo' /\ KnownInv'
  BY <1>1, <1>2, ScreenStays
<1> QED
  BY <1>1, <1>2, <1>5, <1>6, ThreadStep

\* A fresh answer is about the post shown.
LEMMA FieldsThreads ==
    ASSUME TypeInv, KeptInv, ThreadInv, NEW i, OnFields(i)
    PROVE  ThreadInv'
<1>1. /\ UNCHANGED <<docs, comments, queue, mComments, mNewPost, visible,
                     reply, ids, rushed>>
      /\ odd = Crossed => odd' = Crossed
      /\ mPost' = IF screen = "detail" THEN reads[i].val ELSE mPost
  BY DEF OnFields, Deliver, server, field, past, Strange
<1>2. Grew(None, None, None)
  BY <1>1, SameGrew
<1>3. PICK v \in Copy : /\ i \in DOMAIN reads /\ v = reads[i].val
                        /\ v # None /\ v.id = reads[i].post
                        /\ reads[i].tag = "fields"
  BY FieldsStep
<1>4. v.comments \in SUBSET Comments /\ v.id \in Posts
  BY DEF Copy
<1>5. PICK r \in GoodRead : /\ r = GetComments(v.comments)
                            /\ r.val = None /\ r.ids = v.comments
  BY <1>4, Requests
<1>6. \A j \in DOMAIN reads' :
         \/ \E k \in DOMAIN reads : reads'[j] = reads[k]
         \/ screen = "detail" /\ reads'[j] = r
  BY <1>3, <1>5, FieldsStep DEF Taken
<1>7. screen = "detail" => mPost.id \in Posts
  BY DEF TypeInv, TypeOK, Ready, Copy
<1>8. ASSUME screen = "detail", odd' # Crossed PROVE v.id = mPost.id
  <2>1. ~reads[i].stale
    BY <1>8, FieldsStep DEF Noticed
  <2> QED
    BY <1>1, <1>3, <1>8, <2>1 DEF KeptInv, AllKept, ReadsKept, ReadKept
<1>9. ASSUME NEW S, NEW q \in Posts, Holds(S, q)' PROVE Filed(S, q)
  <2>1. CASE screen # "detail"
    <3>1. Plain
      BY <1>6, <2>1 DEF Plain
    <3> QED
      BY <1>1, <1>9, <2>1, <3>1, ReadsFiled
  <2>2. CASE screen = "detail"
    <3>1. InReads(v.comments, v.id)
      BY <1>3 DEF InReads
    <3>2. CASE InDocs(S, q)' \/ InWrites(S, q)'
      BY <1>1, <3>2 DEF InDocs, InWrites, Holds, Filed
    <3>3. CASE InCopies(S, q)'
      <4>1. q = v.id
        BY <1>1, <1>3, <2>2, <3>3 DEF InCopies
      <4>2. S = v.comments \/ InCopies(S, mPost.id)
        BY <1>1, <1>3, <2>2, <3>3 DEF InCopies
      <4> QED
        BY <1>7, <1>8, <2>2, <3>1, <4>1, <4>2 DEF Holds, Filed
    <3>4. CASE InReads(S, q)'
      <4>1. PICK j \in DOMAIN reads' :
               \/ ~reads'[j].stale /\ q = v.id /\ S = reads'[j].ids
               \/ /\ reads'[j].val # None /\ reads'[j].val.id = q
                  /\ S = reads'[j].val.comments
        BY <1>1, <1>3, <2>2, <3>4 DEF InReads
      <4>2. CASE reads'[j] = r
        BY <1>5, <3>1, <4>1, <4>2 DEF Holds, Filed
      <4>3. CASE \E k \in DOMAIN reads : reads'[j] = reads[k]
        <5>1. InReads(S, q) \/ (q = v.id /\ InReads(S, mPost.id))
          BY <4>1, <4>3 DEF InReads
        <5> QED
          BY <1>7, <1>8, <2>2, <5>1 DEF Holds, Filed
      <4> QED
        BY <1>6, <4>2, <4>3
    <3> QED
      BY <1>9, <3>2, <3>3, <3>4 DEF Holds
  <2> QED
    BY <2>1, <2>2
<1>10. mComments # {} /\ odd' # Crossed => mPost'.id = mPost.id
  BY <1>1, <1>3, <1>8
<1>11. ReplyTo' /\ KnownInv'
  BY <1>1, <1>2, <1>10, ScreenStays
<1> QED
  BY <1>1, <1>2, <1>9, <1>11, ThreadStep

LEMMA ExistsMade ==
    ASSUME TypeInv, NEW c \in Comments, Exists(c)
    PROVE  \E q \in Posts : Made(c, q, Parent(c)) /\ Parent(c) \in Parents
<1>1. CASE comments[c] # None
  <2>1. PICK k \in Comment : comments[c] = k
    BY <1>1 DEF TypeInv, TypeOK
  <2>2. k = [post |-> k.post, parent |-> k.parent] /\ k.post \in Posts
    BY DEF Comment
  <2>3. Parent(c) = k.parent
    BY <1>1, <2>1 DEF Parent
  <2> QED
    BY <2>1, <2>2, <2>3, ParentType DEF Made, Parents
<1>2. CASE comments[c] = None
  <2>1. PICK i \in DOMAIN queue : queue[i].id = c
    BY <1>2 DEF Exists
  <2>2. \E w \in Range(queue) : w.id = c
    BY <2>1 DEF Range
  <2>3. PICK w \in Range(queue) : w.id = c /\ Parent(c) = w.parent
    BY <1>2, <2>2 DEF Parent
  <2>4. PICK j \in DOMAIN queue : w = queue[j]
    BY <2>3 DEF Range
  <2>5. w.post \in Posts
    BY <2>4, Elements DEF GoodWrite, Write
  <2>6. Made(c, w.post, Parent(c))
    BY <2>3, <2>4 DEF Made
  <2> QED
    BY <2>5, <2>6, ParentType DEF Parents
<1> QED
  BY <1>1, <1>2

\* What the screen lists is as it was made.
LEMMA CommentsThreads ==
    ASSUME TypeInv, ThreadInv, NEW i, OnComments(i)
    PROVE  ThreadInv'
<1>1. /\ UNCHANGED <<docs, comments, queue, mPost, mNewPost, ids, rushed>>
      /\ odd = Crossed => odd' = Crossed
  BY DEF OnComments, Deliver, server, past, Strange
<1>2. Grew(None, None, None)
  BY <1>1, SameGrew
<1>3. Plain
  BY CommentsStep DEF Taken, Plain
<1>4. ASSUME NEW S, NEW q \in Posts, Holds(S, q)' PROVE Filed(S, q)
  BY <1>1, <1>3, <1>4, ReadsFiled
<1>5. ReplyTo'
  <2>1. CASE screen = "detail" /\ mUser
    BY <2>1 DEF OnComments, Populate, ReplyTo
  <2>2. CASE screen = "detail" /\ ~mUser
    BY <2>2 DEF OnComments, field, ReplyTo, TypeInv, Ready
  <2>3. CASE screen # "detail"
    BY <2>3 DEF OnComments, field, ThreadInv, ReplyTo
  <2> QED
    BY <2>1, <2>2, <2>3
<1> DEFINE found == {[id |-> c, parent |-> Parent(c)] :
                        c \in {e \in reads[i].ids : Exists(e)}}
<1>6. mComments' = mComments \/ (screen = "detail" /\ mComments' = found)
  BY DEF OnComments
<1>7. KnownInv'
  <2>1. CASE mComments' = mComments
    BY <1>1, <1>2, <2>1, GrewKnown DEF ThreadInv
  <2>2. CASE screen = "detail" /\ mComments' = found
    <3>1. ASSUME odd' # Crossed, NEW m \in found
          PROVE  Rec(m.id, mPost.id, m.parent)'
      <4>1. PICK c \in reads[i].ids :
               Exists(c) /\ m = [id |-> c, parent |-> Parent(c)]
        BY <3>1
      <4>2. m.id = c /\ m.parent = Parent(c)
        BY <4>1
      <4>3. i \in DOMAIN reads /\ ~reads[i].stale
        BY <2>2, <3>1, CommentsStep DEF Noticed
      <4>4. PICK p \in Posts : p = mPost.id
        BY <2>2 DEF TypeInv, TypeOK, Ready, Copy
      <4>5. Of(reads[i].ids, p)
        <5>1. InReads(reads[i].ids, p)
          BY <4>3, <4>4 DEF InReads
        <5> QED
          BY <1>1, <3>1, <5>1 DEF ThreadInv, ListsInv, Holds
      <4>6. c \in Comments
        BY <4>3, ReadIds
      <4>7. PICK q \in Posts : /\ Made(c, q, Parent(c))
                               /\ Parent(c) \in Parents
        BY <4>1, <4>6, ExistsMade
      <4>8. q = p
        BY <4>5, <4>7 DEF Of
      <4>9. PICK k \in Parents : k = Parent(c)
        BY <4>7
      <4>10. Rec(c, p, k)
        BY <4>6, <4>7, <4>8, <4>9 DEF ThreadInv, OnceInv
      <4>11. Rec(c, p, k)'
        BY <1>2, <4>6, <4>10, GrewRec
      <4> QED
        BY <1>1, <4>2, <4>4, <4>9, <4>11
    <3> QED
      BY <2>2, <3>1 DEF KnownInv
  <2> QED
    BY <1>6, <2>1, <2>2
<1> QED
  BY <1>1, <1>2, <1>4, <1>5, <1>7, ThreadStep

LEMMA NextThreads ==
    TypeInv /\ KeptInv /\ ShownInv /\ ShownIsStored /\ ThreadInv
    /\ [Next]_vars
       => ThreadInv'
<1>1. TypeInv /\ ThreadInv /\ UNCHANGED vars => ThreadInv'
  <2> SUFFICES ASSUME TypeInv, ThreadInv, UNCHANGED vars PROVE ThreadInv'
    OBVIOUS
  <2>1. Grew(None, None, None)
    BY SameGrew DEF vars
  <2>2. Plain
    BY DEF vars, Plain
  <2>3. ASSUME NEW S, NEW q \in Posts, Holds(S, q)' PROVE Filed(S, q)
    BY <2>2, <2>3, ReadsFiled DEF vars
  <2>4. ReplyTo' /\ KnownInv'
    BY <2>1, ScreenStays DEF vars
  <2> QED
    BY <2>1, <2>3, <2>4, ThreadStep DEF vars
<1>2. TypeInv /\ ShownInv /\ ShownIsStored /\ ThreadInv /\ User => ThreadInv'
  BY OpenThreads, BackThreads, ScreenThreads, CommentTapThreads,
     PostTapThreads DEF User
<1>3. TypeInv /\ KeptInv /\ ThreadInv /\ Answer => ThreadInv'
  <2> SUFFICES ASSUME TypeInv, KeptInv, ThreadInv, Answer PROVE ThreadInv'
    OBVIOUS
  <2>1. ASSUME NEW ok \in BOOLEAN, OnUpdateComment(ok) PROVE ThreadInv'
    BY <2>1, UpdateCommentThreads
  <2>2. ASSUME NEW ok \in BOOLEAN, OnUpdateValue(ok) \/ OnEdited(ok)
        PROVE  ThreadInv'
    BY <2>2, SavedThreads
  <2>3. ASSUME NEW i, ServeRead(i) PROVE ThreadInv'
    BY <2>3, ReadThreads
  <2>4. ASSUME NEW i, OnCurrentUser(i) \/ OnAuthor(i) PROVE ThreadInv'
    BY <2>4, OtherAnswerThreads
  <2>5. ASSUME NEW i, OnFields(i) PROVE ThreadInv'
    BY <2>5, FieldsThreads
  <2>6. ASSUME NEW i, OnComments(i) PROVE ThreadInv'
    BY <2>6, CommentsThreads
  <2> QED
    BY ONLY Answer, <2>1, <2>2, <2>3, <2>4, <2>5, <2>6, Zenon DEF Answer
<1>4. TypeInv /\ ThreadInv /\ (\E i \in 1..MaxReads : LoseRead(i))
         => ThreadInv'
  BY ReadThreads
<1>5. TypeInv /\ ThreadInv
      /\ (\E p \in Posts, c \in Comments : OthersComment(p, c))
         => ThreadInv'
  BY OthersThreads
<1> QED
  BY ONLY <1>1, <1>2, <1>3, <1>4, <1>5, Zenon DEF Next

LEMMA InitThreads == Init => ThreadInv
<1> SUFFICES ASSUME Init PROVE ThreadInv
  OBVIOUS
<1>1. /\ comments = Old /\ DOMAIN queue = {} /\ DOMAIN reads = {}
      /\ mPost = None /\ mNewPost = None /\ mComments = {} /\ reply = None
      /\ ids = {c \in Comments : Old[c] # None}
      /\ \A p \in Posts : docs[p].comments =
            {c \in Comments : Old[c] # None /\ Old[c].post = p}
  BY DEF Init
<1>2. ASSUME NEW c \in Comments, NEW p \in Posts, NEW k \in Parents,
             Made(c, p, k)
      PROVE  /\ Old[c] # None /\ c \in ids
             /\ Old[c].post = p /\ Old[c].parent = k
             /\ k # None => /\ Made(k, p, None) /\ k \in Comments
                            /\ Old[k] # None /\ Old[k].post = p
  <2>1. Old[c] = [post |-> p, parent |-> k]
    BY <1>1, <1>2 DEF Made
  <2>2. [post |-> p, parent |-> k] \in Comment
    BY DEF Comment, Parents
  <2>3. Old[c] # None
    BY <2>1, <2>2
  <2>4. ASSUME k # None
        PROVE  /\ Made(k, p, None) /\ k \in Comments
               /\ Old[k] # None /\ Old[k].post = p
    <3>1. k \in Comments /\ Old[k] = [post |-> p, parent |-> None]
      BY <2>1, <2>3, <2>4, OldThreads DEF Parents
    <3>2. [post |-> p, parent |-> None] \in Comment
      BY DEF Comment
    <3> QED
      BY <1>1, <3>1, <3>2 DEF Made
  <2> QED
    BY <1>1, <2>1, <2>3, <2>4
<1>3. OnceInv
  BY <1>2 DEF OnceInv, Rec
<1>4. Levels
  <2>1. ASSUME NEW c \in Comments, NEW p \in Posts, NEW k \in Comments,
               Made(c, p, k)
        PROVE  Rec(k, p, None) /\ comments[k] # None
    <3>1. k \in Parents /\ k # None /\ None \in Parents
      BY DEF Parents
    <3>2. Made(k, p, None) /\ Old[k] # None
      BY <1>2, <2>1, <3>1
    <3> QED
      BY <1>1, <1>3, <3>1, <3>2 DEF OnceInv
  <2> QED
    BY <2>1 DEF Levels
<1>5. ASSUME NEW S, NEW p \in Posts, Holds(S, p) PROVE Closed(S) /\ Of(S, p)
  <2>1. S = {c \in Comments : Old[c] # None /\ Old[c].post = p}
    BY <1>1, <1>5 DEF Holds, InDocs, InCopies, InReads, InWrites
  <2>2. ASSUME NEW c \in S, NEW q \in Posts, NEW k \in Parents, Made(c, q, k)
        PROVE  q = p /\ k \in S \cup {None}
    <3>1. c \in Comments /\ Old[c].post = p
      BY <2>1
    <3> QED
      BY <1>2, <2>1, <2>2, <3>1
  <2>3. S \subseteq ids
    BY <1>1, <2>1
  <2> QED
    BY <2>2, <2>3 DEF Closed, Of
<1>6. ListsInv
  BY <1>5 DEF ListsInv
<1>7. ReplyTo /\ KnownInv
  BY <1>1 DEF ReplyTo, KnownInv
<1> QED
  BY <1>3, <1>4, <1>6, <1>7 DEF ThreadInv

(* A reply is to the top of a thread, which the screen shows.  What it      *)
(* shows was stored, or was being stored, with the post and the parent that *)
(* it has; and the post's list, wherever a copy of it is, has the parents   *)
(* of its comments, but for those made before the screen was quiet.         *)
THEOREM ThreadsStay == Spec => []RepliesStay
<1>1. Init => TypeInv /\ KeptInv /\ ThreadInv
  <2>1. Init => KeptInv
    BY EmptySeq DEF Init, KeptInv, AllKept, DocsKept, WritesKept,
       CopiesKept, ReadsKept, MineKept, FormKept
  <2> QED
    BY <2>1, InitType, InitThreads
<1>2. TypeInv /\ KeptInv /\ ShownInv /\ ShownIsStored /\ ThreadInv
      /\ [Next]_vars
         => TypeInv' /\ KeptInv' /\ ThreadInv'
  BY NextType, NextKept, NextThreads
<1>3. TypeInv /\ ThreadInv => RepliesStay
  <2> SUFFICES ASSUME TypeInv, ThreadInv PROVE RepliesStay
    OBVIOUS
  <2>1. ASSUME NEW c \in Comments, comments[c] # None
        PROVE  /\ comments[c].post \in Posts
               /\ comments[c].parent \in Parents
               /\ Made(c, comments[c].post, comments[c].parent)
    <3>1. PICK r \in Comment : comments[c] = r
      BY <2>1 DEF TypeInv, TypeOK
    <3>2. r = [post |-> r.post, parent |-> r.parent]
          /\ r.post \in Posts /\ r.parent \in Parents
      BY DEF Comment, Parents
    <3> QED
      BY <3>1, <3>2 DEF Made
  <2>2. ASSUME NEW c \in Comments, comments[c] # None,
               comments[c].parent # None, odd # Crossed
        PROVE  \/ comments[comments[c].parent] =
                     [post |-> comments[c].post, parent |-> None]
               \/ comments[comments[c].parent] = None /\ c \in rushed
    <3>1. PICK p \in Posts, k \in Parents :
             p = comments[c].post /\ k = comments[c].parent /\ Made(c, p, k)
      BY <2>1, <2>2
    <3>2. k \in Comments
      BY <2>2, <3>1 DEF Parents
    <3>3. Rec(k, p, None) /\ (c \in rushed \/ comments[k] # None)
      BY <2>2, <3>1, <3>2 DEF ThreadInv, Levels
    <3>4. ASSUME comments[k] # None
          PROVE  comments[k] = [post |-> p, parent |-> None]
      <4>1. PICK r \in Comment : comments[k] = r
        BY <3>2, <3>4 DEF TypeInv, TypeOK
      <4>2. r = [post |-> r.post, parent |-> r.parent]
        BY DEF Comment
      <4>3. r.post = p /\ r.parent = None
        BY <2>1, <3>2, <3>3, <3>4, <4>1 DEF Rec
      <4> QED
        BY <4>1, <4>2, <4>3
    <3> QED
      BY <3>1, <3>3, <3>4
  <2>3. ASSUME NEW p \in Posts, NEW c \in docs[p].comments,
               comments[c] # None, c \notin rushed
        PROVE  comments[c].parent \in docs[p].comments \cup {None}
    <3>1. PICK S : S = docs[p].comments
      OBVIOUS
    <3>2. Closed(S) /\ S \subseteq Comments
      BY <3>1 DEF ThreadInv, ListsInv, Holds, InDocs, TypeInv, TypeOK, Doc
    <3>3. c \in S \ rushed /\ c \in Comments
      BY <2>3, <3>1, <3>2
    <3> QED
      BY <2>1, <2>3, <3>1, <3>2, <3>3 DEF Closed
  <2> QED
    BY <2>2, <2>3 DEF RepliesStay
<1>4. Spec => []ShownIsStored
  BY ShowsStored
<1>5. Spec => [](TypeInv /\ ShownInv)
  BY ShownAlways
<1> QED
  BY <1>1, <1>2, <1>3, <1>4, <1>5, PTL DEF Spec
=============================================================================
