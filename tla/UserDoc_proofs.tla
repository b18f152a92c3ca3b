--------------------------- MODULE UserDoc_proofs ---------------------------
(***************************************************************************)
(* Theorems about UserDoc, for any number of devices, users, comments,     *)
(* reads and writes under way: a device saves its own user's profile only, *)
(* no reaction is lost with it, no comment counts a reaction of nobody,    *)
(* a user who waits finds everything there, and the comment tapped last is *)
(* stored as it is shown.                                                  *)
(***************************************************************************)
EXTENDS UserDoc, SequenceTheorems, TLAPS

USE UserDocAssumption

-----------------------------------------------------------------------------
(* Records *)

LEMMA Records ==
    /\ \A f \in Fields, c \in Comments :
          /\ Mark(f, c) \in Write /\ Mark(f, c).kind = "mark"
          /\ Mark(f, c).field = f /\ Mark(f, c).comment = c
          /\ ~Mark(f, c).deaf
    /\ \A f \in Fields, h \in Held :
          /\ Count(f, h) \in Write /\ Count(f, h).kind = "count"
          /\ Count(f, h).comment = h.comment
          /\ Count(f, h).counter = h.counter
    /\ \A p \in Copy :
          /\ Profile(p) \in Write /\ Profile(p).kind = "profile"
          /\ Profile(p).copy = p
BY DEF Mark, Count, Profile, Write, Held

LEMMA Requests ==
    ASSUME NEW tag \in {"current", "info"}, NEW u \in Users
    PROVE  /\ Request(tag, u) \in Read /\ Request(tag, u).tag = tag
           /\ Request(tag, u).user = u /\ Request(tag, u).doc = None
BY DEF Request, Read

-----------------------------------------------------------------------------
(* Sequences *)

LEMMA Grown ==
    ASSUME NEW S, NEW q \in Seq(S), NEW w \in S
    PROVE  /\ Append(q, w) \in Seq(S) /\ Append(q, w) # <<>>
           /\ Len(q) \in Nat /\ DOMAIN q = 1..Len(q)
           /\ Len(Append(q, w)) = Len(q) + 1
           /\ DOMAIN Append(q, w) = 1..(Len(q) + 1)
           /\ \A i \in DOMAIN q : Append(q, w)[i] = q[i]
           /\ Append(q, w)[Len(q) + 1] = w
<1>1. Len(q) \in Nat /\ DOMAIN q = 1..Len(q)
  BY LenProperties
<1>2. /\ Append(q, w) \in Seq(S)
      /\ Len(Append(q, w)) = Len(q) + 1
      /\ \A i \in 1..Len(q) : Append(q, w)[i] = q[i]
      /\ Append(q, w)[Len(q) + 1] = w
  BY AppendProperties
<1>3. DOMAIN Append(q, w) = 1..(Len(q) + 1)
  BY <1>2, LenProperties
<1>4. Append(q, w) # <<>>
  BY <1>1, <1>2, EmptySeq
<1> QED
  BY <1>1, <1>2, <1>3, <1>4

LEMMA Shifted ==
    ASSUME NEW S, NEW q \in Seq(S), q # <<>>
    PROVE  /\ Head(q) \in S /\ Tail(q) \in Seq(S)
           /\ 1 \in DOMAIN q /\ Head(q) = q[1]
           /\ Len(q) \in Nat \ {0} /\ Len(Tail(q)) = Len(q) - 1
           /\ DOMAIN q = 1..Len(q) /\ DOMAIN Tail(q) = 1..(Len(q) - 1)
           /\ \A i \in DOMAIN Tail(q) :
                 i + 1 \in DOMAIN q /\ Tail(q)[i] = q[i + 1]
<1>1. /\ Len(q) \in Nat \ {0} /\ DOMAIN q = 1..Len(q)
  BY LenProperties, EmptySeq
<1>2. /\ Head(q) \in S /\ Tail(q) \in Seq(S)
      /\ Len(Tail(q)) = Len(q) - 1
      /\ \A i \in 1..Len(Tail(q)) : Tail(q)[i] = q[i + 1]
  BY HeadTailProperties
<1>3. DOMAIN Tail(q) = 1..(Len(q) - 1)
  BY <1>2, LenProperties
<1>4. Head(q) = q[1]
  BY <1>1
<1> QED
  BY <1>1, <1>2, <1>3, <1>4

LEMMA Removed ==
    ASSUME NEW S, NEW q \in Seq(S), NEW i \in DOMAIN q
    PROVE  /\ RemoveAt(q, i) \in Seq(S)
           /\ Len(RemoveAt(q, i)) = Len(q) - 1
           /\ \A j \in DOMAIN RemoveAt(q, i) : \E k \in DOMAIN q :
                 RemoveAt(q, i)[j] = q[k]
<1>1. Len(q) \in Nat /\ DOMAIN q = 1..Len(q) /\ i \in 1..Len(q)
  BY LenProperties
<1> DEFINE a == SubSeq(q, 1, i - 1)
           b == SubSeq(q, i + 1, Len(q))
<1>2. /\ a \in Seq(S) /\ Len(a) = i - 1
      /\ \A k \in 1..(i - 1) : a[k] = q[k]
  BY <1>1, SubSeqProperties, SMTT(20)
<1>3. /\ b \in Seq(S) /\ Len(b) = Len(q) - i
      /\ \A k \in 1..(Len(q) - i) : b[k] = q[i + k]
  BY <1>1, SubSeqProperties, SMTT(20)
<1> DEFINE c == a \o b
<1>4. /\ c \in Seq(S) /\ Len(c) = Len(a) + Len(b)
      /\ \A k \in 1..(Len(a) + Len(b)) :
            c[k] = IF k <= Len(a) THEN a[k] ELSE b[k - Len(a)]
  <2> HIDE DEF a, b
  <2> QED
    BY <1>2, <1>3, ConcatProperties
<1>5. RemoveAt(q, i) = c
  BY DEF RemoveAt
<1> HIDE DEF a, b, c
<1>6. DOMAIN c = 1..Len(c) /\ Len(c) = Len(q) - 1
  BY <1>1, <1>2, <1>3, <1>4, LenProperties
<1>7. ASSUME NEW j \in 1..(Len(q) - 1)
      PROVE  \E k \in DOMAIN q : c[j] = q[k]
  <2>0. j \in Nat /\ j >= 1 /\ j <= Len(q) - 1 /\ i \in Nat
    BY <1>1
  <2>1. CASE j <= i - 1
    <3>1. c[j] = a[j] /\ a[j] = q[j] /\ j \in DOMAIN q
      BY <1>1, <1>2, <1>3, <1>4, <2>0, <2>1
    <3> QED
      BY <3>1
  <2>2. CASE j > i - 1
    <3>1. PICK k \in 1..(Len(q) - i) : k = j - (i - 1)
      BY <1>1, <2>0, <2>2
    <3>2. b[k] = q[i + k] /\ i + k \in DOMAIN q
      BY <1>1, <1>3, <2>0, <3>1
    <3>3. j \in 1..(Len(a) + Len(b)) /\ ~(j <= Len(a)) /\ j - Len(a) = k
      BY <1>1, <1>2, <1>3, <2>0, <2>2, <3>1
    <3>4. c[j] = b[k]
      BY ONLY <1>4, <3>3
    <3> QED
      BY <3>2, <3>4
  <2> QED
    BY <2>0, <2>1, <2>2
<1> QED
  BY <1>1, <1>4, <1>5, <1>6, <1>7

-----------------------------------------------------------------------------
(* Types *)

\* A write that was made of something.
Proper ==
    {w \in Write :
        /\ w.kind = "mark" => w.field \in Fields /\ w.comment \in Comments
        /\ w.kind = "count" => w.comment \in Comments /\ w.counter \in Counter
        /\ w.kind = "profile" => w.copy \in Copy}

\* Screens are there with what they are about.
Ready(d) ==
    /\ screen[d] \in {"post", "edit"} => mUser[d] # None
    /\ OnPost(d) => author[d] # None

TypeInv ==
    /\ TypeOK
    /\ queue \in [Devices -> Seq(Proper)]
    /\ acks \in [Devices -> Seq(Proper)]
    /\ \A d \in Devices : Ready(d)

LEMMA ProperSeqs ==
    ASSUME NEW q \in [Devices -> Seq(Proper)]
    PROVE  q \in [Devices -> Seq(Write)]
<1>1. ASSUME NEW s \in Seq(Proper) PROVE s \in Seq(Write)
  <2>1. \A i \in 1..Len(s) : s[i] \in Write
    BY ElementOfSeq DEF Proper
  <2>2. Len(s) \in Nat /\ s = [i \in 1..Len(s) |-> s[i]]
    BY LenProperties
  <2>3. [i \in 1..Len(s) |-> s[i]] \in Seq(Write)
    BY <2>1, <2>2, IsASeq
  <2> QED
    BY <2>2, <2>3
<1> QED
  BY <1>1
-----------------------------------------------------------------------------
(* What steps do to the queues of a device *)

LEMMA SentStep ==
    ASSUME TypeInv, NEW d \in Devices, NEW w \in Proper, Send(d, w)
    PROVE  /\ queue' \in [Devices -> Seq(Proper)]
           /\ \A e \in Devices \ {d} : queue'[e] = queue[e]
           /\ Len(queue[d]) \in Nat /\ DOMAIN queue[d] = 1..Len(queue[d])
           /\ Len(queue'[d]) = Len(queue[d]) + 1
           /\ DOMAIN queue'[d] = 1..(Len(queue[d]) + 1)
           /\ \A i \in DOMAIN queue[d] : queue'[d][i] = queue[d][i]
           /\ queue'[d][Len(queue[d]) + 1] = w
<1>1. PICK q \in Seq(Proper) : queue[d] = q
  BY DEF TypeInv
<1>2. Append(q, w) \in Seq(Proper)
  BY Grown
<1>3. /\ queue' \in [Devices -> Seq(Proper)]
      /\ \A e \in Devices \ {d} : queue'[e] = queue[e]
      /\ queue'[d] = Append(q, w)
  BY <1>1, <1>2 DEF Send, TypeInv, TypeOK
<1> QED
  BY <1>1, <1>3, Grown

LEMMA AskedStep ==
    ASSUME TypeInv, NEW d \in Devices, NEW tag \in {"current", "info"},
           NEW u \in Users, Ask(d, tag, u)
    PROVE  /\ reads' \in [Devices -> Seq(Read)]
           /\ \A e \in Devices \ {d} : reads'[e] = reads[e]
           /\ reads'[d] # <<>>
           /\ \A i \in DOMAIN reads'[d] :
                 \/ i \in DOMAIN reads[d] /\ reads'[d][i] = reads[d][i]
                 \/ reads'[d][i] = Request(tag, u)
<1>1. PICK q \in Seq(Read) : reads[d] = q
  BY DEF TypeInv, TypeOK
<1>2. PICK r \in Read : r = Request(tag, u)
  BY Requests
<1>3. Append(q, r) \in Seq(Read)
  BY Grown
<1>4. /\ reads' \in [Devices -> Seq(Read)]
      /\ \A e \in Devices \ {d} : reads'[e] = reads[e]
      /\ reads'[d] = Append(q, r)
  BY <1>1, <1>2, <1>3 DEF Ask, TypeInv, TypeOK
<1>5. /\ Append(q, r) # <<>>
      /\ \A i \in DOMAIN Append(q, r) :
            \/ i \in DOMAIN q /\ Append(q, r)[i] = q[i]
            \/ Append(q, r)[i] = r
  BY Grown
<1> QED
  BY <1>1, <1>2, <1>4, <1>5

\* A read of a device is answered and gone.
LEMMA TakenStep ==
    ASSUME TypeInv, NEW d \in Devices, NEW i \in DOMAIN reads[d],
           reads' = [reads EXCEPT ![d] = RemoveAt(@, i)]
    PROVE  /\ reads' \in [Devices -> Seq(Read)]
           /\ \A e \in Devices \ {d} : reads'[e] = reads[e]
           /\ \A j \in DOMAIN reads'[d] : \E k \in DOMAIN reads[d] :
                 reads'[d][j] = reads[d][k]
<1>1. PICK q \in Seq(Read) : reads[d] = q
  BY DEF TypeInv, TypeOK
<1>2. /\ RemoveAt(q, i) \in Seq(Read)
      /\ \A j \in DOMAIN RemoveAt(q, i) : \E k \in DOMAIN q :
            RemoveAt(q, i)[j] = q[k]
  BY <1>1, Removed
<1>3. /\ reads' \in [Devices -> Seq(Read)]
      /\ \A e \in Devices \ {d} : reads'[e] = reads[e]
      /\ reads'[d] = RemoveAt(q, i)
  BY <1>1, <1>2 DEF TypeInv, TypeOK
<1> QED
  BY <1>1, <1>2, <1>3

LEMMA HeardStep ==
    ASSUME TypeInv, NEW d \in Devices, acks[d] # <<>>, Hear(d)
    PROVE  /\ acks' \in [Devices -> Seq(Proper)]
           /\ \A e \in Devices \ {d} : acks'[e] = acks[e]
           /\ Head(acks[d]) \in Proper
           /\ 1 \in DOMAIN acks[d] /\ Head(acks[d]) = acks[d][1]
           /\ \A i \in DOMAIN acks'[d] : \E j \in DOMAIN acks[d] :
                 acks'[d][i] = acks[d][j]
<1>1. PICK q \in Seq(Proper) : acks[d] = q /\ q # <<>>
  BY DEF TypeInv, TypeOK
<1>2. /\ Head(q) \in Proper /\ Tail(q) \in Seq(Proper)
      /\ 1 \in DOMAIN q /\ Head(q) = q[1]
      /\ \A i \in DOMAIN Tail(q) :
            i + 1 \in DOMAIN q /\ Tail(q)[i] = q[i + 1]
  BY <1>1, Shifted
<1>3. /\ acks' \in [Devices -> Seq(Proper)]
      /\ \A e \in Devices \ {d} : acks'[e] = acks[e]
      /\ acks'[d] = Tail(q)
  BY <1>1, <1>2 DEF Hear, TypeInv, TypeOK
<1> QED
  BY <1>1, <1>2, <1>3

\* The oldest write of a device is gone.
LEMMA OldestGone ==
    ASSUME TypeInv, NEW d \in Devices, queue[d] # <<>>,
           queue' = [queue EXCEPT ![d] = Tail(@)]
    PROVE  /\ queue' \in [Devices -> Seq(Proper)]
           /\ \A e \in Devices \ {d} : queue'[e] = queue[e]
           /\ Head(queue[d]) \in Proper
           /\ 1 \in DOMAIN queue[d] /\ Head(queue[d]) = queue[d][1]
           /\ Len(queue[d]) \in Nat \ {0}
           /\ DOMAIN queue[d] = 1..Len(queue[d])
           /\ DOMAIN queue'[d] = 1..(Len(queue[d]) - 1)
           /\ \A i \in DOMAIN queue'[d] :
                 i + 1 \in DOMAIN queue[d] /\ queue'[d][i] = queue[d][i + 1]
<1>1. PICK q \in Seq(Proper) : queue[d] = q /\ q # <<>>
  BY DEF TypeInv, TypeOK
<1>2. Tail(q) \in Seq(Proper)
  BY <1>1, Shifted
<1>3. /\ queue' \in [Devices -> Seq(Proper)]
      /\ \A e \in Devices \ {d} : queue'[e] = queue[e]
      /\ queue'[d] = Tail(q)
  BY <1>1, <1>2 DEF TypeInv, TypeOK
<1> QED
  BY <1>1, <1>3, Shifted

-----------------------------------------------------------------------------
(* Types are kept *)

LEMMA InitType == Init => TypeInv
<1>1. <<>> \in Seq(Proper) /\ <<>> \in Seq(Read) /\ <<>> \in Seq(Write)
  OBVIOUS
<1>2. Zero \in Counter
  BY DEF Zero, Counter
<1> QED
  BY <1>1, <1>2 DEF Init, TypeInv, TypeOK, Ready, OnPost

LEMMA StrayType ==
    ASSUME TypeOK, NEW d \in Devices, NEW what \in SUBSET {"read", "mark"},
           Stray(d, what)
    PROVE  /\ astray' \in [Devices -> SUBSET {"read", "mark"}]
           /\ \A e \in Devices \ {d} : astray'[e] = astray[e]
           /\ astray'[d] = astray[d] \cup what
BY DEF Stray, TypeOK

LEMMA StartDetailType ==
    ASSUME TypeInv, NEW d \in Devices, NEW s \in {"detail", "post"},
           NEW u \in Users, StartDetail(d, s, u)
    PROVE  /\ screen' \in [Devices ->
                              {"core", "detail", "post", "profile", "edit"}]
           /\ author' \in [Devices -> Users \cup {None}]
           /\ shown' \in [Devices -> [Comments -> Counter] \cup {None}]
           /\ loads' \in [Devices -> Nat]
           /\ mComment' \in [Devices -> Held \cup {None}]
           /\ reads' \in [Devices -> Seq(Read)]
           /\ screen'[d] = s /\ author'[d] = u /\ author'[d] # None
           /\ \A e \in Devices \ {d} :
                 screen'[e] = screen[e] /\ author'[e] = author[e]
<1>1. Me[d] \in Users
  OBVIOUS
<1>2. reads' \in [Devices -> Seq(Read)]
  BY <1>1, AskedStep DEF StartDetail
<1> QED
  BY <1>2 DEF StartDetail, TypeInv, TypeOK

LEMMA UserType ==
    ASSUME TypeInv, NEW d \in Devices, User(d)
    PROVE  TypeInv'
<1> USE DEF Tap, server, post, edit, past
<1>a. /\ Unread(d) \in SUBSET {"read", "mark"}
      /\ Me[d] \in Users
  BY DEF Unread
<1>1. ASSUME NEW u \in Users, OpenDetail(d, u) PROVE TypeInv'
  <2>1. StartDetail(d, "detail", u)
    BY <1>1 DEF OpenDetail
  <2>2. TypeOK'
    BY <1>1, <2>1, StartDetailType DEF OpenDetail, TypeInv, TypeOK
  <2>3. \A e \in Devices : Ready(e)'
    BY <1>1, <2>1, StartDetailType DEF OpenDetail, TypeInv, Ready, OnPost
  <2> QED
    BY <1>1, <2>2, <2>3 DEF OpenDetail, TypeInv
<1>2. ASSUME OpenOwnPost(d) PROVE TypeInv'
  <2>1. PICK u \in Users : mUser[d].id = u
    BY <1>2 DEF OpenOwnPost, TypeInv, TypeOK, Copy
  <2>2. PICK what \in SUBSET {"read", "mark"} :
           StartDetail(d, "post", u) /\ Stray(d, what)
    BY <1>a, <1>2, <2>1 DEF OpenOwnPost
  <2>3. astray' \in [Devices -> SUBSET {"read", "mark"}]
    BY <2>2, StrayType DEF TypeInv
  <2>4. TypeOK'
    BY <1>2, <2>2, <2>3, StartDetailType, SMTT(20)
       DEF OpenOwnPost, TypeInv, TypeOK
  <2>5. /\ mUser' = mUser /\ mUser[d] # None
        /\ queue' = queue /\ acks' = acks
    BY <1>2 DEF OpenOwnPost
  <2>6. \A e \in Devices : Ready(e)'
    BY <2>2, <2>5, StartDetailType DEF TypeInv, Ready, OnPost
  <2> QED
    BY <2>4, <2>5, <2>6 DEF TypeInv
<1>3. ASSUME NEW f \in Fields, NEW c \in Comments, React(d, f, c)
      PROVE  TypeInv'
  <2>0. Mark(f, c) \in Proper
    BY Records DEF Proper
  <2>1. queue' \in [Devices -> Seq(Proper)]
    BY <1>3, <2>0, SentStep DEF React
  <2>2. shown[d] \in [Comments -> Counter] /\ shown[d][c] \in [Fields -> Nat]
    BY <1>3 DEF React, TypeInv, TypeOK, Counter
  <2>3. [shown[d][c] EXCEPT ![f] = @ + 1] \in Counter
    BY <2>2 DEF Counter
  <2>4. shown' = [shown EXCEPT ![d] = [shown[d] EXCEPT ![c] =
                     [shown[d][c] EXCEPT ![f] = @ + 1]]]
    BY <1>3 DEF React
  <2>5. /\ shown' \in [Devices -> [Comments -> Counter] \cup {None}]
        /\ shown'[d][c] \in Counter
    BY <2>2, <2>3, <2>4 DEF TypeInv, TypeOK
  <2>6. mComment' \in [Devices -> Held \cup {None}]
    BY <1>3, <2>5 DEF React, TypeInv, TypeOK, Held
  <2>7. queue' \in [Devices -> Seq(Write)]
    BY <2>1, ProperSeqs
  <2> QED
    BY <1>3, <2>1, <2>5, <2>6, <2>7
       DEF React, TypeInv, TypeOK, Ready, OnPost
<1>4. ASSUME OpenProfile(d) PROVE TypeInv'
  <2>1. reads' \in [Devices -> Seq(Read)]
    BY <1>a, <1>4, AskedStep DEF OpenProfile
  <2>2. TypeOK'
    <3>1. /\ screen' = [screen EXCEPT ![d] = "profile"]
          /\ mUser' = [mUser EXCEPT ![d] = None]
          /\ taps' = taps + 1
          /\ UNCHANGED <<users, counts, queue, acks, author, shown, loads,
                         mComment, verify, crash, astray, made, spoiled,
                         saver>>
      BY <1>4 DEF OpenProfile
    <3> QED
      BY <2>1, <3>1 DEF TypeInv, TypeOK
  <2>3. \A e \in Devices : Ready(e)'
    BY <1>4 DEF OpenProfile, TypeInv, TypeOK, Ready, OnPost
  <2> QED
    BY <1>4, <2>2, <2>3 DEF OpenProfile, TypeInv
<1>5. ASSUME EditTap(d) PROVE TypeInv'
  <2>1. PICK what \in SUBSET {"read", "mark"} : Stray(d, what)
    BY <1>a, <1>5 DEF EditTap
  <2>2. astray' \in [Devices -> SUBSET {"read", "mark"}]
    BY <2>1, StrayType DEF TypeInv
  <2>3. TypeOK'
    BY <1>5, <2>2 DEF EditTap, TypeInv, TypeOK
  <2>4. \A e \in Devices : Ready(e)'
    BY <1>5 DEF EditTap, TypeInv, TypeOK, Ready, OnPost, post
  <2> QED
    BY <1>5, <2>3, <2>4 DEF EditTap, TypeInv
<1>6. ASSUME SaveTap(d) PROVE TypeInv'
  <2>1. PICK p \in Copy : mUser[d] = p
    BY <1>6 DEF SaveTap, TypeInv, TypeOK, Ready
  <2>2. Profile(p) \in Proper
    BY Records DEF Proper
  <2>3. queue' \in [Devices -> Seq(Proper)]
    BY <1>6, <2>1, <2>2, SentStep DEF SaveTap
  <2>4. queue' \in [Devices -> Seq(Write)]
    BY <2>3, ProperSeqs
  <2> QED
    BY <1>6, <2>3, <2>4 DEF SaveTap, TypeInv, TypeOK, Ready, OnPost
<1>7. ASSUME RenameTap(d) PROVE TypeInv'
  BY <1>7 DEF RenameTap, TypeInv, TypeOK, Ready, OnPost
<1>8. ASSUME Back(d) PROVE TypeInv'
  <2>1. PICK what \in SUBSET {"read", "mark"} : Stray(d, what)
    BY <1>8, <1>a DEF Back
  <2>2. astray' \in [Devices -> SUBSET {"read", "mark"}]
    BY <2>1, StrayType DEF TypeInv
  <2>3. reads' \in [Devices -> Seq(Read)]
    BY <1>a, <1>8, AskedStep DEF Back, TypeInv, TypeOK
  <2>4. TypeOK'
    BY <1>8, <2>2, <2>3 DEF Back, TypeInv, TypeOK
  <2>5. \A e \in Devices : Ready(e)'
    BY <1>8 DEF Back, TypeInv, TypeOK, Ready, OnPost, post
  <2> QED
    BY <1>8, <2>4, <2>5 DEF Back, TypeInv
<1> QED
  BY <1>1, <1>2, <1>3, <1>4, <1>5, <1>6, <1>7, <1>8 DEF User

LEMMA AnswerType ==
    ASSUME TypeInv, NEW d \in Devices, Answer(d)
    PROVE  TypeInv'
<1> USE DEF server, post, edit, past
<1>a. Me[d] \in Users
  OBVIOUS
<1>1. ASSUME Reload(d) PROVE TypeInv'
  <2>1. [c \in Comments |-> Zero] \in [Comments -> Counter]
    BY DEF Zero, Counter
  <2> QED
    BY <1>1, <2>1 DEF Reload, TypeInv, TypeOK, Ready, OnPost
<1>2. ASSUME OnMarked(d) PROVE TypeInv'
  <2>1. /\ acks' \in [Devices -> Seq(Proper)]
        /\ Head(acks[d]).field \in Fields
    BY <1>2, HeardStep DEF OnMarked, Heard, Proper
  <2>2. queue' \in [Devices -> Seq(Proper)]
    <3>1. CASE UNCHANGED queue
      BY <3>1 DEF TypeInv
    <3>2. CASE ~UNCHANGED queue
      <4>1. PICK f \in Fields, h \in Held :
               Send(d, Count(f, h))
        BY <1>2, <2>1, <3>2 DEF OnMarked, TypeInv, TypeOK
      <4>2. Count(f, h) \in Proper
        BY Records DEF Proper, Held
      <4> QED
        BY <4>1, <4>2, SentStep
    <3> QED
      BY <3>1, <3>2
  <2>3. queue' \in [Devices -> Seq(Write)] /\ acks' \in [Devices -> Seq(Write)]
    BY <2>1, <2>2, ProperSeqs
  <2>4. crash' \in [Devices -> {"none", "noUser", "noComment"}]
    BY <1>2 DEF OnMarked, TypeInv, TypeOK
  <2> QED
    BY <1>2, <2>1, <2>2, <2>3, <2>4 DEF OnMarked, TypeInv, TypeOK, Ready, OnPost
<1>3. ASSUME OnCounted(d) PROVE TypeInv'
  <2>1. acks' \in [Devices -> Seq(Proper)]
    BY <1>3, HeardStep DEF OnCounted, Heard
  <2>2. acks' \in [Devices -> Seq(Write)]
    BY <2>1, ProperSeqs
  <2>3. loads' \in [Devices -> Nat]
    BY <1>3 DEF OnCounted, TypeInv, TypeOK
  <2> QED
    BY <1>3, <2>1, <2>2, <2>3 DEF OnCounted, TypeInv, TypeOK, Ready, OnPost
<1>4. ASSUME OnVerified(d) PROVE TypeInv'
  <2>1. queue' \in [Devices -> Seq(Proper)]
    <3>1. CASE UNCHANGED queue
      BY <3>1 DEF TypeInv
    <3>2. CASE screen[d] = "edit" /\ Send(d, Profile(mUser[d]))
      <4>1. PICK p \in Copy : mUser[d] = p
        BY <3>2 DEF TypeInv, TypeOK, Ready
      <4>2. Profile(p) \in Proper
        BY Records DEF Proper
      <4> QED
        BY <3>2, <4>1, <4>2, SentStep
    <3> QED
      BY <1>4, <3>1, <3>2 DEF OnVerified
  <2>2. queue' \in [Devices -> Seq(Write)]
    BY <2>1, ProperSeqs
  <2> QED
    BY <1>4, <2>1, <2>2 DEF OnVerified, TypeInv, TypeOK, Ready, OnPost
<1>5. ASSUME OnSaved(d) PROVE TypeInv'
  <2>1. acks' \in [Devices -> Seq(Proper)]
    BY <1>5, HeardStep DEF OnSaved, Heard
  <2>2. acks' \in [Devices -> Seq(Write)]
    BY <2>1, ProperSeqs
  <2>3. reads' \in [Devices -> Seq(Read)]
    BY <1>a, <1>5, AskedStep DEF OnSaved, TypeInv, TypeOK
  <2> QED
    BY <1>5, <2>1, <2>2, <2>3 DEF OnSaved, TypeInv, TypeOK, Ready, OnPost
<1>6. ASSUME NEW i \in 1..MaxReads, OnCurrentUser(d, i) PROVE TypeInv'
  <2>1. i \in DOMAIN reads[d]
    BY <1>6 DEF OnCurrentUser, Answered
  <2>2. PICK q \in Seq(Read) : q = RemoveAt(reads[d], i)
    BY <2>1, Removed DEF TypeInv, TypeOK
  <2>3. ASSUME OnPost(d) PROVE reads' \in [Devices -> Seq(Read)]
    <3>1. PICK u \in Users : author[d] = u
      BY <2>3 DEF TypeInv, TypeOK, Ready
    <3>2. PICK r \in Read : r = Request("info", u)
      BY Requests
    <3>3. Append(q, r) \in Seq(Read)
      BY Grown
    <3>4. reads' = [reads EXCEPT ![d] = Append(q, r)]
      BY <1>6, <2>2, <2>3, <3>1, <3>2 DEF OnCurrentUser
    <3> QED
      BY <3>3, <3>4 DEF TypeInv, TypeOK
  <2>4. ASSUME ~OnPost(d) PROVE reads' \in [Devices -> Seq(Read)]
    <3>1. reads' = [reads EXCEPT ![d] = q]
      BY <1>6, <2>2, <2>4 DEF OnCurrentUser
    <3> QED
      BY <3>1 DEF TypeInv, TypeOK
  <2>5. reads' \in [Devices -> Seq(Read)]
    BY <2>3, <2>4
  <2> QED
    BY <1>6, <2>5 DEF OnCurrentUser, TypeInv, TypeOK, Ready, OnPost
<1>7. ASSUME NEW i \in 1..MaxReads, OnUserInfo(d, i) PROVE TypeInv'
  <2>1. /\ i \in DOMAIN reads[d]
        /\ reads' = [reads EXCEPT ![d] = RemoveAt(@, i)]
    BY <1>7 DEF OnUserInfo, Answered
  <2>2. reads' \in [Devices -> Seq(Read)]
    BY <2>1, TakenStep
  <2>3. PICK p \in Copy : reads[d][i].doc = p /\ p # None
    <3>1. PICK q \in Seq(Read) : reads[d] = q
      BY DEF TypeInv, TypeOK
    <3>2. q[i] \in Read
      BY <2>1, <3>1, ElementOfSeq, LenProperties
    <3> QED
      BY <1>7, <3>1, <3>2 DEF OnUserInfo, Answered, Read
  <2>4. mUser' \in [Devices -> Copy \cup {None}]
    BY <1>7, <2>3 DEF OnUserInfo, TypeInv, TypeOK
  <2> QED
    BY <1>7, <2>2, <2>3, <2>4 DEF OnUserInfo, TypeInv, TypeOK, Ready, OnPost
<1> QED
  BY <1>1, <1>2, <1>3, <1>4, <1>5, <1>6, <1>7 DEF Answer

LEMMA ServerType ==
    ASSUME TypeInv, NEW d \in Devices, Server(d)
    PROVE  TypeInv'
<1> USE DEF server, post, edit, past
<1>1. ASSUME Commit(d) PROVE TypeInv'
  <2>1. /\ queue' \in [Devices -> Seq(Proper)]
        /\ Head(queue[d]) \in Proper
    BY <1>1, OldestGone DEF Commit
  <2>2. PICK w \in Proper : w = Head(queue[d])
    BY <2>1
  <2>3. \A u \in Users : Applied(u, users[u], w, d) \in SUBSET Marks
    BY DEF Applied, Proper, Write, Copy, Marks, TypeInv, TypeOK
  <2>4. users' \in [Users -> SUBSET Marks]
    BY <1>1, <2>2, <2>3 DEF Commit
  <2>5. acks' \in [Devices -> Seq(Proper)]
    <3>1. PICK q \in Seq(Proper) : acks[d] = q
      BY DEF TypeInv
    <3>2. Append(q, w) \in Seq(Proper)
      BY Grown
    <3>3. acks' = acks \/ acks' = [acks EXCEPT ![d] = Append(q, w)]
      BY <1>1, <2>2, <3>1 DEF Commit
    <3> QED
      BY <3>2, <3>3 DEF TypeInv
  <2>6. /\ counts' \in [Comments -> Counter]
        /\ saver' \in [Comments -> Devices \cup {None}]
    <3>1. CASE w.kind = "count"
      <4>1. /\ counts' = [counts EXCEPT ![w.comment] = w.counter]
            /\ saver' = [saver EXCEPT ![w.comment] = d]
        BY <1>1, <2>2, <3>1 DEF Commit
      <4>2. w.comment \in Comments /\ w.counter \in Counter
        BY <3>1 DEF Proper
      <4> QED
        BY <4>1, <4>2 DEF TypeInv, TypeOK
    <3>2. CASE w.kind # "count"
      BY <1>1, <2>2, <3>2 DEF Commit, TypeInv, TypeOK
    <3> QED
      BY <3>1, <3>2
  <2>7. made' \in [Devices -> SUBSET Marks]
    BY <1>1, <2>2 DEF Commit, Proper, Marks, TypeInv, TypeOK
  <2>8. spoiled' \subseteq Comments
    BY <1>1 DEF Commit, TypeInv, TypeOK
  <2>9. queue' \in [Devices -> Seq(Write)] /\ acks' \in [Devices -> Seq(Write)]
    BY <2>1, <2>5, ProperSeqs
  <2> QED
    BY <1>1, <2>1, <2>4, <2>5, <2>6, <2>7, <2>8, <2>9
       DEF Commit, TypeInv, TypeOK, Ready, OnPost
<1>2. ASSUME Refuse(d) PROVE TypeInv'
  <2>1. queue' \in [Devices -> Seq(Proper)]
    BY <1>2, OldestGone DEF Refuse
  <2>2. queue' \in [Devices -> Seq(Write)]
    BY <2>1, ProperSeqs
  <2> QED
    BY <1>2, <2>1, <2>2 DEF Refuse, TypeInv, TypeOK, Ready, OnPost
<1>3. ASSUME NEW i \in 1..MaxReads, ServeRead(d, i) PROVE TypeInv'
  <2>1. PICK q \in Seq(Read) : reads[d] = q
    BY DEF TypeInv, TypeOK
  <2>2. /\ Len(q) \in Nat /\ DOMAIN q = 1..Len(q) /\ i \in 1..Len(q)
        /\ q[i] \in Read
    BY <1>3, <2>1, LenProperties, ElementOfSeq DEF ServeRead
  <2>3. PICK p \in Copy : p = [id |-> q[i].user, marks |-> View(d, q[i].user)]
    BY <2>2 DEF Read, Copy, View, TypeInv, TypeOK
  <2>4. [q[i] EXCEPT !.doc = p] \in Read
    BY <2>2 DEF Read
  <2>5. [q EXCEPT ![i] = [q[i] EXCEPT !.doc = p]] \in Seq(Read)
    BY <2>2, <2>4, ExceptSeq
  <2>6. reads' = [reads EXCEPT ![d] = [q EXCEPT ![i] = [q[i] EXCEPT !.doc = p]]]
    BY <1>3, <2>1, <2>3 DEF ServeRead
  <2>7. reads' \in [Devices -> Seq(Read)]
    BY <2>5, <2>6 DEF TypeInv, TypeOK
  <2> QED
    BY <1>3, <2>7 DEF ServeRead, TypeInv, TypeOK, Ready, OnPost
<1>4. ASSUME NEW i \in 1..MaxReads, LoseRead(d, i) PROVE TypeInv'
  <2>1. /\ i \in DOMAIN reads[d]
        /\ reads' = [reads EXCEPT ![d] = RemoveAt(@, i)]
    BY <1>4 DEF LoseRead
  <2>2. reads' \in [Devices -> Seq(Read)]
    BY <2>1, TakenStep
  <2>3. PICK what \in SUBSET {"read", "mark"} : Stray(d, what)
    BY <1>4 DEF LoseRead
  <2>4. astray' \in [Devices -> SUBSET {"read", "mark"}]
    BY <2>3, StrayType DEF TypeInv
  <2> QED
    BY <1>4, <2>2, <2>4 DEF LoseRead, TypeInv, TypeOK, Ready, OnPost
<1> QED
  BY <1>1, <1>2, <1>3, <1>4 DEF Server

LEMMA Deafened ==
    ASSUME NEW w \in Proper
    PROVE  /\ [w EXCEPT !.deaf = TRUE] \in Proper
           /\ [w EXCEPT !.deaf = TRUE].deaf
           /\ [w EXCEPT !.deaf = TRUE].kind = w.kind
           /\ [w EXCEPT !.deaf = TRUE].field = w.field
           /\ [w EXCEPT !.deaf = TRUE].comment = w.comment
           /\ [w EXCEPT !.deaf = TRUE].counter = w.counter
           /\ [w EXCEPT !.deaf = TRUE].copy = w.copy
<1> DEFINE v == [w EXCEPT !.deaf = TRUE]
<1>1. w \in Write
  BY DEF Proper
<1>2. /\ v \in Write /\ v.deaf /\ v.kind = w.kind /\ v.field = w.field
      /\ v.comment = w.comment /\ v.counter = w.counter /\ v.copy = w.copy
  BY <1>1 DEF Write
<1> HIDE DEF v
<1>3. v \in Proper
  BY <1>2 DEF Proper
<1> QED
  BY <1>2, <1>3 DEF v

\* What the queue of an ended process is made of.
LEMMA DeafQueue ==
    ASSUME TypeInv, NEW d \in Devices, Die(d)
    PROVE  /\ queue' \in [Devices -> Seq(Proper)]
           /\ \A e \in Devices \ {d} : queue'[e] = queue[e]
           /\ DOMAIN queue'[d] = DOMAIN queue[d]
           /\ Len(queue'[d]) = Len(queue[d])
           /\ \A i \in DOMAIN queue[d] :
                 /\ queue'[d][i].deaf
                 /\ queue'[d][i].kind = queue[d][i].kind
                 /\ queue'[d][i].field = queue[d][i].field
                 /\ queue'[d][i].comment = queue[d][i].comment
                 /\ queue'[d][i].counter = queue[d][i].counter
                 /\ queue'[d][i].copy = queue[d][i].copy
<1>1. PICK q \in Seq(Proper) : queue[d] = q
  BY DEF TypeInv
<1>2. /\ Len(q) \in Nat /\ DOMAIN q = 1..Len(q)
      /\ \A i \in 1..Len(q) : q[i] \in Proper
  BY LenProperties, ElementOfSeq
<1> DEFINE deaf(i) == [q[i] EXCEPT !.deaf = TRUE]
           r == [i \in 1..Len(q) |-> deaf(i)]
<1>3. \A i \in 1..Len(q) :
         /\ deaf(i) \in Proper
         /\ deaf(i).deaf /\ deaf(i).kind = q[i].kind
         /\ deaf(i).field = q[i].field
         /\ deaf(i).comment = q[i].comment
         /\ deaf(i).counter = q[i].counter /\ deaf(i).copy = q[i].copy
  BY <1>2, Deafened
<1>4. r \in Seq(Proper)
  BY <1>2, <1>3, IsASeq
<1>5. queue' = [queue EXCEPT ![d] = r]
  BY <1>1, <1>2 DEF Die
<1> HIDE DEF deaf
<1>6. DOMAIN r = 1..Len(q) /\ \A i \in 1..Len(q) : r[i] = deaf(i)
  OBVIOUS
<1> HIDE DEF r
<1>7. Len(r) = Len(q)
  BY <1>2, <1>4, <1>6, LenProperties
<1>8. /\ queue' \in [Devices -> Seq(Proper)]
      /\ \A e \in Devices \ {d} : queue'[e] = queue[e]
      /\ queue'[d] = r
  BY <1>4, <1>5 DEF TypeInv
<1> QED
  BY <1>1, <1>2, <1>3, <1>6, <1>7, <1>8

LEMMA DieType ==
    ASSUME TypeInv, NEW d \in Devices, Die(d)
    PROVE  TypeInv'
<1> USE DEF Tap, server, past
<1>1. queue' \in [Devices -> Seq(Proper)]
  BY DeafQueue
<1>2. <<>> \in Seq(Proper) /\ <<>> \in Seq(Read)
  OBVIOUS
<1>3. acks' \in [Devices -> Seq(Proper)] /\ reads' \in [Devices -> Seq(Read)]
  BY <1>2 DEF Die, TypeInv, TypeOK
<1>4. queue' \in [Devices -> Seq(Write)] /\ acks' \in [Devices -> Seq(Write)]
  BY <1>1, <1>3, ProperSeqs
<1>5. TypeOK'
  BY <1>3, <1>4 DEF Die, TypeInv, TypeOK
<1>6. \A e \in Devices : Ready(e)'
  BY DEF Die, TypeInv, TypeOK, Ready, OnPost
<1> QED
  BY <1>1, <1>3, <1>5, <1>6 DEF TypeInv

LEMMA NextType == TypeInv /\ [Next]_vars => TypeInv'
<1>1. TypeInv /\ Next => TypeInv'
  BY UserType, AnswerType, ServerType, DieType DEF Next
<1>2. TypeInv /\ UNCHANGED vars => TypeInv'
  BY DEF vars, TypeInv, TypeOK, Ready, OnPost
<1> QED
  BY <1>1, <1>2

-----------------------------------------------------------------------------
(* Counters follow marks *)

\* Somebody's array has the mark, or it was refused or overwritten.
Settled(f, c) == (\E u \in Users : <<f, c>> \in users[u]) \/ c \in spoiled

IsMark(d, i, f, c) ==
    /\ queue[d][i].kind = "mark"
    /\ queue[d][i].field = f /\ queue[d][i].comment = c

\* ... or is still in the queue of the device.
Sure(d, f, c) == Settled(f, c) \/ \E i \in DOMAIN queue[d] : IsMark(d, i, f, c)

ShownSure(d) ==
    shown[d] # None => \A f \in Fields, c \in Comments :
        shown[d][c][f] > 0 => Sure(d, f, c)

HeldSure(d) ==
    mComment[d] # None => \A f \in Fields :
        mComment[d].counter[f] > 0 => Sure(d, f, mComment[d].comment)

\* A counter in the queue is behind the marks it counts.
QueueSure(d) ==
    \A i \in DOMAIN queue[d], f \in Fields :
        queue[d][i].kind = "count" /\ queue[d][i].counter[f] > 0 =>
            \/ Settled(f, queue[d][i].comment)
            \/ \E j \in DOMAIN queue[d] :
                  j < i /\ IsMark(d, j, f, queue[d][i].comment)

CountInv ==
    /\ CountsAreMarked
    /\ \A d \in Devices : ShownSure(d) /\ HeldSure(d) /\ QueueSure(d)

\* Steps that keep documents and queued writes where they are.
LEMMA StillSure ==
    ASSUME TypeInv, NEW d \in Devices,
           UNCHANGED <<users, spoiled>>,
           \A e \in Devices \ {d} : queue'[e] = queue[e],
           \A i \in DOMAIN queue[d] :
              /\ i \in DOMAIN queue'[d]
              /\ queue'[d][i].kind = queue[d][i].kind
              /\ queue'[d][i].field = queue[d][i].field
              /\ queue'[d][i].comment = queue[d][i].comment
    PROVE  /\ \A f \in Fields, c \in Comments :
                 Settled(f, c) => Settled(f, c)'
           /\ \A e \in Devices, f \in Fields, c \in Comments :
                 Sure(e, f, c) => Sure(e, f, c)'
           /\ \A e \in Devices, f \in Fields, c \in Comments :
                 \A i \in DOMAIN queue[e] :
                    IsMark(e, i, f, c) => IsMark(e, i, f, c)'
<1>1. \A f \in Fields, c \in Comments : Settled(f, c) => Settled(f, c)'
  BY DEF Settled
<1>2. \A e \in Devices, f \in Fields, c \in Comments :
         \A i \in DOMAIN queue[e] :
            IsMark(e, i, f, c) => IsMark(e, i, f, c)' /\ i \in DOMAIN queue'[e]
  BY DEF IsMark
<1>3. \A e \in Devices, f \in Fields, c \in Comments :
         Sure(e, f, c) => Sure(e, f, c)'
  BY <1>1, <1>2 DEF Sure
<1> QED
  BY <1>1, <1>2, <1>3

\* What a device holds and shows comes from what was sure.
LEMMA CountStep ==
    ASSUME TypeInv, CountInv, NEW d \in Devices,
           UNCHANGED <<users, counts, spoiled>>,
           \A e \in Devices \ {d} : /\ queue'[e] = queue[e]
                                    /\ shown'[e] = shown[e]
                                    /\ mComment'[e] = mComment[e],
           \A i \in DOMAIN queue[d] :
              /\ i \in DOMAIN queue'[d]
              /\ queue'[d][i].kind = queue[d][i].kind
              /\ queue'[d][i].field = queue[d][i].field
              /\ queue'[d][i].comment = queue[d][i].comment
              /\ queue'[d][i].counter = queue[d][i].counter,
           \A i \in DOMAIN queue'[d] \ DOMAIN queue[d], f \in Fields :
              queue'[d][i].kind = "count" /\ queue'[d][i].counter[f] > 0 =>
                 \/ Settled(f, queue[d][i].comment)'
                 \/ \E j \in DOMAIN queue'[d] :
                       j < i /\ IsMark(d, j, f, queue[d][i].comment)',
           ShownSure(d)', HeldSure(d)'
    PROVE  CountInv'
<1>0. /\ \A f \in Fields, c \in Comments :
            Settled(f, c) => Settled(f, c)'
      /\ \A e \in Devices, f \in Fields, c \in Comments :
            Sure(e, f, c) => Sure(e, f, c)'
      /\ \A e \in Devices, f \in Fields, c \in Comments :
            \A i \in DOMAIN queue[e] :
               IsMark(e, i, f, c) => IsMark(e, i, f, c)'
  BY StillSure
<1>1. CountsAreMarked'
  BY DEF CountInv, CountsAreMarked
<1>2. ASSUME NEW e \in Devices \ {d}
      PROVE  ShownSure(e)' /\ HeldSure(e)' /\ QueueSure(e)'
  <2>1. /\ queue'[e] = queue[e] /\ shown'[e] = shown[e]
        /\ mComment'[e] = mComment[e]
    OBVIOUS
  <2>2. ShownSure(e) /\ HeldSure(e) /\ QueueSure(e)
    BY DEF CountInv
  <2>3. ShownSure(e)'
    BY <1>0, <2>1, <2>2 DEF ShownSure
  <2>4. HeldSure(e)'
    BY <1>0, <2>1, <2>2 DEF HeldSure, TypeInv, TypeOK, Held
  <2>5. QueueSure(e)'
    BY <2>1, <2>2 DEF QueueSure, Settled, IsMark
  <2> QED
    BY <2>3, <2>4, <2>5
<1>3. QueueSure(d)'
  <2>1. ASSUME NEW i \in DOMAIN queue'[d], NEW f \in Fields,
               queue'[d][i].kind = "count", queue'[d][i].counter[f] > 0
        PROVE  \/ Settled(f, queue[d][i].comment)'
               \/ \E j \in DOMAIN queue'[d] :
                     j < i /\ IsMark(d, j, f, queue[d][i].comment)'
    <3>1. CASE i \in DOMAIN queue[d]
      <4>1. PICK c : c = queue[d][i].comment /\ c = queue'[d][i].comment
        BY <3>1
      <4>2. \/ Settled(f, c)
            \/ \E j \in DOMAIN queue[d] : j < i /\ IsMark(d, j, f, c)
        BY <2>1, <3>1, <4>1 DEF CountInv, QueueSure
      <4>3. \/ Settled(f, c)'
            \/ \E j \in DOMAIN queue'[d] : j < i /\ IsMark(d, j, f, c)'
        BY <4>2 DEF Settled, IsMark
      <4> QED
        BY <4>1, <4>3 DEF Settled, IsMark
    <3>2. CASE i \notin DOMAIN queue[d]
      BY <2>1, <3>2
    <3> QED
      BY <3>1, <3>2
  <2> QED
    BY <2>1 DEF QueueSure
<1> QED
  BY <1>1, <1>2, <1>3 DEF CountInv

LEMMA QuietCount ==
    ASSUME CountInv,
           UNCHANGED <<users, counts, spoiled, queue, shown, mComment>>
    PROVE  CountInv'
BY DEF CountInv, CountsAreMarked, ShownSure, HeldSure, QueueSure, Sure,
       Settled, IsMark

\* Nothing is shown or held yet.
LEMMA BlankCount ==
    ASSUME TypeInv, CountInv, NEW d \in Devices,
           UNCHANGED <<users, counts, spoiled, queue>>,
           \A e \in Devices \ {d} : /\ shown'[e] = shown[e]
                                    /\ mComment'[e] = mComment[e],
           \/ shown'[d] = None
           \/ shown'[d] = [c \in Comments |-> Zero],
           mComment'[d] = None \/ mComment'[d] = mComment[d]
    PROVE  CountInv'
<1>1. ShownSure(d)'
  BY DEF ShownSure, Zero
<1>2. HeldSure(d)'
  BY DEF CountInv, HeldSure, Sure, Settled, IsMark
<1> QED
  BY <1>1, <1>2, CountStep

\* A queue that grows by something else than a counter.
LEMMA SentCount ==
    ASSUME TypeInv, CountInv, NEW d \in Devices, NEW w \in Proper,
           Send(d, w), w.kind # "count",
           UNCHANGED <<users, counts, spoiled>>,
           \A e \in Devices \ {d} : /\ shown'[e] = shown[e]
                                    /\ mComment'[e] = mComment[e],
           ShownSure(d)', HeldSure(d)'
    PROVE  CountInv'
<1>1. /\ \A e \in Devices \ {d} : queue'[e] = queue[e]
      /\ DOMAIN queue[d] = 1..Len(queue[d]) /\ Len(queue[d]) \in Nat
      /\ DOMAIN queue'[d] = 1..(Len(queue[d]) + 1)
      /\ \A i \in DOMAIN queue[d] : queue'[d][i] = queue[d][i]
      /\ queue'[d][Len(queue[d]) + 1] = w
  BY SentStep
<1>2. \A i \in DOMAIN queue[d] :
         i \in DOMAIN queue'[d] /\ queue'[d][i] = queue[d][i]
  BY <1>1
<1>3. \A i \in DOMAIN queue'[d] \ DOMAIN queue[d] :
         queue'[d][i].kind # "count"
  BY <1>1
<1> QED
  BY <1>1, <1>2, <1>3, CountStep

LEMMA ReactCount ==
    ASSUME TypeInv, CountInv, NEW d \in Devices, NEW f \in Fields,
           NEW c \in Comments, React(d, f, c)
    PROVE  CountInv'
<1>1. PICK w \in Proper : w = Mark(f, c) /\ Send(d, w) /\ w.kind = "mark"
                          /\ w.field = f /\ w.comment = c
  BY Records DEF React, Proper
<1>2. /\ \A e \in Devices \ {d} : queue'[e] = queue[e]
      /\ DOMAIN queue[d] = 1..Len(queue[d]) /\ Len(queue[d]) \in Nat
      /\ DOMAIN queue'[d] = 1..(Len(queue[d]) + 1)
      /\ \A i \in DOMAIN queue[d] : queue'[d][i] = queue[d][i]
      /\ queue'[d][Len(queue[d]) + 1] = w
  BY <1>1, SentStep
<1>3. UNCHANGED <<users, counts, spoiled>>
  BY DEF React, server, past
<1>4. /\ shown[d] \in [Comments -> Counter] /\ shown[d] # None
      /\ shown[d][c] \in [Fields -> Nat]
  BY DEF React, TypeInv, TypeOK, Counter
<1>5. /\ shown' = [shown EXCEPT ![d] = [shown[d] EXCEPT ![c] =
                      [shown[d][c] EXCEPT ![f] = @ + 1]]]
      /\ mComment' = [mComment EXCEPT ![d] =
                         [comment |-> c, counter |-> shown'[d][c]]]
  BY DEF React
<1>6. \A e \in Devices \ {d} :
         shown'[e] = shown[e] /\ mComment'[e] = mComment[e]
  BY <1>5 DEF TypeInv, TypeOK
<1>7. \A g \in Fields, b \in Comments :
         shown'[d][b][g] > 0 =>
            shown[d][b][g] > 0 \/ (g = f /\ b = c)
  BY <1>4, <1>5 DEF TypeInv, TypeOK, Counter
<1>8. Sure(d, f, c)'
  BY <1>1, <1>2 DEF Sure, IsMark
<1>9. \A g \in Fields, b \in Comments : Sure(d, g, b) => Sure(d, g, b)'
  BY <1>2, <1>3, StillSure
<1>10. ShownSure(d)'
  BY <1>4, <1>7, <1>8, <1>9 DEF ShownSure, CountInv
<1>11. HeldSure(d)'
  <2>1. /\ mComment'[d].comment = c /\ mComment'[d].counter = shown'[d][c]
    BY <1>5 DEF TypeInv, TypeOK
  <2>2. \A g \in Fields : shown'[d][c][g] > 0 => Sure(d, g, c)'
    BY <1>4, <1>7, <1>8, <1>9 DEF ShownSure, CountInv
  <2> QED
    BY <2>1, <2>2 DEF HeldSure, Sure, IsMark, Settled
<1> QED
  BY <1>1, <1>3, <1>6, <1>10, <1>11, SentCount

\* The counter that is saved counts what is sure, and goes to the end.
LEMMA MarkedCount ==
    ASSUME TypeInv, CountInv, NEW d \in Devices, OnMarked(d)
    PROVE  CountInv'
<1>1. UNCHANGED <<users, counts, spoiled, shown, mComment>>
  BY DEF OnMarked, server, past, post
<1>2. CASE UNCHANGED queue
  BY <1>1, <1>2, QuietCount
<1>3. CASE ~UNCHANGED queue
  <2>1. PICK f \in Fields, h \in Held :
           h = mComment[d] /\ mComment[d] # None /\ Send(d, Count(f, h))
    <3>1. Head(acks[d]).field \in Fields
      BY HeardStep DEF OnMarked, Heard, Proper
    <3> QED
      BY <1>3, <3>1 DEF OnMarked, TypeInv, TypeOK
  <2>2. PICK w \in Proper : w = Count(f, h) /\ Send(d, w)
                            /\ w.comment = h.comment /\ w.counter = h.counter
    <3>1. Count(f, h) \in Proper
      BY Records DEF Proper, Held
    <3> QED
      BY <2>1, <3>1, Records
  <2>3. /\ \A e \in Devices \ {d} : queue'[e] = queue[e]
        /\ DOMAIN queue[d] = 1..Len(queue[d]) /\ Len(queue[d]) \in Nat
        /\ DOMAIN queue'[d] = 1..(Len(queue[d]) + 1)
        /\ \A i \in DOMAIN queue[d] : queue'[d][i] = queue[d][i]
        /\ queue'[d][Len(queue[d]) + 1] = w
    BY <2>2, SentStep
  <2>4. \A g \in Fields, b \in Comments : Sure(d, g, b) => Sure(d, g, b)'
    BY <1>1, <2>3, StillSure
  <2>5. ShownSure(d)' /\ HeldSure(d)'
    <3>1. ShownSure(d)'
      BY <1>1, <2>4 DEF ShownSure, CountInv
    <3>2. HeldSure(d)'
      BY <1>1, <2>4 DEF HeldSure, CountInv, TypeInv, TypeOK, Held
    <3> QED
      BY <3>1, <3>2
  <2>6. PICK b \in Comments : b = h.comment
    BY DEF Held
  <2>7. ASSUME NEW i \in DOMAIN queue'[d] \ DOMAIN queue[d], NEW g \in Fields,
               queue'[d][i].counter[g] > 0
        PROVE  \/ Settled(g, queue[d][i].comment)'
               \/ \E j \in DOMAIN queue'[d] :
                     j < i /\ IsMark(d, j, g, queue[d][i].comment)'
    <3>1. i = Len(queue[d]) + 1 /\ queue'[d][i] = w
      BY <2>3
    <3>2. Sure(d, g, b)
      BY <2>1, <2>2, <2>6, <2>7, <3>1 DEF HeldSure, CountInv
    <3>3. \/ Settled(g, b)'
          \/ \E j \in DOMAIN queue'[d] : j < i /\ IsMark(d, j, g, b)'
      <4>1. CASE Settled(g, b)
        BY <1>1, <4>1 DEF Settled
      <4>2. ASSUME NEW j \in DOMAIN queue[d], IsMark(d, j, g, b)
            PROVE  j \in DOMAIN queue'[d] /\ j < i /\ IsMark(d, j, g, b)'
        BY <2>3, <3>1, <4>2 DEF IsMark
      <4> QED
        BY <3>2, <4>1, <4>2 DEF Sure
    <3> QED
      BY <2>2, <2>6, <3>1, <3>3 DEF Settled, IsMark
  <2> QED
    BY <1>1, <2>3, <2>5, <2>7, CountStep
<1> QED
  BY <1>2, <1>3

\* A process that ends leaves its queue, and holds nothing.
LEMMA DieCount ==
    ASSUME TypeInv, CountInv, NEW d \in Devices, Die(d)
    PROVE  CountInv'
<1>1. /\ \A e \in Devices \ {d} : queue'[e] = queue[e]
      /\ DOMAIN queue'[d] = DOMAIN queue[d]
      /\ \A i \in DOMAIN queue[d] :
            /\ queue'[d][i].kind = queue[d][i].kind
            /\ queue'[d][i].field = queue[d][i].field
            /\ queue'[d][i].comment = queue[d][i].comment
            /\ queue'[d][i].counter = queue[d][i].counter
  BY DeafQueue
<1>2. /\ UNCHANGED <<users, counts, spoiled>>
      /\ \A e \in Devices \ {d} :
            shown'[e] = shown[e] /\ mComment'[e] = mComment[e]
      /\ shown'[d] = None /\ mComment'[d] = None
  BY DEF Die, server, past, TypeInv, TypeOK
<1>3. ShownSure(d)' /\ HeldSure(d)'
  BY <1>2 DEF ShownSure, HeldSure
<1> QED
  BY <1>1, <1>2, <1>3, CountStep

\* The oldest write is gone, and its mark is in an array or spoiled.
LEMMA GoneCount ==
    ASSUME TypeInv, CountInv, NEW d \in Devices, queue[d] # <<>>,
           queue' = [queue EXCEPT ![d] = Tail(@)],
           UNCHANGED <<shown, mComment>>,
           \A f \in Fields, c \in Comments :
              Settled(f, c) \/ IsMark(d, 1, f, c) => Settled(f, c)'
    PROVE  \A e \in Devices :
              ShownSure(e)' /\ HeldSure(e)' /\ QueueSure(e)'
<1>1. /\ \A e \in Devices \ {d} : queue'[e] = queue[e]
      /\ Len(queue[d]) \in Nat \ {0} /\ DOMAIN queue[d] = 1..Len(queue[d])
      /\ DOMAIN queue'[d] = 1..(Len(queue[d]) - 1)
      /\ \A i \in DOMAIN queue'[d] :
            i + 1 \in DOMAIN queue[d] /\ queue'[d][i] = queue[d][i + 1]
  BY OldestGone
<1>2. ASSUME NEW f \in Fields, NEW c \in Comments, NEW i \in DOMAIN queue[d],
             IsMark(d, i, f, c)
      PROVE  \/ Settled(f, c)'
             \/ i - 1 \in DOMAIN queue'[d] /\ IsMark(d, i - 1, f, c)'
  <2>1. CASE i = 1
    BY <1>2, <2>1
  <2>2. CASE i # 1
    <3>1. /\ i - 1 \in DOMAIN queue'[d]
          /\ queue'[d][i - 1] = queue[d][i]
      BY <1>1, <2>2
    <3> QED
      BY <1>2, <3>1 DEF IsMark
  <2> QED
    BY <2>1, <2>2
<1>3. ASSUME NEW e \in Devices, NEW f \in Fields, NEW c \in Comments,
             Sure(e, f, c)
      PROVE  Sure(e, f, c)'
  <2>1. CASE e = d
    BY <1>2, <1>3, <2>1 DEF Sure
  <2>2. CASE e # d
    BY <1>1, <1>3, <2>2 DEF Sure, IsMark
  <2> QED
    BY <2>1, <2>2
<1>4. \A e \in Devices : ShownSure(e)'
  BY <1>3 DEF CountInv, ShownSure
<1>5. \A e \in Devices : HeldSure(e)'
  BY <1>3 DEF CountInv, HeldSure, TypeInv, TypeOK, Held
<1>6. ASSUME NEW e \in Devices \ {d} PROVE QueueSure(e)'
  <2>1. queue'[e] = queue[e] /\ QueueSure(e)
    BY <1>1 DEF CountInv
  <2>2. \A i \in DOMAIN queue[e] : queue[e][i] \in Proper
    BY ElementOfSeq, LenProperties DEF TypeInv
  <2>3. \A i \in DOMAIN queue[e] :
           queue[e][i].kind = "count" => queue[e][i].comment \in Comments
    BY <2>2 DEF Proper
  <2> QED
    BY <2>1, <2>3 DEF QueueSure, IsMark
<1>7. QueueSure(d)'
  <2>1. ASSUME NEW i \in DOMAIN queue'[d], NEW f \in Fields,
               queue'[d][i].kind = "count", queue'[d][i].counter[f] > 0
        PROVE  \/ Settled(f, queue[d][i].comment)'
               \/ \E j \in DOMAIN queue'[d] :
                     j < i /\ IsMark(d, j, f, queue[d][i].comment)'
    <3>1. i + 1 \in DOMAIN queue[d] /\ queue'[d][i] = queue[d][i + 1]
      BY <1>1
    <3>2. queue[d][i + 1] \in Proper
      BY <3>1, ElementOfSeq, LenProperties DEF TypeInv
    <3>3. PICK c \in Comments : c = queue'[d][i].comment
      BY <2>1, <3>1, <3>2 DEF Proper
    <3>4. \/ Settled(f, c)
          \/ \E j \in DOMAIN queue[d] : j < i + 1 /\ IsMark(d, j, f, c)
      BY <2>1, <3>1, <3>3 DEF CountInv, QueueSure
    <3>5. \/ Settled(f, c)'
          \/ \E j \in DOMAIN queue'[d] : j < i /\ IsMark(d, j, f, c)'
      <4>1. ASSUME NEW j \in DOMAIN queue[d], j < i + 1, IsMark(d, j, f, c)
            PROVE  \/ Settled(f, c)'
                   \/ \E k \in DOMAIN queue'[d] : k < i /\ IsMark(d, k, f, c)'
        <5>1. j \in Nat /\ i \in Nat /\ j - 1 < i
          BY <1>1, <4>1
        <5> QED
          BY <1>2, <4>1, <5>1
      <4> QED
        BY <3>4, <4>1
    <3> QED
      BY <3>3, <3>5 DEF Settled, IsMark
  <2> QED
    BY <2>1 DEF QueueSure
<1> QED
  BY <1>4, <1>5, <1>6, <1>7

LEMMA CommitCount ==
    ASSUME TypeInv, CountInv, NEW d \in Devices, Commit(d)
    PROVE  CountInv'
<1>1. PICK w \in Proper : w = Head(queue[d]) /\ w = queue[d][1]
  BY OldestGone DEF Commit
<1>2. /\ queue[d] # <<>> /\ 1 \in DOMAIN queue[d]
      /\ queue' = [queue EXCEPT ![d] = Tail(@)]
      /\ UNCHANGED <<shown, mComment>>
      /\ users' = [u \in Users |-> Applied(u, users[u], w, d)]
      /\ IF w.kind = "count"
         THEN counts' = [counts EXCEPT ![w.comment] = w.counter]
         ELSE UNCHANGED counts
      /\ spoiled' = spoiled \cup
            {c \in Comments : \E f \in Fields, u \in Users :
                <<f, c>> \in users[u] \ users'[u]}
  BY <1>1, OldestGone DEF Commit, post
<1>3. \A f \in Fields, c \in Comments : Settled(f, c) => Settled(f, c)'
  BY <1>2 DEF Settled
<1>4. \A f \in Fields, c \in Comments : IsMark(d, 1, f, c) => Settled(f, c)'
  BY <1>1, <1>2 DEF Settled, IsMark, Applied
<1>5. \A e \in Devices : ShownSure(e)' /\ HeldSure(e)' /\ QueueSure(e)'
  BY <1>2, <1>3, <1>4, GoneCount
<1>6. CountsAreMarked'
  <2>1. ASSUME NEW f \in Fields, NEW c \in Comments, counts'[c][f] > 0
        PROVE  Settled(f, c)'
    <3>1. CASE counts'[c] = counts[c]
      BY <1>3, <2>1, <3>1 DEF CountInv, CountsAreMarked, Settled
    <3>2. CASE counts'[c] # counts[c]
      <4>1. w.kind = "count" /\ w.comment = c /\ w.counter = counts'[c]
        BY <1>2, <3>2 DEF TypeInv, TypeOK
      <4>2. \/ Settled(f, c)
            \/ \E j \in DOMAIN queue[d] : j < 1 /\ IsMark(d, j, f, c)
        BY <1>1, <1>2, <2>1, <4>1 DEF CountInv, QueueSure
      <4>3. \A j \in DOMAIN queue[d] : ~(j < 1)
        <5>1. DOMAIN queue[d] = 1..Len(queue[d]) /\ Len(queue[d]) \in Nat
          BY <1>2, OldestGone
        <5> QED
          BY <5>1
      <4> QED
        BY <1>3, <4>2, <4>3
    <3> QED
      BY <3>1, <3>2
  <2> QED
    BY <2>1 DEF CountsAreMarked, Settled
<1> QED
  BY <1>5, <1>6 DEF CountInv

LEMMA RefuseCount ==
    ASSUME TypeInv, CountInv, NEW d \in Devices, Refuse(d)
    PROVE  CountInv'
<1>1. /\ queue[d] # <<>> /\ Head(queue[d]) = queue[d][1]
      /\ queue' = [queue EXCEPT ![d] = Tail(@)]
      /\ UNCHANGED <<users, counts, shown, mComment>>
      /\ spoiled' = spoiled \cup ({Head(queue[d]).comment} \cap Comments)
  BY OldestGone DEF Refuse, post, server
<1>2. \A f \in Fields, c \in Comments :
         Settled(f, c) \/ IsMark(d, 1, f, c) => Settled(f, c)'
  BY <1>1 DEF Settled, IsMark
<1>3. \A e \in Devices : ShownSure(e)' /\ HeldSure(e)' /\ QueueSure(e)'
  BY <1>1, <1>2, GoneCount
<1>4. CountsAreMarked'
  BY <1>1 DEF CountInv, CountsAreMarked
<1> QED
  BY <1>3, <1>4 DEF CountInv

LEMMA StartCount ==
    ASSUME TypeInv, CountInv, NEW d \in Devices,
           (\E u \in Users : OpenDetail(d, u)) \/ OpenOwnPost(d)
    PROVE  CountInv'
<1>1. /\ UNCHANGED <<users, counts, spoiled, queue>>
      /\ shown' = [shown EXCEPT ![d] = None]
      /\ mComment' = [mComment EXCEPT ![d] = None]
  BY DEF OpenDetail, OpenOwnPost, StartDetail, server, past
<1>2. /\ \A e \in Devices \ {d} :
            shown'[e] = shown[e] /\ mComment'[e] = mComment[e]
      /\ shown'[d] = None /\ mComment'[d] = None
  BY <1>1 DEF TypeInv, TypeOK
<1> QED
  BY <1>1, <1>2, BlankCount

LEMMA ReloadCount ==
    ASSUME TypeInv, CountInv, NEW d \in Devices, Reload(d)
    PROVE  CountInv'
<1>1. /\ UNCHANGED <<users, counts, spoiled, queue, mComment>>
      /\ shown' = [shown EXCEPT ![d] = [c \in Comments |-> Zero]]
  BY DEF Reload, server, past
<1>2. /\ \A e \in Devices \ {d} : shown'[e] = shown[e]
      /\ shown'[d] = [c \in Comments |-> Zero]
  BY <1>1 DEF TypeInv, TypeOK
<1> QED
  BY <1>1, <1>2, BlankCount

\* A profile is saved.
LEMMA ProfileCount ==
    ASSUME TypeInv, CountInv, NEW d \in Devices, SaveTap(d) \/ OnVerified(d)
    PROVE  CountInv'
<1>1. UNCHANGED <<users, counts, spoiled, shown, mComment>>
  BY DEF SaveTap, OnVerified, server, past, post
<1>2. CASE UNCHANGED queue
  BY <1>1, <1>2, QuietCount
<1>3. CASE ~UNCHANGED queue
  <2>1. PICK p \in Copy : Send(d, Profile(p))
    BY <1>3 DEF SaveTap, OnVerified, TypeInv, TypeOK, Ready
  <2>2. PICK w \in Proper : w = Profile(p) /\ w.kind = "profile"
    BY Records DEF Proper
  <2>3. /\ \A e \in Devices \ {d} : queue'[e] = queue[e]
        /\ DOMAIN queue[d] = 1..Len(queue[d]) /\ Len(queue[d]) \in Nat
        /\ DOMAIN queue'[d] = 1..(Len(queue[d]) + 1)
        /\ \A i \in DOMAIN queue[d] : queue'[d][i] = queue[d][i]
    BY <2>1, <2>2, SentStep
  <2>a. \A i \in DOMAIN queue[d] :
           /\ i \in DOMAIN queue'[d]
           /\ queue'[d][i].kind = queue[d][i].kind
           /\ queue'[d][i].field = queue[d][i].field
           /\ queue'[d][i].comment = queue[d][i].comment
    BY <2>3
  <2>4. \A g \in Fields, b \in Comments : Sure(d, g, b) => Sure(d, g, b)'
    BY <1>1, <2>3, <2>a, StillSure
  <2>5. ShownSure(d)'
    BY <1>1, <2>4 DEF ShownSure, CountInv
  <2>6. HeldSure(d)'
    BY <1>1, <2>4 DEF HeldSure, CountInv, TypeInv, TypeOK, Held
  <2> QED
    BY <1>1, <2>1, <2>2, <2>5, <2>6, SentCount
<1> QED
  BY <1>2, <1>3

LEMMA InitCount == Init => CountInv
<1> SUFFICES ASSUME Init PROVE CountInv
  OBVIOUS
<1>1. CountsAreMarked
  BY DEF Init, CountsAreMarked, Zero
<1>2. \A d \in Devices : ShownSure(d) /\ HeldSure(d) /\ QueueSure(d)
  BY DEF Init, ShownSure, HeldSure, QueueSure
<1> QED
  BY <1>1, <1>2 DEF CountInv

LEMMA NextCount == TypeInv /\ CountInv /\ [Next]_vars => CountInv'
<1> SUFFICES ASSUME TypeInv, CountInv, [Next]_vars PROVE CountInv'
  OBVIOUS
<1>1. CASE UNCHANGED vars
  BY <1>1, QuietCount DEF vars
<1>2. ASSUME NEW d \in Devices, User(d) PROVE CountInv'
  <2>1. OpenProfile(d) \/ EditTap(d) \/ RenameTap(d) \/ Back(d) => CountInv'
    BY QuietCount DEF OpenProfile, EditTap, RenameTap, Back, server, past, post
  <2> QED
    BY <1>2, <2>1, StartCount, ReactCount, ProfileCount DEF User
<1>3. ASSUME NEW d \in Devices, Answer(d) PROVE CountInv'
  <2>1. ASSUME \/ OnCounted(d) \/ OnSaved(d)
               \/ \E i \in 1..MaxReads :
                     OnCurrentUser(d, i) \/ OnUserInfo(d, i)
        PROVE  CountInv'
    BY <2>1, QuietCount
       DEF OnCounted, OnSaved, OnCurrentUser, OnUserInfo, server, past, post
  <2> QED
    BY <1>3, <2>1, ReloadCount, MarkedCount, ProfileCount DEF Answer
<1>4. ASSUME NEW d \in Devices, Server(d) PROVE CountInv'
  <2>1. ASSUME NEW i \in 1..MaxReads, ServeRead(d, i) \/ LoseRead(d, i)
        PROVE  CountInv'
    BY <2>1, QuietCount DEF ServeRead, LoseRead, server, past, post
  <2> QED
    BY <1>4, <2>1, CommitCount, RefuseCount DEF Server
<1> QED
  BY <1>1, <1>2, <1>3, <1>4, DieCount DEF Next

\* Whatever is tapped, refused, killed or saved by any number of devices: the
\* counters of a comment never run ahead of the marks in the users' documents,
\* because the mark is queued before every counter that counts it.
THEOREM MarksComeFirst == Spec => []CountsAreMarked
<1>1. CountInv => CountsAreMarked
  BY DEF CountInv
<1> QED
  BY InitType, NextType, InitCount, NextCount, <1>1, PTL DEF Spec

-----------------------------------------------------------------------------
(* Whose profile it is, and what is there *)

\* A user who waits for each answer has reads of the own profile only, but on
\* a post's screen.
Own(d) ==
    "read" \notin astray[d] =>
        /\ crash[d] # "noUser"
        /\ mUser[d] # None => mUser[d].id = Me[d]
        /\ \A i \in DOMAIN reads[d] :
              /\ ~OnPost(d) => /\ reads[d][i].tag = "info"
                               /\ reads[d][i].user = Me[d]
              /\ reads[d][i].doc # None =>
                    reads[d][i].doc.id = reads[d][i].user
        /\ screen[d] = "profile" /\ mUser[d] = None => reads[d] # <<>>
        /\ \A i \in DOMAIN queue[d] :
              queue[d][i].kind = "profile" => queue[d][i].copy.id = Me[d]

\* Unless a post was left too early, the answers to its marks find it.
Awaited(d) ==
    "mark" \notin astray[d] =>
        /\ crash[d] # "noComment"
        /\ \/ OnPost(d) /\ mComment[d] # None
           \/ /\ \A i \in DOMAIN queue[d] :
                    queue[d][i].kind = "mark" => queue[d][i].deaf
              /\ \A i \in DOMAIN acks[d] : acks[d][i].kind # "mark"

OwnInv == \A d \in Devices : Own(d) /\ Awaited(d)

\* A step of one device is not seen by another.
Elsewhere(d) ==
    \A e \in Devices \ {d} :
        /\ screen'[e] = screen[e] /\ mUser'[e] = mUser[e]
        /\ reads'[e] = reads[e] /\ queue'[e] = queue[e]
        /\ acks'[e] = acks[e] /\ crash'[e] = crash[e]
        /\ astray'[e] = astray[e] /\ mComment'[e] = mComment[e]
        /\ made'[e] = made[e]

LEMMA NotSeen ==
    ASSUME TypeInv, NEW d \in Devices,
           User(d) \/ Answer(d) \/ Server(d) \/ Die(d)
    PROVE  Elsewhere(d)
<1> USE DEF TypeInv, TypeOK, Elsewhere, server, post, edit, past, Send, Ask,
            Stray, Hear, StartDetail
<1>1. ASSUME NEW u \in Users, OpenDetail(d, u) PROVE Elsewhere(d)
  BY <1>1 DEF OpenDetail
<1>2. ASSUME OpenOwnPost(d) PROVE Elsewhere(d)
  BY <1>2 DEF OpenOwnPost
<1>3. ASSUME NEW f \in Fields, NEW c \in Comments, React(d, f, c)
      PROVE  Elsewhere(d)
  BY <1>3 DEF React
<1>4. ASSUME OpenProfile(d) \/ EditTap(d) \/ SaveTap(d) \/ RenameTap(d)
      PROVE  Elsewhere(d)
  BY <1>4 DEF OpenProfile, EditTap, SaveTap, RenameTap
<1>5. ASSUME Back(d) PROVE Elsewhere(d)
  BY <1>5 DEF Back
<1>6. ASSUME Reload(d) \/ OnMarked(d) \/ OnCounted(d) \/ OnVerified(d)
             \/ OnSaved(d)
      PROVE  Elsewhere(d)
  BY <1>6 DEF Reload, OnMarked, OnCounted, OnVerified, OnSaved
<1>7. ASSUME NEW i \in 1..MaxReads, OnCurrentUser(d, i) \/ OnUserInfo(d, i)
      PROVE  Elsewhere(d)
  BY <1>7 DEF OnCurrentUser, OnUserInfo
<1>8. ASSUME Commit(d) PROVE Elsewhere(d)
  BY <1>8 DEF Commit
<1>9. ASSUME Refuse(d) PROVE Elsewhere(d)
  BY <1>9 DEF Refuse
<1>10. ASSUME NEW i \in 1..MaxReads, ServeRead(d, i) \/ LoseRead(d, i)
       PROVE  Elsewhere(d)
  BY <1>10 DEF ServeRead, LoseRead
<1>11. ASSUME Die(d) PROVE Elsewhere(d)
  BY <1>11 DEF Die
<1> QED
  BY <1>1, <1>2, <1>3, <1>4, <1>5, <1>6, <1>7, <1>8, <1>9, <1>10, <1>11
     DEF User, Answer, Server

LEMMA OthersOwn ==
    ASSUME OwnInv, NEW d \in Devices, Elsewhere(d), NEW e \in Devices \ {d}
    PROVE  Own(e)' /\ Awaited(e)'
BY DEF OwnInv, Elsewhere, Own, Awaited, OnPost

\* A post's screen comes up.
LEMMA StartOwn ==
    ASSUME TypeInv, OwnInv, NEW d \in Devices,
           (\E u \in Users : OpenDetail(d, u)) \/ OpenOwnPost(d)
    PROVE  Own(d)' /\ Awaited(d)'
<1>1. PICK u \in Users, s \in {"detail", "post"} : StartDetail(d, s, u)
  BY DEF OpenDetail, OpenOwnPost, TypeInv, TypeOK, Copy
<1>a. /\ screen'[d] = s /\ Ask(d, "current", Me[d])
      /\ UNCHANGED <<crash, mUser, queue, acks>>
  BY <1>1 DEF OpenDetail, OpenOwnPost, StartDetail, TypeInv, TypeOK,
              server, edit, past
<1>b. screen[d] \in {"core", "profile"}
  BY DEF OpenDetail, OpenOwnPost
<1>c. astray[d] \subseteq astray'[d]
  <2>1. (\E v \in Users : OpenDetail(d, v)) => astray' = astray
    BY DEF OpenDetail
  <2>2. OpenOwnPost(d) => astray'[d] = astray[d] \cup Unread(d)
    BY DEF OpenOwnPost, Stray, TypeInv, TypeOK
  <2> QED
    BY <2>1, <2>2
<1>2. /\ screen[d] \in {"core", "profile"} /\ screen'[d] = s
      /\ Ask(d, "current", Me[d])
      /\ crash'[d] = crash[d] /\ mUser'[d] = mUser[d]
      /\ queue'[d] = queue[d] /\ acks'[d] = acks[d]
      /\ astray[d] \subseteq astray'[d]
  BY <1>a, <1>b, <1>c
<1>3. \A i \in DOMAIN reads'[d] :
         \/ i \in DOMAIN reads[d] /\ reads'[d][i] = reads[d][i]
         \/ reads'[d][i] = Request("current", Me[d])
  BY <1>2, AskedStep
<1>4. Request("current", Me[d]).doc = None
  BY DEF Request
<1>5. Own(d)'
  BY <1>2, <1>3, <1>4 DEF Own, OwnInv, OnPost
<1>6. Awaited(d)'
  BY <1>2 DEF Awaited, OwnInv, OnPost
<1> QED
  BY <1>5, <1>6

LEMMA ReactOwn ==
    ASSUME TypeInv, OwnInv, NEW d \in Devices, NEW f \in Fields,
           NEW c \in Comments, React(d, f, c)
    PROVE  Own(d)' /\ Awaited(d)'
<1>1. PICK w \in Proper : Send(d, w) /\ w.kind = "mark"
  BY Records DEF React, Proper
<1>2. /\ DOMAIN queue[d] = 1..Len(queue[d]) /\ Len(queue[d]) \in Nat
      /\ DOMAIN queue'[d] = 1..(Len(queue[d]) + 1)
      /\ \A i \in DOMAIN queue[d] : queue'[d][i] = queue[d][i]
      /\ queue'[d][Len(queue[d]) + 1] = w
  BY <1>1, SentStep
<1>3. \A i \in DOMAIN queue'[d] :
         \/ i \in DOMAIN queue[d] /\ queue'[d][i] = queue[d][i]
         \/ queue'[d][i].kind = "mark"
  BY <1>1, <1>2
<1>4. /\ OnPost(d) /\ screen' = screen /\ reads' = reads /\ mUser' = mUser
      /\ crash' = crash /\ astray' = astray
  BY DEF React, edit
<1>5. Own(d)'
  BY <1>3, <1>4 DEF Own, OwnInv, OnPost
<1>6. mComment'[d] # None
  <2>1. mComment'[d] = [comment |-> c, counter |-> shown'[d][c]]
    BY DEF React, TypeInv, TypeOK
  <2>2. shown'[d][c] \in Counter
    <3>1. shown[d] \in [Comments -> Counter]
          /\ shown[d][c] \in [Fields -> Nat]
      BY DEF React, TypeInv, TypeOK, Counter
    <3>2. shown'[d][c] = [shown[d][c] EXCEPT ![f] = @ + 1]
      BY <3>1 DEF React, TypeInv, TypeOK
    <3> QED
      BY <3>1, <3>2 DEF Counter
  <2> QED
    BY <2>1, <2>2, NoneAssumption DEF Held
<1>7. Awaited(d)'
  BY <1>4, <1>6 DEF Awaited, OwnInv, OnPost, Alive, React
<1> QED
  BY <1>5, <1>7

\* The profile's screen comes up, or what is on it is edited and saved.
LEMMA ProfileOwn ==
    ASSUME TypeInv, OwnInv, NEW d \in Devices,
           OpenProfile(d) \/ EditTap(d) \/ RenameTap(d)
    PROVE  Own(d)' /\ Awaited(d)'
<1>1. ASSUME OpenProfile(d) PROVE Own(d)' /\ Awaited(d)'
  <2>1. /\ screen[d] = "core" /\ screen'[d] = "profile"
        /\ mUser'[d] = None /\ Ask(d, "info", Me[d])
        /\ crash'[d] = crash[d] /\ astray'[d] = astray[d]
        /\ queue'[d] = queue[d] /\ acks'[d] = acks[d]
    BY <1>1 DEF OpenProfile, TypeInv, TypeOK, server, post, past
  <2>2. /\ reads'[d] # <<>>
        /\ \A i \in DOMAIN reads'[d] :
              \/ i \in DOMAIN reads[d] /\ reads'[d][i] = reads[d][i]
              \/ reads'[d][i] = Request("info", Me[d])
    BY <2>1, AskedStep
  <2>3. /\ Request("info", Me[d]).doc = None
        /\ Request("info", Me[d]).tag = "info"
        /\ Request("info", Me[d]).user = Me[d]
    BY DEF Request
  <2>4. Own(d)'
    BY <2>1, <2>2, <2>3 DEF Own, OwnInv, OnPost
  <2> QED
    BY <2>1, <2>4 DEF Awaited, OwnInv, OnPost
<1>2. ASSUME EditTap(d) PROVE Own(d)' /\ Awaited(d)'
  <2>1. /\ screen[d] = "profile" /\ screen'[d] \in {"profile", "edit"}
        /\ mUser[d] # None => crash'[d] = crash[d]
        /\ mUser[d] = None => crash'[d] = "noUser"
        /\ astray'[d] = astray[d] \cup Unread(d)
        /\ UNCHANGED <<reads, mUser, queue, acks, mComment>>
    BY <1>2 DEF EditTap, Stray, TypeInv, TypeOK, server, post
  <2>2. "read" \notin astray'[d] => "read" \notin astray[d] /\ reads[d] = <<>>
    BY <2>1 DEF Unread
  <2>3. Own(d)'
    BY <2>1, <2>2 DEF Own, OwnInv, OnPost
  <2>4. Awaited(d)'
    BY <2>1 DEF Awaited, OwnInv, OnPost
  <2> QED
    BY <2>3, <2>4
<1>3. ASSUME RenameTap(d) PROVE Own(d)' /\ Awaited(d)'
  BY <1>3 DEF RenameTap, Own, Awaited, OwnInv, OnPost, server, post, past
<1> QED
  BY <1>1, <1>2, <1>3

\* The profile that is saved is the own one.
LEMMA SaveOwn ==
    ASSUME TypeInv, OwnInv, NEW d \in Devices, SaveTap(d) \/ OnVerified(d)
    PROVE  Own(d)' /\ Awaited(d)'
<1>1. UNCHANGED <<acks, reads, screen, mUser, mComment, crash, astray>>
  BY DEF SaveTap, OnVerified, edit, post
<1>2. CASE UNCHANGED queue
  BY <1>1, <1>2 DEF Own, Awaited, OwnInv, OnPost
<1>3. CASE ~UNCHANGED queue
  <2>1. PICK p \in Copy : mUser[d] = p /\ mUser[d] # None /\ screen[d] = "edit"
                          /\ Send(d, Profile(p))
    BY <1>3 DEF SaveTap, OnVerified, TypeInv, TypeOK, Ready
  <2>2. PICK w \in Proper : Send(d, w) /\ w.kind = "profile" /\ w.copy = p
    BY <2>1, Records DEF Proper
  <2>3. /\ DOMAIN queue[d] = 1..Len(queue[d]) /\ Len(queue[d]) \in Nat
        /\ DOMAIN queue'[d] = 1..(Len(queue[d]) + 1)
        /\ \A i \in DOMAIN queue[d] : queue'[d][i] = queue[d][i]
        /\ queue'[d][Len(queue[d]) + 1] = w
    BY <2>2, SentStep
  <2>4. \A i \in DOMAIN queue'[d] :
           \/ i \in DOMAIN queue[d] /\ queue'[d][i] = queue[d][i]
           \/ queue'[d][i].kind = "profile" /\ queue'[d][i].copy = p
    BY <2>2, <2>3
  <2>5. Own(d)'
    BY <1>1, <2>1, <2>4 DEF Own, OwnInv, OnPost
  <2>6. Awaited(d)'
    BY <1>1, <2>1, <2>4 DEF Awaited, OwnInv, OnPost
  <2> QED
    BY <2>5, <2>6
<1> QED
  BY <1>2, <1>3

LEMMA BackOwn ==
    ASSUME TypeInv, OwnInv, NEW d \in Devices, Back(d)
    PROVE  Own(d)' /\ Awaited(d)'
<1>1. /\ UNCHANGED <<queue, acks, mUser, mComment, crash>>
      /\ astray'[d] = astray[d] \cup Unread(d)
                      \cup {t \in {"mark"} : OnPost(d) /\ Pending(d)}
      /\ \/ screen'[d] = "profile" /\ Ask(d, "info", Me[d])
         \/ screen'[d] = "core" /\ reads' = reads
  BY DEF Back, Stray, TypeInv, TypeOK, server, post, edit
<1>2. "read" \notin astray'[d] => "read" \notin astray[d] /\ reads[d] = <<>>
  BY <1>1 DEF Unread
<1>3. reads[d] = <<>> => DOMAIN reads[d] = {}
  OBVIOUS
<1>4. /\ Request("info", Me[d]).doc = None
      /\ Request("info", Me[d]).tag = "info"
      /\ Request("info", Me[d]).user = Me[d]
  BY DEF Request
<1>5. Own(d)'
  <2>1. CASE screen'[d] = "profile" /\ Ask(d, "info", Me[d])
    <3>1. /\ reads'[d] # <<>>
          /\ \A i \in DOMAIN reads'[d] :
                \/ i \in DOMAIN reads[d] /\ reads'[d][i] = reads[d][i]
                \/ reads'[d][i] = Request("info", Me[d])
      BY <2>1, AskedStep
    <3> QED
      BY <1>1, <1>2, <1>3, <1>4, <2>1, <3>1 DEF Own, OwnInv, OnPost
  <2>2. CASE screen'[d] = "core" /\ reads' = reads
    BY <1>1, <1>2, <1>3, <2>2 DEF Own, OwnInv, OnPost
  <2> QED
    BY <1>1, <2>1, <2>2
<1>6. Awaited(d)'
  BY <1>1 DEF Awaited, OwnInv, OnPost, Pending
<1> QED
  BY <1>5, <1>6

\* The answer to a mark finds the comment.
LEMMA MarkedOwn ==
    ASSUME TypeInv, OwnInv, NEW d \in Devices, OnMarked(d)
    PROVE  Own(d)' /\ Awaited(d)'
<1>1. /\ UNCHANGED <<reads, screen, mUser, mComment, astray>>
      /\ acks[d] # <<>> /\ Head(acks[d]).kind = "mark" /\ Hear(d)
      /\ crash' = crash \/ crash'[d] = "noComment"
      /\ mComment[d] # None => crash' = crash
  BY DEF OnMarked, Heard, post, edit, TypeInv, TypeOK
<1>2. /\ 1 \in DOMAIN acks[d] /\ acks[d][1].kind = "mark"
      /\ Head(acks[d]) \in Proper
  BY <1>1, HeardStep
<1>3. \A i \in DOMAIN queue'[d] :
         \/ i \in DOMAIN queue[d] /\ queue'[d][i] = queue[d][i]
         \/ queue'[d][i].kind = "count"
  <2>1. CASE UNCHANGED queue
    BY <2>1
  <2>2. CASE ~UNCHANGED queue
    <3>1. PICK h \in Held, f \in Fields : Send(d, Count(f, h))
      <4>1. Head(acks[d]).field \in Fields
        BY <1>1, <1>2 DEF Proper
      <4> QED
        BY <4>1, <2>2 DEF OnMarked, TypeInv, TypeOK
    <3>2. PICK w \in Proper : Send(d, w) /\ w.kind = "count"
      BY <3>1, Records DEF Proper, Held
    <3>3. /\ DOMAIN queue[d] = 1..Len(queue[d]) /\ Len(queue[d]) \in Nat
          /\ DOMAIN queue'[d] = 1..(Len(queue[d]) + 1)
          /\ \A i \in DOMAIN queue[d] : queue'[d][i] = queue[d][i]
          /\ queue'[d][Len(queue[d]) + 1] = w
      BY <3>2, SentStep
    <3> QED
      BY <3>2, <3>3
  <2> QED
    BY <2>1, <2>2
<1>4. Own(d)'
  BY <1>1, <1>3 DEF Own, OwnInv, OnPost
<1>5. Awaited(d)'
  BY <1>1, <1>2 DEF Awaited, OwnInv, OnPost
<1> QED
  BY <1>4, <1>5

\* The other answers to writes.
LEMMA HeardOwn ==
    ASSUME TypeInv, OwnInv, NEW d \in Devices, OnCounted(d) \/ OnSaved(d)
    PROVE  Own(d)' /\ Awaited(d)'
<1>1. /\ UNCHANGED <<queue, mUser, mComment, crash, astray>>
      /\ acks[d] # <<>> /\ Hear(d)
      /\ \/ UNCHANGED <<screen, reads>>
         \/ /\ screen[d] = "edit" /\ screen'[d] = "profile"
            /\ Ask(d, "info", Me[d])
  BY DEF OnCounted, OnSaved, Heard, post, edit, TypeInv, TypeOK
<1>2. \A i \in DOMAIN acks'[d] : \E j \in DOMAIN acks[d] :
         acks'[d][i] = acks[d][j]
  BY <1>1, HeardStep
<1>3. Awaited(d)'
  BY <1>1, <1>2 DEF Awaited, OwnInv, OnPost
<1>4. CASE UNCHANGED <<screen, reads>>
  BY <1>1, <1>3, <1>4 DEF Own, OwnInv, OnPost
<1>5. CASE /\ screen[d] = "edit" /\ screen'[d] = "profile"
           /\ Ask(d, "info", Me[d])
  <2>1. /\ reads'[d] # <<>>
        /\ \A i \in DOMAIN reads'[d] :
              \/ i \in DOMAIN reads[d] /\ reads'[d][i] = reads[d][i]
              \/ reads'[d][i] = Request("info", Me[d])
    BY <1>5, AskedStep
  <2>2. /\ Request("info", Me[d]).doc = None
        /\ Request("info", Me[d]).tag = "info"
        /\ Request("info", Me[d]).user = Me[d]
    BY DEF Request
  <2>3. Own(d)'
    BY <1>1, <1>5, <2>1, <2>2 DEF Own, OwnInv, OnPost
  <2> QED
    BY <1>3, <2>3
<1> QED
  BY <1>1, <1>4, <1>5

\* The post's screen asks for the author, and nobody else does.
LEMMA CurrentOwn ==
    ASSUME TypeInv, OwnInv, NEW d \in Devices, NEW i \in 1..MaxReads,
           OnCurrentUser(d, i)
    PROVE  Own(d)' /\ Awaited(d)'
<1>1. /\ UNCHANGED <<queue, acks, screen, mUser, mComment, crash, astray>>
      /\ i \in DOMAIN reads[d] /\ reads[d][i].tag = "current"
      /\ reads[d][i].doc # None
  BY DEF OnCurrentUser, Answered, post, edit
<1>2. Awaited(d)'
  BY <1>1 DEF Awaited, OwnInv, OnPost
<1>3. CASE ~OnPost(d)
  <2>1. "read" \in astray[d]
    BY <1>1, <1>3 DEF Own, OwnInv
  <2>2. Own(d)'
    BY <1>1, <2>1 DEF Own
  <2> QED
    BY <1>2, <2>2
<1>4. CASE OnPost(d)
  <2>1. PICK q \in Seq(Read) : reads[d] = q
    BY DEF TypeInv, TypeOK
  <2>2. /\ RemoveAt(q, i) \in Seq(Read)
        /\ \A j \in DOMAIN RemoveAt(q, i) : \E k \in DOMAIN q :
              RemoveAt(q, i)[j] = q[k]
    BY <1>1, <2>1, Removed
  <2>3. PICK s \in Seq(Read) : s = RemoveAt(q, i)
    BY <2>2
  <2>4. PICK u \in Users : author[d] = u
    BY <1>4 DEF TypeInv, TypeOK, Ready
  <2>5. PICK r \in Read : r = Request("info", u) /\ r.doc = None
    BY Requests
  <2>6. reads'[d] = Append(s, r)
    BY <1>4, <2>1, <2>3, <2>4, <2>5
       DEF OnCurrentUser, TypeInv, TypeOK
  <2>7. /\ DOMAIN s = 1..Len(s) /\ Len(s) \in Nat
        /\ DOMAIN Append(s, r) = 1..(Len(s) + 1)
        /\ \A j \in DOMAIN s : Append(s, r)[j] = s[j]
        /\ Append(s, r)[Len(s) + 1] = r
    BY Grown
  <2>8. \A j \in DOMAIN reads'[d] :
           \/ reads'[d][j].doc = None
           \/ \E k \in DOMAIN reads[d] : reads'[d][j] = reads[d][k]
    BY <2>1, <2>2, <2>3, <2>5, <2>6, <2>7
  <2>9. Own(d)'
    BY <1>1, <1>4, <2>8 DEF Own, OwnInv, OnPost
  <2> QED
    BY <1>2, <2>9
<1> QED
  BY <1>3, <1>4

\* The profile takes what the answer has: the own document.
LEMMA InfoOwn ==
    ASSUME TypeInv, OwnInv, NEW d \in Devices, NEW i \in 1..MaxReads,
           OnUserInfo(d, i)
    PROVE  Own(d)' /\ Awaited(d)'
<1>1. /\ UNCHANGED <<queue, acks, screen, mComment, crash, astray>>
      /\ i \in DOMAIN reads[d] /\ reads[d][i].doc # None
      /\ reads' = [reads EXCEPT ![d] = RemoveAt(@, i)]
      /\ screen[d] = "profile" => mUser'[d] = reads[d][i].doc
      /\ screen[d] # "profile" => mUser'[d] = mUser[d]
  BY DEF OnUserInfo, Answered, post, TypeInv, TypeOK
<1>2. \A j \in DOMAIN reads'[d] : \E k \in DOMAIN reads[d] :
         reads'[d][j] = reads[d][k]
  BY <1>1, TakenStep
<1>3. Awaited(d)'
  BY <1>1 DEF Awaited, OwnInv, OnPost
<1>4. Own(d)'
  BY <1>1, <1>2 DEF Own, OwnInv, OnPost
<1> QED
  BY <1>3, <1>4

LEMMA ReloadOwn ==
    ASSUME TypeInv, OwnInv, NEW d \in Devices, Reload(d)
    PROVE  Own(d)' /\ Awaited(d)'
BY DEF Reload, Own, Awaited, OwnInv, OnPost, edit

\* Reads are answered or fail.
LEMMA ReadOwn ==
    ASSUME TypeInv, OwnInv, NEW d \in Devices, NEW i \in 1..MaxReads,
           ServeRead(d, i) \/ LoseRead(d, i)
    PROVE  Own(d)' /\ Awaited(d)'
<1>1. ASSUME ServeRead(d, i) PROVE Own(d)' /\ Awaited(d)'
  <2>1. UNCHANGED <<queue, acks, screen, mUser, mComment, crash, astray>>
    BY <1>1 DEF ServeRead, post, edit
  <2>2. PICK q \in Seq(Read) : reads[d] = q
    BY DEF TypeInv, TypeOK
  <2>3. /\ Len(q) \in Nat /\ DOMAIN q = 1..Len(q) /\ i \in 1..Len(q)
        /\ q[i] \in Read
    BY <1>1, <2>2, LenProperties, ElementOfSeq DEF ServeRead
  <2>4. PICK p \in Copy : p = [id |-> q[i].user, marks |-> View(d, q[i].user)]
    BY <2>3 DEF Read, Copy, View, TypeInv, TypeOK
  <2>a. p.id = q[i].user
    BY <2>4
  <2>b. /\ [q[i] EXCEPT !.doc = p] \in Read
        /\ [q[i] EXCEPT !.doc = p].tag = q[i].tag
        /\ [q[i] EXCEPT !.doc = p].user = q[i].user
        /\ [q[i] EXCEPT !.doc = p].doc = p
    BY <2>3 DEF Read
  <2>5. PICK r \in Read : /\ r = [q[i] EXCEPT !.doc = p] /\ r.tag = q[i].tag
                          /\ r.user = q[i].user /\ r.doc = p
    BY <2>b
  <2>6. reads'[d] = [q EXCEPT ![i] = r]
    BY <1>1, <2>2, <2>4, <2>5 DEF ServeRead, TypeInv, TypeOK
  <2>7. /\ reads'[d] # <<>> /\ DOMAIN reads'[d] = DOMAIN q
        /\ \A j \in DOMAIN q :
              /\ reads'[d][j].tag = q[j].tag /\ reads'[d][j].user = q[j].user
              /\ reads'[d][j] = q[j] \/ reads'[d][j].doc.id = q[j].user
    BY <2>3, <2>a, <2>5, <2>6
  <2>8. Own(d)'
    BY <2>1, <2>2, <2>7 DEF Own, OwnInv, OnPost
  <2>9. Awaited(d)'
    BY <2>1 DEF Awaited, OwnInv, OnPost
  <2> QED
    BY <2>8, <2>9
<1>2. ASSUME LoseRead(d, i) PROVE Own(d)' /\ Awaited(d)'
  <2>1. /\ UNCHANGED <<queue, acks, screen, mUser, mComment, crash>>
        /\ i \in DOMAIN reads[d]
        /\ reads' = [reads EXCEPT ![d] = RemoveAt(@, i)]
        /\ astray'[d] = astray[d] \cup {t \in {"read"} : reads[d][i].user = Me[d]}
    BY <1>2 DEF LoseRead, Stray, post, edit, TypeInv, TypeOK
  <2>2. \A j \in DOMAIN reads'[d] : \E k \in DOMAIN reads[d] :
           reads'[d][j] = reads[d][k]
    BY <2>1, TakenStep
  <2>3. "read" \notin astray'[d] => "read" \notin astray[d] /\ OnPost(d)
    BY <2>1 DEF Own, OwnInv
  <2>4. Own(d)'
    BY <2>1, <2>2, <2>3 DEF Own, OwnInv, OnPost
  <2>5. Awaited(d)'
    BY <2>1 DEF Awaited, OwnInv, OnPost
  <2> QED
    BY <2>4, <2>5
<1> QED
  BY <1>1, <1>2

\* The oldest write leaves the queue; its answer is on its way, or nobody
\* listens.
LEMMA WriteOwn ==
    ASSUME TypeInv, OwnInv, NEW d \in Devices, Commit(d) \/ Refuse(d)
    PROVE  Own(d)' /\ Awaited(d)'
<1>1. /\ UNCHANGED <<reads, screen, mUser, mComment, crash, astray>>
      /\ queue[d] # <<>> /\ queue' = [queue EXCEPT ![d] = Tail(@)]
  BY DEF Commit, Refuse, post, edit
<1>2. /\ Head(queue[d]) \in Proper
      /\ 1 \in DOMAIN queue[d] /\ Head(queue[d]) = queue[d][1]
      /\ \A i \in DOMAIN queue'[d] :
            i + 1 \in DOMAIN queue[d] /\ queue'[d][i] = queue[d][i + 1]
  BY <1>1, OldestGone
<1>3. PICK w \in Proper : w = Head(queue[d]) /\ w = queue[d][1]
  BY <1>2
<1>4. PICK a \in Seq(Proper) : acks[d] = a
  BY DEF TypeInv
<1>5. \/ acks'[d] = a
      \/ ~w.deaf /\ acks'[d] = Append(a, w)
  BY <1>3, <1>4 DEF Commit, Refuse, TypeInv, TypeOK
<1>6. \A i \in DOMAIN acks'[d] :
         \/ i \in DOMAIN acks[d] /\ acks'[d][i] = acks[d][i]
         \/ ~w.deaf /\ acks'[d][i] = w
  <2>1. /\ DOMAIN a = 1..Len(a) /\ Len(a) \in Nat
        /\ DOMAIN Append(a, w) = 1..(Len(a) + 1)
        /\ \A i \in DOMAIN a : Append(a, w)[i] = a[i]
        /\ Append(a, w)[Len(a) + 1] = w
    BY Grown
  <2> QED
    BY <1>4, <1>5, <2>1
<1>7. Own(d)'
  BY <1>1, <1>2 DEF Own, OwnInv, OnPost
<1>8. Awaited(d)'
  BY <1>1, <1>2, <1>3, <1>6 DEF Awaited, OwnInv, OnPost
<1> QED
  BY <1>7, <1>8

LEMMA DieOwn ==
    ASSUME TypeInv, OwnInv, NEW d \in Devices, Die(d)
    PROVE  Own(d)' /\ Awaited(d)'
<1>1. /\ screen'[d] = "core" /\ acks'[d] = <<>> /\ reads'[d] = <<>>
      /\ mUser'[d] = None /\ crash'[d] = "none" /\ astray' = astray
  BY DEF Die, TypeInv, TypeOK
<1>2. /\ DOMAIN queue'[d] = DOMAIN queue[d]
      /\ \A i \in DOMAIN queue[d] :
            /\ queue'[d][i].deaf /\ queue'[d][i].kind = queue[d][i].kind
            /\ queue'[d][i].copy = queue[d][i].copy
  BY DeafQueue
<1>3. Own(d)'
  BY <1>1, <1>2 DEF Own, OwnInv, OnPost
<1>4. Awaited(d)'
  BY <1>1, <1>2 DEF Awaited, OwnInv, OnPost
<1> QED
  BY <1>3, <1>4

LEMMA InitOwn == Init => OwnInv
BY DEF Init, OwnInv, Own, Awaited, OnPost

LEMMA NextOwn == TypeInv /\ OwnInv /\ [Next]_vars => OwnInv'
<1> SUFFICES ASSUME TypeInv, OwnInv, [Next]_vars PROVE OwnInv'
  OBVIOUS
<1>1. CASE UNCHANGED vars
  BY <1>1 DEF vars, OwnInv, Own, Awaited, OnPost
<1>2. ASSUME NEW d \in Devices,
             User(d) \/ Answer(d) \/ Server(d) \/ Die(d)
      PROVE  OwnInv'
  <2>1. Own(d)' /\ Awaited(d)'
    BY <1>2, StartOwn, ReactOwn, ProfileOwn, SaveOwn, BackOwn, MarkedOwn,
       HeardOwn, CurrentOwn, InfoOwn, ReadOwn, WriteOwn, DieOwn, ReloadOwn
       DEF User, Answer, Server
  <2>2. \A e \in Devices \ {d} : Own(e)' /\ Awaited(e)'
    BY <1>2, NotSeen, OthersOwn
  <2> QED
    BY <2>1, <2>2 DEF OwnInv
<1> QED
  BY <1>1, <1>2 DEF Next

\* Whatever the other devices do, and however their answers and its own are
\* ordered: a device whose user waits for reads saves the profile of its own
\* user only, although the profile screen takes an answer that a post's screen
\* asked for.
THEOREM OwnProfileOnly == Spec => []OwnProfile
<1>1. OwnInv => OwnProfile
  BY DEF OwnInv, Own, OwnProfile
<1> QED
  BY InitType, NextType, InitOwn, NextOwn, <1>1, PTL DEF Spec

\* No handler of a device whose user waits finds the user or the comment
\* missing: the two exceptions of these screens need a read or a reaction that
\* was walked away from, or a read that failed.
THEOREM NothingMissing == Spec => []FieldsAreThere
<1>1. TypeInv /\ OwnInv => FieldsAreThere
  <2>1. ASSUME TypeInv, OwnInv, NEW d \in Devices
        PROVE  Alive(d) \/ astray[d] # {}
    <3>1. crash[d] \in {"none", "noUser", "noComment"}
      BY <2>1 DEF TypeInv, TypeOK
    <3>2. astray[d] = {} => crash[d] # "noUser" /\ crash[d] # "noComment"
      BY <2>1 DEF OwnInv, Own, Awaited
    <3> QED
      BY <3>1, <3>2 DEF Alive
  <2> QED
    BY <2>1 DEF FieldsAreThere, TypeInv
<1> QED
  BY InitType, NextType, InitOwn, NextOwn, <1>1, PTL DEF Spec

-----------------------------------------------------------------------------
(* No reaction is lost with a profile *)

\* A write gives user Me[d] the mark m.
Gives(w, m) ==
    \/ w.kind = "mark" /\ m = <<w.field, w.comment>>
    \/ w.kind = "profile" /\ m \in w.copy.marks

\* m is stored for the user of d, or on its way before place i of the queue.
Before(d, i, m) ==
    \/ m \in users[Me[d]]
    \/ \E j \in DOMAIN queue[d] : j < i /\ Gives(queue[d][j], m)

Covers(d, i, copy) == \A m \in Marks : Before(d, i, m) => m \in copy.marks

Latest(d, copy) == Covers(d, Len(queue[d]) + 1, copy)

\* Each copy of the profile has what is stored and what is on its way: those
\* in the queue what is before them, all others everything.
Kept(d) ==
    /\ \A i \in DOMAIN queue[d] :
          queue[d][i].kind = "profile" => Covers(d, i, queue[d][i].copy)
    /\ ~OnPost(d) => \A i \in DOMAIN reads[d] :
          reads[d][i].doc # None => Latest(d, reads[d][i].doc)
    /\ screen[d] \in {"core", "edit"} => reads[d] = <<>>
    /\ \/ screen[d] = "edit"
       \/ screen[d] = "profile" /\ mUser[d] # None /\ reads[d] = <<>>
       => Latest(d, mUser[d])

\* All users have waited for all their reads.
Waiting == \A d \in Devices : "read" \notin astray[d]

KeptInv == Waiting => \A d \in Devices : Kept(d)

\* Nobody is signed in on two devices.
OwnAccounts == \A d, e \in Devices : Me[d] = Me[e] => d = e

LEMMA AstrayStays ==
    ASSUME TypeInv, [Next]_vars, NEW d \in Devices
    PROVE  astray[d] \subseteq astray'[d]
<1>1. CASE UNCHANGED vars
  BY <1>1 DEF vars
<1>2. ASSUME NEW e \in Devices, NEW what, Stray(e, what)
      PROVE  astray[d] \subseteq astray'[d]
  <2>1. astray[e] \subseteq astray[e] \cup what
    OBVIOUS
  <2> QED
    BY <1>2, <2>1 DEF Stray, TypeInv, TypeOK
<1>3. ASSUME NEW e \in Devices, User(e)
      PROVE  astray' = astray \/ \E what : Stray(e, what)
  BY <1>3 DEF User, OpenDetail, React, OpenOwnPost, OpenProfile, EditTap,
              SaveTap, RenameTap, Back
<1>4. ASSUME NEW e \in Devices, Answer(e) PROVE astray' = astray
  BY <1>4 DEF Answer, Reload, OnMarked, OnCounted, OnVerified, OnSaved,
              OnCurrentUser, OnUserInfo
<1>5. ASSUME NEW e \in Devices, Server(e) \/ Die(e)
      PROVE  astray' = astray \/ \E what : Stray(e, what)
  BY <1>5 DEF Server, Commit, Refuse, ServeRead, LoseRead, Die
<1> QED
  BY <1>1, <1>2, <1>3, <1>4, <1>5 DEF Next

\* What a step may do to the queue and to the own document of a device, seen
\* from there: nothing new comes in but what a post's screen sends, or a copy
\* that has everything.
LEMMA KeptSame ==
    ASSUME NEW d \in Devices, Kept(d), users'[Me[d]] = users[Me[d]],
           UNCHANGED <<queue[d], screen[d], reads[d], mUser[d]>>
    PROVE  Kept(d)'
BY DEF Kept, Latest, Covers, Before, OnPost

\* Copies are judged by the queue and by the own document only.
LEMMA SameQueue ==
    ASSUME NEW d \in Devices, users'[Me[d]] = users[Me[d]],
           DOMAIN queue'[d] = DOMAIN queue[d],
           Len(queue'[d]) = Len(queue[d]),
           \A i \in DOMAIN queue[d] :
              /\ queue'[d][i].kind = queue[d][i].kind
              /\ queue'[d][i].field = queue[d][i].field
              /\ queue'[d][i].comment = queue[d][i].comment
              /\ queue'[d][i].copy = queue[d][i].copy
    PROVE  /\ \A i, copy : Covers(d, i, copy)' <=> Covers(d, i, copy)
           /\ \A copy : Latest(d, copy)' <=> Latest(d, copy)
<1>1. \A i, m : Before(d, i, m)' <=> Before(d, i, m)
  BY DEF Before, Gives
<1> QED
  BY <1>1 DEF Covers, Latest

LEMMA LongerQueue ==
    ASSUME TypeInv, NEW d \in Devices, NEW w \in Proper, Send(d, w),
           users'[Me[d]] = users[Me[d]],
           NEW n \in Nat, n = Len(queue[d]) + 1
    PROVE  /\ \A i \in DOMAIN queue[d] : \A copy :
                 Covers(d, i, copy)' <=> Covers(d, i, copy)
           /\ \A copy : Covers(d, n, copy)' <=> Latest(d, copy)
           /\ \A copy : Latest(d, copy)' <=>
                 /\ Latest(d, copy)
                 /\ \A m \in Marks : Gives(w, m) => m \in copy.marks
<1>1. /\ DOMAIN queue[d] = 1..(n - 1) /\ Len(queue'[d]) = n
      /\ DOMAIN queue'[d] = 1..n
      /\ \A i \in DOMAIN queue[d] : queue'[d][i] = queue[d][i]
      /\ queue'[d][n] = w
  BY SentStep
<1>2. ASSUME NEW i \in 1..n, NEW m
      PROVE  Before(d, i, m)' <=> Before(d, i, m)
  <2>1. \A j \in DOMAIN queue'[d] : j < i => j \in DOMAIN queue[d]
    BY <1>1
  <2>2. \A j \in DOMAIN queue[d] : j \in DOMAIN queue'[d]
    BY <1>1
  <2> QED
    BY <1>1, <2>1, <2>2 DEF Before
<1>3. ASSUME NEW m
      PROVE  Before(d, n + 1, m)' <=> Before(d, n, m) \/ Gives(w, m)
  <2>1. n \in DOMAIN queue'[d] /\ n < n + 1
    BY <1>1
  <2>2. \A j \in DOMAIN queue'[d] : j \in DOMAIN queue[d] \/ j = n
    BY <1>1
  <2>3. \A j \in DOMAIN queue[d] :
           j < n /\ j < n + 1 /\ j \in DOMAIN queue'[d]
    BY <1>1
  <2> QED
    BY <1>1, <2>1, <2>2, <2>3 DEF Before
<1>4. \A i \in DOMAIN queue[d] : i \in 1..n
  BY <1>1
<1>5. \A i \in DOMAIN queue[d] : \A copy :
         Covers(d, i, copy)' <=> Covers(d, i, copy)
  BY <1>2, <1>4 DEF Covers
<1>6. n \in 1..n
  OBVIOUS
<1>7. \A copy : Covers(d, n, copy)' <=> Covers(d, n, copy)
  BY <1>2, <1>6 DEF Covers
<1>8. ASSUME NEW copy PROVE Latest(d, copy)' <=> Covers(d, n + 1, copy)'
  BY <1>1 DEF Latest
<1>9. ASSUME NEW copy PROVE Latest(d, copy) <=> Covers(d, n, copy)
  BY DEF Latest
<1>10. ASSUME NEW copy
       PROVE  Covers(d, n + 1, copy)' <=>
                 /\ Covers(d, n, copy)
                 /\ \A m \in Marks : Gives(w, m) => m \in copy.marks
  BY <1>3 DEF Covers
<1> QED
  BY <1>5, <1>7, <1>8, <1>9, <1>10

\* A post's screen comes up.
LEMMA StartKept ==
    ASSUME TypeInv, NEW d \in Devices, Kept(d),
           (\E u \in Users : OpenDetail(d, u)) \/ OpenOwnPost(d)
    PROVE  Kept(d)'
<1>1. /\ UNCHANGED <<users, queue>>
      /\ screen'[d] \in {"detail", "post"}
  BY DEF OpenDetail, OpenOwnPost, StartDetail, TypeInv, TypeOK, server
<1>2. \A i, copy : Covers(d, i, copy)' <=> Covers(d, i, copy)
  BY <1>1, SameQueue
<1> QED
  BY <1>1, <1>2 DEF Kept, OnPost

LEMMA ReactKept ==
    ASSUME TypeInv, NEW d \in Devices, Kept(d), NEW f \in Fields,
           NEW c \in Comments, React(d, f, c)
    PROVE  Kept(d)'
<1>1. PICK w \in Proper : Send(d, w) /\ w.kind = "mark"
  BY Records DEF React, Proper
<1>2. /\ DOMAIN queue[d] = 1..Len(queue[d]) /\ Len(queue[d]) \in Nat
      /\ DOMAIN queue'[d] = 1..(Len(queue[d]) + 1)
      /\ \A i \in DOMAIN queue[d] : queue'[d][i] = queue[d][i]
      /\ queue'[d][Len(queue[d]) + 1] = w
  BY <1>1, SentStep
<1>3. OnPost(d) /\ screen' = screen /\ users' = users
  BY DEF React, server
<1>4. \A i \in DOMAIN queue[d] : \A copy :
         Covers(d, i, copy)' <=> Covers(d, i, copy)
  <2>1. PICK n \in Nat : n = Len(queue[d]) + 1
    BY <1>2
  <2> QED
    BY <1>1, <1>3, <2>1, LongerQueue
<1>5. \A i \in DOMAIN queue'[d] :
         \/ i \in DOMAIN queue[d] /\ queue'[d][i] = queue[d][i]
         \/ queue'[d][i].kind = "mark"
  BY <1>1, <1>2
<1> QED
  BY <1>3, <1>4, <1>5 DEF Kept, OnPost

\* A new request has no document yet.
LEMMA AskedKept ==
    ASSUME TypeInv, NEW d \in Devices, reads[d] = <<>>, Ask(d, "info", Me[d])
    PROVE  /\ reads'[d] # <<>>
           /\ \A i \in DOMAIN reads'[d] : reads'[d][i].doc = None
<1>1. /\ reads'[d] # <<>>
      /\ \A i \in DOMAIN reads'[d] :
            \/ i \in DOMAIN reads[d] /\ reads'[d][i] = reads[d][i]
            \/ reads'[d][i] = Request("info", Me[d])
  BY AskedStep
<1> QED
  BY <1>1 DEF Request

LEMMA ProfileKept ==
    ASSUME TypeInv, NEW d \in Devices, Kept(d), "read" \notin astray'[d],
           OpenProfile(d) \/ EditTap(d) \/ RenameTap(d)
    PROVE  Kept(d)'
<1>1. ASSUME OpenProfile(d) PROVE Kept(d)'
  <2>1. /\ screen[d] = "core" /\ screen'[d] = "profile"
        /\ mUser'[d] = None /\ Ask(d, "info", Me[d])
        /\ UNCHANGED <<users, queue>>
    BY <1>1 DEF OpenProfile, TypeInv, TypeOK, server
  <2>2. reads[d] = <<>>
    BY <2>1 DEF Kept
  <2>3. \A i \in DOMAIN reads'[d] : reads'[d][i].doc = None
    BY <2>1, <2>2, AskedKept
  <2>4. \A i, copy : Covers(d, i, copy)' <=> Covers(d, i, copy)
    BY <2>1, SameQueue
  <2> QED
    BY <2>1, <2>3, <2>4 DEF Kept, OnPost
<1>2. ASSUME EditTap(d) PROVE Kept(d)'
  <2>1. /\ screen[d] = "profile"
        /\ \/ screen'[d] = "profile" /\ mUser[d] = None
           \/ screen'[d] = "edit" /\ mUser[d] # None
        /\ astray'[d] = astray[d] \cup Unread(d)
        /\ UNCHANGED <<users, reads, mUser, queue>>
    BY <1>2 DEF EditTap, Stray, TypeInv, TypeOK, server
  <2>2. reads[d] = <<>> /\ DOMAIN reads[d] = {}
    BY <2>1 DEF Unread
  <2>3. /\ \A i, copy : Covers(d, i, copy)' <=> Covers(d, i, copy)
        /\ \A copy : Latest(d, copy)' <=> Latest(d, copy)
    BY <2>1, SameQueue
  <2> QED
    BY <2>1, <2>2, <2>3 DEF Kept, OnPost
<1>3. ASSUME RenameTap(d) PROVE Kept(d)'
  BY <1>3, KeptSame DEF RenameTap, server
<1> QED
  BY <1>1, <1>2, <1>3

\* The profile that is saved has everything.
LEMMA SaveKept ==
    ASSUME TypeInv, NEW d \in Devices, Kept(d), SaveTap(d) \/ OnVerified(d)
    PROVE  Kept(d)'
<1>1. UNCHANGED <<users, reads, screen, mUser>>
  BY DEF SaveTap, OnVerified, server, edit
<1>2. CASE UNCHANGED queue
  BY <1>1, <1>2, KeptSame
<1>3. CASE ~UNCHANGED queue
  <2>1. PICK p \in Copy : mUser[d] = p /\ mUser[d] # None /\ screen[d] = "edit"
                          /\ Send(d, Profile(p))
    BY <1>3 DEF SaveTap, OnVerified, TypeInv, TypeOK, Ready
  <2>2. PICK w \in Proper : Send(d, w) /\ w.kind = "profile" /\ w.copy = p
    BY <2>1, Records DEF Proper
  <2>3. /\ DOMAIN queue[d] = 1..Len(queue[d]) /\ Len(queue[d]) \in Nat
        /\ DOMAIN queue'[d] = 1..(Len(queue[d]) + 1)
        /\ \A i \in DOMAIN queue[d] : queue'[d][i] = queue[d][i]
        /\ queue'[d][Len(queue[d]) + 1] = w
    BY <2>2, SentStep
  <2>a. PICK n \in Nat : n = Len(queue[d]) + 1
    BY <2>3
  <2>4. /\ \A i \in DOMAIN queue[d] : \A copy :
              Covers(d, i, copy)' <=> Covers(d, i, copy)
        /\ \A copy : Covers(d, n, copy)' <=> Latest(d, copy)
        /\ \A copy : Latest(d, copy)' <=>
              /\ Latest(d, copy)
              /\ \A m \in Marks : Gives(w, m) => m \in copy.marks
    BY <1>1, <2>2, <2>a, LongerQueue
  <2>5. Latest(d, p) /\ reads[d] = <<>>
    BY <2>1 DEF Kept
  <2>6. \A m : Gives(w, m) => m \in p.marks
    BY <2>2 DEF Gives
  <2>7. ASSUME NEW i \in DOMAIN queue'[d], queue'[d][i].kind = "profile"
        PROVE  Covers(d, i, queue[d][i].copy)'
    <3>1. PICK copy : copy = queue'[d][i].copy
      OBVIOUS
    <3>2. CASE i \in DOMAIN queue[d]
      <4>1. Covers(d, i, copy)
        BY <2>3, <2>7, <3>1, <3>2 DEF Kept
      <4>2. Covers(d, i, copy)'
        BY <2>4, <3>2, <4>1
      <4> QED
        BY <3>1, <4>2
    <3>3. CASE i = n
      <4>1. copy = p
        BY <2>2, <2>3, <2>a, <3>1, <3>3
      <4>2. Covers(d, i, copy)'
        BY <2>4, <2>5, <3>3, <4>1
      <4> QED
        BY <3>1, <4>2
    <3> QED
      BY <2>3, <2>a, <3>2, <3>3
  <2>8. Latest(d, p)'
    BY <2>4, <2>5, <2>6
  <2> QED
    BY <1>1, <2>1, <2>5, <2>7, <2>8 DEF Kept
<1> QED
  BY <1>2, <1>3

\* Back to the profile, which asks again
LEMMA BackKept ==
    ASSUME TypeInv, NEW d \in Devices, Kept(d), "read" \notin astray'[d],
           Back(d)
    PROVE  Kept(d)'
<1>1. /\ UNCHANGED <<users, queue, mUser>>
      /\ astray'[d] = astray[d] \cup Unread(d)
                      \cup {t \in {"mark"} : OnPost(d) /\ Pending(d)}
      /\ \/ screen'[d] = "profile" /\ Ask(d, "info", Me[d])
         \/ screen'[d] = "core" /\ reads' = reads
  BY DEF Back, Stray, TypeInv, TypeOK, server, edit
<1>2. reads[d] = <<>> /\ DOMAIN reads[d] = {}
  BY <1>1 DEF Unread
<1>3. screen'[d] = "profile" =>
         /\ reads'[d] # <<>>
         /\ \A i \in DOMAIN reads'[d] : reads'[d][i].doc = None
  BY <1>1, <1>2, AskedKept
<1>4. \A i, copy : Covers(d, i, copy)' <=> Covers(d, i, copy)
  BY <1>1, SameQueue
<1> QED
  BY <1>1, <1>2, <1>3, <1>4 DEF Kept, OnPost

\* What is saved of a comment gives nobody a mark.
LEMMA MarkedKept ==
    ASSUME TypeInv, NEW d \in Devices, Kept(d), OnMarked(d)
    PROVE  Kept(d)'
<1>1. /\ UNCHANGED <<users, reads, screen, mUser>>
      /\ acks[d] # <<>> /\ Head(acks[d]).kind = "mark" /\ Hear(d)
  BY DEF OnMarked, Heard, server, edit
<1>2. CASE UNCHANGED queue
  BY <1>1, <1>2, KeptSame
<1>3. CASE ~UNCHANGED queue
  <2>1. PICK h \in Held, f \in Fields : OnPost(d) /\ Send(d, Count(f, h))
    <3>1. Head(acks[d]).field \in Fields
      BY <1>1, HeardStep DEF Proper
    <3> QED
      BY <3>1, <1>3 DEF OnMarked, TypeInv, TypeOK
  <2>2. PICK w \in Proper : Send(d, w) /\ w.kind = "count"
    BY <2>1, Records DEF Proper, Held
  <2>3. /\ DOMAIN queue[d] = 1..Len(queue[d]) /\ Len(queue[d]) \in Nat
        /\ DOMAIN queue'[d] = 1..(Len(queue[d]) + 1)
        /\ \A i \in DOMAIN queue[d] : queue'[d][i] = queue[d][i]
        /\ queue'[d][Len(queue[d]) + 1] = w
    BY <2>2, SentStep
  <2>4. \A i \in DOMAIN queue[d] : \A copy :
           Covers(d, i, copy)' <=> Covers(d, i, copy)
    <3>1. PICK n \in Nat : n = Len(queue[d]) + 1
      BY <2>3
    <3> QED
      BY <1>1, <2>2, <3>1, LongerQueue
  <2>5. \A i \in DOMAIN queue'[d] :
           \/ i \in DOMAIN queue[d] /\ queue'[d][i] = queue[d][i]
           \/ queue'[d][i].kind = "count"
    BY <2>2, <2>3
  <2> QED
    BY <1>1, <2>1, <2>4, <2>5 DEF Kept, OnPost
<1> QED
  BY <1>2, <1>3

LEMMA HeardKept ==
    ASSUME TypeInv, NEW d \in Devices, Kept(d), OnCounted(d) \/ OnSaved(d)
    PROVE  Kept(d)'
<1>1. /\ UNCHANGED <<users, queue, mUser>>
      /\ \/ UNCHANGED <<screen, reads>>
         \/ /\ screen[d] = "edit" /\ screen'[d] = "profile"
            /\ Ask(d, "info", Me[d])
  BY DEF OnCounted, OnSaved, Heard, server, edit, TypeInv, TypeOK
<1>2. CASE UNCHANGED <<screen, reads>>
  BY <1>1, <1>2, KeptSame
<1>3. CASE /\ screen[d] = "edit" /\ screen'[d] = "profile"
           /\ Ask(d, "info", Me[d])
  <2>1. reads[d] = <<>>
    BY <1>3 DEF Kept
  <2>2. /\ reads'[d] # <<>>
        /\ \A i \in DOMAIN reads'[d] : reads'[d][i].doc = None
    BY <1>3, <2>1, AskedKept
  <2>3. \A i, copy : Covers(d, i, copy)' <=> Covers(d, i, copy)
    BY <1>1, SameQueue
  <2> QED
    BY <1>1, <1>3, <2>2, <2>3 DEF Kept, OnPost
<1> QED
  BY <1>1, <1>2, <1>3

\* Answers to reads: on a profile they have everything.
LEMMA AnsweredKept ==
    ASSUME TypeInv, NEW d \in Devices, Kept(d), Own(d),
           "read" \notin astray[d], NEW i \in 1..MaxReads,
           OnCurrentUser(d, i) \/ OnUserInfo(d, i)
    PROVE  Kept(d)'
<1>1. /\ UNCHANGED <<users, queue, screen>>
      /\ i \in DOMAIN reads[d] /\ reads[d][i].doc # None
  BY DEF OnCurrentUser, OnUserInfo, Answered, server
<1>2. /\ \A k, copy : Covers(d, k, copy)' <=> Covers(d, k, copy)
      /\ \A copy : Latest(d, copy)' <=> Latest(d, copy)
  BY <1>1, SameQueue
<1>3. CASE OnPost(d)
  BY <1>1, <1>2, <1>3 DEF Kept, OnPost
<1>4. CASE ~OnPost(d)
  <2>1. reads[d][i].tag = "info"
    BY <1>1, <1>4 DEF Own
  <2>2. OnUserInfo(d, i)
    BY <2>1 DEF OnCurrentUser, Answered
  <2>3. reads' = [reads EXCEPT ![d] = RemoveAt(@, i)]
    BY <2>2 DEF OnUserInfo
  <2>4. \A j \in DOMAIN reads'[d] : \E k \in DOMAIN reads[d] :
           reads'[d][j] = reads[d][k]
    BY <1>1, <2>3, TakenStep
  <2>5. screen[d] = "profile" /\ mUser'[d] = reads[d][i].doc
    <3>1. reads[d] # <<>>
      BY <1>1
    <3>2. screen[d] = "profile"
      BY <1>4, <3>1 DEF Kept, OnPost, TypeInv, TypeOK
    <3> QED
      BY <2>2, <3>2 DEF OnUserInfo, TypeInv, TypeOK
  <2>6. Latest(d, reads[d][i].doc)
    BY <1>1, <1>4 DEF Kept
  <2>7. \A j \in DOMAIN reads'[d] :
           reads'[d][j].doc # None => Latest(d, reads'[d][j].doc)
    BY <1>4, <2>4 DEF Kept
  <2> QED
    BY <1>1, <1>2, <2>5, <2>6, <2>7 DEF Kept
<1> QED
  BY <1>3, <1>4

\* A read of the own document sees all that is on its way.
LEMMA ViewCovers ==
    ASSUME TypeInv, NEW d \in Devices, Kept(d), Own(d),
           "read" \notin astray[d], NEW copy,
           copy.marks = View(d, Me[d])
    PROVE  Latest(d, copy)
<1>1. /\ DOMAIN queue[d] = 1..Len(queue[d]) /\ Len(queue[d]) \in Nat
      /\ \A j \in DOMAIN queue[d] : queue[d][j] \in Proper
  BY LenProperties, ElementOfSeq DEF TypeInv
<1>2. ASSUME NEW m \in Marks, NEW i \in Nat,
             \A j \in DOMAIN queue[d] : j > i => Before(d, j, m)
      PROVE  Survives(m, d, Me[d], i)
  <2>1. ASSUME NEW j \in DOMAIN queue[d], j > i
        PROVE  m \in Applied(Me[d], {m}, queue[d][j], d)
    <3>1. CASE queue[d][j].kind = "profile"
      <4>1. m \in queue[d][j].copy.marks
        BY <1>2, <2>1, <3>1 DEF Kept, Covers
      <4> QED
        BY <3>1, <4>1 DEF Applied
    <3>2. CASE queue[d][j].kind # "profile"
      BY <3>2 DEF Applied
    <3> QED
      BY <3>1, <3>2
  <2> QED
    BY <2>1 DEF Survives
<1>3. ASSUME NEW m \in Marks, m \in users[Me[d]] PROVE m \in View(d, Me[d])
  <2>1. Survives(m, d, Me[d], 0)
    BY <1>2, <1>3 DEF Before
  <2> QED
    BY <1>3, <2>1 DEF View
<1>4. ASSUME NEW m \in Marks, NEW i \in DOMAIN queue[d],
             Gives(queue[d][i], m)
      PROVE  m \in View(d, Me[d])
  <2>1. Survives(m, d, Me[d], i)
    <3>1. i \in Nat /\ \A j \in DOMAIN queue[d] : j > i => i < j
      BY <1>1
    <3> QED
      BY <1>2, <1>4, <3>1 DEF Before
  <2>2. m \in Applied(Me[d], {}, queue[d][i], d)
    <3>1. queue[d][i].kind = "profile" => queue[d][i].copy.id = Me[d]
      BY DEF Own
    <3> QED
      BY <1>4, <3>1 DEF Gives, Applied
  <2> QED
    BY <2>1, <2>2 DEF View
<1> QED
  BY <1>3, <1>4 DEF Latest, Covers, Before

\* Reads are answered with what is on its way, or fail, which is not waiting.
LEMMA ReadKept ==
    ASSUME TypeInv, NEW d \in Devices, Kept(d), Own(d),
           "read" \notin astray'[d], NEW i \in 1..MaxReads,
           ServeRead(d, i) \/ LoseRead(d, i)
    PROVE  Kept(d)'
<1>1. /\ UNCHANGED <<users, queue, screen, mUser>> /\ i \in DOMAIN reads[d]
      /\ reads[d][i].doc = None
  BY DEF ServeRead, LoseRead, server, edit
<1>2. /\ \A k, copy : Covers(d, k, copy)' <=> Covers(d, k, copy)
      /\ \A copy : Latest(d, copy)' <=> Latest(d, copy)
  BY <1>1, SameQueue
<1>3. CASE OnPost(d)
  BY <1>1, <1>2, <1>3 DEF Kept, OnPost
<1>4. CASE ~OnPost(d) /\ ServeRead(d, i)
  <2>1. PICK q \in Seq(Read) : reads[d] = q
    BY DEF TypeInv, TypeOK
  <2>2. DOMAIN q = 1..Len(q) /\ i \in DOMAIN q /\ q[i] \in Read
    BY <1>1, <2>1, LenProperties, ElementOfSeq
  <2>3. "read" \notin astray[d] /\ q[i].user = Me[d]
    <3>1. astray' = astray
      BY <1>4 DEF ServeRead
    <3>2. "read" \notin astray[d]
      BY <3>1
    <3> QED
      BY <1>4, <2>1, <2>2, <3>2 DEF Own
  <2>4. PICK copy : copy = [id |-> Me[d], marks |-> View(d, Me[d])]
    OBVIOUS
  <2>5. Latest(d, copy)
    <3>1. copy.marks = View(d, Me[d])
      BY <2>4
    <3> QED
      BY <2>3, <3>1, ViewCovers
  <2>6. reads'[d] = [q EXCEPT ![i].doc = copy]
    BY <1>4, <2>1, <2>3, <2>4 DEF ServeRead, TypeInv, TypeOK
  <2>7. /\ reads'[d] # <<>> /\ reads[d] # <<>>
        /\ DOMAIN reads'[d] = DOMAIN reads[d]
        /\ \A j \in DOMAIN reads[d] :
              reads'[d][j] = reads[d][j] \/ reads'[d][j].doc = copy
    BY <2>1, <2>2, <2>6 DEF Read
  <2>8. \A j \in DOMAIN reads'[d] :
           reads'[d][j].doc # None => Latest(d, reads'[d][j].doc)
    BY <1>4, <2>5, <2>7 DEF Kept
  <2> QED
    BY <1>1, <1>2, <2>7, <2>8 DEF Kept
<1>5. CASE ~OnPost(d) /\ LoseRead(d, i)
  <2>1. astray'[d] = astray[d] \cup {t \in {"read"} : reads[d][i].user = Me[d]}
    BY <1>5 DEF LoseRead, Stray, TypeInv, TypeOK
  <2>2. reads[d][i].user = Me[d]
    BY <1>1, <1>5, <2>1 DEF Own
  <2> QED
    BY <2>1, <2>2
<1> QED
  BY <1>3, <1>4, <1>5

\* The oldest write leaves the queue: what it gives is stored then, and was
\* known to all copies behind it.
LEMMA WriteKept ==
    ASSUME TypeInv, NEW d \in Devices, Kept(d), Own(d),
           "read" \notin astray[d], Commit(d) \/ Refuse(d)
    PROVE  Kept(d)'
<1>1. /\ UNCHANGED <<reads, screen, mUser>>
      /\ queue[d] # <<>> /\ queue' = [queue EXCEPT ![d] = Tail(@)]
  BY DEF Commit, Refuse, edit
<1>2. /\ 1 \in DOMAIN queue[d] /\ Head(queue[d]) = queue[d][1]
      /\ Len(queue[d]) \in Nat \ {0} /\ DOMAIN queue[d] = 1..Len(queue[d])
      /\ DOMAIN queue'[d] = 1..(Len(queue[d]) - 1)
      /\ \A i \in DOMAIN queue'[d] :
            i + 1 \in DOMAIN queue[d] /\ queue'[d][i] = queue[d][i + 1]
  BY <1>1, OldestGone
<1>a. Len(queue'[d]) = Len(queue[d]) - 1
  BY <1>1, Shifted DEF TypeInv
<1>3. ASSUME NEW m \in Marks, m \in users'[Me[d]]
      PROVE  m \in users[Me[d]] \/ Gives(queue[d][1], m)
  <2>1. CASE Refuse(d)
    BY <1>3, <2>1 DEF Refuse, server
  <2>2. CASE Commit(d)
    <3>1. m \in Applied(Me[d], users[Me[d]], queue[d][1], d)
      BY <1>2, <1>3, <2>2 DEF Commit
    <3> QED
      BY <3>1 DEF Applied, Gives
  <2> QED
    BY <2>1, <2>2
<1>4. ASSUME NEW i \in 1..Len(queue[d]), NEW m \in Marks, Before(d, i, m)'
      PROVE  Before(d, i + 1, m)
  <2>1. CASE m \in users'[Me[d]]
    <3>1. 1 < i + 1
      OBVIOUS
    <3> QED
      BY <1>2, <1>3, <2>1, <3>1 DEF Before
  <2>2. ASSUME NEW j \in DOMAIN queue'[d], j < i, Gives(queue'[d][j], m)
        PROVE  Before(d, i + 1, m)
    <3>1. /\ j + 1 \in DOMAIN queue[d] /\ j + 1 < i + 1
          /\ Gives(queue[d][j + 1], m)
      BY <1>2, <2>2
    <3> QED
      BY <3>1 DEF Before
  <2> QED
    BY <1>4, <2>1, <2>2 DEF Before
<1>5. ASSUME NEW copy, Latest(d, copy) PROVE Latest(d, copy)'
  <2>1. PICK n \in 1..Len(queue[d]) : n = Len(queue[d])
    BY <1>2
  <2>2. \A m \in Marks : Before(d, n, m)' => m \in copy.marks
    BY <1>4, <1>5, <2>1 DEF Latest, Covers
  <2>3. Len(queue'[d]) + 1 = n
    BY <1>2, <1>a, <2>1
  <2> QED
    BY <2>2, <2>3 DEF Latest, Covers
<1>6. ASSUME NEW i \in DOMAIN queue'[d], queue'[d][i].kind = "profile",
             NEW m \in Marks, Before(d, i, m)'
      PROVE  m \in queue'[d][i].copy.marks
  <2>1. /\ i \in 1..Len(queue[d]) /\ i + 1 \in DOMAIN queue[d]
        /\ queue'[d][i] = queue[d][i + 1]
    BY <1>2
  <2>2. Before(d, i + 1, m)
    BY <1>4, <1>6, <2>1
  <2> QED
    BY <1>6, <2>1, <2>2 DEF Kept, Covers
<1>7. \A i \in DOMAIN queue'[d] : queue'[d][i].kind = "profile" =>
         \A m \in Marks : Before(d, i, m)' => m \in queue'[d][i].copy.marks
  BY <1>6
<1> QED
  BY <1>1, <1>5, <1>7 DEF Kept, Covers, OnPost

LEMMA DieKept ==
    ASSUME TypeInv, NEW d \in Devices, Kept(d), Die(d)
    PROVE  Kept(d)'
<1>1. /\ screen'[d] = "core" /\ reads'[d] = <<>> /\ users' = users
  BY DEF Die, TypeInv, TypeOK, server
<1>2. /\ DOMAIN queue'[d] = DOMAIN queue[d] /\ Len(queue'[d]) = Len(queue[d])
      /\ \A i \in DOMAIN queue[d] :
            /\ queue'[d][i].kind = queue[d][i].kind
            /\ queue'[d][i].field = queue[d][i].field
            /\ queue'[d][i].comment = queue[d][i].comment
            /\ queue'[d][i].copy = queue[d][i].copy
  BY DeafQueue
<1>3. \A i, copy : Covers(d, i, copy)' <=> Covers(d, i, copy)
  BY <1>1, <1>2, SameQueue
<1> QED
  BY <1>1, <1>2, <1>3 DEF Kept, OnPost

\* Another device writes the document of its own user.
LEMMA OthersKept ==
    ASSUME TypeInv, OwnAccounts, NEW d \in Devices, NEW e \in Devices \ {d},
           User(d) \/ Answer(d) \/ Server(d) \/ Die(d),
           Own(d), "read" \notin astray[d], Kept(e)
    PROVE  Kept(e)'
<1>1. Me[d] # Me[e] /\ Me[e] \in Users
  BY DEF OwnAccounts
<1>2. users'[Me[e]] = users[Me[e]]
  <2>1. CASE Commit(d)
    <3>1. 1 \in DOMAIN queue[d] /\ Head(queue[d]) = queue[d][1]
      BY <2>1, OldestGone DEF Commit
    <3>2. users'[Me[e]] = Applied(Me[e], users[Me[e]], queue[d][1], d)
      BY <1>1, <2>1, <3>1 DEF Commit
    <3>3. queue[d][1].kind = "profile" => queue[d][1].copy.id = Me[d]
      BY <3>1 DEF Own
    <3> QED
      BY <1>1, <3>2, <3>3 DEF Applied
  <2>2. CASE ~Commit(d)
    <3>1. CASE User(d)
      BY <3>1 DEF User, OpenDetail, React, OpenOwnPost, OpenProfile, EditTap,
                  SaveTap, RenameTap, Back, server
    <3>2. CASE Answer(d)
      BY <3>2 DEF Answer, Reload, OnMarked, OnCounted, OnVerified, OnSaved,
                  OnCurrentUser, OnUserInfo, server
    <3>3. CASE Server(d) \/ Die(d)
      BY <2>2, <3>3 DEF Server, Refuse, ServeRead, LoseRead, Die, server
    <3> QED
      BY <3>1, <3>2, <3>3
  <2> QED
    BY <2>1, <2>2
<1>3. UNCHANGED <<queue[e], screen[e], reads[e], mUser[e]>>
  BY NotSeen DEF Elsewhere
<1> QED
  BY <1>2, <1>3, KeptSame

LEMMA ReloadKept ==
    ASSUME NEW d \in Devices, Kept(d), Reload(d)
    PROVE  Kept(d)'
BY KeptSame DEF Reload, server, edit

LEMMA InitKept == Init => KeptInv
BY DEF Init, KeptInv, Kept, OnPost

LEMMA NextKept ==
    ASSUME OwnAccounts, TypeInv, OwnInv, KeptInv, [Next]_vars
    PROVE  KeptInv'
<1> SUFFICES ASSUME Waiting' PROVE \A d \in Devices : Kept(d)'
  BY DEF KeptInv
<1>1. /\ \A d \in Devices : "read" \notin astray[d] /\ "read" \notin astray'[d]
      /\ \A d \in Devices : Kept(d) /\ Own(d)
  <2>1. \A d \in Devices : "read" \notin astray'[d]
    BY DEF Waiting
  <2>2. \A d \in Devices : "read" \notin astray[d]
    BY <2>1, AstrayStays
  <2> QED
    BY <2>1, <2>2 DEF KeptInv, Waiting, OwnInv
<1>2. CASE UNCHANGED vars
  BY <1>1, <1>2, KeptSame DEF vars
<1>3. ASSUME NEW d \in Devices,
             User(d) \/ Answer(d) \/ Server(d) \/ Die(d)
      PROVE  \A e \in Devices : Kept(e)'
  <2>0. /\ Kept(d) /\ Own(d)
        /\ "read" \notin astray[d] /\ "read" \notin astray'[d]
    BY <1>1
  <2>4. Kept(d)'
    <3>1. CASE User(d)
      <4>1. CASE (\E u \in Users : OpenDetail(d, u)) \/ OpenOwnPost(d)
        BY <2>0, <4>1, StartKept
      <4>2. ASSUME NEW f \in Fields, NEW c \in Comments, React(d, f, c)
            PROVE  Kept(d)'
        BY <2>0, <4>2, ReactKept
      <4>3. CASE OpenProfile(d) \/ EditTap(d) \/ RenameTap(d)
        BY <2>0, <4>3, ProfileKept
      <4>4. CASE SaveTap(d)
        BY <2>0, <4>4, SaveKept
      <4>5. CASE Back(d)
        BY <2>0, <4>5, BackKept
      <4> QED
        BY <3>1, <4>1, <4>2, <4>3, <4>4, <4>5 DEF User
    <3>2. CASE Answer(d)
      <4>1. CASE Reload(d)
        BY <2>0, <4>1, ReloadKept
      <4>2. CASE OnMarked(d)
        BY <2>0, <4>2, MarkedKept
      <4>3. CASE OnCounted(d) \/ OnSaved(d)
        BY <2>0, <4>3, HeardKept
      <4>4. CASE OnVerified(d)
        BY <2>0, <4>4, SaveKept
      <4>5. ASSUME NEW i \in 1..MaxReads,
                   OnCurrentUser(d, i) \/ OnUserInfo(d, i)
            PROVE  Kept(d)'
        BY <2>0, <4>5, AnsweredKept
      <4> QED
        BY <3>2, <4>1, <4>2, <4>3, <4>4, <4>5 DEF Answer
    <3>3. CASE Server(d) \/ Die(d)
      <4>1. CASE Commit(d) \/ Refuse(d)
        BY <2>0, <4>1, WriteKept
      <4>2. ASSUME NEW i \in 1..MaxReads, ServeRead(d, i) \/ LoseRead(d, i)
            PROVE  Kept(d)'
        BY <2>0, <4>2, ReadKept
      <4>3. CASE Die(d)
        BY <2>0, <4>3, DieKept
      <4> QED
        BY <3>3, <4>1, <4>2, <4>3 DEF Server
    <3> QED
      BY <1>3, <3>1, <3>2, <3>3
  <2>5. \A e \in Devices \ {d} : Kept(e)'
    BY <1>1, <1>3, OthersKept
  <2> QED
    BY <2>4, <2>5
<1> QED
  BY <1>2, <1>3 DEF Next

\* A profile that is saved whole, from a copy that was read earlier, never
\* takes back a reaction of its user, if all users wait for their reads and
\* nobody is signed in on two devices: the copy has what was stored when it
\* was read, what was on its way, and nothing can be added before it is saved.
THEOREM ProfilesKeepMarks == OwnAccounts => (Spec => MarksKept)
<1> DEFINE Keeps(d) ==
      queue[d] # <<>> /\ Head(queue[d]).kind = "profile" =>
          \/ \E e \in Devices : "read" \in astray[e]
          \/ users[Me[d]] \cap made[d] \subseteq users'[Me[d]]
<1>1. ASSUME OwnAccounts, TypeInv, OwnInv, KeptInv, [Next]_vars
      PROVE  \A d \in Devices : Keeps(d)
  <2> SUFFICES ASSUME NEW d \in Devices, Waiting,
                      queue[d] # <<>>, Head(queue[d]).kind = "profile"
               PROVE  users[Me[d]] \subseteq users'[Me[d]]
    BY DEF Waiting
  <2>1. \A e \in Devices : Kept(e) /\ Own(e) /\ "read" \notin astray[e]
    BY <1>1 DEF KeptInv, OwnInv, Waiting
  <2>2. Me[d] \in Users /\ users[Me[d]] \subseteq Marks
    BY <1>1 DEF TypeInv, TypeOK
  <2>3. CASE Commit(d)
    <3>1. 1 \in DOMAIN queue[d] /\ Head(queue[d]) = queue[d][1]
      BY <1>1, <2>3, OldestGone DEF Commit
    <3>2. users'[Me[d]] = Applied(Me[d], users[Me[d]], queue[d][1], d)
      BY <2>2, <2>3, <3>1 DEF Commit
    <3>3. users'[Me[d]] = queue[d][1].copy.marks
      BY <2>1, <3>1, <3>2 DEF Own, Applied
    <3>4. users[Me[d]] \subseteq queue[d][1].copy.marks
      BY <2>1, <2>2, <3>1 DEF Kept, Covers, Before
    <3> QED
      BY <3>3, <3>4
  <2>4. ASSUME NEW e \in Devices \ {d}, Commit(e)
        PROVE  users[Me[d]] \subseteq users'[Me[d]]
    <3>1. 1 \in DOMAIN queue[e] /\ Head(queue[e]) = queue[e][1]
      BY <1>1, <2>4, OldestGone DEF Commit
    <3>2. users'[Me[d]] = Applied(Me[d], users[Me[d]], queue[e][1], e)
      BY <2>2, <2>4, <3>1 DEF Commit
    <3>3. queue[e][1].kind = "profile" => queue[e][1].copy.id = Me[e]
      BY <2>1, <3>1 DEF Own
    <3> QED
      BY <1>1, <3>2, <3>3 DEF Applied, OwnAccounts
  <2>5. CASE users' = users
    BY <2>5
  <2>6. users' = users \/ \E e \in Devices : Commit(e)
    <3>1. ASSUME NEW e \in Devices, User(e) PROVE users' = users
      BY <3>1 DEF User, OpenDetail, React, OpenOwnPost, OpenProfile, EditTap,
                  SaveTap, RenameTap, Back, server
    <3>2. ASSUME NEW e \in Devices, Answer(e) PROVE users' = users
      BY <3>2 DEF Answer, Reload, OnMarked, OnCounted, OnVerified, OnSaved,
                  OnCurrentUser, OnUserInfo, server
    <3>3. ASSUME NEW e \in Devices, Server(e) \/ Die(e)
          PROVE  users' = users \/ Commit(e)
      BY <3>3 DEF Server, Refuse, ServeRead, LoseRead, Die, server
    <3> QED
      BY <1>1, <3>1, <3>2, <3>3 DEF Next, vars
  <2> QED
    BY <2>3, <2>4, <2>5, <2>6
<1>2. ASSUME OwnAccounts, TypeInv, OwnInv, KeptInv, [Next]_vars
      PROVE  [\A d \in Devices : Keeps(d)]_users
  BY <1>1, <1>2
<1> HIDE DEF Keeps
<1>3. ASSUME OwnAccounts
      PROVE  Spec => [][\A d \in Devices : Keeps(d)]_users
  <2>1. TypeInv /\ OwnInv /\ KeptInv /\ [Next]_vars => KeptInv'
    BY <1>3, NextKept
  <2>2. TypeInv /\ OwnInv /\ KeptInv /\ [Next]_vars
           => [\A d \in Devices : Keeps(d)]_users
    BY <1>2, <1>3
  <2> QED
    BY InitType, NextType, InitOwn, NextOwn, InitKept, <2>1, <2>2, PTL
       DEF Spec
<1> QED
  BY <1>3 DEF MarksKept, Keeps

-----------------------------------------------------------------------------
(* The comment tapped last *)

MarkOf(w, c)  == w.kind = "mark" /\ ~w.deaf /\ w.comment = c
CountOf(w, c) == w.kind = "count" /\ w.comment = c

\* The comment is marked once more, and its answer will save it.
Coming(d, c) ==
    \/ \E i \in DOMAIN queue[d] : MarkOf(queue[d][i], c)
    \/ \E i \in DOMAIN acks[d] : MarkOf(acks[d][i], c)

\* The last save of the comment that is on its way has the counters n.
Saving(d, c, n) ==
    \E i \in DOMAIN queue[d] :
        /\ CountOf(queue[d][i], c) /\ queue[d][i].counter = n
        /\ \A j \in DOMAIN queue[d] : j > i => ~CountOf(queue[d][j], c)

\* No save is on its way, and the last one was this.
Saved(d, c, n) ==
    /\ \A i \in DOMAIN queue[d] : ~CountOf(queue[d][i], c)
    /\ counts[c] = n \/ saver[c] \notin {d, None}

\* The comment tapped last will be saved as it is, or was.
Stored(d) ==
    mComment[d] # None /\ OnPost(d) =>
        \/ mComment[d].comment \in spoiled
        \/ Coming(d, mComment[d].comment)
        \/ Saving(d, mComment[d].comment, mComment[d].counter)
        \/ Saved(d, mComment[d].comment, mComment[d].counter)

StoredInv == \A d \in Devices : Stored(d)

LEMMA StoredSame ==
    ASSUME NEW d \in Devices, Stored(d), OnPost(d)' => OnPost(d),
           UNCHANGED <<mComment[d], counts, saver, queue[d], acks[d]>>,
           spoiled \subseteq spoiled'
    PROVE  Stored(d)'
BY DEF Stored, Coming, Saving, Saved

\* A new tap marks its comment.
LEMMA ReactStored ==
    ASSUME TypeInv, NEW d \in Devices, NEW f \in Fields, NEW c \in Comments,
           React(d, f, c)
    PROVE  Stored(d)'
<1>1. PICK w \in Proper : Send(d, w) /\ MarkOf(w, c)
  BY Records DEF React, Proper, MarkOf
<1>2. Len(queue[d]) + 1 \in DOMAIN queue'[d]
      /\ queue'[d][Len(queue[d]) + 1] = w
  BY <1>1, SentStep
<1>3. \E i \in DOMAIN queue'[d] : MarkOf(queue'[d][i], c)
  BY <1>1, <1>2
<1>4. mComment'[d].comment = c
  BY DEF React, TypeInv, TypeOK
<1> QED
  BY <1>3, <1>4 DEF Stored, Coming

\* The answer to a mark saves the comment tapped last.
LEMMA MarkedStored ==
    ASSUME TypeInv, NEW d \in Devices, Stored(d), OnMarked(d)
    PROVE  Stored(d)'
<1> SUFFICES ASSUME mComment[d] # None, OnPost(d)
             PROVE  Saving(d, mComment[d].comment, mComment[d].counter)'
  BY DEF Stored, OnPost, OnMarked, post
<1>1. mComment' = mComment
  BY DEF OnMarked, post
<1>2. PICK h \in Held : mComment[d] = h
  BY DEF TypeInv, TypeOK
<1>3. Head(acks[d]).field \in Fields
  BY HeardStep DEF OnMarked, Heard, Proper
<1>4. PICK f \in Fields : Send(d, Count(f, h))
  BY <1>2, <1>3 DEF OnMarked
<1>5. PICK w \in Proper : /\ Send(d, w) /\ CountOf(w, h.comment)
                          /\ w.counter = h.counter
  BY <1>2, <1>4, Records DEF Proper, Held, CountOf
<1>6. PICK n \in Nat : /\ n \in DOMAIN queue'[d] /\ queue'[d][n] = w
                       /\ \A j \in DOMAIN queue'[d] : ~(j > n)
  <2>1. /\ DOMAIN queue'[d] = 1..(Len(queue[d]) + 1) /\ Len(queue[d]) \in Nat
        /\ queue'[d][Len(queue[d]) + 1] = w
    BY <1>5, SentStep
  <2>2. /\ Len(queue[d]) + 1 \in DOMAIN queue'[d]
        /\ \A j \in DOMAIN queue'[d] : ~(j > Len(queue[d]) + 1)
    BY <2>1
  <2> QED
    BY <2>1, <2>2
<1> QED
  BY <1>1, <1>2, <1>5, <1>6 DEF Saving

\* Other answers are none to a mark.
LEMMA HeardStored ==
    ASSUME TypeInv, NEW d \in Devices, Stored(d), OnCounted(d) \/ OnSaved(d)
    PROVE  Stored(d)'
<1>1. /\ UNCHANGED <<queue, mComment, counts, saver, spoiled>>
      /\ acks[d] # <<>> /\ Head(acks[d]).kind # "mark"
      /\ acks' = [acks EXCEPT ![d] = Tail(@)]
      /\ OnPost(d)' => OnPost(d)
  BY DEF OnCounted, OnSaved, Heard, Hear, server, past, post, OnPost,
         TypeInv, TypeOK
<1>2. PICK a \in Seq(Proper) : acks[d] = a /\ a # <<>>
  BY <1>1 DEF TypeInv
<1>3. /\ Head(a) = a[1] /\ DOMAIN a = 1..Len(a) /\ Len(a) \in Nat
      /\ DOMAIN Tail(a) = 1..(Len(a) - 1)
      /\ \A i \in DOMAIN Tail(a) : Tail(a)[i] = a[i + 1]
  BY <1>2, Shifted
<1>4. acks'[d] = Tail(a)
  BY <1>1, <1>2 DEF TypeInv, TypeOK
<1>5. ASSUME NEW c, NEW i \in DOMAIN acks[d], MarkOf(acks[d][i], c)
      PROVE  \E j \in DOMAIN acks'[d] : MarkOf(acks'[d][j], c)
  <2>1. i # 1
    BY <1>1, <1>2, <1>3, <1>5 DEF MarkOf
  <2>2. i - 1 \in DOMAIN Tail(a) /\ (i - 1) + 1 = i
    BY <1>2, <1>3, <2>1
  <2>3. Tail(a)[i - 1] = a[i]
    BY <1>3, <2>2
  <2> QED
    BY <1>2, <1>4, <1>5, <2>2, <2>3
<1>6. \A c : Coming(d, c) => Coming(d, c)'
  BY <1>1, <1>5 DEF Coming
<1>7. \A c, n : /\ Saving(d, c, n) => Saving(d, c, n)'
                /\ Saved(d, c, n) => Saved(d, c, n)'
  BY <1>1 DEF Saving, Saved
<1> QED
  BY <1>1, <1>6, <1>7 DEF Stored

\* The oldest write leaves the queue.
LEMMA WriteStored ==
    ASSUME TypeInv, NEW d \in Devices, Stored(d), Commit(d) \/ Refuse(d)
    PROVE  Stored(d)'
<1>1. /\ UNCHANGED <<screen, mComment>> /\ spoiled \subseteq spoiled'
      /\ queue[d] # <<>> /\ queue' = [queue EXCEPT ![d] = Tail(@)]
  BY DEF Commit, Refuse, post
<1>2. /\ Head(queue[d]) \in Proper /\ Head(queue[d]) = queue[d][1]
      /\ Len(queue[d]) \in Nat \ {0} /\ DOMAIN queue[d] = 1..Len(queue[d])
      /\ DOMAIN queue'[d] = 1..(Len(queue[d]) - 1)
      /\ \A i \in DOMAIN queue'[d] :
            i + 1 \in DOMAIN queue[d] /\ queue'[d][i] = queue[d][i + 1]
  BY <1>1, OldestGone
<1>3. ASSUME NEW i \in DOMAIN queue[d], i # 1
      PROVE  i - 1 \in DOMAIN queue'[d] /\ queue'[d][i - 1] = queue[d][i]
  <2>1. i - 1 \in DOMAIN queue'[d] /\ (i - 1) + 1 = i
    BY <1>2, <1>3
  <2>2. queue'[d][i - 1] = queue[d][(i - 1) + 1]
    BY <1>2, <2>1
  <2> QED
    BY <2>1, <2>2
<1> SUFFICES ASSUME mComment[d] # None, OnPost(d),
                    mComment[d].comment \notin spoiled'
             PROVE  \/ Coming(d, mComment[d].comment)'
                    \/ Saving(d, mComment[d].comment, mComment[d].counter)'
                    \/ Saved(d, mComment[d].comment, mComment[d].counter)'
  BY <1>1 DEF Stored, OnPost
<1>4. PICK c \in Comments, n \in Counter :
         /\ c = mComment[d].comment /\ n = mComment[d].counter
         /\ c = mComment'[d].comment /\ n = mComment'[d].counter
         /\ c \notin spoiled /\ c \notin spoiled'
  BY <1>1 DEF TypeInv, TypeOK, Held
<1>5. PICK w \in Proper : w = Head(queue[d]) /\ w = queue[d][1]
  BY <1>2
<1>6. Refuse(d) => w.comment # c
  BY <1>4, <1>5 DEF Refuse
<1>7. PICK a \in Seq(Proper) : acks[d] = a
  BY DEF TypeInv
<1>8. /\ Refuse(d) => acks' = acks
      /\ Commit(d) => IF w.deaf THEN acks' = acks
                      ELSE acks'[d] = Append(a, w)
  BY <1>5, <1>7 DEF Refuse, Commit, TypeInv, TypeOK
<1>9. /\ Len(a) + 1 \in DOMAIN Append(a, w)
      /\ Append(a, w)[Len(a) + 1] = w
      /\ \A i \in DOMAIN a : i \in DOMAIN Append(a, w)
                             /\ Append(a, w)[i] = a[i]
  BY Grown
<1>10. ASSUME Coming(d, c) PROVE Coming(d, c)'
  <2>1. ASSUME NEW i \in DOMAIN acks[d], MarkOf(acks[d][i], c)
        PROVE  i \in DOMAIN acks'[d] /\ MarkOf(acks'[d][i], c)
    BY <1>7, <1>8, <1>9, <2>1
  <2>2. CASE MarkOf(w, c)
    <3>1. Commit(d) /\ acks'[d] = Append(a, w)
      BY <1>6, <1>8, <2>2 DEF MarkOf
    <3> QED
      BY <1>9, <2>2, <3>1 DEF Coming
  <2>3. ASSUME ~MarkOf(w, c),
               NEW i \in DOMAIN queue[d], MarkOf(queue[d][i], c)
        PROVE  \E j \in DOMAIN queue'[d] : MarkOf(queue'[d][j], c)
    BY <1>3, <1>5, <2>3
  <2> QED
    BY <1>10, <2>1, <2>2, <2>3 DEF Coming
<1>11. ASSUME Saving(d, c, n) PROVE Saving(d, c, n)' \/ Saved(d, c, n)'
  <2>1. PICK i \in DOMAIN queue[d] :
           /\ CountOf(queue[d][i], c) /\ queue[d][i].counter = n
           /\ \A j \in DOMAIN queue[d] : j > i => ~CountOf(queue[d][j], c)
    BY <1>11 DEF Saving
  <2>2. CASE i = 1
    <3>1. Commit(d)
      BY <1>5, <1>6, <2>1, <2>2 DEF CountOf
    <3>2. counts' = [counts EXCEPT ![c] = n]
      BY <1>5, <2>1, <2>2, <3>1 DEF Commit, CountOf
    <3>3. counts'[c] = n
      BY <3>2 DEF TypeInv, TypeOK
    <3>4. ASSUME NEW j \in DOMAIN queue'[d] PROVE ~CountOf(queue'[d][j], c)
      <4>1. j + 1 > i
        BY <1>2, <2>2
      <4> QED
        BY <1>2, <2>1, <4>1
    <3> QED
      BY <3>3, <3>4 DEF Saved
  <2>3. CASE i # 1
    <3>1. i - 1 \in DOMAIN queue'[d] /\ queue'[d][i - 1] = queue[d][i]
      BY <1>3, <2>3
    <3>2. ASSUME NEW j \in DOMAIN queue'[d], j > i - 1
          PROVE  ~CountOf(queue'[d][j], c)
      <4>1. j + 1 > i
        BY <1>2, <3>2
      <4> QED
        BY <1>2, <2>1, <4>1
    <3> QED
      BY <2>1, <3>1, <3>2 DEF Saving
  <2> QED
    BY <2>2, <2>3
<1>12. ASSUME Saved(d, c, n) PROVE Saved(d, c, n)'
  <2>1. \A i \in DOMAIN queue'[d] : ~CountOf(queue'[d][i], c)
    BY <1>2, <1>12 DEF Saved
  <2>2. ~CountOf(w, c)
    BY <1>2, <1>5, <1>12 DEF Saved
  <2>3. counts'[c] = counts[c] /\ saver'[c] = saver[c]
    <3>1. CASE Refuse(d)
      BY <3>1 DEF Refuse, server
    <3>2. CASE Commit(d)
      BY <1>5, <2>2, <3>2 DEF Commit, CountOf, TypeInv, TypeOK
    <3> QED
      BY <3>1, <3>2
  <2> QED
    BY <1>12, <2>1, <2>3 DEF Saved
<1> QED
  BY <1>1, <1>4, <1>10, <1>11, <1>12 DEF Stored

\* Another device's save of the comment is recorded.
LEMMA OthersStored ==
    ASSUME TypeInv, NEW d \in Devices, NEW e \in Devices \ {d},
           User(d) \/ Answer(d) \/ Server(d) \/ Die(d), Stored(e)
    PROVE  Stored(e)'
<1>1. UNCHANGED <<screen[e], mComment[e], queue[e], acks[e]>>
  BY NotSeen DEF Elsewhere
<1>2. CASE Commit(d)
  <2>1. PICK w \in Proper : w = Head(queue[d])
    BY <1>2, OldestGone DEF Commit
  <2>2. ASSUME NEW c \in Comments
        PROVE  \/ counts'[c] = counts[c] /\ saver'[c] = saver[c]
               \/ saver'[c] = d
    BY <1>2, <2>1 DEF Commit, TypeInv, TypeOK
  <2>3. spoiled \subseteq spoiled' /\ d \notin {e, None}
    BY <1>2 DEF Commit
  <2>4. mComment[e] # None => mComment[e].comment \in Comments
    BY DEF TypeInv, TypeOK, Held
  <2> QED
    BY <1>1, <2>2, <2>3, <2>4 DEF Stored, Coming, Saving, Saved, OnPost
<1>3. CASE ~Commit(d)
  <2>1. UNCHANGED <<counts, saver>> /\ spoiled \subseteq spoiled'
    <3>1. CASE User(d)
      BY <3>1 DEF User, OpenDetail, React, OpenOwnPost, OpenProfile, EditTap,
                  SaveTap, RenameTap, Back, server, past
    <3>2. CASE Answer(d)
      BY <3>2 DEF Answer, Reload, OnMarked, OnCounted, OnVerified, OnSaved,
                  OnCurrentUser, OnUserInfo, server, past
    <3>3. CASE Server(d) \/ Die(d)
      BY <1>3, <3>3 DEF Server, Refuse, ServeRead, LoseRead, Die, server,
                        past
    <3> QED
      BY <3>1, <3>2, <3>3
  <2> QED
    BY <1>1, <2>1, StoredSame DEF OnPost
<1> QED
  BY <1>2, <1>3

LEMMA UserStored ==
    ASSUME TypeInv, NEW d \in Devices, Stored(d), User(d)
    PROVE  Stored(d)'
<1>1. CASE (\E u \in Users : OpenDetail(d, u)) \/ OpenOwnPost(d)
  <2>1. mComment'[d] = None
    BY <1>1 DEF OpenDetail, OpenOwnPost, StartDetail, TypeInv, TypeOK
  <2> QED
    BY <2>1 DEF Stored
<1>2. ASSUME NEW f \in Fields, NEW c \in Comments, React(d, f, c)
      PROVE  Stored(d)'
  BY <1>2, ReactStored
<1>3. CASE OpenProfile(d) \/ EditTap(d) \/ SaveTap(d) \/ RenameTap(d)
           \/ Back(d)
  <2>1. ~OnPost(d)'
    BY <1>3 DEF OpenProfile, EditTap, SaveTap, RenameTap, Back, OnPost,
                TypeInv, TypeOK
  <2> QED
    BY <2>1 DEF Stored
<1> QED
  BY <1>1, <1>2, <1>3 DEF User

LEMMA AnswerStored ==
    ASSUME TypeInv, NEW d \in Devices, Stored(d), Answer(d)
    PROVE  Stored(d)'
<1>1. CASE OnMarked(d)
  BY <1>1, MarkedStored
<1>2. CASE OnCounted(d) \/ OnSaved(d)
  BY <1>2, HeardStored
<1>3. CASE OnVerified(d)
  <2>1. CASE OnPost(d)
    <3>1. UNCHANGED <<screen, mComment, counts, saver, queue, acks, spoiled>>
      BY <1>3, <2>1 DEF OnVerified, OnPost, server, post, past
    <3> QED
      BY <3>1, StoredSame DEF OnPost
  <2>2. CASE ~OnPost(d)
    BY <1>3, <2>2 DEF OnVerified, Stored, OnPost
  <2> QED
    BY <2>1, <2>2
<1>4. CASE Reload(d) \/ \E i \in 1..MaxReads : OnCurrentUser(d, i)
                                               \/ OnUserInfo(d, i)
  <2>1. UNCHANGED <<screen, mComment, counts, saver, queue, acks, spoiled>>
    BY <1>4 DEF Reload, OnCurrentUser, OnUserInfo, server, post, past
  <2> QED
    BY <2>1, StoredSame DEF OnPost
<1> QED
  BY <1>1, <1>2, <1>3, <1>4 DEF Answer

LEMMA ServerStored ==
    ASSUME TypeInv, NEW d \in Devices, Stored(d), Server(d) \/ Die(d)
    PROVE  Stored(d)'
<1>1. CASE Commit(d) \/ Refuse(d)
  BY <1>1, WriteStored
<1>2. CASE \E i \in 1..MaxReads : ServeRead(d, i) \/ LoseRead(d, i)
  <2>1. UNCHANGED <<screen, mComment, counts, saver, queue, acks, spoiled>>
    BY <1>2 DEF ServeRead, LoseRead, server, post, past
  <2> QED
    BY <2>1, StoredSame DEF OnPost
<1>3. CASE Die(d)
  BY <1>3 DEF Die, Stored, TypeInv, TypeOK
<1> QED
  BY <1>1, <1>2, <1>3 DEF Server

LEMMA InitStored == Init => StoredInv
BY DEF Init, StoredInv, Stored

LEMMA NextStored == TypeInv /\ StoredInv /\ [Next]_vars => StoredInv'
<1> SUFFICES ASSUME TypeInv, StoredInv, [Next]_vars PROVE StoredInv'
  OBVIOUS
<1>1. CASE UNCHANGED vars
  BY <1>1, StoredSame DEF vars, StoredInv, OnPost
<1>2. ASSUME NEW d \in Devices,
             User(d) \/ Answer(d) \/ Server(d) \/ Die(d)
      PROVE  StoredInv'
  <2>1. Stored(d)'
    BY <1>2, UserStored, AnswerStored, ServerStored DEF StoredInv
  <2>2. \A e \in Devices \ {d} : Stored(e)'
    BY <1>2, OthersStored DEF StoredInv
  <2> QED
    BY <2>1, <2>2 DEF StoredInv
<1> QED
  BY <1>1, <1>2 DEF Next

\* However fast a user taps and in whatever order the answers come: once a
\* post's screen is quiet the comment tapped last is stored with the counters
\* that the screen shows, unless a write of it was refused or another device
\* saved it.  A mark whose answer will save the comment, or the save itself,
\* is always on its way until then.
THEOREM LastTapIsStored == Spec => []LastReactionStored
<1>1. TypeInv /\ StoredInv => LastReactionStored
  <2> SUFFICES ASSUME TypeInv, NEW d \in Devices, Stored(d),
                      mComment[d] # None, OnPost(d), ~Pending(d)
               PROVE  \/ counts[mComment[d].comment] = mComment[d].counter
                      \/ mComment[d].comment \in spoiled
                      \/ saver[mComment[d].comment] \notin {d, None}
    BY DEF StoredInv, LastReactionStored
  <2>1. queue[d] = <<>> /\ acks[d] = <<>>
    BY DEF Pending
  <2>2. DOMAIN queue[d] = {} /\ DOMAIN acks[d] = {}
    BY <2>1
  <2> QED
    BY <2>2 DEF Stored, Coming, Saving, Saved
<1> QED
  BY InitType, NextType, InitStored, NextStored, <1>1, PTL DEF Spec
=============================================================================
