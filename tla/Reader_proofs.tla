---------------------------- MODULE Reader_proofs ----------------------------
(***************************************************************************)
(* What one device reads of the forum, proved of Reader for any number of  *)
(* posts, users, comments and pending comments: no load throws by itself,  *)
(* names go to the comments they belong to, threads stay together and in   *)
(* order, and what was not refused is shown.                               *)
(***************************************************************************)
EXTENDS Reader, FiniteSetTheorems, SequenceTheorems, TLAPS

-----------------------------------------------------------------------------
(* Sorted sequences *)

\* before is a strict order in which any two elements of S stand.
Orders(before, S) ==
    /\ \A x \in S : <<x, x>> \notin before
    /\ \A x, y \in S : x # y => <<x, y>> \in before \/ <<y, x>> \in before
    /\ \A x, y, z \in S :
          <<x, y>> \in before /\ <<y, z>> \in before => <<x, z>> \in before

Place(S, before, x) == Cardinality({y \in S : <<y, x>> \in before}) + 1

\* The places of the elements of S are 1 to the size of S, in order.
LEMMA Places ==
    ASSUME NEW S, IsFiniteSet(S), NEW before, Orders(before, S)
    PROVE  /\ \A x \in S : Place(S, before, x) \in 1..Cardinality(S)
           /\ \A x, y \in S : <<x, y>> \in before =>
                 Place(S, before, x) < Place(S, before, y)
           /\ \A n \in 1..Cardinality(S) :
                 \E x \in S : Place(S, before, x) = n
<1> DEFINE Under(x) == {y \in S : <<y, x>> \in before}
<1>0. Cardinality(S) \in Nat
  BY FS_CardinalityType
<1>1. ASSUME NEW x \in S
      PROVE  /\ IsFiniteSet(Under(x)) /\ x \notin Under(x)
             /\ Cardinality(Under(x)) \in Nat
             /\ Cardinality(Under(x)) < Cardinality(S)
  <2>1. Under(x) \in SUBSET S /\ x \notin Under(x)
    BY DEF Orders
  <2>2. IsFiniteSet(Under(x)) /\ Cardinality(Under(x)) <= Cardinality(S)
    BY <2>1, FS_Subset
  <2>3. Cardinality(S) # Cardinality(Under(x))
    BY <2>1, FS_Subset
  <2>4. Cardinality(Under(x)) \in Nat
    BY <2>2, FS_CardinalityType
  <2> QED
    BY <1>0, <2>1, <2>2, <2>3, <2>4
<1>p. ASSUME NEW x \in S PROVE Place(S, before, x) = Cardinality(Under(x)) + 1
  BY DEF Place
<1>2. ASSUME NEW x \in S PROVE Place(S, before, x) \in 1..Cardinality(S)
  <2> HIDE DEF Under
  <2> QED
    BY <1>0, <1>1, <1>p
<1>3. ASSUME NEW x \in S, NEW y \in S, <<x, y>> \in before
      PROVE  Place(S, before, x) < Place(S, before, y)
  <2>1. Under(x) \in SUBSET Under(y) /\ x \in Under(y) /\ x \notin Under(x)
    <3>1. ASSUME NEW z \in S, <<z, x>> \in before PROVE <<z, y>> \in before
      BY <1>3, <3>1 DEF Orders
    <3> QED
      BY <1>1, <1>3, <3>1
  <2>2. /\ Cardinality(Under(x)) <= Cardinality(Under(y))
        /\ Cardinality(Under(y)) # Cardinality(Under(x))
    BY <1>1, <2>1, FS_Subset
  <2> HIDE DEF Under
  <2> QED
    BY <1>1, <1>p, <2>2
<1>4. ASSUME NEW x \in S, NEW y \in S, x # y
      PROVE  Place(S, before, x) # Place(S, before, y)
  <2>1. <<x, y>> \in before \/ <<y, x>> \in before
    BY <1>4 DEF Orders
  <2>2. /\ Place(S, before, x) \in Int /\ Place(S, before, y) \in Int
        /\ \/ Place(S, before, x) < Place(S, before, y)
           \/ Place(S, before, y) < Place(S, before, x)
    BY <1>2, <1>3, <2>1
  <2> QED
    BY <2>2
<1>5. PICK f \in [S -> 1..Cardinality(S)] :
         \A x \in S : f[x] = Place(S, before, x)
  <2>1. [x \in S |-> Place(S, before, x)] \in [S -> 1..Cardinality(S)]
    BY <1>2
  <2> QED
    BY <2>1
<1>6. f \in Injection(S, 1..Cardinality(S))
  BY <1>4, <1>5 DEF Injection, IsInjective
<1>7. IsFiniteSet(1..Cardinality(S))
      /\ Cardinality(1..Cardinality(S)) = Cardinality(S)
  BY <1>0, FS_Interval
<1>8. f \in Surjection(S, 1..Cardinality(S))
  BY <1>6, <1>7, FS_Injection
<1>9. \A n \in 1..Cardinality(S) : \E x \in S : Place(S, before, x) = n
  BY <1>5, <1>8 DEF Surjection
<1> QED
  BY <1>2, <1>3, <1>9

\* Sorted gives each element once, at its place and in order.
LEMMA SortedIs ==
    ASSUME NEW S, IsFiniteSet(S), NEW before, Orders(before, S)
    PROVE  /\ Sorted(S, before) \in Seq(S)
           /\ Len(Sorted(S, before)) = Cardinality(S)
           /\ DOMAIN Sorted(S, before) = 1..Cardinality(S)
           /\ \A x \in S : Sorted(S, before)[Place(S, before, x)] = x
           /\ \A x \in S : \E n \in 1..Cardinality(S) :
                 Sorted(S, before)[n] = x
           /\ \A m, n \in 1..Cardinality(S) :
                 m < n <=> <<Sorted(S, before)[m], Sorted(S, before)[n]>>
                              \in before
<1>0. Cardinality(S) \in Nat
  BY FS_CardinalityType
<1>1. PICK at \in [1..Cardinality(S) -> S] :
         /\ at = Sorted(S, before)
         /\ \A n \in 1..Cardinality(S) : Place(S, before, at[n]) = n
  <2> DEFINE At(n) == CHOOSE x \in S : Place(S, before, x) = n
  <2>1. Sorted(S, before) = [n \in 1..Cardinality(S) |-> At(n)]
    BY DEF Sorted, Place
  <2>2. ASSUME NEW n \in 1..Cardinality(S)
        PROVE  At(n) \in S /\ Place(S, before, At(n)) = n
    BY Places
  <2> HIDE DEF At
  <2> QED
    BY <2>1, <2>2
<1>2. ASSUME NEW x \in S, NEW y \in S,
             Place(S, before, x) = Place(S, before, y)
      PROVE  x = y
  <2>1. ~(<<x, y>> \in before) /\ ~(<<y, x>> \in before)
    <3>1. Place(S, before, x) \in Int
      BY Places
    <3>2. ~(Place(S, before, x) < Place(S, before, y))
          /\ ~(Place(S, before, y) < Place(S, before, x))
      BY <1>2, <3>1
    <3> QED
      BY <3>2, Places
  <2> QED
    BY <2>1 DEF Orders
<1>3. ASSUME NEW x \in S
      PROVE  /\ Place(S, before, x) \in 1..Cardinality(S)
             /\ at[Place(S, before, x)] = x
  <2>1. Place(S, before, x) \in 1..Cardinality(S)
    BY Places
  <2>2. at[Place(S, before, x)] \in S
        /\ Place(S, before, at[Place(S, before, x)]) = Place(S, before, x)
    BY <1>1, <2>1
  <2> QED
    BY <1>2, <2>1, <2>2
<1>4. ASSUME NEW m \in 1..Cardinality(S), NEW n \in 1..Cardinality(S)
      PROVE  m < n <=> <<at[m], at[n]>> \in before
  <2>1. /\ at[m] \in S /\ at[n] \in S
        /\ Place(S, before, at[m]) = m /\ Place(S, before, at[n]) = n
    BY <1>1
  <2>2. <<at[m], at[n]>> \in before => m < n
    BY <2>1, Places
  <2>3. <<at[n], at[m]>> \in before => n < m
    BY <2>1, Places
  <2>4. ASSUME m < n PROVE <<at[m], at[n]>> \in before
    <3>1. at[m] # at[n] /\ ~(n < m)
      BY <2>1, <2>4
    <3> QED
      BY <2>1, <2>3, <3>1 DEF Orders
  <2> QED
    BY <2>2, <2>4
<1>5. /\ at \in Seq(S) /\ Len(at) = Cardinality(S)
      /\ DOMAIN at = 1..Cardinality(S)
  BY <1>0, <1>1
<1> QED
  BY <1>1, <1>3, <1>4, <1>5
-----------------------------------------------------------------------------
(* The inductive invariant *)

\* A comment that was made exists until the server refuses it, and never again.
Ids ==
    /\ \A c \in Comments : comments[c] # None => c \in 1..Len(made)
    /\ \A i \in 1..Len(queue) :
          /\ queue[i].id \in 1..Len(made)
          /\ comments[queue[i].id] = None /\ queue[i].id \notin refused
    /\ \A i, j \in 1..Len(queue) : i # j => queue[i].id # queue[j].id
    /\ \A c \in refused : c \in 1..Len(made) /\ comments[c] = None
    /\ \A c \in 1..Len(made) : Exists(c) \/ c \in refused

\* What a document says: its author made it, and it answers comments made
\* before, the parent being one on top.
Says(c, doc) ==
    /\ doc.author = made[c]
    /\ doc.mention # None => doc.mention \in 1..Len(made)
    /\ doc.parent # None =>
          /\ doc.parent \in 1..Len(made)
          /\ Exists(doc.parent) => Doc(doc.parent).parent = None

Docs == \A c \in Comments : Exists(c) => Says(c, Doc(c))

\* A list of comments that names the parents of those it names
Closed(S) ==
    /\ S \subseteq 1..Len(made)
    /\ \A c \in S : Exists(c) => Doc(c).parent \in S \cup {None}

Lists ==
    /\ \A p \in Posts : posts[p] # None => Closed(posts[p])
    /\ \A p \in DOMAIN forum : Closed(forum[p])
    /\ Closed(ids)
    /\ load # None => Closed(load.ids) /\ load.ids \subseteq ids
    /\ asked \subseteq ids
    /\ open = None => load = None /\ shown = <<>> /\ asked = {}

\* The documents of a load are those of different comments it asked for, all
\* of them if none was refused.
Fetched(docs, S) ==
    /\ \A i, j \in DOMAIN docs : i # j => docs[i].id # docs[j].id
    /\ \A i \in DOMAIN docs :
          /\ docs[i].id \in S /\ Says(docs[i].id, docs[i].doc)
          /\ Exists(docs[i].id) => Doc(docs[i].id) = docs[i].doc
    /\ refused = {} => S \subseteq {docs[i].id : i \in DOMAIN docs}

\* The names are those of the comments answered, or there are too few.
Named(docs, names) ==
    \/ /\ refused # {}
       /\ \E i \in DOMAIN docs : IsReply(docs[i])
                                 /\ Nth(docs, i) > Len(names)
    \/ \A i \in DOMAIN docs : IsReply(docs[i]) =>
          /\ Nth(docs, i) \in 1..Len(names)
          /\ names[Nth(docs, i)] = made[docs[i].doc.mention]

Loading ==
    load # None =>
        /\ load.step > 1 => Fetched(load.docs, load.ids)
        /\ load.gone => refused # {}
        /\ load.step = 4 => Named(load.docs, load.names)

\* A row shows its comment, and a reply has its parent in the list.
Tells(r) ==
    /\ r.id \in asked /\ r.author = made[r.id]
    /\ Exists(r.id) =>
          /\ r.parent = Doc(r.id).parent
          /\ r.mention = IF Doc(r.id).mention = None THEN None
                         ELSE made[Doc(r.id).mention]

Shows ==
    /\ \A i, j \in 1..Len(shown) : i # j => shown[i].id # shown[j].id
    /\ \A i \in 1..Len(shown) : Tells(shown[i])
    /\ \A i \in 1..Len(shown) : shown[i].parent # None =>
          \E j \in 1..Len(shown) :
              shown[j].id = shown[i].parent /\ shown[j].parent = None
    /\ refused = {} => asked \subseteq ShownIds

Causes ==
    /\ crash = "post" => \E p \in Posts : ~Stored(p)
    /\ crash \in {"doc", "mention"} => refused # {}
    /\ crash = "summary" =>
          \E p \in DOMAIN forum : TextLength(TextOf[p]) \in 51..55

Inv ==
    /\ TypeOK /\ Ids /\ Docs /\ Lists /\ Loading /\ Shows
    /\ InOrderMade /\ RepliesInThread /\ Causes
-----------------------------------------------------------------------------
(* Summaries and dates *)

\* A row of the forum throws for exactly the texts of 51 to 55 letters, a row
\* of the news for none (StringUtil.summarize), whatever their words.
THEOREM SummaryEdges ==
    ASSUME NEW ends, IsText(ends)
    PROVE  /\ SummaryThrows(ends) <=> TextLength(ends) \in 51..55
           /\ ~NewsSummaryThrows(ends)
<1>1. PICK n \in Nat : n = Len(ends) /\ n > 0 /\ n \in 1..n
  BY DEF IsText
<1>2. \A k \in 1..n : ends[k] \in Nat
  BY <1>1 DEF IsText
<1>3. TextLength(ends) = ends[n] /\ Taken(ends, n) = ends[n] + 1
  BY <1>1 DEF TextLength, Taken
<1>4. ASSUME NEW limit \in Nat, SummarizeThrows(ends, limit)
      PROVE  ends[n] + 1 < limit - 3
  <2>1. ~Stops(ends, limit, n)
    BY <1>1, <1>4 DEF SummarizeThrows
  <2> QED
    BY <1>1, <1>2, <1>3, <2>1 DEF Stops
<1>5. ASSUME ends[n] \in 51..55, NEW k \in 0..n
      PROVE  ~Stops(ends, 60, k)
  <2>1. \A j \in 1..n : ends[j] <= ends[n]
    <3> SUFFICES ASSUME NEW j \in 1..n PROVE ends[j] <= ends[n]
      OBVIOUS
    <3>1. j < n => ends[j] < ends[n]
      BY <1>1 DEF IsText
    <3> QED
      BY <1>1, <1>2, <3>1
  <2>2. Taken(ends, k) <= 56
    BY <1>1, <1>2, <1>5, <2>1 DEF Taken
  <2>3. Taken(ends, k) \in Int
    BY <1>1, <1>2 DEF Taken
  <2>4. k < n => ends[k + 1] <= 55
    <3> SUFFICES ASSUME k < n PROVE ends[k + 1] <= 55
      OBVIOUS
    <3>1. k + 1 \in 1..n
      BY <1>1
    <3> QED
      BY <1>1, <1>2, <1>5, <2>1, <3>1
  <2>5. k < n => ends[k + 1] \in Int
    BY <1>1, <1>2
  <2> QED
    BY <1>1, <2>2, <2>3, <2>4, <2>5 DEF Stops
<1>6. SummaryThrows(ends) => TextLength(ends) \in 51..55
  BY <1>1, <1>2, <1>3, <1>4 DEF SummaryThrows
<1>7. TextLength(ends) \in 51..55 => SummaryThrows(ends)
  BY <1>1, <1>3, <1>5 DEF SummaryThrows, SummarizeThrows
<1>8. ~NewsSummaryThrows(ends)
  BY <1>1, <1>2, <1>3, <1>4 DEF NewsSummaryThrows
<1> QED
  BY <1>6, <1>7, <1>8

Date(c) == ReadBack(HourOf[c])

LEMMA CommentsAre ==
    /\ Len(HourOf) \in Nat /\ Comments = 1..Len(HourOf)
    /\ None \notin Comments
    /\ \A c \in Comments : HourOf[c] \in Nat
  BY ReaderAssumption DEF Comments

\* No two comments have one date or one id, and within one half of a day dates
\* are in the order of the comments.
LEMMA Dates ==
    /\ \A c \in Comments : Date(c) \in Int /\ IdKey(c) \in Int
    /\ \A c, d \in Comments : c # d => Date(c) # Date(d)
    /\ \A c, d \in Comments : c # d => IdKey(c) # IdKey(d)
    /\ \A c, d \in Comments :
          SameHalfDay(c, d) /\ Date(c) < Date(d) => c < d
<1>0. ASSUME NEW h \in Nat
      PROVE  /\ h \div 24 \in Int /\ h \div 12 \in Int
             /\ h % 12 \in Int /\ h % 12 >= 0 /\ h % 12 <= 11
             /\ h = 12 * (h \div 12) + (h % 12)
  <2>1. h \div 24 \in Int /\ h \div 12 \in Int
    BY SMT
  <2>2. h % 12 \in Int /\ h % 12 >= 0 /\ h % 12 <= 11
    BY SMT
  <2>3. h = 12 * (h \div 12) + (h % 12)
    BY SMT
  <2> QED
    BY <2>1, <2>2, <2>3
<1>1. ASSUME NEW h \in Nat PROVE ReadBack(h) \in Int /\ Written(h) \in 1..12
  <2>1. PICK q \in Int, r \in 0..11 : q = h \div 24 /\ r = h % 12
    BY <1>0
  <2> QED
    BY <2>1 DEF ReadBack, Written
<1>w. ASSUME NEW g \in Nat, NEW h \in Nat, Written(g) = Written(h)
      PROVE  g % 12 = h % 12
  <2>1. PICK q \in 0..11, r \in 0..11 : q = g % 12 /\ r = h % 12
    BY <1>0
  <2>2. /\ q = 0 => Written(g) = 12
        /\ q # 0 => Written(g) = q
        /\ r = 0 => Written(h) = 12
        /\ r # 0 => Written(h) = r
    BY <2>1 DEF Written
  <2>3. q = r
    BY <1>w, <2>2
  <2> QED
    BY <2>1, <2>3
<1>2. \A c \in Comments : Date(c) \in Int /\ IdKey(c) \in Int
  <2> SUFFICES ASSUME NEW c \in Comments
               PROVE  Date(c) \in Int /\ IdKey(c) \in Int
    OBVIOUS
  <2>1. HourOf[c] \in Nat
    BY CommentsAre
  <2>2. ReadBack(HourOf[c]) \in Int /\ Written(HourOf[c]) \in Int
        /\ HourOf[c] \div 24 \in Int
    BY <1>0, <1>1, <2>1
  <2> QED
    BY <2>2 DEF Date, IdKey
<1>3. ASSUME NEW c \in Comments, NEW d \in Comments, c # d
      PROVE  Date(c) # Date(d)
  BY <1>3, CommentsAre, ReaderAssumption DEF Date
<1>4. ASSUME NEW c \in Comments, NEW d \in Comments, IdKey(c) = IdKey(d)
      PROVE  c = d
  <2>1. HourOf[c] \in Nat /\ HourOf[d] \in Nat
    BY CommentsAre
  <2>2. PICK a \in Int, b \in Int, v \in 1..12, w \in 1..12 :
           /\ a = HourOf[c] \div 24 /\ b = HourOf[d] \div 24
           /\ v = Written(HourOf[c]) /\ w = Written(HourOf[d])
    BY <1>0, <1>1, <2>1
  <2>3. a = b /\ v = w
    <3>1. 24 * a + v = 24 * b + w
      BY <1>4, <2>2 DEF IdKey
    <3> QED
      BY <3>1
  <2>4. Date(c) = Date(d)
    <3>1. HourOf[c] % 12 = HourOf[d] % 12
      BY <1>w, <2>1, <2>2, <2>3
    <3> QED
      BY <2>2, <2>3, <3>1 DEF Date, ReadBack
  <2> QED
    BY <1>3, <2>4
<1>5. ASSUME NEW c \in Comments, NEW d \in Comments, SameHalfDay(c, d),
             Date(c) < Date(d)
      PROVE  c < d
  <2>1. HourOf[c] \in Nat /\ HourOf[d] \in Nat
    BY CommentsAre
  <2>2. PICK g \in Nat, h \in Nat : g = HourOf[c] /\ h = HourOf[d]
    BY <2>1
  <2>3. g \div 24 = h \div 24
    <3>1. g \div 12 = h \div 12
      BY <1>5, <2>2 DEF SameHalfDay
    <3>2. g \div 24 = (g \div 12) \div 2 /\ h \div 24 = (h \div 12) \div 2
      BY SMT
    <3> QED
      BY <3>1, <3>2
  <2>4. g % 12 < h % 12
    BY <1>0, <1>5, <2>2, <2>3 DEF Date, ReadBack
  <2>5. g < h
    <3>1. g \div 12 = h \div 12
      BY <1>5, <2>2 DEF SameHalfDay
    <3> QED
      BY <1>0, <2>4, <3>1
  <2>6. ~(d < c) /\ c # d
    BY <2>1, <2>2, <2>5, ReaderAssumption
  <2> QED
    BY <2>6, CommentsAre
<1> QED
  BY <1>2, <1>3, <1>4, <1>5
-----------------------------------------------------------------------------
(* organizeComments *)

Top(r) == IF r.parent = None THEN r.id ELSE r.parent

Listed(rows) ==
    {r \in Range(rows) :
        \E t \in Range(rows) : t.parent = None /\ t.id = Top(r)}

Earlier(r, s) ==
    \/ Date(Top(r)) < Date(Top(s))
    \/ /\ Top(r) = Top(s) /\ s.parent # None
       /\ r.parent = None \/ Date(r.id) < Date(s.id)

Threads(S) == {e \in S \X S : Earlier(e[1], e[2])}

LEMMA OrganizeIs ==
    ASSUME NEW rows
    PROVE  Organize(rows) = Sorted(Listed(rows), Threads(Listed(rows)))
  BY DEF Organize, Listed, Threads, Earlier, Top, Date

LEMMA RowsAre ==
    ASSUME NEW r \in Row
    PROVE  /\ r.id \in Comments /\ Top(r) \in Comments
           /\ Date(r.id) \in Int /\ Date(Top(r)) \in Int
<1>1. r.id \in Comments /\ Top(r) \in Comments
  BY DEF Row, Top
<1> QED
  BY <1>1, Dates

\* Rows of different comments stand in an order.
LEMMA EarlierOrders ==
    ASSUME NEW S \in SUBSET Row, \A r, s \in S : r.id = s.id => r = s
    PROVE  Orders(Threads(S), S)
<1>1. ASSUME NEW r \in S, NEW s \in S
      PROVE  <<r, s>> \in Threads(S) <=> Earlier(r, s)
  BY DEF Threads
<1>2. ASSUME NEW r \in S PROVE ~Earlier(r, r)
  <2>1. r \in Row /\ Date(r.id) \in Int /\ Date(Top(r)) \in Int
    BY RowsAre
  <2> QED
    BY <2>1 DEF Earlier
<1>3. ASSUME NEW r \in S, NEW s \in S, r # s
      PROVE  Earlier(r, s) \/ Earlier(s, r)
  <2>1. /\ Date(r.id) \in Int /\ Date(Top(r)) \in Int
        /\ Date(s.id) \in Int /\ Date(Top(s)) \in Int
        /\ r.id \in Comments /\ Top(r) \in Comments
        /\ s.id \in Comments /\ Top(s) \in Comments
    BY RowsAre
  <2>2. r.id # s.id /\ Date(r.id) # Date(s.id)
    BY <1>3, <2>1, Dates
  <2>3. CASE Top(r) # Top(s)
    <3>1. Date(Top(r)) # Date(Top(s))
      BY <2>1, <2>3, Dates
    <3> QED
      BY <2>1, <3>1 DEF Earlier
  <2>4. CASE Top(r) = Top(s)
    <3>1. r.parent # None \/ s.parent # None
      BY <2>2, <2>4 DEF Top
    <3> QED
      BY <2>1, <2>2, <2>4, <3>1 DEF Earlier
  <2> QED
    BY <2>3, <2>4
<1>4. ASSUME NEW r \in S, NEW s \in S, NEW t \in S,
             Earlier(r, s), Earlier(s, t)
      PROVE  Earlier(r, t)
  <2>1. /\ Date(r.id) \in Int /\ Date(Top(r)) \in Int
        /\ Date(s.id) \in Int /\ Date(Top(s)) \in Int
        /\ Date(t.id) \in Int /\ Date(Top(t)) \in Int
    BY RowsAre
  <2>2. \/ Date(Top(r)) < Date(Top(t))
        \/ /\ Top(r) = Top(s) /\ Top(s) = Top(t)
           /\ s.parent # None /\ t.parent # None
           /\ r.parent = None \/ Date(r.id) < Date(s.id)
           /\ s.parent = None \/ Date(s.id) < Date(t.id)
    BY <1>4, <2>1 DEF Earlier
  <2> QED
    BY <2>1, <2>2 DEF Earlier
<1> QED
  BY <1>1, <1>2, <1>3, <1>4 DEF Orders

\* What is listed stands in the list once and in order, and nothing else.
LEMMA Organized ==
    ASSUME NEW rows \in Seq(Row),
           \A i, j \in DOMAIN rows : i # j => rows[i].id # rows[j].id
    PROVE  /\ Organize(rows) \in Seq(Row)
           /\ \A i \in 1..Len(Organize(rows)) :
                 Organize(rows)[i] \in Listed(rows)
           /\ \A r \in Listed(rows) : \E i \in 1..Len(Organize(rows)) :
                 Organize(rows)[i] = r
           /\ \A i, j \in 1..Len(Organize(rows)) :
                 /\ i < j <=> Earlier(Organize(rows)[i], Organize(rows)[j])
                 /\ i # j => Organize(rows)[i].id # Organize(rows)[j].id
<1> DEFINE S == Listed(rows)
           s == Sorted(S, Threads(S))
<1>1. Range(rows) \in SUBSET Row /\ IsFiniteSet(Range(rows))
  <2>1. DOMAIN rows = 1..Len(rows) /\ Len(rows) \in Nat
    OBVIOUS
  <2>2. rows \in Surjection(1..Len(rows), Range(rows))
    <3>1. rows \in [1..Len(rows) -> Range(rows)]
      BY <2>1 DEF Range
    <3> QED
      BY <2>1, <3>1 DEF Surjection, Range
  <2>3. IsFiniteSet(1..Len(rows))
    BY <2>1, FS_Interval
  <2>4. IsFiniteSet(Range(rows))
    BY <2>2, <2>3, FS_Surjection
  <2> QED
    BY <2>4 DEF Range
<1>2. S \in SUBSET Range(rows) /\ S \in SUBSET Row /\ IsFiniteSet(S)
  <2>1. S \in SUBSET Range(rows)
    BY DEF Listed
  <2> QED
    BY <1>1, <2>1, FS_Subset
<1>3. \A q, r \in S : q.id = r.id => q = r
  <2>1. \A q, r \in Range(rows) : q.id = r.id => q = r
    BY DEF Range
  <2> QED
    BY <1>2, <2>1
<1> HIDE DEF S
<1>4. Orders(Threads(S), S)
  BY <1>2, <1>3, EarlierOrders
<1>5. /\ s \in Seq(S) /\ Len(s) = Cardinality(S)
      /\ \A r \in S : \E n \in 1..Cardinality(S) : s[n] = r
      /\ \A m, n \in 1..Cardinality(S) :
            m < n <=> <<s[m], s[n]>> \in Threads(S)
  BY <1>2, <1>4, SortedIs
<1>6. s = Organize(rows)
  BY OrganizeIs DEF S
<1> HIDE DEF s
<1>7. s \in Seq(Row) /\ Len(s) \in Nat /\ \A i \in 1..Len(s) : s[i] \in S
  BY <1>2, <1>5
<1>8. ASSUME NEW i \in 1..Len(s), NEW j \in 1..Len(s)
      PROVE  /\ i < j <=> Earlier(s[i], s[j])
             /\ i # j => s[i].id # s[j].id
  <2>1. s[i] \in S /\ s[j] \in S
    BY <1>7
  <2>2. i < j <=> Earlier(s[i], s[j])
    BY <1>5, <2>1 DEF Threads
  <2>3. i # j => s[i] # s[j]
    <3>1. ~(<<s[i], s[i]>> \in Threads(S))
      BY <1>4, <2>1 DEF Orders
    <3>2. i # j => <<s[i], s[j]>> \in Threads(S)
                   \/ <<s[j], s[i]>> \in Threads(S)
      <4>1. i # j => i < j \/ j < i
        OBVIOUS
      <4> QED
        BY <1>5, <4>1
    <3> QED
      BY <3>1, <3>2
  <2> QED
    BY <1>3, <2>1, <2>2, <2>3
<1> QED
  BY <1>5, <1>6, <1>7, <1>8 DEF S

\* Within one thread and one half of a day, the list is in the order in which
\* the comments were made.
LEMMA OrganizedByDate ==
    ASSUME NEW s \in Seq(Row),
           \A i, j \in 1..Len(s) : i < j <=> Earlier(s[i], s[j])
    PROVE  \A i, j \in DOMAIN s :
              /\ i < j
              /\ s[i].parent = s[j].parent
              /\ SameHalfDay(s[i].id, s[j].id)
              => s[i].id < s[j].id
<1> SUFFICES ASSUME NEW i \in DOMAIN s, NEW j \in DOMAIN s, i < j,
                    s[i].parent = s[j].parent, SameHalfDay(s[i].id, s[j].id)
             PROVE  s[i].id < s[j].id
  OBVIOUS
<1>1. Earlier(s[i], s[j]) /\ s[i] \in Row /\ s[j] \in Row
  OBVIOUS
<1>2. /\ s[i].id \in Comments /\ s[j].id \in Comments
      /\ Date(Top(s[i])) \in Int
  BY <1>1, RowsAre
<1>3. Date(s[i].id) < Date(s[j].id)
  <2>1. CASE s[i].parent = None
    <3>1. s[j].parent = None /\ Top(s[i]) = s[i].id /\ Top(s[j]) = s[j].id
      BY <2>1 DEF Top
    <3> QED
      BY <1>1, <3>1 DEF Earlier
  <2>2. CASE s[i].parent # None
    <3>1. Top(s[i]) = Top(s[j])
      BY <2>2 DEF Top
    <3> QED
      BY <1>1, <1>2, <2>2, <3>1 DEF Earlier
  <2> QED
    BY <2>1, <2>2
<1> QED
  BY <1>2, <1>3, Dates

\* What stands between a reply and its parent answers the same parent.
LEMMA OrganizedInThreads ==
    ASSUME NEW s \in Seq(Row),
           \A i, j \in 1..Len(s) : i < j <=> Earlier(s[i], s[j]),
           \A i \in 1..Len(s) : \E j \in 1..Len(s) :
              s[j].parent = None /\ s[j].id = Top(s[i])
    PROVE  \A j \in DOMAIN s :
              s[j].parent # None =>
                 \E i \in 1..(j - 1) :
                     /\ s[i].id = s[j].parent
                     /\ \A k \in (i + 1)..j : s[k].parent = s[j].parent
<1> SUFFICES ASSUME NEW j \in DOMAIN s, s[j].parent # None
             PROVE  \E i \in 1..(j - 1) :
                       /\ s[i].id = s[j].parent
                       /\ \A k \in (i + 1)..j : s[k].parent = s[j].parent
  OBVIOUS
<1>0. Len(s) \in Nat /\ j \in 1..Len(s) /\ \A k \in 1..Len(s) : s[k] \in Row
  OBVIOUS
<1>1. PICK i \in 1..Len(s) : s[i].parent = None /\ s[i].id = Top(s[j])
  BY <1>0
<1>2. Top(s[j]) = s[j].parent /\ Top(s[i]) = s[j].parent
  BY <1>1 DEF Top
<1>3. i < j
  <2>1. Earlier(s[i], s[j])
    BY <1>1, <1>2 DEF Earlier
  <2> QED
    BY <1>0, <2>1
<1>4. ASSUME NEW k \in (i + 1)..j PROVE s[k].parent = s[j].parent
  <2>1. CASE k = j
    BY <2>1
  <2>2. CASE k # j
    <3>1. k \in 1..Len(s) /\ i < k /\ k < j
      BY SMTT(30), <1>0, <2>2
    <3>2. Earlier(s[i], s[k]) /\ Earlier(s[k], s[j])
      BY <1>0, <3>1
    <3>3. /\ Date(Top(s[i])) \in Int /\ Date(Top(s[k])) \in Int
          /\ Top(s[i]) \in Comments /\ Top(s[k]) \in Comments
      BY <1>0, <3>1, RowsAre
    <3>4. Top(s[i]) = Top(s[k])
      BY <1>2, <3>2, <3>3 DEF Earlier
    <3>5. s[k].parent # None
      BY <3>2, <3>3, <3>4 DEF Earlier
    <3> QED
      BY <1>2, <3>4, <3>5 DEF Top
  <2> QED
    BY <2>1, <2>2
<1>5. i \in 1..(j - 1) /\ s[i].id = s[j].parent
  BY <1>0, <1>1, <1>2, <1>3
<1> QED
  BY <1>4, <1>5

-----------------------------------------------------------------------------
(* Documents *)

ExistsIn(C, q, c) == C[c] # None \/ c \in {q[i].id : i \in DOMAIN q}

DocIn(C, q, c) == IF C[c] # None THEN C[c]
                  ELSE (CHOOSE w \in Range(q) : w.id = c).doc

\* Comments under way are found by their ids.
LEMMA PendingIs ==
    ASSUME NEW q \in Seq(Own), NEW i \in 1..Len(q),
           \A j, k \in 1..Len(q) : j # k => q[j].id # q[k].id
    PROVE  (CHOOSE w \in Range(q) : w.id = q[i].id) = q[i]
<1>1. q[i] \in Range(q)
  BY DEF Range
<1>2. \A w \in Range(q) : w.id = q[i].id => w = q[i]
  BY DEF Range
<1> QED
  BY <1>1, <1>2

\* What is in the collection exists as it is there, what is under way as it
\* was sent.
LEMMA DocInIs ==
    ASSUME NEW C \in [Comments -> Comment \cup {None}], NEW q \in Seq(Own),
           \A i \in 1..Len(q) : C[q[i].id] = None,
           \A i, j \in 1..Len(q) : i # j => q[i].id # q[j].id
    PROVE  /\ \A c \in Comments : C[c] # None =>
                 ExistsIn(C, q, c) /\ DocIn(C, q, c) = C[c]
           /\ \A i \in 1..Len(q) : /\ ExistsIn(C, q, q[i].id)
                                   /\ DocIn(C, q, q[i].id) = q[i].doc
           /\ \A c \in Comments : ExistsIn(C, q, c) <=>
                 C[c] # None \/ \E i \in 1..Len(q) : q[i].id = c
           /\ \A c \in Comments :
                 ExistsIn(C, q, c) => DocIn(C, q, c) \in Comment
<1>1. DOMAIN q = 1..Len(q) /\ \A i \in 1..Len(q) : q[i] \in Own
  OBVIOUS
<1>2. \A c \in Comments : C[c] # None =>
         ExistsIn(C, q, c) /\ DocIn(C, q, c) = C[c]
  BY DEF DocIn, ExistsIn
<1>3. ASSUME NEW i \in 1..Len(q)
      PROVE  /\ ExistsIn(C, q, q[i].id)
             /\ DocIn(C, q, q[i].id) = q[i].doc
  <2>1. (CHOOSE w \in Range(q) : w.id = q[i].id) = q[i]
    BY PendingIs
  <2> QED
    BY <1>1, <2>1 DEF DocIn, ExistsIn
<1>4. \A c \in Comments : ExistsIn(C, q, c) <=>
         C[c] # None \/ \E i \in 1..Len(q) : q[i].id = c
  BY <1>1 DEF ExistsIn
<1>5. ASSUME NEW c \in Comments, ExistsIn(C, q, c)
      PROVE  DocIn(C, q, c) \in Comment
  <2>1. CASE C[c] # None
    BY <1>2, <2>1
  <2>2. CASE \E i \in 1..Len(q) : q[i].id = c
    <3>1. PICK i \in 1..Len(q) : q[i].id = c
      BY <2>2
    <3>2. q[i].doc \in Comment
      BY <1>1 DEF Own
    <3> QED
      BY <1>3, <3>1, <3>2
  <2> QED
    BY <1>4, <1>5, <2>1, <2>2
<1> QED
  BY <1>2, <1>3, <1>4, <1>5

-----------------------------------------------------------------------------
(* Names *)

Less(S) == {e \in S \X S : e[1] < e[2]}

Replies(docs) == {i \in DOMAIN docs : IsReply(docs[i])}

LEMMA LessOrders ==
    ASSUME NEW S \in SUBSET Int
    PROVE  Orders(Less(S), S)
<1>1. \A x, y \in S : <<x, y>> \in Less(S) <=> x < y
  BY DEF Less
<1>2. \A x \in S : x \in Int
  OBVIOUS
<1> QED
  BY <1>1, <1>2 DEF Orders

\* A reply is dealt the name at its place among the replies.
LEMMA NthIs ==
    ASSUME NEW docs \in Seq(Own), NEW i \in Replies(docs)
    PROVE  Nth(docs, i) = Place(Replies(docs), Less(Replies(docs)), i)
<1> DEFINE S     == Replies(docs)
           Under == {j \in S : <<j, i>> \in Less(S)}
<1>1. /\ S \in SUBSET (1..Len(docs)) /\ Len(docs) \in Nat /\ i \in S
      /\ DOMAIN docs = 1..Len(docs)
  BY DEF Replies
<1>2. {j \in 1..i : IsReply(docs[j])} = Under \cup {i}
  <2>1. ASSUME NEW j \in 1..i, IsReply(docs[j]) PROVE j \in Under \cup {i}
    <3>1. j \in S
      BY <1>1, <2>1 DEF Replies
    <3>2. j < i \/ j = i
      BY <1>1
    <3> QED
      BY <1>1, <3>1, <3>2 DEF Less
  <2>2. ASSUME NEW j \in Under PROVE j \in 1..i /\ IsReply(docs[j])
    BY <1>1 DEF Less, Replies
  <2>3. i \in 1..i /\ IsReply(docs[i])
    BY <1>1 DEF Replies
  <2> HIDE DEF Under
  <2> QED
    BY <2>1, <2>2, <2>3
<1>3. IsFiniteSet(Under) /\ i \notin Under
  <2>1. IsFiniteSet(1..Len(docs))
    BY <1>1, FS_Interval
  <2>2. Under \in SUBSET (1..Len(docs))
    BY <1>1
  <2>3. i \notin Under
    BY <1>1 DEF Less
  <2> HIDE DEF Under
  <2> QED
    BY <2>1, <2>2, <2>3, FS_Subset
<1>4. Nth(docs, i) = Cardinality(Under) + 1
  <2> HIDE DEF Under
  <2> QED
    BY <1>2, <1>3, FS_AddElement DEF Nth
<1> QED
  BY <1>4 DEF Place

\* Either every reply finds the place of its own mention, or the last finds
\* none.
LEMMA Dealt ==
    ASSUME NEW docs \in Seq(Own), NEW known \in SUBSET Replies(docs),
           NEW found, found = Sorted(known, Less(known))
    PROVE  /\ found \in Seq(known)
           /\ \/ \A i \in Replies(docs) :
                    /\ Nth(docs, i) \in 1..Len(found)
                    /\ found[Nth(docs, i)] = i
              \/ /\ known # Replies(docs)
                 /\ \E i \in Replies(docs) : Nth(docs, i) > Len(found)
<1> DEFINE S == Replies(docs)
<1>1. /\ S \in SUBSET Int /\ IsFiniteSet(S)
      /\ known \in SUBSET Int /\ IsFiniteSet(known)
      /\ Cardinality(known) \in Nat /\ Cardinality(S) \in Nat
      /\ Cardinality(known) <= Cardinality(S)
      /\ Cardinality(known) = Cardinality(S) => known = S
  <2>1. S \in SUBSET (1..Len(docs)) /\ Len(docs) \in Nat
    BY DEF Replies
  <2>2. IsFiniteSet(1..Len(docs))
    BY <2>1, FS_Interval
  <2>3. IsFiniteSet(S)
    BY <2>1, <2>2, FS_Subset
  <2> HIDE DEF S
  <2>4. known \in SUBSET S
    BY DEF S
  <2>5. IsFiniteSet(known)
    BY <2>3, <2>4, FS_Subset
  <2>6. /\ Cardinality(known) <= Cardinality(S)
        /\ Cardinality(S) = Cardinality(known) => S = known
    BY <2>3, <2>4, FS_Subset
  <2>7. Cardinality(known) \in Nat /\ Cardinality(S) \in Nat
    BY <2>3, <2>5, FS_CardinalityType
  <2>8. S \in SUBSET Int /\ known \in SUBSET Int
    BY <2>1, <2>4
  <2> QED
    BY <2>3, <2>5, <2>6, <2>7, <2>8
<1>2. /\ found \in Seq(known) /\ Len(found) = Cardinality(known)
      /\ \A i \in known : found[Place(known, Less(known), i)] = i
  <2>1. Orders(Less(known), known)
    BY <1>1, LessOrders
  <2> QED
    BY <1>1, <2>1, SortedIs
<1>3. Orders(Less(S), S)
  BY <1>1, LessOrders
<1>4. \A i \in S : Nth(docs, i) = Place(S, Less(S), i)
  BY NthIs
<1>5. CASE known = S
  <2>1. ASSUME NEW i \in S
        PROVE  Nth(docs, i) \in 1..Len(found) /\ found[Nth(docs, i)] = i
    <3>1. Place(S, Less(S), i) \in 1..Cardinality(S)
      BY <1>1, <1>3, Places
    <3> QED
      BY <1>2, <1>4, <1>5, <3>1
  <2> QED
    BY <1>2, <2>1
<1>6. CASE known # S
  <2>1. Cardinality(S) \in 1..Cardinality(S)
        /\ Len(found) < Cardinality(S)
    BY <1>1, <1>2, <1>6
  <2>2. PICK i \in S : Place(S, Less(S), i) = Cardinality(S)
    BY <1>1, <1>3, <2>1, Places
  <2>3. Nth(docs, i) > Len(found)
    BY <1>1, <1>2, <1>4, <2>1, <2>2
  <2> QED
    BY <1>2, <1>6, <2>3
<1> QED
  BY <1>5, <1>6

\* The rows show the documents, and the names if there are enough of them.
LEMMA CombinedIs ==
    ASSUME NEW docs \in Seq(Own), NEW names \in Seq(Users),
           \A i \in Replies(docs) : Nth(docs, i) \in 1..Len(names)
    PROVE  /\ Combined(docs, names) \in Seq(Row)
           /\ Len(Combined(docs, names)) = Len(docs)
           /\ \A i \in 1..Len(docs) :
                 /\ Combined(docs, names)[i].id = docs[i].id
                 /\ Combined(docs, names)[i].author = docs[i].doc.author
                 /\ Combined(docs, names)[i].parent = docs[i].doc.parent
                 /\ Combined(docs, names)[i].mention =
                       IF IsReply(docs[i]) THEN names[Nth(docs, i)] ELSE None
<1> DEFINE name(i) == IF IsReply(docs[i]) THEN names[Nth(docs, i)] ELSE None
           row(i)  == [id |-> docs[i].id, author |-> docs[i].doc.author,
                       parent |-> docs[i].doc.parent, mention |-> name(i)]
<1>1. DOMAIN docs = 1..Len(docs) /\ Len(docs) \in Nat
  OBVIOUS
<1>2. Combined(docs, names) = [i \in 1..Len(docs) |-> row(i)]
  BY <1>1 DEF Combined
<1>3. ASSUME NEW i \in 1..Len(docs)
      PROVE  row(i) \in Row
  <2>1. docs[i] \in Own
    BY <1>1
  <2>2. docs[i].id \in Comments /\ docs[i].doc \in Comment
    BY <2>1 DEF Own
  <2>3. /\ docs[i].doc.author \in Users
        /\ docs[i].doc.parent \in Comments \cup {None}
    BY <2>2 DEF Comment
  <2>4. name(i) \in Users \cup {None}
    <3>1. CASE IsReply(docs[i])
      <4>1. Nth(docs, i) \in 1..Len(names)
        BY <1>1, <3>1 DEF Replies
      <4> QED
        BY <3>1, <4>1
    <3> QED
      BY <3>1
  <2> HIDE DEF name
  <2> QED
    BY <2>2, <2>3, <2>4 DEF Row
<1>4. ASSUME NEW i \in 1..Len(docs)
      PROVE  /\ row(i).id = docs[i].id
             /\ row(i).author = docs[i].doc.author
             /\ row(i).parent = docs[i].doc.parent
             /\ row(i).mention = name(i)
  OBVIOUS
<1> HIDE DEF row
<1>5. /\ Combined(docs, names) \in Seq(Row)
      /\ Len(Combined(docs, names)) = Len(docs)
      /\ \A i \in 1..Len(docs) : Combined(docs, names)[i] = row(i)
  BY <1>1, <1>2, <1>3
<1> QED
  BY <1>4, <1>5

-----------------------------------------------------------------------------
(* Steps *)

\* What holds of comments that were made holds on: authors stay, documents do
\* not change, and nothing that is gone comes back.
Keeps ==
    /\ Len(made) \in Nat /\ Len(made') \in Nat /\ Len(made) <= Len(made')
    /\ \A c \in 1..Len(made) :
          /\ made'[c] = made[c]
          /\ Exists(c)' => Exists(c) /\ Doc(c)' = Doc(c)
    /\ refused \subseteq refused'

LEMMA MadeAre ==
    ASSUME TypeOK
    PROVE  /\ Len(made) \in Nat /\ 1..Len(made) \subseteq Comments
           /\ \A c \in 1..Len(made) : made[c] \in Users
           /\ made \in Seq(Users)
           /\ None \notin 1..Len(made)
  BY CommentsAre DEF TypeOK

LEMMA DocIs ==
    ASSUME TypeOK, Ids
    PROVE  /\ \A c \in Comments : comments[c] # None =>
                 Exists(c) /\ Doc(c) = comments[c]
           /\ \A i \in 1..Len(queue) :
                 Exists(queue[i].id) /\ Doc(queue[i].id) = queue[i].doc
           /\ \A c \in Comments : Exists(c) <=>
                 comments[c] # None \/ \E i \in 1..Len(queue) : queue[i].id = c
           /\ \A c \in Comments : Exists(c) => Doc(c) \in Comment
           /\ \A c \in Comments : Exists(c) <=>
                 c \in 1..Len(made) /\ c \notin refused
<1>1. \A c \in Comments : /\ Exists(c) <=> ExistsIn(comments, queue, c)
                          /\ Doc(c) = DocIn(comments, queue, c)
  BY DEF Exists, Pending, Doc, ExistsIn, DocIn
<1>2. /\ comments \in [Comments -> Comment \cup {None}] /\ queue \in Seq(Own)
      /\ \A i \in 1..Len(queue) : comments[queue[i].id] = None
      /\ \A i, j \in 1..Len(queue) : i # j => queue[i].id # queue[j].id
  BY DEF TypeOK, Ids
<1>3. \A i \in 1..Len(queue) : queue[i].id \in Comments
  <2>1. \A i \in 1..Len(queue) : queue[i] \in Own
    BY <1>2
  <2> QED
    BY <2>1 DEF Own
<1>a. /\ \A c \in Comments : comments[c] # None =>
            /\ ExistsIn(comments, queue, c)
            /\ DocIn(comments, queue, c) = comments[c]
      /\ \A i \in 1..Len(queue) :
            /\ ExistsIn(comments, queue, queue[i].id)
            /\ DocIn(comments, queue, queue[i].id) = queue[i].doc
      /\ \A c \in Comments : ExistsIn(comments, queue, c) <=>
            comments[c] # None \/ \E i \in 1..Len(queue) : queue[i].id = c
      /\ \A c \in Comments : ExistsIn(comments, queue, c) =>
            DocIn(comments, queue, c) \in Comment
  BY <1>2, DocInIs
<1>4. /\ \A c \in Comments : comments[c] # None =>
            Exists(c) /\ Doc(c) = comments[c]
      /\ \A i \in 1..Len(queue) :
            Exists(queue[i].id) /\ Doc(queue[i].id) = queue[i].doc
      /\ \A c \in Comments : Exists(c) <=>
            comments[c] # None \/ \E i \in 1..Len(queue) : queue[i].id = c
      /\ \A c \in Comments : Exists(c) => Doc(c) \in Comment
  BY <1>1, <1>3, <1>a
<1>5. \A c \in Comments : Exists(c) <=> c \in 1..Len(made) /\ c \notin refused
  BY <1>2, <1>4 DEF Ids
<1> QED
  BY <1>4, <1>5

\* A step that leaves the comments alone
LEMMA StoreStays ==
    ASSUME TypeOK, Ids, Docs, UNCHANGED <<comments, queue, made, refused>>
    PROVE  Keeps /\ Ids' /\ Docs'
<1>1. \A c : (Exists(c)' <=> Exists(c)) /\ Doc(c)' = Doc(c)
  BY DEF Exists, Pending, Doc
<1>2. Keeps
  BY <1>1, MadeAre DEF Keeps
<1>3. Ids'
  BY <1>1 DEF Ids
<1>4. Docs'
  BY <1>1 DEF Docs, Says
<1> QED
  BY <1>2, <1>3, <1>4

LEMMA SaysOn ==
    ASSUME TypeOK, Keeps, NEW c \in 1..Len(made), NEW doc, Says(c, doc)
    PROVE  Says(c, doc)'
<1>1. 1..Len(made) \subseteq 1..Len(made')
  BY DEF Keeps
<1>2. made'[c] = made[c]
  BY DEF Keeps
<1>3. ASSUME doc.parent # None
      PROVE  /\ doc.parent \in 1..Len(made')
             /\ Exists(doc.parent)' => Doc(doc.parent)'.parent = None
  <2>1. doc.parent \in 1..Len(made)
        /\ (Exists(doc.parent) => Doc(doc.parent).parent = None)
    BY <1>3 DEF Says
  <2>2. Exists(doc.parent)' =>
           Exists(doc.parent) /\ Doc(doc.parent)' = Doc(doc.parent)
    BY <2>1 DEF Keeps
  <2> QED
    BY <1>1, <2>1, <2>2
<1> QED
  BY <1>1, <1>2, <1>3 DEF Says

LEMMA ClosedOn ==
    ASSUME Keeps, NEW S, Closed(S)
    PROVE  Closed(S)'
<1>1. 1..Len(made) \subseteq 1..Len(made')
  BY DEF Keeps
<1>2. S \subseteq 1..Len(made)
  BY DEF Closed
<1>3. ASSUME NEW c \in S, Exists(c)' PROVE Doc(c)'.parent \in S \cup {None}
  BY <1>2, <1>3 DEF Keeps, Closed
<1> QED
  BY <1>1, <1>2, <1>3 DEF Closed

LEMMA FetchedOn ==
    ASSUME TypeOK, Keeps, NEW docs, NEW S, S \subseteq 1..Len(made),
           Fetched(docs, S)
    PROVE  Fetched(docs, S)'
<1>1. ASSUME NEW i \in DOMAIN docs
      PROVE  /\ docs[i].id \in S /\ Says(docs[i].id, docs[i].doc)'
             /\ Exists(docs[i].id)' => Doc(docs[i].id)' = docs[i].doc
  <2>1. docs[i].id \in 1..Len(made) /\ Says(docs[i].id, docs[i].doc)
        /\ docs[i].id \in S
        /\ (Exists(docs[i].id) => Doc(docs[i].id) = docs[i].doc)
    BY DEF Fetched
  <2>2. Says(docs[i].id, docs[i].doc)'
    BY <2>1, SaysOn
  <2>3. Exists(docs[i].id)' =>
           Exists(docs[i].id) /\ Doc(docs[i].id)' = Doc(docs[i].id)
    BY <2>1 DEF Keeps
  <2> QED
    BY <2>1, <2>2, <2>3
<1>2. refused' = {} => refused = {}
  BY DEF Keeps
<1> QED
  BY <1>1, <1>2 DEF Fetched

LEMMA NamedOn ==
    ASSUME Keeps, NEW docs, NEW names, NEW S, Fetched(docs, S),
           Named(docs, names)
    PROVE  Named(docs, names)'
<1>1. ASSUME NEW i \in DOMAIN docs, IsReply(docs[i])
      PROVE  made'[docs[i].doc.mention] = made[docs[i].doc.mention]
  BY <1>1 DEF Fetched, Says, IsReply, Keeps
<1>2. refused # {} => refused' # {}
  BY DEF Keeps
<1> QED
  BY <1>1, <1>2 DEF Named

LEMMA ListsOn ==
    ASSUME Lists, Keeps
    PROVE  /\ UNCHANGED posts =>
                 \A p \in Posts : posts'[p] # None => Closed(posts[p])'
           /\ UNCHANGED forum => \A p \in DOMAIN forum' : Closed(forum[p])'
           /\ UNCHANGED ids => Closed(ids)'
           /\ UNCHANGED <<load, ids>> /\ load' # None =>
                 Closed(load.ids)' /\ load'.ids \subseteq ids'
           /\ UNCHANGED <<asked, ids>> => asked' \subseteq ids'
<1>1. ASSUME UNCHANGED posts, NEW p \in Posts, posts'[p] # None
      PROVE  Closed(posts[p])'
  <2>1. PICK S \in {posts[p]} : S = posts[p] /\ S = posts'[p]
    BY <1>1
  <2>2. Closed(S)'
    BY <1>1, <2>1, ClosedOn DEF Lists
  <2> QED
    BY <2>1, <2>2 DEF Closed
<1>2. ASSUME UNCHANGED forum, NEW p \in DOMAIN forum'
      PROVE  Closed(forum[p])'
  <2>1. PICK S \in {forum[p]} : S = forum[p] /\ S = forum'[p]
    BY <1>2
  <2>2. Closed(S)'
    BY <1>2, <2>1, ClosedOn DEF Lists
  <2> QED
    BY <2>1, <2>2 DEF Closed
<1>3. ASSUME UNCHANGED ids PROVE Closed(ids)'
  <2>1. PICK S \in {ids} : S = ids /\ S = ids'
    BY <1>3
  <2>2. Closed(S)'
    BY <2>1, ClosedOn DEF Lists
  <2> QED
    BY <2>1, <2>2 DEF Closed
<1>4. ASSUME UNCHANGED <<load, ids>>, load' # None
      PROVE  Closed(load.ids)' /\ load'.ids \subseteq ids'
  <2>1. PICK S \in {load.ids} : S = load.ids /\ S = load'.ids
    BY <1>4
  <2>2. Closed(S)'
    BY <1>4, <2>1, ClosedOn DEF Lists
  <2>3. load'.ids \subseteq ids'
    BY <1>4 DEF Lists
  <2> QED
    BY <2>1, <2>2, <2>3 DEF Closed
<1> QED
  BY <1>1, <1>2, <1>3, <1>4 DEF Lists

LEMMA LoadingOn ==
    ASSUME TypeOK, Lists, Keeps, Loading, load' = load
    PROVE  Loading'
<1> SUFFICES ASSUME load # None PROVE Loading'
  BY DEF Loading
<1>1. PICK S \in {load.ids}, docs \in {load.docs}, names \in {load.names} :
         /\ S = load.ids /\ docs = load.docs /\ names = load.names
         /\ S = load'.ids /\ docs = load'.docs /\ names = load'.names
  OBVIOUS
<1>2. S \subseteq 1..Len(made)
  BY <1>1 DEF Lists, Closed
<1>3. load'.step > 1 => Fetched(docs, S)'
  BY <1>1, <1>2, FetchedOn DEF Loading
<1>4. load'.gone => refused' # {}
  BY DEF Loading, Keeps
<1>5. ASSUME load'.step = 4 PROVE Named(docs, names)'
  <2>1. Fetched(docs, S) /\ Named(docs, names)
    BY <1>1, <1>5 DEF Loading
  <2> QED
    BY <2>1, NamedOn
<1>6. load'.step > 1 => Fetched(load.docs, load.ids)'
  BY <1>1, <1>3 DEF Fetched, Says
<1>7. load'.step = 4 => Named(load.docs, load.names)'
  BY <1>1, <1>5 DEF Named, Nth
<1> QED
  BY <1>4, <1>6, <1>7 DEF Loading

LEMMA TellsOn ==
    ASSUME TypeOK, Docs, Keeps, NEW r, Tells(r), r.id \in 1..Len(made),
           asked' = asked
    PROVE  Tells(r)'
<1>1. made'[r.id] = made[r.id] /\ r.id \in asked /\ r.id \in Comments
  BY MadeAre DEF Keeps, Tells
<1>2. ASSUME Exists(r.id)'
      PROVE  /\ r.parent = Doc(r.id)'.parent
             /\ r.mention = IF Doc(r.id)'.mention = None THEN None
                            ELSE made'[Doc(r.id)'.mention]
  <2>1. Exists(r.id) /\ Doc(r.id)' = Doc(r.id)
    BY <1>2 DEF Keeps
  <2>2. Says(r.id, Doc(r.id))
    BY <1>1, <2>1 DEF Docs
  <2>3. Doc(r.id).mention # None =>
           made'[Doc(r.id).mention] = made[Doc(r.id).mention]
    BY <2>2 DEF Says, Keeps
  <2> QED
    BY <2>1, <2>3 DEF Tells
<1> QED
  BY <1>1, <1>2 DEF Tells

LEMMA ShowsOn ==
    ASSUME TypeOK, Docs, Lists, Keeps, Shows, InOrderMade, RepliesInThread,
           UNCHANGED <<shown, asked>>
    PROVE  Shows' /\ InOrderMade' /\ RepliesInThread'
<1>1. ASSUME NEW i \in 1..Len(shown') PROVE Tells(shown[i])'
  <2>1. PICK r \in {shown[i]} : r = shown[i] /\ r = shown'[i]
    BY <1>1
  <2>2. Tells(r)
    BY <1>1, <2>1 DEF Shows
  <2>3. r.id \in 1..Len(made)
    BY <2>2 DEF Tells, Lists, Closed
  <2>4. Tells(r)'
    BY <2>2, <2>3, TellsOn
  <2> QED
    BY <2>1, <2>4 DEF Tells
<1>2. refused' = {} => refused = {}
  BY DEF Keeps
<1>3. ShownIds' = ShownIds
  BY DEF ShownIds
<1>4. Shows'
  BY <1>1, <1>2, <1>3 DEF Shows
<1>5. InOrderMade' /\ RepliesInThread'
  BY DEF InOrderMade, RepliesInThread, SameHalfDay
<1> QED
  BY <1>4, <1>5

-----------------------------------------------------------------------------
(* Writes *)

\* The next state's documents, by their places
LEMMA NextDocs ==
    ASSUME NEW C, NEW q, C = comments', q = queue',
           C \in [Comments -> Comment \cup {None}], q \in Seq(Own),
           \A i \in 1..Len(q) : C[q[i].id] = None,
           \A i, j \in 1..Len(q) : i # j => q[i].id # q[j].id
    PROVE  /\ \A c \in Comments : C[c] # None =>
                 Exists(c)' /\ Doc(c)' = C[c]
           /\ \A i \in 1..Len(q) : q[i].id \in Comments /\
                 Exists(q[i].id)' /\ Doc(q[i].id)' = q[i].doc
           /\ \A c \in Comments : Exists(c)' <=>
                 C[c] # None \/ \E i \in 1..Len(q) : q[i].id = c
<1>1. \A c : /\ Exists(c)' <=> ExistsIn(C, q, c)
             /\ Doc(c)' = DocIn(C, q, c)
  BY DEF Exists, Pending, Doc, ExistsIn, DocIn
<1>2. \A i \in 1..Len(q) : q[i].id \in Comments
  <2>1. \A i \in 1..Len(q) : q[i] \in Own
    OBVIOUS
  <2> QED
    BY <2>1 DEF Own
<1>3. /\ \A c \in Comments : C[c] # None =>
            ExistsIn(C, q, c) /\ DocIn(C, q, c) = C[c]
      /\ \A i \in 1..Len(q) : /\ ExistsIn(C, q, q[i].id)
                              /\ DocIn(C, q, q[i].id) = q[i].doc
      /\ \A c \in Comments : ExistsIn(C, q, c) <=>
            C[c] # None \/ \E i \in 1..Len(q) : q[i].id = c
  BY DocInIs
<1> QED
  BY <1>1, <1>2, <1>3

\* A comment is made, here or on another device.
LEMMA Makes ==
    ASSUME TypeOK, Ids, Docs, NEW k \in Comments, k = Next1,
           NEW u \in Users, made' = Append(made, u), refused' = refused,
           NEW d \in Comment, d.author = u,
           d.mention # None => d.mention \in 1..Len(made),
           d.parent # None => /\ d.parent \in 1..Len(made)
                              /\ Exists(d.parent) =>
                                    Doc(d.parent).parent = None,
           \/ /\ comments' = [comments EXCEPT ![k] = d]
              /\ queue' = queue
           \/ /\ comments' = comments
              /\ queue' = Append(queue, [id |-> k, doc |-> d])
    PROVE  /\ Keeps /\ Ids' /\ Docs'
           /\ k \in 1..Len(made') /\ k \notin 1..Len(made)
           /\ Exists(k)' /\ Doc(k)' = d
           /\ \A c \in 1..Len(made) : Exists(c) <=> Exists(c)'
<1> DEFINE n == Len(made)
           w == [id |-> k, doc |-> d]
<1>1. /\ n \in Nat /\ k = n + 1 /\ Len(made') = n + 1
      /\ \A c \in 1..n : made'[c] = made[c]
      /\ made'[n + 1] = u
      /\ 1..n \subseteq Comments
  BY MadeAre DEF TypeOK, Next1
<1>2. comments \in [Comments -> Comment \cup {None}] /\ queue \in Seq(Own)
      /\ Len(queue) \in Nat
  BY DEF TypeOK
<1>3. /\ comments[n + 1] = None
      /\ \A i \in 1..Len(queue) : queue[i].id \in 1..n
      /\ \A i \in 1..Len(queue) : comments[queue[i].id] = None
      /\ \A i, j \in 1..Len(queue) : i # j => queue[i].id # queue[j].id
  BY <1>1 DEF Ids
<1>4. w \in Own /\ w.id = n + 1 /\ w.doc = d
  BY <1>1 DEF Own
<1> HIDE DEF n, w
<1>r. PICK C \in {comments'}, q \in {queue'} :
         /\ C = comments' /\ q = queue'
         /\ \/ C = [comments EXCEPT ![k] = d] /\ q = queue
            \/ C = comments /\ q = Append(queue, w)
  BY DEF w
<1>5. /\ C \in [Comments -> Comment \cup {None}]
      /\ \A c \in 1..n : C[c] = comments[c]
      /\ \A c \in Comments : C[c] # None => c \in 1..(n + 1)
  <2>1. \A c \in Comments : comments[c] # None => c \in 1..n
    BY DEF Ids, n
  <2>2. n + 1 \notin 1..n
    BY <1>1
  <2> QED
    BY <1>1, <1>2, <1>r, <2>1, <2>2
<1>6. /\ q \in Seq(Own)
      /\ \A i \in 1..Len(queue) : i \in 1..Len(q) /\ q[i] = queue[i]
      /\ \A i \in 1..Len(q) :
            \/ i \in 1..Len(queue)
            \/ /\ i = Len(queue) + 1 /\ q[i] = w
               /\ C = comments
  <2>1. CASE q = queue
    BY <1>2, <2>1
  <2>2. CASE C = comments /\ q = Append(queue, w)
    <3>1. Len(q) = Len(queue) + 1 /\ q[Len(queue) + 1] = w /\ q \in Seq(Own)
      BY <1>2, <1>4, <2>2
    <3>2. \A i \in 1..Len(queue) : q[i] = queue[i]
      BY <1>2, <1>4, <2>2
    <3> QED
      BY <1>2, <2>2, <3>1, <3>2
  <2> QED
    BY <1>r, <2>1, <2>2
<1>7. /\ \A i \in 1..Len(q) : C[q[i].id] = None
                                   /\ q[i].id \in 1..(n + 1)
      /\ \A i, j \in 1..Len(q) : i # j => q[i].id # q[j].id
  <2>1. \A c \in 1..n : c \in 1..(n + 1) /\ c # n + 1
    BY <1>1
  <2>2. n + 1 \in 1..(n + 1)
    BY <1>1
  <2>3. ASSUME NEW i \in 1..Len(q)
        PROVE  C[q[i].id] = None /\ q[i].id \in 1..(n + 1)
    BY <1>3, <1>4, <1>5, <1>6, <2>1, <2>2
  <2>4. ASSUME NEW i \in 1..Len(q), NEW j \in 1..Len(q), i # j
        PROVE  q[i].id # q[j].id
    <3>1. \A x \in 1..Len(q) :
             \/ /\ x \in 1..Len(queue) /\ q[x] = queue[x]
                /\ q[x].id # n + 1
             \/ x = Len(queue) + 1 /\ q[x].id = n + 1
      BY <1>3, <1>4, <1>6, <2>1
    <3> QED
      BY ONLY <1>3, <2>4, <3>1
  <2> QED
    BY <2>3, <2>4
<1>8. /\ \A c \in Comments : C[c] # None =>
            Exists(c)' /\ Doc(c)' = C[c]
      /\ \A i \in 1..Len(q) : /\ Exists(q[i].id)'
                                   /\ Doc(q[i].id)' = q[i].doc
      /\ \A c \in Comments : Exists(c)' <=>
            C[c] # None \/ \E i \in 1..Len(q) : q[i].id = c
  BY <1>5, <1>6, <1>7, <1>r, NextDocs
<1>9. Exists(k)' /\ Doc(k)' = d
  <2>1. CASE C = [comments EXCEPT ![k] = d] /\ q = queue
    <3>1. C[k] = d /\ d # None
      BY <1>2, <2>1, NoneAssumption
    <3> QED
      BY <1>8, <3>1
  <2>2. CASE C = comments /\ q = Append(queue, w)
    <3>1. Len(queue) + 1 \in 1..Len(q) /\ q[Len(queue) + 1] = w
      BY <1>2, <2>2
    <3> QED
      BY <1>1, <1>4, <1>8, <3>1
  <2> QED
    BY <1>r, <2>1, <2>2
<1>10. ASSUME NEW c \in 1..n
       PROVE  (Exists(c)' <=> Exists(c)) /\ (Exists(c) => Doc(c)' = Doc(c))
  <2>0. c \in Comments /\ c # n + 1
    BY <1>1
  <2>1. CASE comments[c] # None
    <3>1. C[c] = comments[c]
      BY <1>5
    <3> QED
      BY <1>8, <2>0, <2>1, <3>1, DocIs
  <2>2. CASE comments[c] = None
    <3>1. C[c] = None
      BY <1>5, <2>2
    <3>2. Exists(c)' <=> \E i \in 1..Len(q) : q[i].id = c
      BY <1>8, <2>0, <3>1
    <3>3. Exists(c) <=> \E i \in 1..Len(queue) : queue[i].id = c
      BY <2>0, <2>2, DocIs
    <3>4. \A i \in 1..Len(q) : q[i].id = c => i \in 1..Len(queue)
      BY <1>4, <1>6, <2>0
    <3>5. ASSUME NEW i \in 1..Len(queue), queue[i].id = c
          PROVE  Doc(c)' = Doc(c)
      <4>1. Doc(c) = queue[i].doc
        BY <3>5, DocIs
      <4>2. Doc(c)' = q[i].doc
        BY <1>6, <1>8, <3>5
      <4> QED
        BY <1>6, <4>1, <4>2
    <3> QED
      BY <1>6, <3>2, <3>3, <3>4, <3>5
  <2> QED
    BY <2>1, <2>2
<1>11. Keeps
  BY <1>1, <1>10 DEF Keeps, n
<1>12. Ids'
  <2>1. ASSUME NEW i \in 1..Len(q) PROVE q[i].id \notin refused'
    <3>1. n + 1 \notin refused
      BY <1>1 DEF Ids, n
    <3>2. \A j \in 1..Len(queue) : queue[j].id \notin refused
      BY DEF Ids
    <3> QED
      BY <1>4, <1>6, <3>1, <3>2
  <2>2. ASSUME NEW c \in refused'
        PROVE  c \in 1..Len(made') /\ C[c] = None
    <3>1. c \in 1..n /\ comments[c] = None
      BY <2>2 DEF Ids, n
    <3> QED
      BY <1>1, <1>5, <3>1
  <2>3. ASSUME NEW c \in 1..Len(made') PROVE Exists(c)' \/ c \in refused'
    <3>1. c \in 1..n \/ c = n + 1
      BY <1>1
    <3>2. c \in 1..n => Exists(c) \/ c \in refused
      BY DEF Ids, n
    <3> QED
      BY <1>1, <1>9, <1>10, <3>1, <3>2
  <2> QED
    BY <1>1, <1>5, <1>7, <1>r, <2>1, <2>2, <2>3 DEF Ids
<1>13. Says(k, d)'
  <2>1. \A c \in 1..n : c \in 1..(n + 1)
    BY <1>1
  <2>2. d.author = made'[k]
    BY <1>1
  <2>3. d.mention # None => d.mention \in 1..Len(made')
    BY <1>1, <2>1 DEF n
  <2>4. d.parent # None =>
           /\ d.parent \in 1..Len(made')
           /\ Exists(d.parent)' => Doc(d.parent)'.parent = None
    BY <1>1, <1>10, <2>1 DEF n
  <2> QED
    BY <2>2, <2>3, <2>4 DEF Says
<1>14. Docs'
  <2> SUFFICES ASSUME NEW c \in Comments, Exists(c)'
               PROVE  Says(c, Doc(c))'
    BY DEF Docs
  <2>1. CASE c \in 1..n
    <3>1. Exists(c) /\ Doc(c)' = Doc(c)
      BY <1>10, <2>1
    <3>2. PICK doc \in {Doc(c)} : doc = Doc(c) /\ doc = Doc(c)'
      BY <3>1
    <3>3. Says(c, doc)
      BY <3>1, <3>2 DEF Docs
    <3>4. Says(c, doc)'
      BY <1>11, <2>1, <3>3, SaysOn DEF n
    <3> QED
      BY <3>2, <3>4 DEF Says
  <2>2. CASE c \notin 1..n
    <3>1. c = n + 1
      <4>1. c \in 1..(n + 1)
        BY <1>5, <1>7, <1>8
      <4> QED
        BY <1>1, <2>2, <4>1
    <3> QED
      BY <1>1, <1>9, <1>13, <3>1 DEF Says
  <2> QED
    BY <2>1, <2>2
<1>15. k \in 1..Len(made') /\ k \notin 1..Len(made)
  BY <1>1 DEF n
<1> QED
  BY <1>9, <1>10, <1>11, <1>12, <1>14, <1>15 DEF n

\* The server takes the first of the comments under way, or refuses it.
LEMMA Answers ==
    ASSUME TypeOK, Ids, Docs, queue # <<>>, NEW w, w = Head(queue),
           queue' = Tail(queue), made' = made,
           \/ /\ comments' = [comments EXCEPT ![w.id] = w.doc]
              /\ refused' = refused
           \/ /\ comments' = comments
              /\ refused' = refused \cup {w.id}
    PROVE  /\ Keeps /\ Ids' /\ Docs'
           /\ w \in Own /\ w.id \in Comments
           /\ Exists(w.id) /\ Doc(w.id) = w.doc
<1>1. PICK C \in {comments'}, q \in {queue'} :
         /\ C = comments' /\ q = queue' /\ q = Tail(queue)
         /\ \/ C = [comments EXCEPT ![w.id] = w.doc] /\ refused' = refused
            \/ C = comments /\ refused' = refused \cup {w.id}
  OBVIOUS
<1>2. /\ comments \in [Comments -> Comment \cup {None}] /\ queue \in Seq(Own)
      /\ Len(queue) \in Nat /\ refused \subseteq Comments
  BY DEF TypeOK
<1>3. /\ 1 \in 1..Len(queue) /\ w = queue[1] /\ w \in Own
      /\ q \in Seq(Own) /\ Len(q) \in Nat
      /\ \A i \in 1..Len(q) : /\ i + 1 \in 1..Len(queue)
                              /\ i + 1 # 1 /\ q[i] = queue[i + 1]
      /\ \A i \in 1..Len(queue) :
            i = 1 \/ /\ i - 1 \in 1..Len(q) /\ q[i - 1] = queue[i]
  <2>1. /\ w = queue[1] /\ q \in Seq(Own) /\ Len(q) = Len(queue) - 1
        /\ \A i \in 1..Len(q) : q[i] = queue[i + 1]
        /\ 1 \in 1..Len(queue)
    BY <1>1, <1>2
  <2>2. w \in Own
    BY <1>2, <2>1
  <2> QED
    BY <1>2, <2>1, <2>2
<1>4. w.id \in Comments /\ w.doc \in Comment /\ w.doc # None
  BY <1>3, NoneAssumption DEF Own
<1>5. /\ w.id \in 1..Len(made) /\ comments[w.id] = None /\ w.id \notin refused
      /\ \A i \in 1..Len(q) :
            /\ q[i].id \in 1..Len(made) /\ comments[q[i].id] = None
            /\ q[i].id \notin refused /\ q[i].id # w.id
      /\ \A i, j \in 1..Len(q) : i # j => q[i].id # q[j].id
  <2>1. w.id \in 1..Len(made) /\ comments[w.id] = None /\ w.id \notin refused
    BY <1>3 DEF Ids
  <2>2. ASSUME NEW i \in 1..Len(q)
        PROVE  /\ q[i].id \in 1..Len(made) /\ comments[q[i].id] = None
               /\ q[i].id \notin refused /\ q[i].id # w.id
    BY SMTT(30), <1>3 DEF Ids
  <2>3. ASSUME NEW i \in 1..Len(q), NEW j \in 1..Len(q), i # j
        PROVE  q[i].id # q[j].id
    <3>1. i + 1 \in 1..Len(queue) /\ j + 1 \in 1..Len(queue)
          /\ i + 1 # j + 1
      BY <1>3, <2>3
    <3> QED
      BY SMTT(30), <1>3, <3>1 DEF Ids
  <2> QED
    BY <2>1, <2>2, <2>3
<1>6. /\ C \in [Comments -> Comment \cup {None}]
      /\ \A i \in 1..Len(q) : C[q[i].id] = None
      /\ \A c \in Comments : c # w.id => C[c] = comments[c]
  <2>1. C \in [Comments -> Comment \cup {None}]
        /\ \A c \in Comments : c # w.id => C[c] = comments[c]
    BY <1>1, <1>2, <1>4
  <2>2. \A i \in 1..Len(q) : q[i].id \in Comments
    <3>1. \A i \in 1..Len(q) : q[i] \in Own
      BY <1>3
    <3> QED
      BY <3>1 DEF Own
  <2> QED
    BY <1>5, <2>1, <2>2
<1>7. /\ \A c \in Comments : C[c] # None => Exists(c)' /\ Doc(c)' = C[c]
      /\ \A i \in 1..Len(q) : Exists(q[i].id)' /\ Doc(q[i].id)' = q[i].doc
      /\ \A c \in Comments : Exists(c)' <=>
            C[c] # None \/ \E i \in 1..Len(q) : q[i].id = c
  <2>1. C = comments' /\ q = queue' /\ q \in Seq(Own)
    BY <1>1, <1>3
  <2>2. \A i, j \in 1..Len(q) : i # j => q[i].id # q[j].id
    BY <1>5
  <2> QED
    BY ONLY <1>6, <2>1, <2>2, NextDocs
<1>8. Exists(w.id) /\ Doc(w.id) = w.doc
  BY <1>3, DocIs
<1>9. ASSUME NEW c \in Comments, c # w.id
      PROVE  /\ Exists(c)' <=> Exists(c)
             /\ Exists(c) => Doc(c)' = Doc(c)
  <2>1. CASE comments[c] # None
    <3>1. C[c] = comments[c]
      BY <1>6, <1>9
    <3> QED
      BY <1>7, <2>1, <3>1, DocIs
  <2>2. CASE comments[c] = None
    <3>1. C[c] = None
      BY <1>6, <1>9, <2>2
    <3>2. Exists(c)' <=> \E i \in 1..Len(q) : q[i].id = c
      BY <1>7, <3>1
    <3>3. Exists(c) <=> \E i \in 1..Len(queue) : queue[i].id = c
      BY <2>2, DocIs
    <3>4. ASSUME NEW i \in 1..Len(queue), queue[i].id = c
          PROVE  /\ \E j \in 1..Len(q) : q[j].id = c
                 /\ Doc(c)' = Doc(c)
      <4>1. i # 1
        BY <1>3, <1>9, <3>4
      <4>2. i - 1 \in 1..Len(q) /\ q[i - 1] = queue[i]
        BY <1>3, <4>1
      <4>3. Doc(c)' = queue[i].doc
        BY <1>7, <3>4, <4>2
      <4>4. Doc(c) = queue[i].doc
        BY <3>4, DocIs
      <4> QED
        BY <3>4, <4>2, <4>3, <4>4
    <3>5. ASSUME NEW i \in 1..Len(q), q[i].id = c
          PROVE  \E j \in 1..Len(queue) : queue[j].id = c
      BY <1>3, <3>5
    <3> QED
      BY <3>2, <3>3, <3>4, <3>5
  <2> QED
    BY <2>1, <2>2
<1>10. \/ Exists(w.id)' /\ Doc(w.id)' = w.doc /\ refused' = refused
       \/ /\ ~Exists(w.id)' /\ C[w.id] = None
          /\ refused' = refused \cup {w.id}
  <2>1. CASE C = [comments EXCEPT ![w.id] = w.doc] /\ refused' = refused
    <3>1. C[w.id] = w.doc
      BY <1>2, <1>4, <2>1
    <3> QED
      BY <1>4, <1>7, <2>1, <3>1
  <2>2. CASE C = comments /\ refused' = refused \cup {w.id}
    <3>1. C[w.id] = None
      BY <1>5, <2>2
    <3> QED
      BY <1>4, <1>5, <1>7, <2>2, <3>1
  <2> QED
    BY <1>1, <2>1, <2>2
<1>11. ASSUME NEW c \in Comments, Exists(c)'
       PROVE  Exists(c) /\ Doc(c)' = Doc(c)
  BY <1>8, <1>9, <1>10, <1>11
<1>12. Keeps
  <2>1. /\ Len(made) \in Nat /\ 1..Len(made) \subseteq Comments
    BY MadeAre
  <2> QED
    BY <1>10, <1>11, <2>1 DEF Keeps
<1>13. Ids'
  <2>1. ASSUME NEW c \in Comments, comments'[c] # None
        PROVE  c \in 1..Len(made')
    BY <1>1, <1>5, <1>6, <2>1 DEF Ids
  <2>2. ASSUME NEW i \in 1..Len(queue')
        PROVE  /\ queue'[i].id \in 1..Len(made')
               /\ comments'[queue'[i].id] = None
               /\ queue'[i].id \notin refused'
    BY <1>1, <1>5, <1>6
  <2>3. \A i, j \in 1..Len(queue') : i # j => queue'[i].id # queue'[j].id
    BY <1>1, <1>5
  <2>4. ASSUME NEW c \in refused'
        PROVE  c \in 1..Len(made') /\ comments'[c] = None
    <3>1. CASE c = w.id
      <4>1. c \notin refused
        BY <1>5, <3>1
      <4>2. C[w.id] = None
        BY <1>10, <2>4, <3>1, <4>1
      <4> QED
        BY <1>1, <1>5, <3>1, <4>2
    <3>2. CASE c # w.id
      <4>1. c \in refused
        BY <1>1, <2>4, <3>2
      <4>2. c \in 1..Len(made) /\ comments[c] = None /\ c \in Comments
        BY <1>2, <4>1 DEF Ids
      <4> QED
        BY <1>1, <1>6, <3>2, <4>2
    <3> QED
      BY <3>1, <3>2
  <2>5. ASSUME NEW c \in 1..Len(made') PROVE Exists(c)' \/ c \in refused'
    <3>1. c \in Comments /\ (Exists(c) \/ c \in refused)
      BY MadeAre DEF Ids
    <3>2. refused \subseteq refused'
      BY <1>1
    <3> QED
      BY <1>9, <1>10, <3>1, <3>2
  <2> QED
    BY <2>1, <2>2, <2>3, <2>4, <2>5 DEF Ids
<1>14. Docs'
  <2> SUFFICES ASSUME NEW c \in Comments, Exists(c)'
               PROVE  Says(c, Doc(c))'
    BY DEF Docs
  <2>1. Exists(c) /\ Doc(c)' = Doc(c)
    BY <1>11
  <2>2. PICK doc \in {Doc(c)} : doc = Doc(c) /\ doc = Doc(c)'
    BY <2>1
  <2>3. Says(c, doc) /\ c \in 1..Len(made)
    BY <2>1, <2>2, DocIs DEF Docs
  <2>4. Says(c, doc)'
    BY <1>12, <2>3, SaysOn
  <2> QED
    BY <2>2, <2>4 DEF Says
<1> QED
  BY <1>3, <1>4, <1>8, <1>12, <1>13, <1>14

-----------------------------------------------------------------------------
(* The forum tab *)

LEMMA CausesOn ==
    ASSUME Causes, refused \subseteq refused',
           \A p \in Posts : ~Stored(p) => ~Stored(p)',
           (crash' = crash /\ forum' = forum) \/ crash' = "none"
    PROVE  Causes'
  BY DEF Causes

\* A step of the tab: the comments and the screen stay.
LEMMA TabSteps ==
    ASSUME Inv,
           UNCHANGED <<server, queue, open, ids, load, shown, history, asked>>,
           \A p \in DOMAIN forum' : Closed(forum[p])'
    PROVE  /\ Ids' /\ Docs' /\ Lists' /\ Loading'
           /\ Shows' /\ InOrderMade' /\ RepliesInThread'
<1>1. Keeps /\ Ids' /\ Docs'
  BY StoreStays DEF Inv, server, history
<1>2. Loading'
  BY <1>1, LoadingOn DEF Inv
<1>3. Shows' /\ InOrderMade' /\ RepliesInThread'
  BY <1>1, ShowsOn DEF Inv
<1>4. Lists'
  <2>1. /\ \A p \in Posts : posts'[p] # None => Closed(posts[p])'
        /\ Closed(ids)'
        /\ load' # None => Closed(load.ids)' /\ load'.ids \subseteq ids'
        /\ asked' \subseteq ids'
    BY <1>1, ListsOn DEF Inv, server
  <2>2. open' = None => load' = None /\ shown' = <<>> /\ asked' = {}
    BY DEF Inv, Lists
  <2> QED
    BY <2>1, <2>2 DEF Lists
<1> QED
  BY <1>1, <1>2, <1>3, <1>4

\* The rows of the tab stay as they are.
LEMMA TabKeeps ==
    ASSUME Inv, AskPosts \/ OnPostIds \/ LoseListing \/ \E p \in Posts : Draw(p)
    PROVE  Inv'
<1>1. /\ UNCHANGED <<server, queue, forum, open, ids, load, shown, history,
                     asked>>
      /\ crash = "none"
  BY DEF AskPosts, OnPostIds, LoseListing, Draw, Alive, server, history
<1>2. \A p \in DOMAIN forum' : Closed(forum[p])'
  <2>1. Keeps
    BY <1>1, StoreStays DEF Inv, server, history
  <2> QED
    BY <1>1, <2>1, ListsOn DEF Inv
<1>3. TypeOK'
  <2>1. listing' \in [step : 1..2, ids : SUBSET Posts] \cup {None}
    <3>1. CASE AskPosts
      BY <3>1 DEF AskPosts
    <3>2. CASE OnPostIds
      BY <3>2 DEF OnPostIds
    <3>3. CASE LoseListing
      BY <3>3 DEF LoseListing
    <3>4. CASE \E p \in Posts : Draw(p)
      BY <3>4 DEF Draw, Inv, TypeOK
    <3> QED
      BY <3>1, <3>2, <3>3, <3>4
  <2>2. drawn' \subseteq DOMAIN forum /\ crash' \in {"none", "summary"}
    BY DEF AskPosts, OnPostIds, LoseListing, Draw, Alive, Inv, TypeOK
  <2> QED
    BY <1>1, <2>1, <2>2 DEF Inv, TypeOK, server, history
<1>4. Causes'
  <2>1. CASE crash' = "none"
    BY <2>1 DEF Causes
  <2>2. CASE crash' # "none"
    <3>1. PICK p \in Posts : Draw(p) /\ p \in DOMAIN forum
                             /\ SummaryThrows(TextOf[p]) /\ crash' = "summary"
      BY <2>2 DEF AskPosts, OnPostIds, LoseListing, Draw, Alive
    <3>2. TextLength(TextOf[p]) \in 51..55
      BY <3>1, SummaryEdges, ReaderAssumption
    <3> QED
      BY <1>1, <3>1, <3>2 DEF Causes
  <2> QED
    BY <2>1, <2>2
<1>5. /\ Ids' /\ Docs' /\ Lists' /\ Loading'
      /\ Shows' /\ InOrderMade' /\ RepliesInThread'
  BY <1>1, <1>2, TabSteps
<1> QED
  BY <1>3, <1>4, <1>5 DEF Inv

\* The rows are those of the posts read again, or one of them is gone.
LEMMA PostsKeep ==
    ASSUME Inv, OnPosts
    PROVE  Inv'
<1>1. UNCHANGED <<server, queue, open, ids, load, shown, history, asked>>
      /\ crash = "none"
  BY DEF OnPosts, Alive
<1>2. PICK S \in SUBSET Posts : S = listing.ids
  BY DEF OnPosts, Inv, TypeOK
<1>3. \/ /\ \E p \in S : ~Stored(p)
         /\ crash' = "post" /\ UNCHANGED <<listing, forum, drawn>>
      \/ /\ \A p \in S : Stored(p)
         /\ forum' = [p \in S |-> posts[p]]
         /\ listing' = None /\ drawn' = {} /\ crash' = crash
  BY <1>2 DEF OnPosts, tab
<1>4. \A p \in DOMAIN forum' : Closed(forum[p])'
  <2>1. Keeps
    BY <1>1, StoreStays DEF Inv, server, history
  <2>2. CASE UNCHANGED forum
    BY <2>1, <2>2, ListsOn DEF Inv
  <2>3. CASE /\ forum' = [p \in S |-> posts[p]]
             /\ \A p \in S : Stored(p)
    <3> SUFFICES ASSUME NEW p \in S PROVE Closed(forum[p])'
      BY <2>3
    <3>1. PICK T \in {posts[p]} : T = posts[p] /\ T = forum'[p]
      BY <2>3
    <3>2. Closed(T)
      BY <2>3, <3>1 DEF Inv, Lists, Stored
    <3>3. Closed(T)'
      BY <2>1, <3>2, ClosedOn
    <3> QED
      BY <3>1, <3>3 DEF Closed
  <2> QED
    BY <1>3, <2>2, <2>3
<1>5. TypeOK'
  <2>1. /\ listing' \in [step : 1..2, ids : SUBSET Posts] \cup {None}
        /\ DOMAIN forum' \subseteq Posts /\ drawn' \subseteq DOMAIN forum'
        /\ \A p \in DOMAIN forum' : forum'[p] \subseteq Comments
        /\ crash' \in {"none", "post"}
    <3>1. CASE crash' = "post" /\ UNCHANGED <<listing, forum, drawn>>
      BY <3>1 DEF Inv, TypeOK
    <3>2. CASE /\ forum' = [p \in S |-> posts[p]]
               /\ \A p \in S : Stored(p)
               /\ listing' = None /\ drawn' = {} /\ crash' = crash
      <4>1. ASSUME NEW p \in S PROVE posts[p] \subseteq Comments
        <5>1. posts[p] \in (SUBSET Comments) \cup {None}
          BY DEF Inv, TypeOK
        <5>2. posts[p] # None
          BY <3>2 DEF Stored
        <5> QED
          BY <5>1, <5>2
      <4> QED
        BY <1>1, <3>2, <4>1
    <3> QED
      BY <1>3, <3>1, <3>2
  <2> QED
    BY <1>1, <2>1 DEF Inv, TypeOK, server, history
<1>6. Causes'
  <2>1. \/ crash' = "none"
        \/ crash' = "post" /\ (\E p \in Posts : ~Stored(p)')
    <3>1. posts' = posts
      BY <1>1 DEF server
    <3>2. (\E p \in S : ~Stored(p)) => \E p \in Posts : ~Stored(p)'
      BY <3>1 DEF Stored
    <3> QED
      BY <1>1, <1>3, <3>2
  <2> QED
    BY <2>1 DEF Causes
<1>7. /\ Ids' /\ Docs' /\ Lists' /\ Loading'
      /\ Shows' /\ InOrderMade' /\ RepliesInThread'
  BY <1>1, <1>4, TabSteps
<1> QED
  BY <1>5, <1>6, <1>7 DEF Inv

-----------------------------------------------------------------------------
(* The screen of a post *)

\* A step of the screen: the comments and the tab stay.
LEMMA ScreenSteps ==
    ASSUME Inv, UNCHANGED <<server, queue, tab, history>>
    PROVE  /\ Keeps /\ Ids' /\ Docs'
           /\ \A p \in Posts : posts'[p] # None => Closed(posts[p])'
           /\ \A p \in DOMAIN forum' : Closed(forum[p])'
           /\ ids' = ids => Closed(ids)'
           /\ crash' = crash => Causes'
<1>1. Keeps /\ Ids' /\ Docs'
  BY StoreStays DEF Inv, server, history
<1>2. /\ \A p \in Posts : posts'[p] # None => Closed(posts[p])'
      /\ \A p \in DOMAIN forum' : Closed(forum[p])'
      /\ ids' = ids => Closed(ids)'
  BY <1>1, ListsOn DEF Inv, server, tab
<1>3. crash' = crash => Causes'
  BY CausesOn DEF Inv, server, tab, history, Stored
<1> QED
  BY <1>1, <1>2, <1>3

\* A load that asks, ends or goes on: the list of the screen stays.
LEMMA LoadSteps ==
    ASSUME Inv, UNCHANGED <<server, queue, tab, open, ids, shown, history,
                            asked>>,
           open # None,
           load' # None => \/ load'.ids = ids
                           \/ load # None /\ load'.ids = load.ids
    PROVE  Keeps /\ Ids' /\ Docs' /\ Lists'
           /\ Shows' /\ InOrderMade' /\ RepliesInThread'
<1>1. /\ Keeps /\ Ids' /\ Docs'
      /\ \A p \in Posts : posts'[p] # None => Closed(posts[p])'
      /\ \A p \in DOMAIN forum' : Closed(forum[p])'
      /\ Closed(ids)'
  BY ScreenSteps
<1>2. Shows' /\ InOrderMade' /\ RepliesInThread'
  BY <1>1, ShowsOn DEF Inv
<1>3. ASSUME load' # None PROVE Closed(load.ids)' /\ load'.ids \subseteq ids'
  <2>1. PICK S \in {load'.ids} : S = load'.ids
    OBVIOUS
  <2>2. Closed(S) /\ S \subseteq ids
    BY <1>3, <2>1 DEF Inv, Lists
  <2>3. Closed(S)'
    BY <1>1, <2>2, ClosedOn
  <2> QED
    BY <2>1, <2>2, <2>3 DEF Closed
<1>4. Lists'
  <2>1. asked' \subseteq ids' /\ open' # None
    BY DEF Inv, Lists
  <2> QED
    BY <1>1, <1>3, <2>1 DEF Lists
<1> QED
  BY <1>1, <1>2, <1>4

LEMMA LoadIsOpen ==
    ASSUME Inv, load # None
    PROVE  /\ open # None /\ load \in Load
           /\ load.ids \subseteq 1..Len(made) /\ load.docs \in Seq(Own)
           /\ load.names \in Seq(Users)
<1>1. load \in Load /\ open # None /\ Closed(load.ids)
  BY DEF Inv, Lists, TypeOK
<1> QED
  BY <1>1 DEF Load, Closed

LEMMA ScreenKeeps ==
    ASSUME Inv, (\E p \in Posts : Open(p)) \/ Back \/ AskComments \/ LoseLoad
    PROVE  Inv'
<1>1. UNCHANGED <<server, queue, tab, history>> /\ crash' = crash
  BY DEF Open, Back, AskComments, LoseLoad
<1>2. /\ Keeps /\ Ids' /\ Docs' /\ Causes'
      /\ \A p \in Posts : posts'[p] # None => Closed(posts[p])'
      /\ \A p \in DOMAIN forum' : Closed(forum[p])'
  BY <1>1, ScreenSteps
<1>t. /\ open \in Posts \cup {None} /\ ids \subseteq Comments
      /\ load \in Load \cup {None} /\ shown \in Seq(Row)
      /\ asked \subseteq Comments /\ \A p \in DOMAIN forum : /\ p \in Posts
                                              /\ forum[p] \subseteq Comments
  BY DEF Inv, TypeOK
<1>u. ASSUME /\ open' \in Posts \cup {None} /\ ids' \subseteq Comments
             /\ load' \in Load \cup {None} /\ shown' \in Seq(Row)
             /\ asked' \subseteq Comments
      PROVE  TypeOK'
  BY <1>1, <1>u DEF Inv, TypeOK, server, tab, history
<1>3. ASSUME NEW p \in Posts, Open(p) PROVE Inv'
  <2>1. /\ open = None /\ load = None /\ load' = None
        /\ UNCHANGED <<shown, asked>> /\ shown = <<>> /\ asked = {}
        /\ p \in DOMAIN forum /\ open' = p /\ ids' = forum[p]
    BY <1>3 DEF Open, Inv, Lists, TypeOK
  <2>2. Shows' /\ InOrderMade' /\ RepliesInThread'
    BY <1>2, <2>1, ShowsOn DEF Inv
  <2>3. Closed(ids)'
    <3>1. PICK S \in {forum[p]} : S = forum[p] /\ S = ids'
      BY <2>1
    <3>2. Closed(S)
      BY <2>1, <3>1 DEF Inv, Lists
    <3>3. Closed(S)'
      BY <1>2, <3>2, ClosedOn
    <3> QED
      BY <3>1, <3>3 DEF Closed
  <2>4. Lists'
    <3>1. p # None
      BY ReaderAssumption
    <3> QED
      BY <1>2, <2>1, <2>3, <3>1 DEF Lists
  <2>5. TypeOK'
    BY <1>t, <1>u, <2>1
  <2> QED
    BY <1>2, <2>1, <2>2, <2>4, <2>5 DEF Inv, Loading
<1>4. ASSUME Back PROVE Inv'
  <2>1. /\ load = None /\ load' = None /\ open' = None /\ ids' = {}
        /\ shown' = <<>> /\ asked' = {}
    BY <1>4 DEF Back
  <2>2. Shows' /\ InOrderMade' /\ RepliesInThread'
    BY <2>1 DEF Shows, InOrderMade, RepliesInThread
  <2>3. Lists'
    BY <1>2, <2>1 DEF Lists, Closed
  <2>4. TypeOK'
    BY <1>t, <1>u, <2>1
  <2> QED
    BY <1>2, <2>1, <2>2, <2>3, <2>4 DEF Inv, Loading
<1>5. ASSUME AskComments PROVE Inv'
  <2>1. /\ open # None /\ UNCHANGED <<open, ids, shown, asked>>
        /\ load' = [step |-> 1, ids |-> ids, docs |-> <<>>, gone |-> FALSE,
                    names |-> <<>>]
    BY <1>5 DEF AskComments
  <2>2. /\ load' \in Load /\ load'.step = 1 /\ load'.gone = FALSE
        /\ load'.ids = ids
    BY <1>t, <2>1 DEF Load
  <2>3. Lists' /\ Shows' /\ InOrderMade' /\ RepliesInThread'
    BY <1>1, <2>1, <2>2, LoadSteps
  <2>4. Loading'
    BY <2>2 DEF Loading
  <2>5. TypeOK'
    BY <1>t, <1>u, <2>1, <2>2
  <2> QED
    BY <1>2, <2>3, <2>4, <2>5 DEF Inv
<1>6. ASSUME LoseLoad PROVE Inv'
  <2>1. /\ load # None /\ UNCHANGED <<open, ids, shown, asked>>
        /\ load' = None
    BY <1>6 DEF LoseLoad
  <2>2. open # None
    BY <2>1, LoadIsOpen
  <2>3. Lists' /\ Shows' /\ InOrderMade' /\ RepliesInThread'
    BY <1>1, <2>1, <2>2, LoadSteps
  <2>4. TypeOK'
    BY <1>t, <1>u, <2>1
  <2> QED
    BY <1>2, <2>1, <2>3, <2>4 DEF Inv, Loading
<1> QED
  BY <1>3, <1>4, <1>5, <1>6

\* Comments are found in the order of their ids, each once.
LEMMA IdOrderIs ==
    ASSUME NEW S \in SUBSET Comments
    PROVE  /\ IdOrder(S) \in Seq(S)
           /\ \A c \in S : \E n \in 1..Len(IdOrder(S)) : IdOrder(S)[n] = c
           /\ \A m, n \in 1..Len(IdOrder(S)) :
                 m # n => IdOrder(S)[m] # IdOrder(S)[n]
<1> DEFINE R == {e \in S \X S : IdKey(e[1]) < IdKey(e[2])}
<1>1. IsFiniteSet(S)
  <2>1. IsFiniteSet(Comments)
    BY CommentsAre, FS_Interval
  <2> QED
    BY <2>1, FS_Subset
<1>2. \A c, d \in S : <<c, d>> \in R <=> IdKey(c) < IdKey(d)
  OBVIOUS
<1>3. /\ \A c \in S : IdKey(c) \in Int
      /\ \A c, d \in S : c # d => IdKey(c) # IdKey(d)
  BY Dates
<1>4. IdOrder(S) = Sorted(S, R)
  BY DEF IdOrder
<1> HIDE DEF R
<1>5. Orders(R, S)
  BY <1>2, <1>3 DEF Orders
<1>6. PICK s \in Seq(S) :
         /\ s = Sorted(S, R) /\ Len(s) = Cardinality(S)
         /\ \A c \in S : \E n \in 1..Cardinality(S) : s[n] = c
         /\ \A m, n \in 1..Cardinality(S) : m < n <=> <<s[m], s[n]>> \in R
  BY <1>1, <1>5, SortedIs
<1>7. ASSUME NEW m \in 1..Len(s), NEW n \in 1..Len(s), m # n
      PROVE  s[m] # s[n]
  <2>1. s[m] \in S /\ s[n] \in S
    OBVIOUS
  <2>2. m < n \/ n < m
    BY <1>7
  <2>3. <<s[m], s[n]>> \in R \/ <<s[n], s[m]>> \in R
    BY <1>6, <2>2
  <2> QED
    BY <1>5, <2>1, <2>3 DEF Orders
<1> QED
  BY <1>4, <1>6, <1>7

\* A load goes on: what it has found stays found.
LEMMA LoadGoesOn ==
    ASSUME Inv, UNCHANGED <<server, queue, tab, open, ids, shown, history,
                            asked>>,
           load # None, NEW l, l = load', l \in Load, l.ids = load.ids,
           l.step > 1 => Fetched(l.docs, l.ids),
           l.gone => refused # {},
           l.step = 4 => Named(l.docs, l.names),
           crash' = "none"
    PROVE  Inv'
<1>1. /\ open # None /\ Keeps /\ Ids' /\ Docs' /\ Lists'
      /\ Shows' /\ InOrderMade' /\ RepliesInThread'
  <2>1. open # None
    BY LoadIsOpen
  <2> QED
    BY <2>1, LoadSteps
<1>2. l.ids \subseteq 1..Len(made)
  BY LoadIsOpen
<1>3. l.step > 1 => Fetched(l.docs, l.ids)'
  BY <1>1, <1>2, FetchedOn DEF Inv
<1>4. ASSUME l.step = 4 PROVE Named(l.docs, l.names)'
  <2>1. Fetched(l.docs, l.ids) /\ Named(l.docs, l.names)
    BY <1>4
  <2> QED
    BY <1>1, <2>1, NamedOn
<1>5. Loading'
  <2>1. l.step > 1 => Fetched(load.docs, load.ids)'
    BY <1>3 DEF Fetched, Says
  <2>2. l.step = 4 => Named(load.docs, load.names)'
    <3>1. PICK docs \in {l.docs}, names \in {l.names} :
             /\ docs = l.docs /\ names = l.names
             /\ docs = load'.docs /\ names = load'.names
      OBVIOUS
    <3>2. l.step = 4 => Named(docs, names)'
      BY ONLY <1>4, <3>1
    <3> QED
      BY ONLY <3>1, <3>2 DEF Named, Nth
  <2>3. l.gone => refused' # {}
    BY DEF history
  <2> QED
    BY <2>1, <2>2, <2>3 DEF Loading
<1>6. TypeOK'
  BY DEF Inv, TypeOK, server, tab, history
<1>7. Causes'
  BY DEF Causes
<1> QED
  BY <1>1, <1>5, <1>6, <1>7 DEF Inv

\* A load with other documents, word of what is gone, or names
WithDocs(l, docs)   == [l EXCEPT !.step = 2, !.docs = docs]
WithGone(l, gone)   == [l EXCEPT !.step = 3, !.gone = gone]
WithNames(l, names) == [l EXCEPT !.step = 4, !.names = names]

LEMMA LoadWith ==
    ASSUME NEW l \in Load
    PROVE  /\ \A docs \in Seq(Own) :
                 /\ WithDocs(l, docs) \in Load
                 /\ WithDocs(l, docs).step = 2
                 /\ WithDocs(l, docs).ids = l.ids
                 /\ WithDocs(l, docs).docs = docs
                 /\ WithDocs(l, docs).gone = l.gone
           /\ \A gone \in BOOLEAN :
                 /\ WithGone(l, gone) \in Load
                 /\ WithGone(l, gone).step = 3
                 /\ WithGone(l, gone).ids = l.ids
                 /\ WithGone(l, gone).docs = l.docs
                 /\ WithGone(l, gone).gone = gone
           /\ \A names \in Seq(Users) :
                 /\ WithNames(l, names) \in Load
                 /\ WithNames(l, names).step = 4
                 /\ WithNames(l, names).ids = l.ids
                 /\ WithNames(l, names).docs = l.docs
                 /\ WithNames(l, names).gone = l.gone
                 /\ WithNames(l, names).names = names
<1>1. ASSUME NEW docs \in Seq(Own), NEW m, m = WithDocs(l, docs)
      PROVE  /\ m \in Load /\ m.step = 2 /\ m.ids = l.ids
             /\ m.docs = docs /\ m.gone = l.gone
  <2>1. PICK step \in 1..4 : step = 2
    OBVIOUS
  <2>2. m = [l EXCEPT !.step = step, !.docs = docs]
    BY <1>1, <2>1 DEF WithDocs
  <2>3. m \in Load
    BY <2>2 DEF Load
  <2> QED
    BY <1>1, <2>3 DEF Load, WithDocs
<1>2. ASSUME NEW gone \in BOOLEAN, NEW m, m = WithGone(l, gone)
      PROVE  /\ m \in Load /\ m.step = 3 /\ m.ids = l.ids
             /\ m.docs = l.docs /\ m.gone = gone
  <2>1. PICK step \in 1..4 : step = 3
    OBVIOUS
  <2>2. m = [l EXCEPT !.step = step, !.gone = gone]
    BY <1>2, <2>1 DEF WithGone
  <2>3. m \in Load
    BY <2>2 DEF Load
  <2> QED
    BY <1>2, <2>3 DEF Load, WithGone
<1>3. ASSUME NEW names \in Seq(Users), NEW m, m = WithNames(l, names)
      PROVE  /\ m \in Load /\ m.step = 4 /\ m.ids = l.ids
             /\ m.docs = l.docs /\ m.gone = l.gone /\ m.names = names
  <2>1. PICK step \in 1..4 : step = 4
    OBVIOUS
  <2>2. m = [l EXCEPT !.step = step, !.names = names]
    BY <1>3, <2>1 DEF WithNames
  <2>3. m \in Load
    BY <2>2 DEF Load
  <2> QED
    BY <1>3, <2>3 DEF Load, WithNames
<1> QED
  BY ONLY <1>1, <1>2, <1>3

LEMMA FoundKeeps ==
    ASSUME Inv, OnFound
    PROVE  Inv'
<1> DEFINE S     == {c \in load.ids : Exists(c)}
           found == IdOrder(S)
           docs  == [i \in DOMAIN found |-> [id  |-> found[i],
                                             doc |-> Doc(found[i])]]
<1>1. /\ UNCHANGED <<server, queue, tab, open, ids, shown, history, asked>>
      /\ load # None /\ load.step = 1 /\ crash' = "none"
      /\ \/ load' = None
         \/ load' = [load EXCEPT !.step = 2, !.docs = docs]
  BY DEF OnFound, Alive
<1>2. /\ open # None /\ load \in Load /\ load.ids \subseteq 1..Len(made)
      /\ load.ids \subseteq Comments
  BY <1>1, LoadIsOpen, MadeAre DEF Inv
<1>3. CASE load' = None
  <2>1. /\ Ids' /\ Docs' /\ Lists'
        /\ Shows' /\ InOrderMade' /\ RepliesInThread'
    BY <1>1, <1>2, <1>3, LoadSteps
  <2>2. TypeOK'
    BY <1>1, <1>3 DEF Inv, TypeOK, server, tab, history
  <2> QED
    BY <1>1, <1>3, <2>1, <2>2 DEF Inv, Loading, Causes
<1>4. CASE load' = [load EXCEPT !.step = 2, !.docs = docs]
  <2>1. S \in SUBSET Comments
    BY <1>2
  <2>2. PICK f \in Seq(S) :
           /\ f = found
           /\ \A c \in S : \E n \in 1..Len(f) : f[n] = c
           /\ \A m, n \in 1..Len(f) : m # n => f[m] # f[n]
    <3> HIDE DEF S
    <3> QED
      BY ONLY <2>1, IdOrderIs
  <2>3. ASSUME NEW i \in 1..Len(f)
        PROVE  /\ f[i] \in load.ids /\ Exists(f[i]) /\ f[i] \in Comments
               /\ Doc(f[i]) \in Comment /\ Says(f[i], Doc(f[i]))
    <3>1. f[i] \in S /\ f[i] \in Comments
      BY <2>1
    <3> QED
      BY <3>1, DocIs DEF Inv, Docs
  <2>4. PICK d \in Seq(Own) :
           /\ d = docs /\ Len(d) = Len(f)
           /\ \A i \in 1..Len(f) : d[i].id = f[i] /\ d[i].doc = Doc(f[i])
    <3> DEFINE own(i) == [id |-> f[i], doc |-> Doc(f[i])]
    <3>1. DOMAIN f = 1..Len(f) /\ Len(f) \in Nat
      OBVIOUS
    <3>2. docs = [i \in 1..Len(f) |-> own(i)]
      BY <2>2, <3>1
    <3>3. \A i \in 1..Len(f) : own(i) \in Own /\ own(i).id = f[i]
                               /\ own(i).doc = Doc(f[i])
      BY <2>3 DEF Own
    <3> HIDE DEF own, docs
    <3>4. docs \in Seq(Own) /\ Len(docs) = Len(f)
          /\ \A i \in 1..Len(f) : docs[i] = own(i)
      BY <3>1, <3>2, <3>3
    <3> QED
      BY <3>3, <3>4
  <2>e. load' = [load EXCEPT !.step = 2, !.docs = d]
    BY <1>4, <2>4
  <2> HIDE DEF S, found, docs
  <2>5. PICK l \in Load : /\ l = load' /\ l.ids = load.ids /\ l.step = 2
                          /\ l.docs = d /\ l.gone = load.gone
    <3>1. load' = WithDocs(load, d)
      BY <2>e DEF WithDocs
    <3> QED
      BY <1>2, <3>1, LoadWith
  <2>6. Fetched(d, load.ids)
    <3>1. DOMAIN d = 1..Len(f)
      BY <2>4
    <3>2. \A i, j \in 1..Len(f) : i # j => d[i].id # d[j].id
      BY <2>2, <2>4
    <3>3. \A i \in 1..Len(f) :
             /\ d[i].id \in load.ids /\ Says(d[i].id, d[i].doc)
             /\ Doc(d[i].id) = d[i].doc
      BY <2>3, <2>4
    <3>4. ASSUME refused = {}, NEW c \in load.ids
          PROVE  \E i \in 1..Len(f) : d[i].id = c
      <4>1. Exists(c)
        BY <1>2, <3>4, DocIs DEF Inv
      <4>2. c \in S
        BY <3>4, <4>1 DEF S
      <4> QED
        BY <2>2, <2>4, <4>2
    <3> QED
      BY <3>1, <3>2, <3>3, <3>4 DEF Fetched
  <2>7. l.gone => refused # {}
    BY <1>1, <2>5 DEF Inv, Loading
  <2> QED
    BY <1>1, <2>5, <2>6, <2>7, LoadGoesOn
<1> QED
  BY <1>1, <1>3, <1>4

LEMMA DocsKeep ==
    ASSUME Inv, OnDocs
    PROVE  Inv'
<1>1. /\ UNCHANGED <<server, queue, tab, open, ids, shown, history, asked>>
      /\ load # None /\ load.step = 2 /\ crash' = "none"
      /\ load' = [load EXCEPT !.step = 3,
                              !.gone = \E i \in DOMAIN load.docs :
                                          ~Exists(load.docs[i].id)]
  BY DEF OnDocs, Alive
<1>2. /\ load \in Load /\ load.ids \subseteq 1..Len(made)
      /\ 1..Len(made) \subseteq Comments
      /\ Fetched(load.docs, load.ids)
  BY <1>1, LoadIsOpen, MadeAre DEF Inv, Loading
<1>3. PICK l \in Load :
         /\ l = load' /\ l.ids = load.ids /\ l.step = 3 /\ l.docs = load.docs
         /\ l.gone <=> \E i \in DOMAIN load.docs : ~Exists(load.docs[i].id)
  <2>1. PICK gone \in BOOLEAN :
           gone <=> \E i \in DOMAIN load.docs : ~Exists(load.docs[i].id)
    OBVIOUS
  <2>2. load' = [load EXCEPT !.step = 3, !.gone = gone]
    BY <1>1, <2>1
  <2>3. load' = WithGone(load, gone)
    BY <2>2 DEF WithGone
  <2> QED
    BY <1>2, <2>1, <2>3, LoadWith
<1>4. l.gone => refused # {}
  <2> SUFFICES ASSUME NEW i \in DOMAIN load.docs, ~Exists(load.docs[i].id)
               PROVE  refused # {}
    BY <1>3
  <2>1. load.docs[i].id \in 1..Len(made) /\ load.docs[i].id \in Comments
    BY <1>2 DEF Fetched
  <2> QED
    BY <2>1, DocIs DEF Inv
<1>5. Fetched(l.docs, l.ids)
  BY <1>2, <1>3
<1>6. l = load' /\ l.ids = load.ids /\ l.step # 4
  BY <1>3
<1> QED
  BY <1>1, <1>4, <1>5, <1>6, LoadGoesOn

\* The replies whose mention is there, and the names found for them
Known(docs) ==
    {i \in DOMAIN docs : docs[i].doc.mention # None
                         /\ Exists(docs[i].doc.mention)}

NamesOf(docs, found) ==
    [n \in DOMAIN found |-> Doc(docs[found[n]].doc.mention).author]

LEMMA NamedIs ==
    ASSUME Inv, NEW docs \in Seq(Own), NEW S \in SUBSET Comments,
           Fetched(docs, S), NEW known, NEW found, NEW names,
           known = Known(docs), found = Sorted(known, Less(known)),
           names = NamesOf(docs, found)
    PROVE  names \in Seq(Users) /\ Named(docs, names)
<1>1. known \in SUBSET Replies(docs)
  BY DEF Replies, IsReply, Known
<1>2. /\ found \in Seq(known)
      /\ \/ \A i \in Replies(docs) :
               /\ Nth(docs, i) \in 1..Len(found)
               /\ found[Nth(docs, i)] = i
         \/ /\ known # Replies(docs)
            /\ \E i \in Replies(docs) : Nth(docs, i) > Len(found)
  BY <1>1, Dealt
<1>3. ASSUME NEW i \in known
      PROVE  /\ Doc(docs[i].doc.mention).author = made[docs[i].doc.mention]
             /\ made[docs[i].doc.mention] \in Users
  <2>1. /\ i \in DOMAIN docs /\ docs[i].doc.mention # None
        /\ Exists(docs[i].doc.mention)
    BY DEF Known
  <2>2. docs[i].doc.mention \in 1..Len(made)
    BY <2>1 DEF Fetched, Says
  <2>3. docs[i].doc.mention \in Comments
    BY <2>2, MadeAre DEF Inv
  <2> QED
    BY <2>1, <2>2, <2>3, MadeAre DEF Inv, Docs, Says
<1>4. /\ DOMAIN found = 1..Len(found) /\ Len(found) \in Nat
      /\ \A n \in 1..Len(found) : found[n] \in known
  BY ONLY <1>2
<1>5. \A n \in 1..Len(found) :
         names[n] = made[docs[found[n]].doc.mention] /\ names[n] \in Users
  BY <1>3, <1>4 DEF NamesOf
<1>6. names \in Seq(Users) /\ Len(names) = Len(found)
  <2> DEFINE name(n) == Doc(docs[found[n]].doc.mention).author
  <2>1. names = [n \in 1..Len(found) |-> name(n)]
    BY <1>4 DEF NamesOf
  <2>2. \A n \in 1..Len(found) : name(n) = names[n]
    BY <2>1
  <2> HIDE DEF name
  <2> QED
    BY ONLY <1>4, <1>5, <2>1, <2>2
<1>7. CASE \A i \in Replies(docs) : /\ Nth(docs, i) \in 1..Len(found)
                                    /\ found[Nth(docs, i)] = i
  <2>1. \A i \in DOMAIN docs : IsReply(docs[i]) =>
           /\ Nth(docs, i) \in 1..Len(names)
           /\ names[Nth(docs, i)] = made[docs[i].doc.mention]
    BY ONLY <1>5, <1>6, <1>7 DEF Replies
  <2> QED
    BY <1>6, <2>1 DEF Named
<1>8. CASE /\ known # Replies(docs)
           /\ \E i \in Replies(docs) : Nth(docs, i) > Len(found)
  <2>1. refused # {}
    <3>1. PICK i \in Replies(docs) : i \notin known
      BY <1>1, <1>8
    <3>2. /\ i \in DOMAIN docs /\ docs[i].doc.mention # None
          /\ ~Exists(docs[i].doc.mention)
      BY <3>1 DEF Replies, IsReply, Known
    <3>3. docs[i].doc.mention \in 1..Len(made)
      BY <3>2 DEF Fetched, Says
    <3>4. docs[i].doc.mention \in Comments
      BY <3>3, MadeAre DEF Inv
    <3> QED
      BY <3>2, <3>3, <3>4, DocIs DEF Inv
  <2>2. \E i \in DOMAIN docs : IsReply(docs[i])
                               /\ Nth(docs, i) > Len(names)
    BY <1>6, <1>8 DEF Replies
  <2> QED
    BY <1>6, <2>1, <2>2 DEF Named
<1> QED
  BY <1>2, <1>7, <1>8

LEMMA MentionsKeep ==
    ASSUME Inv, OnMentions
    PROVE  Inv'
<1> DEFINE known == Known(load.docs)
           names == NamesOf(load.docs, Sorted(known, Less(known)))
<1>0. load # None /\ load.step = 3
  BY DEF OnMentions
<1>1. /\ UNCHANGED <<server, queue, tab, open, ids, shown, history, asked>>
      /\ crash = "none"
      /\ \/ load.gone /\ crash' = "doc" /\ load' = load
         \/ /\ load' = [load EXCEPT !.step = 4, !.names = names]
            /\ crash' = "none"
  BY DEF OnMentions, Alive, Known, NamesOf, Less
<1> HIDE DEF names
<1>2. /\ open # None /\ load \in Load /\ load.ids \in SUBSET Comments
      /\ load.docs \in Seq(Own) /\ Fetched(load.docs, load.ids)
  <2>1. open # None /\ load \in Load /\ load.docs \in Seq(Own)
    BY <1>0, LoadIsOpen
  <2>2. load.ids \in SUBSET Comments
    BY <2>1 DEF Load
  <2>3. Fetched(load.docs, load.ids)
    BY <1>0 DEF Inv, Loading
  <2> QED
    BY <2>1, <2>2, <2>3
<1>3. names \in Seq(Users) /\ Named(load.docs, names)
  <2>1. PICK docs \in {load.docs}, S \in {load.ids} :
           /\ docs = load.docs /\ docs \in Seq(Own)
           /\ S = load.ids /\ S \in SUBSET Comments /\ Fetched(docs, S)
    BY <1>2
  <2> QED
    BY <2>1, NamedIs DEF names
<1>4. CASE load.gone /\ crash' = "doc" /\ load' = load
  <2>1. /\ Keeps /\ Ids' /\ Docs' /\ Lists'
        /\ Shows' /\ InOrderMade' /\ RepliesInThread'
    BY <1>0, <1>1, <1>2, <1>4, LoadSteps
  <2>2. Loading'
    BY <1>4, <2>1, LoadingOn DEF Inv
  <2>3. TypeOK'
    BY <1>1, <1>4 DEF Inv, TypeOK, server, tab, history
  <2>4. Causes'
    <3>1. refused' # {}
      BY <1>0, <1>1, <1>4 DEF Inv, Loading, history
    <3> QED
      BY <1>4, <3>1 DEF Causes
  <2> QED
    BY <2>1, <2>2, <2>3, <2>4 DEF Inv
<1>5. CASE /\ load' = [load EXCEPT !.step = 4, !.names = names]
           /\ crash' = "none"
  <2>1. PICK l \in Load : /\ l = load' /\ l.ids = load.ids /\ l.step = 4
                          /\ l.docs = load.docs /\ l.gone = load.gone
                          /\ l.names = names
    <3>1. load' = WithNames(load, names)
      BY <1>5 DEF WithNames
    <3> QED
      BY <1>2, <1>3, <3>1, LoadWith
  <2>2. Fetched(l.docs, l.ids) /\ Named(l.docs, l.names)
    BY <1>2, <1>3, <2>1
  <2>3. l.gone => refused # {}
    BY <1>0, <1>1, <2>1 DEF Inv, Loading
  <2> QED
    BY <1>0, <1>1, <1>5, <2>1, <2>2, <2>3, LoadGoesOn
<1> QED
  BY <1>1, <1>4, <1>5

\* The rows of s show comments of S, in their threads, all of them if none was
\* refused.
ListOf(s, S) ==
    /\ s \in Seq(Row)
    /\ \A i, j \in 1..Len(s) : i # j => s[i].id # s[j].id
    /\ \A i, j \in 1..Len(s) : i < j <=> Earlier(s[i], s[j])
    /\ \A i \in 1..Len(s) :
          /\ s[i].id \in S /\ s[i].author = made[s[i].id]
          /\ Exists(s[i].id) =>
                /\ s[i].parent = Doc(s[i].id).parent
                /\ s[i].mention = IF Doc(s[i].id).mention = None THEN None
                                  ELSE made[Doc(s[i].id).mention]
    /\ \A i \in 1..Len(s) : \E j \in 1..Len(s) :
          s[j].parent = None /\ s[j].id = Top(s[i])
    /\ refused = {} => \A c \in S : \E i \in 1..Len(s) : s[i].id = c

\* Every reply finds the name of the comment it answers.
HasNames(docs, names) ==
    \A i \in DOMAIN docs : IsReply(docs[i]) =>
       /\ Nth(docs, i) \in 1..Len(names)
       /\ names[Nth(docs, i)] = made[docs[i].doc.mention]

LEMMA ListIs ==
    ASSUME Inv, NEW docs \in Seq(Own), NEW S \in SUBSET Comments, Closed(S),
           Fetched(docs, S), NEW names \in Seq(Users), HasNames(docs, names)
    PROVE  ListOf(Organize(Combined(docs, names)), S)
<1> DEFINE s == Organize(Combined(docs, names))
<1>0. \A i \in DOMAIN docs : IsReply(docs[i]) =>
         /\ Nth(docs, i) \in 1..Len(names)
         /\ names[Nth(docs, i)] = made[docs[i].doc.mention]
  BY DEF HasNames
<1>1. PICK rows \in Seq(Row) :
         /\ rows = Combined(docs, names) /\ Len(rows) = Len(docs)
         /\ \A i \in 1..Len(docs) :
               /\ rows[i].id = docs[i].id
               /\ rows[i].author = docs[i].doc.author
               /\ rows[i].parent = docs[i].doc.parent
               /\ rows[i].mention =
                     IF IsReply(docs[i]) THEN names[Nth(docs, i)] ELSE None
  <2>1. \A i \in Replies(docs) : Nth(docs, i) \in 1..Len(names)
    BY <1>0 DEF Replies
  <2> QED
    BY ONLY <2>1, docs \in Seq(Own), names \in Seq(Users), CombinedIs
<1>2. DOMAIN rows = 1..Len(docs) /\ DOMAIN docs = 1..Len(docs)
  BY <1>1
<1>3. \A i, j \in DOMAIN rows : i # j => rows[i].id # rows[j].id
  BY <1>1, <1>2 DEF Fetched
<1>4. /\ s \in Seq(Row)
      /\ \A i \in 1..Len(s) : s[i] \in Listed(rows)
      /\ \A r \in Listed(rows) : \E i \in 1..Len(s) : s[i] = r
      /\ \A i, j \in 1..Len(s) : /\ i < j <=> Earlier(s[i], s[j])
                                 /\ i # j => s[i].id # s[j].id
  <2>1. s = Organize(rows)
    BY <1>1
  <2> QED
    BY ONLY <1>3, <2>1, rows \in Seq(Row), Organized
<1> HIDE DEF s
<1>5. ASSUME NEW i \in 1..Len(s)
      PROVE  \E k \in 1..Len(docs) : s[i] = rows[k]
  <2>1. s[i] \in Range(rows)
    BY <1>4 DEF Listed
  <2> QED
    BY <1>2, <2>1 DEF Range
<1>6. ASSUME NEW k \in 1..Len(docs)
      PROVE  LET r == rows[k] IN
             /\ r.id \in S /\ r.author = made[r.id]
             /\ Exists(r.id) =>
                   /\ r.parent = Doc(r.id).parent
                   /\ r.mention = IF Doc(r.id).mention = None THEN None
                                  ELSE made[Doc(r.id).mention]
  <2>1. /\ docs[k].id \in S /\ Says(docs[k].id, docs[k].doc)
        /\ Exists(docs[k].id) => Doc(docs[k].id) = docs[k].doc
    BY <1>2 DEF Fetched
  <2>2. rows[k].mention = IF docs[k].doc.mention = None THEN None
                          ELSE made[docs[k].doc.mention]
    BY <1>0, <1>1, <1>2 DEF IsReply
  <2> QED
    BY <1>1, <2>1, <2>2 DEF Says
<1>7. ASSUME NEW i \in 1..Len(s)
      PROVE  \E j \in 1..Len(s) : s[j].parent = None /\ s[j].id = Top(s[i])
  <2>1. PICK t \in Range(rows) : t.parent = None /\ t.id = Top(s[i])
    BY <1>4 DEF Listed
  <2>2. t \in Listed(rows)
    BY <2>1 DEF Listed, Top
  <2> QED
    BY <1>4, <2>1, <2>2
<1>8. ASSUME refused = {}, NEW c \in S
      PROVE  \E i \in 1..Len(s) : s[i].id = c
  <2>1. \A d \in S : /\ Exists(d)
                     /\ \E k \in 1..Len(docs) :
                           /\ docs[k].id = d /\ docs[k].doc = Doc(d)
                           /\ rows[k] \in Range(rows)
    <3> SUFFICES ASSUME NEW d \in S
                 PROVE  /\ Exists(d)
                        /\ \E k \in 1..Len(docs) :
                              /\ docs[k].id = d /\ docs[k].doc = Doc(d)
                              /\ rows[k] \in Range(rows)
      OBVIOUS
    <3>1. d \in 1..Len(made) /\ d \in Comments
      BY DEF Closed
    <3>2. Exists(d)
      BY <1>8, <3>1, DocIs DEF Inv
    <3>3. PICK k \in 1..Len(docs) : docs[k].id = d
      BY <1>2, <1>8 DEF Fetched
    <3>4. docs[k].doc = Doc(d)
      BY <1>2, <3>2, <3>3 DEF Fetched
    <3>5. rows[k] \in Range(rows)
      BY <1>2 DEF Range
    <3> QED
      BY <3>2, <3>3, <3>4, <3>5
  <2>2. PICK k \in 1..Len(docs) : /\ docs[k].id = c /\ docs[k].doc = Doc(c)
                                  /\ rows[k] \in Range(rows)
    BY <2>1
  <2>3. rows[k] \in Listed(rows)
    <3>1. CASE docs[k].doc.parent = None
      BY <1>1, <2>2, <3>1 DEF Listed, Top
    <3>2. CASE docs[k].doc.parent # None
      <4>1. Doc(c).parent \in S
        BY <2>1, <2>2, <3>2 DEF Closed
      <4>2. Doc(Doc(c).parent).parent = None
        <5>1. Says(docs[k].id, docs[k].doc)
          BY <1>2 DEF Fetched
        <5> QED
          BY <2>1, <2>2, <3>2, <4>1, <5>1 DEF Says
      <4>3. PICK n \in 1..Len(docs) :
               /\ docs[n].id = Doc(c).parent
               /\ docs[n].doc = Doc(Doc(c).parent)
               /\ rows[n] \in Range(rows)
        BY <2>1, <4>1
      <4>4. rows[n].parent = None /\ rows[n].id = Top(rows[k])
        BY <1>1, <2>2, <3>2, <4>2, <4>3 DEF Top
      <4> QED
        BY <2>2, <4>3, <4>4 DEF Listed
    <3> QED
      BY <3>1, <3>2
  <2>4. PICK i \in 1..Len(s) : s[i] = rows[k]
    BY <1>4, <2>3
  <2>5. s[i].id = c
    BY <1>1, <2>2, <2>4
  <2> QED
    BY <2>5
<1>9. ASSUME NEW i \in 1..Len(s)
      PROVE  /\ s[i].id \in S /\ s[i].author = made[s[i].id]
             /\ Exists(s[i].id) =>
                   /\ s[i].parent = Doc(s[i].id).parent
                   /\ s[i].mention =
                         IF Doc(s[i].id).mention = None THEN None
                         ELSE made[Doc(s[i].id).mention]
  <2>1. PICK k \in 1..Len(docs) : s[i] = rows[k]
    BY <1>5
  <2> QED
    BY <1>6, <2>1
<1>10. ListOf(s, S)
  BY <1>4, <1>7, <1>8, <1>9 DEF ListOf
<1> QED
  BY <1>10 DEF s

LEMMA NamesKeep ==
    ASSUME Inv, OnNames
    PROVE  Inv'
<1>1. /\ UNCHANGED <<server, queue, tab, open, ids, history>>
      /\ load # None /\ load.step = 4 /\ crash = "none"
  BY DEF OnNames, Alive
<1>2. PICK docs \in Seq(Own), S \in SUBSET Comments, names \in Seq(Users) :
         /\ docs = load.docs /\ S = load.ids /\ names = load.names
         /\ Fetched(docs, S) /\ Closed(S) /\ S \subseteq ids
         /\ Named(docs, names)
  <2>1. /\ load.docs \in Seq(Own) /\ load.names \in Seq(Users)
        /\ load \in Load
    BY <1>1, LoadIsOpen
  <2>2. load.ids \in SUBSET Comments
    BY <2>1 DEF Load
  <2>3. /\ Fetched(load.docs, load.ids) /\ Named(load.docs, load.names)
        /\ Closed(load.ids) /\ load.ids \subseteq ids
    BY <1>1 DEF Inv, Loading, Lists
  <2> QED
    BY <2>1, <2>2, <2>3
<1>3. \/ /\ \/ load.gone
            \/ \E i \in DOMAIN docs : /\ IsReply(docs[i])
                                      /\ Nth(docs, i) > Len(names)
         /\ crash' \in {"doc", "mention"} /\ UNCHANGED <<load, shown, asked>>
      \/ /\ \A i \in DOMAIN docs : IsReply(docs[i]) =>
               ~(Nth(docs, i) > Len(names))
         /\ shown' = Organize(Combined(docs, names))
         /\ asked' = S /\ load' = None /\ crash' = crash
  BY <1>2 DEF OnNames
<1>4. CASE /\ \/ load.gone
              \/ \E i \in DOMAIN docs : /\ IsReply(docs[i])
                                        /\ Nth(docs, i) > Len(names)
           /\ crash' \in {"doc", "mention"}
           /\ UNCHANGED <<load, shown, asked>>
  <2>1. refused # {}
    <3>1. CASE load.gone
      BY <1>1, <3>1 DEF Inv, Loading
    <3>2. CASE \E i \in DOMAIN docs : /\ IsReply(docs[i])
                                      /\ Nth(docs, i) > Len(names)
      <4>1. PICK i \in DOMAIN docs : /\ IsReply(docs[i])
                                     /\ Nth(docs, i) > Len(names)
        BY <3>2
      <4>2. Nth(docs, i) \in 1..Len(names) => ~(Nth(docs, i) > Len(names))
        OBVIOUS
      <4> QED
        BY <1>2, <4>1, <4>2 DEF Named
    <3> QED
      BY <1>4, <3>1, <3>2
  <2>2. open # None
    BY <1>1, LoadIsOpen
  <2>3. /\ Keeps /\ Ids' /\ Docs' /\ Lists'
        /\ Shows' /\ InOrderMade' /\ RepliesInThread'
    BY <1>1, <1>4, <2>2, LoadSteps
  <2>4. Loading'
    BY <1>4, <2>3, LoadingOn DEF Inv
  <2>5. TypeOK'
    BY <1>1, <1>4 DEF Inv, TypeOK, server, tab, history
  <2>6. Causes'
    <3>1. refused' # {}
      BY <1>1, <2>1 DEF history
    <3> QED
      BY <1>4, <3>1 DEF Causes
  <2> QED
    BY <2>3, <2>4, <2>5, <2>6 DEF Inv
<1>5. CASE /\ \A i \in DOMAIN docs : IsReply(docs[i]) =>
                 ~(Nth(docs, i) > Len(names))
           /\ shown' = Organize(Combined(docs, names))
           /\ asked' = S /\ load' = None /\ crash' = crash
  <2>1. PICK s \in {shown'} : s = shown' /\ s = Organize(Combined(docs, names))
    BY <1>5
  <2>2. HasNames(docs, names)
    BY <1>2, <1>5 DEF Named, HasNames
  <2>3. ListOf(s, S)
    BY <1>2, <2>1, <2>2, ListIs
  <2>l. /\ s \in Seq(Row)
        /\ \A i, j \in 1..Len(s) : i # j => s[i].id # s[j].id
        /\ \A i, j \in 1..Len(s) : i < j <=> Earlier(s[i], s[j])
        /\ \A i \in 1..Len(s) : \E j \in 1..Len(s) :
              s[j].parent = None /\ s[j].id = Top(s[i])
        /\ refused = {} =>
              \A c \in S : \E i \in 1..Len(s) : s[i].id = c
    BY <2>3 DEF ListOf
  <2>4. /\ Keeps /\ Ids' /\ Docs' /\ Causes' /\ Closed(ids)'
        /\ \A p \in Posts : posts'[p] # None => Closed(posts[p])'
        /\ \A p \in DOMAIN forum' : Closed(forum[p])'
    BY <1>1, <1>5, ScreenSteps
  <2>5. Lists'
    <3>1. open' # None /\ asked' \subseteq ids'
      BY <1>1, <1>2, <1>5, LoadIsOpen
    <3> QED
      BY <1>5, <2>4, <3>1 DEF Lists
  <2>6. \A i \in 1..Len(s) : Tells(s[i])'
    <3>1. \A c : (Exists(c)' <=> Exists(c)) /\ Doc(c)' = Doc(c)
      BY <1>1 DEF Exists, Pending, Doc, server, history
    <3>2. made' = made
      BY <1>1 DEF history
    <3> QED
      BY <1>5, <2>3, <3>1, <3>2 DEF ListOf, Tells
  <2>7. \A i \in 1..Len(s) : s[i].parent # None =>
           \E j \in 1..Len(s) : s[j].id = s[i].parent /\ s[j].parent = None
    BY <2>l DEF Top
  <2>8. Shows'
    <3>1. refused' = {} => asked' \subseteq {s[i].id : i \in 1..Len(s)}
      <4>1. refused' = refused /\ asked' = S
        BY <1>1, <1>5 DEF history
      <4>2. refused = {} => \A c \in S : \E i \in 1..Len(s) : s[i].id = c
        BY ONLY <2>l
      <4> QED
        BY ONLY <4>1, <4>2
    <3>2. ShownIds' = {s[i].id : i \in 1..Len(s)}
      BY <2>1, <2>l DEF ShownIds
    <3>3. \A i \in 1..Len(shown') : Tells(shown[i])'
      BY <2>1, <2>6 DEF Tells
    <3> QED
      BY <2>1, <2>l, <2>7, <3>1, <3>2, <3>3 DEF Shows
  <2>9. InOrderMade'
    <3>1. \A i, j \in DOMAIN s :
             /\ i < j
             /\ s[i].parent = s[j].parent
             /\ SameHalfDay(s[i].id, s[j].id)
             => s[i].id < s[j].id
      BY ONLY <2>l, OrganizedByDate
    <3> QED
      BY <2>1, <3>1 DEF InOrderMade, SameHalfDay
  <2>10. RepliesInThread'
    <3>1. \A j \in DOMAIN s :
             s[j].parent # None =>
                \E i \in 1..(j - 1) :
                    /\ s[i].id = s[j].parent
                    /\ \A k \in (i + 1)..j : s[k].parent = s[j].parent
      BY ONLY <2>l, OrganizedInThreads
    <3> QED
      BY <2>1, <3>1 DEF RepliesInThread
  <2>11. TypeOK'
    BY <1>1, <1>5, <2>1, <2>l DEF Inv, TypeOK, server, tab, history
  <2> QED
    BY <1>5, <2>4, <2>5, <2>8, <2>9, <2>10, <2>11 DEF Inv, Loading
<1> QED
  BY <1>3, <1>4, <1>5

-----------------------------------------------------------------------------
(* What is written, here and on other devices *)

\* A step that adds to the comments, or takes from them: what is shown, the
\* load and the rows of the forum stay right.
LEMMA WriteSteps ==
    ASSUME Inv, Keeps, UNCHANGED <<tab, open, load, shown, crash, asked>>,
           \A p \in Posts : ~Stored(p) => ~Stored(p)'
    PROVE  /\ Loading' /\ Shows' /\ InOrderMade' /\ RepliesInThread' /\ Causes'
           /\ \A p \in DOMAIN forum' : Closed(forum[p])'
<1>1. Loading'
  BY LoadingOn DEF Inv
<1>2. Shows' /\ InOrderMade' /\ RepliesInThread'
  BY ShowsOn DEF Inv
<1>3. Causes'
  BY CausesOn DEF Inv, Keeps, tab
<1>4. \A p \in DOMAIN forum' : Closed(forum[p])'
  BY ListsOn DEF Inv, tab
<1> QED
  BY <1>1, <1>2, <1>3, <1>4

\* The lists of a screen whose list of comments may grow
LEMMA ListsGrow ==
    ASSUME Inv, Keeps, UNCHANGED <<open, load, shown, asked>>,
           ids \subseteq ids', Closed(ids)',
           \A p \in Posts : posts'[p] # None => Closed(posts[p])',
           \A p \in DOMAIN forum' : Closed(forum[p])'
    PROVE  Lists'
<1>1. ASSUME load' # None PROVE Closed(load.ids)' /\ load'.ids \subseteq ids'
  <2>1. PICK S \in {load.ids} : S = load.ids /\ S = load'.ids
    OBVIOUS
  <2>2. Closed(S) /\ S \subseteq ids
    BY <1>1, <2>1 DEF Inv, Lists
  <2>3. Closed(S)'
    BY <2>2, ClosedOn
  <2> QED
    BY <2>1, <2>2, <2>3 DEF Closed
<1>2. asked' \subseteq ids'
  BY DEF Inv, Lists
<1>3. open' = None => load' = None /\ shown' = <<>> /\ asked' = {}
  BY DEF Inv, Lists
<1> QED
  BY <1>1, <1>2, <1>3 DEF Lists

\* A list to which a new comment is added, whose parent it names
LEMMA ClosedWith ==
    ASSUME TypeOK, Keeps, NEW S, Closed(S), NEW k \in 1..Len(made'),
           k \notin 1..Len(made), NEW d, Doc(k)' = d,
           d.parent \in S \cup {None}, NEW T, T = S \cup {k}
    PROVE  Closed(T)'
<1>1. Closed(S)'
  BY ClosedOn
<1>2. ASSUME NEW c \in T, Exists(c)' PROVE Doc(c)'.parent \in T \cup {None}
  <2>1. CASE c \in S
    BY <1>1, <1>2, <2>1 DEF Closed
  <2>2. CASE c = k
    BY <2>2
  <2> QED
    BY <2>1, <2>2
<1>3. T \subseteq 1..Len(made')
  BY <1>1 DEF Closed
<1> QED
  BY <1>2, <1>3 DEF Closed

\* What a row tells of the comment it shows, or of its parent
LEMMA ShownIs ==
    ASSUME Inv, NEW m \in ShownIds
    PROVE  LET p == IF Shown[m].parent = None THEN m ELSE Shown[m].parent
           IN  /\ m \in 1..Len(made) /\ m \in ids
               /\ p \in 1..Len(made) /\ p \in ids
               /\ Exists(p) => Doc(p).parent = None
<1> DEFINE p == IF Shown[m].parent = None THEN m ELSE Shown[m].parent
<1>1. shown \in Seq(Row) /\ DOMAIN shown = 1..Len(shown)
  BY DEF Inv, TypeOK
<1>2. PICK i \in 1..Len(shown) : Shown[m] = shown[i] /\ shown[i].id = m
  <2>1. \E r \in Range(shown) : r.id = m
    BY DEF ShownIds, Range
  <2>2. Shown[m] \in Range(shown) /\ Shown[m].id = m
    BY <2>1 DEF Shown
  <2> QED
    BY <1>1, <2>2 DEF Range
<1>3. asked \subseteq ids /\ ids \subseteq 1..Len(made)
  BY DEF Inv, Lists, Closed
<1>4. \A j \in 1..Len(shown) :
         /\ shown[j].id \in ids /\ shown[j].id \in 1..Len(made)
         /\ Exists(shown[j].id) => shown[j].parent = Doc(shown[j].id).parent
  BY <1>3 DEF Inv, Shows, Tells
<1>5. PICK j \in 1..Len(shown) : shown[j].id = p /\ shown[j].parent = None
  <2>1. CASE shown[i].parent = None
    BY <1>2, <2>1
  <2>2. CASE shown[i].parent # None
    BY <1>2, <2>2 DEF Inv, Shows
  <2> QED
    BY <2>1, <2>2
<1>6. p \in 1..Len(made) /\ p \in ids /\ (Exists(p) => Doc(p).parent = None)
  BY <1>4, <1>5
<1>7. m \in 1..Len(made) /\ m \in ids
  BY <1>2, <1>4
<1> QED
  BY <1>6, <1>7

LEMMA TapKeeps ==
    ASSUME Inv, NEW m \in Comments \cup {None}, CommentTap(m)
    PROVE  Inv'
<1>1. /\ open # None /\ Next1 \in Comments /\ m \in {None} \cup ShownIds
      /\ UNCHANGED <<posts, comments, tab, open, load, shown, crash, refused,
                     asked>>
      /\ made' = Append(made, Me) /\ ids' = ids \cup {Next1}
  BY DEF CommentTap, server
<1>t. /\ open \in Posts /\ Me \in Users /\ queue \in Seq(Own)
      /\ ids \subseteq Comments /\ Len(made) \in Nat /\ made \in Seq(Users)
      /\ None \notin Comments
  BY <1>1, ReaderAssumption, CommentsAre, MadeAre DEF Inv, TypeOK
<1>2. PICK k \in Comments, d \in {NewComment(open, Me, m, Shown)},
           p \in {IF m = None \/ Shown[m].parent = None THEN m
                  ELSE Shown[m].parent} :
         /\ k = Next1 /\ d = NewComment(open, Me, m, Shown)
         /\ p = IF m = None \/ Shown[m].parent = None THEN m
                ELSE Shown[m].parent
         /\ queue' = Append(queue, [id |-> k, doc |-> d])
         /\ ids' = ids \cup {k}
  BY <1>1 DEF CommentTap
<1>3. d = [post |-> open, author |-> Me, mention |-> m, parent |-> p]
  BY <1>2 DEF NewComment
<1>4. /\ m # None => m \in 1..Len(made)
      /\ p # None => /\ p \in 1..Len(made) /\ p \in ids
                     /\ Exists(p) => Doc(p).parent = None
  <2>1. CASE m = None
    BY <1>2, <2>1
  <2>2. CASE m # None
    <3>1. m \in ShownIds
      BY <1>1, <2>2
    <3> QED
      BY <1>2, <2>2, <3>1, ShownIs
  <2> QED
    BY <2>1, <2>2
<1>5. d \in Comment
  <2>1. p \in Comments \cup {None}
    BY <1>t, <1>4
  <2> QED
    BY <1>t, <1>3, <2>1 DEF Comment
<1>6. /\ d.author = Me /\ d.mention = m /\ d.parent = p
  BY <1>3
<1>7. /\ Keeps /\ Ids' /\ Docs'
      /\ k \in 1..Len(made') /\ k \notin 1..Len(made)
      /\ Exists(k)' /\ Doc(k)' = d
  <2>1. /\ TypeOK /\ Ids /\ Docs /\ k = Next1 /\ Me \in Users
        /\ made' = Append(made, Me) /\ refused' = refused
        /\ d \in Comment /\ d.author = Me
    BY <1>1, <1>t, <1>2, <1>5, <1>6 DEF Inv
  <2>2. /\ d.mention # None => d.mention \in 1..Len(made)
        /\ d.parent # None => /\ d.parent \in 1..Len(made)
                              /\ Exists(d.parent) =>
                                    Doc(d.parent).parent = None
    BY <1>4, <1>6
  <2>3. /\ comments' = comments
        /\ queue' = Append(queue, [id |-> k, doc |-> d])
    BY <1>1, <1>2
  <2> QED
    BY ONLY <2>1, <2>2, <2>3, k \in Comments, Makes
<1>8. /\ Loading' /\ Shows' /\ InOrderMade' /\ RepliesInThread' /\ Causes'
      /\ \A q \in DOMAIN forum' : Closed(forum[q])'
  <2>1. \A q \in Posts : ~Stored(q) => ~Stored(q)'
    BY <1>1 DEF Stored
  <2> QED
    BY <1>1, <1>7, <2>1, WriteSteps
<1>9. Lists'
  <2>1. \A q \in Posts : posts'[q] # None => Closed(posts[q])'
    BY <1>1, <1>7, ListsOn DEF Inv
  <2>2. Closed(ids)'
    <3>1. PICK S \in {ids}, T \in {ids'} : S = ids /\ T = ids'
      OBVIOUS
    <3>2. Closed(S) /\ T = S \cup {k} /\ d.parent \in S \cup {None}
      BY <1>2, <1>4, <1>6, <3>1 DEF Inv, Lists
    <3>3. Closed(T)'
      BY <1>7, <3>2, ClosedWith DEF Inv
    <3> QED
      BY <3>1, <3>3 DEF Closed
  <2> QED
    BY <1>1, <1>7, <1>8, <2>1, <2>2, ListsGrow
<1>10. TypeOK'
  <2>1. queue' \in Seq(Own)
    <3>1. [id |-> k, doc |-> d] \in Own
      BY <1>5 DEF Own
    <3> QED
      BY <1>t, <1>2, <3>1
  <2>2. made' \in Seq(Users) /\ Len(made') <= Len(HourOf)
    <3>1. Len(made') = Len(made) + 1 /\ made' \in Seq(Users)
      BY <1>1, <1>t
    <3>2. Len(made) + 1 \in 1..Len(HourOf) /\ Len(HourOf) \in Nat
      BY <1>1, CommentsAre DEF Next1
    <3> QED
      BY <1>t, <3>1, <3>2
  <2>3. ids' \subseteq Comments
    BY <1>t, <1>2
  <2> QED
    BY <1>1, <2>1, <2>2, <2>3 DEF Inv, TypeOK, tab
<1> QED
  BY <1>7, <1>8, <1>9, <1>10 DEF Inv

LEMMA OthersCommentKeeps ==
    ASSUME Inv, NEW p \in Posts, NEW u \in Users,
           NEW m \in Comments \cup {None}, OthersComment(p, u, m)
    PROVE  Inv'
<1>1. /\ Stored(p) /\ Next1 \in Comments
      /\ m \in {None} \cup {c \in posts[p] : comments[c] # None}
      /\ UNCHANGED <<queue, tab, open, ids, load, shown, crash, refused, asked>>
      /\ made' = Append(made, u)
  BY DEF OthersComment
<1>t. /\ posts \in [Posts -> (SUBSET Comments) \cup {None}]
      /\ comments \in [Comments -> Comment \cup {None}]
      /\ Len(made) \in Nat /\ made \in Seq(Users)
      /\ None \notin Comments
  BY CommentsAre, MadeAre DEF Inv, TypeOK
<1>2. PICK k \in Comments, d \in {NewComment(p, u, m, comments)},
           q \in {IF m = None \/ comments[m].parent = None THEN m
                  ELSE comments[m].parent} :
         /\ k = Next1 /\ d = NewComment(p, u, m, comments)
         /\ q = IF m = None \/ comments[m].parent = None THEN m
                ELSE comments[m].parent
         /\ comments' = [comments EXCEPT ![k] = d]
         /\ posts' = [posts EXCEPT ![p] = @ \cup {k}]
  BY <1>1 DEF OthersComment
<1>3. d = [post |-> p, author |-> u, mention |-> m, parent |-> q]
  BY <1>2 DEF NewComment
<1>c. Closed(posts[p]) /\ posts[p] \in SUBSET Comments
  <2>1. posts[p] # None /\ posts[p] \in (SUBSET Comments) \cup {None}
    BY <1>1, <1>t DEF Stored
  <2> QED
    BY <2>1 DEF Inv, Lists
<1>4. /\ m # None => m \in 1..Len(made)
      /\ q # None => /\ q \in 1..Len(made) /\ q \in posts[p]
                     /\ Exists(q) => Doc(q).parent = None
  <2>1. CASE m = None
    BY <1>2, <2>1
  <2>2. CASE m # None
    <3>1. m \in posts[p] /\ m \in Comments /\ comments[m] # None
      BY <1>1, <1>c, <2>2
    <3>2. Exists(m) /\ Doc(m) = comments[m]
      BY <3>1, DocIs DEF Inv
    <3>3. m \in 1..Len(made) /\ Doc(m).parent \in posts[p] \cup {None}
          /\ posts[p] \subseteq 1..Len(made)
      BY <1>c, <3>1, <3>2 DEF Closed
    <3>4. Doc(m).parent # None /\ Exists(Doc(m).parent) =>
             Doc(Doc(m).parent).parent = None
      BY <3>1, <3>2 DEF Inv, Docs, Says
    <3>5. CASE comments[m].parent = None
      BY <1>2, <3>1, <3>2, <3>3, <3>5
    <3>6. CASE comments[m].parent # None
      BY <1>2, <2>2, <3>2, <3>3, <3>4, <3>6
    <3> QED
      BY <3>5, <3>6
  <2> QED
    BY <2>1, <2>2
<1>5. d \in Comment
  <2>1. q \in Comments \cup {None}
    BY <1>c, <1>4
  <2> QED
    BY <1>3, <2>1 DEF Comment
<1>6. /\ d.author = u /\ d.mention = m /\ d.parent = q
  BY <1>3
<1>7. /\ Keeps /\ Ids' /\ Docs'
      /\ k \in 1..Len(made') /\ k \notin 1..Len(made)
      /\ Exists(k)' /\ Doc(k)' = d
  <2>1. /\ TypeOK /\ Ids /\ Docs /\ k = Next1 /\ u \in Users
        /\ made' = Append(made, u) /\ refused' = refused
        /\ d \in Comment /\ d.author = u
    BY <1>1, <1>2, <1>5, <1>6 DEF Inv
  <2>2. /\ d.mention # None => d.mention \in 1..Len(made)
        /\ d.parent # None => /\ d.parent \in 1..Len(made)
                              /\ Exists(d.parent) =>
                                    Doc(d.parent).parent = None
    BY <1>4, <1>6
  <2>3. comments' = [comments EXCEPT ![k] = d] /\ queue' = queue
    BY <1>1, <1>2
  <2> QED
    BY ONLY <2>1, <2>2, <2>3, k \in Comments, Makes
<1>p. \A r \in Posts : r # p => posts'[r] = posts[r]
  BY <1>t, <1>2
<1>q. posts'[p] = posts[p] \cup {k}
  BY <1>t, <1>2
<1>8. /\ Loading' /\ Shows' /\ InOrderMade' /\ RepliesInThread' /\ Causes'
      /\ \A r \in DOMAIN forum' : Closed(forum[r])'
  <2>1. \A r \in Posts : ~Stored(r) => ~Stored(r)'
    BY <1>1, <1>p DEF Stored
  <2> QED
    BY <1>1, <1>7, <2>1, WriteSteps
<1>9. Lists'
  <2>1. ASSUME NEW r \in Posts, posts'[r] # None PROVE Closed(posts[r])'
    <3>1. PICK S \in {posts[r]}, T \in {posts'[r]} :
             S = posts[r] /\ T = posts'[r]
      OBVIOUS
    <3>2. CASE r = p
      <4>1. Closed(S) /\ T = S \cup {k} /\ d.parent \in S \cup {None}
        BY <1>c, <1>4, <1>6, <1>q, <3>1, <3>2
      <4>2. Closed(T)'
        BY <1>7, <4>1, ClosedWith DEF Inv
      <4> QED
        BY <3>1, <4>2 DEF Closed
    <3>3. CASE r # p
      <4>1. S = T /\ Closed(S)
        BY <1>p, <2>1, <3>1, <3>3 DEF Inv, Lists
      <4>2. Closed(T)'
        BY <1>7, <4>1, ClosedOn
      <4> QED
        BY <3>1, <4>2 DEF Closed
    <3> QED
      BY <3>2, <3>3
  <2>2. Closed(ids)'
    BY <1>1, <1>7, ListsOn DEF Inv
  <2> QED
    BY <1>1, <1>7, <1>8, <2>1, <2>2, ListsGrow
<1>10. TypeOK'
  <2>1. comments' \in [Comments -> Comment \cup {None}]
    BY <1>t, <1>2, <1>5
  <2>2. made' \in Seq(Users) /\ Len(made') <= Len(HourOf)
    <3>1. Len(made') = Len(made) + 1 /\ made' \in Seq(Users)
      BY <1>1, <1>t
    <3>2. Len(made) + 1 \in 1..Len(HourOf) /\ Len(HourOf) \in Nat
      BY <1>1, CommentsAre DEF Next1
    <3> QED
      BY <1>t, <3>1, <3>2
  <2>3. posts' \in [Posts -> (SUBSET Comments) \cup {None}]
    <3>1. posts[p] \cup {k} \in (SUBSET Comments) \cup {None}
      BY <1>c
    <3> QED
      BY <1>t, <1>2, <3>1
  <2> QED
    BY <1>1, <2>1, <2>2, <2>3 DEF Inv, TypeOK, tab
<1> QED
  BY <1>7, <1>8, <1>9, <1>10 DEF Inv

\* The server takes the first comment under way, or refuses it.
LEMMA AnswersKeep ==
    ASSUME Inv, Commit \/ Refuse
    PROVE  Inv'
<1>1. /\ queue # <<>> /\ queue' = Tail(queue) /\ made' = made
      /\ UNCHANGED <<tab, open, ids, load, shown, crash, asked>>
  BY DEF Commit, Refuse, history
<1>t. /\ posts \in [Posts -> (SUBSET Comments) \cup {None}]
      /\ comments \in [Comments -> Comment \cup {None}]
      /\ queue \in Seq(Own) /\ refused \subseteq Comments
      /\ ids \subseteq Comments
  BY DEF Inv, TypeOK
<1>2. PICK w \in {Head(queue)} :
         /\ w = Head(queue)
         /\ \/ /\ comments' = [comments EXCEPT ![w.id] = w.doc]
               /\ posts' = [posts EXCEPT ![w.doc.post] =
                               IF Stored(w.doc.post) THEN ids ELSE None]
               /\ refused' = refused
            \/ /\ comments' = comments /\ posts' = posts
               /\ refused' = refused \cup {w.id}
  BY DEF Commit, Refuse, server, history
<1>3. /\ Keeps /\ Ids' /\ Docs' /\ w \in Own /\ w.id \in Comments
  <2>1. /\ TypeOK /\ Ids /\ Docs /\ queue # <<>> /\ w = Head(queue)
        /\ queue' = Tail(queue) /\ made' = made
    BY <1>1, <1>2 DEF Inv
  <2>2. \/ /\ comments' = [comments EXCEPT ![w.id] = w.doc]
           /\ refused' = refused
        \/ /\ comments' = comments
           /\ refused' = refused \cup {w.id}
    BY <1>2
  <2> QED
    BY ONLY <2>1, <2>2, Answers
<1>4. w.doc \in Comment /\ w.doc.post \in Posts
  BY <1>3 DEF Own, Comment
<1>5. /\ posts' \in [Posts -> (SUBSET Comments) \cup {None}]
      /\ \A r \in Posts : \/ posts'[r] = posts[r]
                          \/ Stored(r) /\ posts'[r] = ids
                          \/ ~Stored(r) /\ posts'[r] = None
  <2>1. CASE posts' = posts
    BY <1>t, <2>1
  <2>2. CASE posts' = [posts EXCEPT ![w.doc.post] =
                          IF Stored(w.doc.post) THEN ids ELSE None]
    BY <1>t, <1>4, <2>2
  <2> QED
    BY <1>2, <2>1, <2>2
<1>6. /\ Loading' /\ Shows' /\ InOrderMade' /\ RepliesInThread' /\ Causes'
      /\ \A r \in DOMAIN forum' : Closed(forum[r])'
  <2>1. \A r \in Posts : ~Stored(r) => ~Stored(r)'
    BY <1>5 DEF Stored
  <2> QED
    BY <1>1, <1>3, <2>1, WriteSteps
<1>7. Lists'
  <2>1. Closed(ids)'
    BY <1>1, <1>3, ListsOn DEF Inv
  <2>2. ASSUME NEW r \in Posts, posts'[r] # None PROVE Closed(posts[r])'
    <3>1. PICK S \in {posts'[r]} : S = posts'[r]
      OBVIOUS
    <3>2. Closed(S)
      <4>1. CASE posts'[r] = posts[r]
        BY <2>2, <3>1, <4>1 DEF Inv, Lists
      <4>2. CASE posts'[r] = ids
        BY <3>1, <4>2 DEF Inv, Lists
      <4> QED
        BY <1>5, <2>2, <4>1, <4>2
    <3>3. Closed(S)'
      BY <1>3, <3>2, ClosedOn
    <3> QED
      BY <3>1, <3>3 DEF Closed
  <2> QED
    BY <1>1, <1>3, <1>6, <2>1, <2>2, ListsGrow
<1>8. TypeOK'
  <2>1. comments' \in [Comments -> Comment \cup {None}]
        /\ refused' \subseteq Comments
    BY <1>t, <1>2, <1>3, <1>4
  <2>2. queue' \in Seq(Own)
    BY <1>1, <1>t
  <2> QED
    BY <1>1, <1>5, <2>1, <2>2 DEF Inv, TypeOK, tab
<1> QED
  BY <1>3, <1>6, <1>7, <1>8 DEF Inv

LEMMA OthersDeleteKeeps ==
    ASSUME Inv, NEW p \in Posts, OthersDelete(p)
    PROVE  Inv'
<1>1. /\ UNCHANGED <<comments, queue, tab, open, ids, load, shown, crash, made,
                     refused, asked>>
      /\ posts' = [posts EXCEPT ![p] = None]
      /\ posts \in [Posts -> (SUBSET Comments) \cup {None}]
  BY DEF OthersDelete, Inv, TypeOK
<1>2. Keeps /\ Ids' /\ Docs'
  BY <1>1, StoreStays DEF Inv
<1>3. \A r \in Posts : posts'[r] = posts[r] \/ posts'[r] = None
  BY <1>1
<1>4. /\ Loading' /\ Shows' /\ InOrderMade' /\ RepliesInThread' /\ Causes'
      /\ \A r \in DOMAIN forum' : Closed(forum[r])'
  <2>1. \A r \in Posts : ~Stored(r) => ~Stored(r)'
    BY <1>3 DEF Stored
  <2> QED
    BY <1>1, <1>2, <2>1, WriteSteps
<1>5. Lists'
  <2>1. Closed(ids)'
    BY <1>1, <1>2, ListsOn DEF Inv
  <2>2. ASSUME NEW r \in Posts, posts'[r] # None PROVE Closed(posts[r])'
    <3>1. PICK S \in {posts[r]} : S = posts[r] /\ S = posts'[r]
      BY <1>3, <2>2
    <3>2. Closed(S)
      BY <2>2, <3>1 DEF Inv, Lists
    <3>3. Closed(S)'
      BY <1>2, <3>2, ClosedOn
    <3> QED
      BY <3>1, <3>3 DEF Closed
  <2> QED
    BY <1>1, <1>2, <1>4, <2>1, <2>2, ListsGrow
<1>6. TypeOK'
  <2>1. posts' \in [Posts -> (SUBSET Comments) \cup {None}]
    BY <1>1
  <2> QED
    BY <1>1, <2>1 DEF Inv, TypeOK, tab
<1> QED
  BY <1>2, <1>4, <1>5, <1>6 DEF Inv

-----------------------------------------------------------------------------
(* What holds in every state *)

LEMMA InitInv ==
    ASSUME Init
    PROVE  Inv
<1>1. /\ \A p \in Posts : posts[p] = {}
      /\ \A c \in Comments : comments[c] = None
      /\ queue = <<>> /\ forum = <<>> /\ ids = {} /\ load = None
      /\ shown = <<>> /\ crash = "none" /\ made = <<>> /\ refused = {}
      /\ asked = {} /\ open = None
  BY DEF Init
<1>2. TypeOK
  <2>1. Len(HourOf) \in Nat
    BY CommentsAre
  <2>2. /\ posts \in [Posts -> (SUBSET Comments) \cup {None}]
        /\ comments \in [Comments -> Comment \cup {None}]
        /\ DOMAIN forum = {}
    BY DEF Init
  <2>3. queue \in Seq(Own) /\ shown \in Seq(Row) /\ made \in Seq(Users)
        /\ Len(made) = 0
    BY <1>1
  <2>4. listing = None /\ drawn = {}
    BY DEF Init
  <2> QED
    BY <1>1, <2>1, <2>2, <2>3, <2>4 DEF TypeOK
<1>3. Ids /\ Docs
  <2>1. \A c \in Comments : ~Exists(c)
    BY <1>1 DEF Exists, Pending
  <2> QED
    BY <1>1, <2>1 DEF Ids, Docs
<1>4. Lists
  <2>1. ASSUME NEW S, S = {} PROVE Closed(S)
    BY <2>1 DEF Closed
  <2>2. DOMAIN forum = {}
    BY <1>1
  <2>3. Closed(ids) /\ asked \subseteq ids /\ \A p \in Posts : Closed(posts[p])
    BY <1>1, <2>1
  <2> QED
    BY <1>1, <2>2, <2>3 DEF Lists
<1>5. Loading /\ Shows /\ InOrderMade /\ RepliesInThread /\ Causes
  BY <1>1 DEF Loading, Shows, InOrderMade, RepliesInThread, Causes, ShownIds
<1> QED
  BY <1>2, <1>3, <1>4, <1>5 DEF Inv

LEMMA StepInv ==
    ASSUME Inv, [Next]_vars
    PROVE  Inv'
<1>1. CASE AskPosts \/ OnPostIds \/ LoseListing \/ \E p \in Posts : Draw(p)
  BY <1>1, TabKeeps
<1>2. CASE OnPosts
  BY <1>2, PostsKeep
<1>3. CASE (\E p \in Posts : Open(p)) \/ Back \/ AskComments \/ LoseLoad
  BY <1>3, ScreenKeeps
<1>4. CASE OnFound
  BY <1>4, FoundKeeps
<1>5. CASE OnDocs
  BY <1>5, DocsKeep
<1>6. CASE OnMentions
  BY <1>6, MentionsKeep
<1>7. CASE OnNames
  BY <1>7, NamesKeep
<1>8. CASE \E m \in Comments \cup {None} : CommentTap(m)
  BY <1>8, TapKeeps
<1>9. CASE Commit \/ Refuse
  BY <1>9, AnswersKeep
<1>10. CASE \E p \in Posts, u \in Users, m \in Comments \cup {None} :
               OthersComment(p, u, m)
  BY <1>10, OthersCommentKeeps
<1>11. CASE \E p \in Posts : OthersDelete(p)
  BY <1>11, OthersDeleteKeeps
<1>12. CASE UNCHANGED vars
  <2>1. UNCHANGED <<posts, comments, queue, listing, forum, drawn, open, ids,
                    load, shown, crash, made, refused, asked>>
    BY <1>12 DEF vars
  <2>2. TypeOK'
    BY <2>1 DEF Inv, TypeOK
  <2>3. UNCHANGED <<server, queue, tab, history>> /\ crash' = crash
    BY <2>1 DEF server, tab, history
  <2>4. /\ Keeps /\ Ids' /\ Docs' /\ Causes' /\ Closed(ids)'
        /\ \A p \in Posts : posts'[p] # None => Closed(posts[p])'
        /\ \A p \in DOMAIN forum' : Closed(forum[p])'
    BY <2>1, <2>3, ScreenSteps
  <2>5. Lists'
    BY <2>1, <2>4, ListsGrow
  <2>6. Loading' /\ Shows' /\ InOrderMade' /\ RepliesInThread'
    BY <2>1, <2>4, LoadingOn, ShowsOn DEF Inv
  <2> QED
    BY <2>2, <2>4, <2>5, <2>6 DEF Inv
<1> QED
  BY <1>1, <1>2, <1>3, <1>4, <1>5, <1>6, <1>7, <1>8, <1>9, <1>10, <1>11, <1>12
     DEF Next

LEMMA Invariant == Spec => []Inv
<1>1. Init => Inv
  BY InitInv
<1>2. Inv /\ [Next]_vars => Inv'
  BY StepInv
<1> QED
  BY <1>1, <1>2, PTL DEF Spec

\* No load of the forum or of comments throws by itself: a post must have been
\* deleted, a comment refused, or a text be 51 to 55 letters long.
THEOREM NoLoadThrowsAlone == Spec => []CrashHasCause
<1>1. Inv => CrashHasCause
  BY DEF Inv, Causes, CrashHasCause
<1> QED
  BY <1>1, Invariant, PTL

\* Every row names the author of its comment and, if it is a reply, whoever
\* made the comment that it answers, although names and documents come from
\* three different reads.
THEOREM NamesBelong == Spec => []NamesRight
<1>1. Inv => NamesRight
  <2> SUFFICES ASSUME Inv, NEW i \in DOMAIN shown
               PROVE  /\ shown[i].author = made[shown[i].id]
                      /\ Exists(shown[i].id) =>
                            shown[i].mention =
                               IF Doc(shown[i].id).mention = None THEN None
                               ELSE made[Doc(shown[i].id).mention]
    BY DEF NamesRight
  <2>1. i \in 1..Len(shown)
    BY DEF Inv, TypeOK
  <2>2. Tells(shown[i])
    BY <2>1 DEF Inv, Shows
  <2> QED
    BY <2>2 DEF Tells
<1> QED
  BY <1>1, Invariant, PTL

\* Comments on top, and the replies of one thread, stand in the order in which
\* they were made within one morning or afternoon.
THEOREM ThreadsInOrder == Spec => []InOrderMade
<1>1. Inv => InOrderMade
  BY DEF Inv
<1> QED
  BY <1>1, Invariant, PTL

\* Between a reply and its parent stand only replies to that parent.
THEOREM RepliesStayInThread == Spec => []RepliesInThread
<1>1. Inv => RepliesInThread
  BY DEF Inv
<1> QED
  BY <1>1, Invariant, PTL

\* If the server refused nothing, the list shows every comment asked for, once:
\* none of the four reads and neither loop of organizeComments drops one.
THEOREM NothingDropped == Spec => []AllShown
<1>1. ASSUME Inv PROVE Len(shown) = Cardinality(ShownIds)
  <2>1. /\ shown \in Seq(Row) /\ DOMAIN shown = 1..Len(shown)
        /\ Len(shown) \in Nat
    BY <1>1 DEF Inv, TypeOK
  <2>2. PICK f \in [1..Len(shown) -> ShownIds] :
           \A i \in 1..Len(shown) : f[i] = shown[i].id
    <3>1. [i \in 1..Len(shown) |-> shown[i].id]
             \in [1..Len(shown) -> ShownIds]
      BY <2>1 DEF ShownIds
    <3> QED
      BY <3>1
  <2>3. f \in Injection(1..Len(shown), ShownIds)
    BY <1>1, <2>2 DEF Inv, Shows, Injection, IsInjective
  <2>4. f \in Surjection(1..Len(shown), ShownIds)
    BY <2>1, <2>2 DEF ShownIds, Surjection
  <2>5. f \in Bijection(1..Len(shown), ShownIds)
    BY <2>3, <2>4 DEF Bijection
  <2>6. PICK n \in Nat : n = Len(shown)
    BY <2>1
  <2>7. ExistsBijection(1..n, ShownIds)
    BY <2>5, <2>6 DEF ExistsBijection
  <2> QED
    BY <2>6, <2>7, FS_CountingElements
<1>2. ASSUME Inv, refused = {} PROVE ShownIds = asked
  <2>1. asked \subseteq ShownIds
    BY <1>2 DEF Inv, Shows
  <2>2. ASSUME NEW c \in ShownIds PROVE c \in asked
    <3>1. DOMAIN shown = 1..Len(shown)
      BY <1>2 DEF Inv, TypeOK
    <3>2. PICK i \in 1..Len(shown) : c = shown[i].id
      BY <3>1 DEF ShownIds
    <3> QED
      BY <1>2, <3>2 DEF Inv, Shows, Tells
  <2> QED
    BY <2>1, <2>2
<1>3. Inv => AllShown
  BY <1>1, <1>2 DEF AllShown
<1> QED
  BY <1>3, Invariant, PTL
=============================================================================
