--------------------------- MODULE ForumList_proofs ---------------------------
(***************************************************************************)
(* The forum tab, proved of ForumList for any posts, leagues and           *)
(* categories: what is shown is what is selected, the selection is what    *)
(* was confirmed, and the order is the one that the tag names.  First what *)
(* the rows and the order rest on: the times of TextUtil, for every number *)
(* of seconds and every hour.                                              *)
(***************************************************************************)
EXTENDS ForumList, FiniteSetTheorems, SequenceTheorems, TLAPS


Sizes == {Minute, Hour, Day, Week, Month, Year}

\* The units in numbers
LEMMA Units ==
    /\ Minute = 60 /\ Hour = 3600 /\ Day = 86400 /\ Week = 604800
    /\ Month = 2419200 /\ Year = 29030400
  BY DEF Minute, Hour, Day, Week, Month, Year

\* Rounding up
LEMMA CeilDivBounds ==
    ASSUME NEW a \in Int, NEW b \in Nat \ {0}
    PROVE  /\ CeilDiv(a, b) \in Int
           /\ b * (CeilDiv(a, b) - 1) < a
           /\ a <= b * CeilDiv(a, b)
  <1> DEFINE q == (a + b - 1) \div b
             r == (a + b - 1) % b
  <1>1. /\ q \in Int /\ r \in 0..(b - 1)
        /\ a + b - 1 = b * q + r
    BY SMT
  <1>2. b * (q - 1) = b * q - b
    BY <1>1, SMT
  <1>3. QED BY <1>1, <1>2, SMT DEF CeilDiv

-----------------------------------------------------------------------------

SizeOf ==
    [min |-> Minute, h |-> Hour, d |-> Day, w |-> Week, mo |-> Month,
     y |-> Year]

\* What `d' says of a time that is `past' seconds ago: it is longer than one
\* unit less, and no longer than the value.
Says(d, past) ==
    /\ d.unit \in DOMAIN SizeOf
    /\ d.value \in Int /\ d.value > 1
    /\ SizeOf[d.unit] * (d.value - 1) < past
    /\ past <= SizeOf[d.unit] * d.value

LEMMA InSays ==
    ASSUME NEW past \in Int, NEW name \in DOMAIN SizeOf,
           SizeOf[name] < past
    PROVE  Says(In(SizeOf[name], name, past), past)
  <1> DEFINE size == SizeOf[name]
             v    == CeilDiv(past, size)
  <1>1. size \in Nat \ {0}
    BY Units DEF SizeOf
  <1>2. /\ v \in Int
        /\ size * (v - 1) < past
        /\ past <= size * v
    BY <1>1, CeilDivBounds
  <1>3. v > 1
    <2>1. ASSUME v <= 1 PROVE size * v <= size
      BY <2>1, <1>1, <1>2, SMT
    <2>2. QED BY <2>1, <1>1, <1>2, SMT
  <1>4. QED BY <1>2, <1>3 DEF Says, In

\* calculateTimeDiff: a time that is not at the edge of a unit is shown rounded
\* up in a unit that it is longer than, so it never shows 1.
THEOREM DiffIsRight ==
    ASSUME NEW past \in Int, past >= Minute, past \notin Sizes
    PROVE  Says(TimeDiff(past), past)
  <1>1. CASE Minute < past /\ past < Hour
    <2>1. /\ ~(past < Minute)
      BY <1>1, Units, SMT
    <2>2. TimeDiff(past) = In(Minute, "min", past)
      BY <1>1, <2>1, Zenon DEF TimeDiff
    <2>3. QED BY <1>1, <2>2, InSays DEF SizeOf
  <1>2. CASE Hour < past /\ past < Day
    <2>1. /\ ~(past < Minute)
          /\ ~(Minute < past /\ past < Hour)
      BY <1>2, Units, SMT
    <2>2. TimeDiff(past) = In(Hour, "h", past)
      BY <1>2, <2>1, Zenon DEF TimeDiff
    <2>3. QED BY <1>2, <2>2, InSays DEF SizeOf
  <1>3. CASE Day < past /\ past < Week
    <2>1. /\ ~(past < Minute)
          /\ ~(Minute < past /\ past < Hour)
          /\ ~(Hour < past /\ past < Day)
      BY <1>3, Units, SMT
    <2>2. TimeDiff(past) = In(Day, "d", past)
      BY <1>3, <2>1, Zenon DEF TimeDiff
    <2>3. QED BY <1>3, <2>2, InSays DEF SizeOf
  <1>4. CASE Week < past /\ past < Month
    <2>1. /\ ~(past < Minute)
          /\ ~(Minute < past /\ past < Hour)
          /\ ~(Hour < past /\ past < Day)
          /\ ~(Day < past /\ past < Week)
      BY <1>4, Units, SMT
    <2>2. TimeDiff(past) = In(Week, "w", past)
      BY <1>4, <2>1, Zenon DEF TimeDiff
    <2>3. QED BY <1>4, <2>2, InSays DEF SizeOf
  <1>5. CASE Month < past /\ past < Year
    <2>1. /\ ~(past < Minute)
          /\ ~(Minute < past /\ past < Hour)
          /\ ~(Hour < past /\ past < Day)
          /\ ~(Day < past /\ past < Week)
          /\ ~(Week < past /\ past < Month)
      BY <1>5, Units, SMT
    <2>2. TimeDiff(past) = In(Month, "mo", past)
      BY <1>5, <2>1, Zenon DEF TimeDiff
    <2>3. QED BY <1>5, <2>2, InSays DEF SizeOf
  <1>6. CASE Year < past
    <2>1. /\ ~(past < Minute)
          /\ ~(Minute < past /\ past < Hour)
          /\ ~(Hour < past /\ past < Day)
          /\ ~(Day < past /\ past < Week)
          /\ ~(Week < past /\ past < Month)
          /\ ~(Month < past /\ past < Year)
      BY <1>6, Units, SMT
    <2>2. TimeDiff(past) = In(Year, "y", past)
      BY <1>6, <2>1, Zenon DEF TimeDiff
    <2>3. QED BY <1>6, <2>2, InSays DEF SizeOf
  <1>7. QED BY <1>1, <1>2, <1>3, <1>4, <1>5, <1>6, Units DEF Sizes

\* The field of a record
LEMMA UnitOf ==
    ASSUME NEW d, NEW v, NEW u, d = [value |-> v, unit |-> u]
    PROVE  d.unit = u
  OBVIOUS

\* calculateTimeDiff shows nothing at all for a time of exactly one minute,
\* hour, day, week, month or year, and for no other.
THEOREM SilentAtEdges ==
    ASSUME NEW past \in Int
    PROVE  TimeDiff(past).unit = "" <=> past \in Sizes
  <1>1. CASE past \in Sizes
    <2>1. /\ ~(past < Minute)
          /\ ~(Minute < past /\ past < Hour)
          /\ ~(Hour < past /\ past < Day)
          /\ ~(Day < past /\ past < Week)
          /\ ~(Week < past /\ past < Month)
          /\ ~(Month < past /\ past < Year)
          /\ ~(Year < past)
      BY <1>1, Units, SMT DEF Sizes
    <2>2. TimeDiff(past) = [value |-> 0, unit |-> ""]
      BY <2>1, Zenon DEF TimeDiff
    <2>3. TimeDiff(past).unit = ""
      BY <2>2, UnitOf, Zenon
    <2>4. QED BY <2>3, <1>1, Zenon
  <1>2. CASE past \notin Sizes /\ past >= Minute
    <2>1. TimeDiff(past).unit \in DOMAIN SizeOf
      BY <1>2, DiffIsRight DEF Says
    <2>2. QED BY <2>1, <1>2 DEF SizeOf
  <1>3. CASE past < Minute
    <2>1. TimeDiff(past) = [value |-> 0, unit |-> "just now"]
      BY <1>3, Zenon DEF TimeDiff
    <2>2. past \notin Sizes
      BY <1>3, Units DEF Sizes
    <2>3. TimeDiff(past).unit = "just now"
      BY <2>1, UnitOf, Zenon
    <2>4. TimeDiff(past).unit # ""
      BY <2>3
    <2>5. QED BY <2>2, <2>4, Zenon
  <1>4. past < Minute \/ past >= Minute
    BY Units
  <1>5. QED BY <1>1, <1>2, <1>3, <1>4, Zenon

-----------------------------------------------------------------------------

\* extractDateFromDocumentId keeps the order of two times of one morning or
\* afternoon.
THEOREM HalfDayOrder ==
    ASSUME NEW g \in Nat, NEW h \in Nat, g \div 12 = h \div 12
    PROVE  g < h <=> ReadBack(g) < ReadBack(h)
  <1>1. g \div 24 = h \div 24
    BY SMT
  <1>2. /\ g = 12 * (g \div 12) + (g % 12)
        /\ h = 12 * (h \div 12) + (h % 12)
    BY SMT
  <1>3. QED BY <1>1, <1>2, SMT DEF ReadBack

\* An afternoon is read back as the morning of its day: twelve hours are lost.
THEOREM AfternoonIsMorning ==
    ASSUME NEW h \in Nat, h % 24 < 12
    PROVE  ReadBack(h + 12) = h /\ ReadBack(h) = h
  <1>1. /\ (h + 12) \div 24 = h \div 24
        /\ (h + 12) % 12 = h % 12
    BY SMT
  <1>2. h = 24 * (h \div 24) + (h % 24) /\ h % 24 = h % 12
    BY SMT
  <1>3. QED BY <1>1, <1>2, SMT DEF ReadBack

-----------------------------------------------------------------------------
(* Arrange *)

Before(key, i, j) == \/ key[i] < key[j]
                     \/ key[i] = key[j] /\ i < j

Place(P, key, i) == Cardinality({j \in P : Before(key, j, i)}) + 1

At(P, key, n) == CHOOSE i \in P : Place(P, key, i) = n

LEMMA ArrangeIs ==
    ASSUME NEW s, NEW P, NEW key
    PROVE  Arrange(s, P, key) =
              [n \in 1..Cardinality(P) |-> s[At(P, key, n)]]
  BY DEF Arrange, At, Place, Before

\* The places of the elements of P are the numbers up to their number.
LEMMA Places ==
    ASSUME NEW P \in SUBSET Int, IsFiniteSet(P),
           NEW key, \A i \in P : key[i] \in Int
    PROVE  /\ \A i \in P : Place(P, key, i) \in 1..Cardinality(P)
           /\ \A i, j \in P : Before(key, i, j) =>
                 Place(P, key, i) < Place(P, key, j)
           /\ \A n \in 1..Cardinality(P) : \E i \in P : Place(P, key, i) = n
<1> DEFINE Under(i) == {j \in P : Before(key, j, i)}
<1>0. Cardinality(P) \in Nat
  BY FS_CardinalityType
<1>1. ASSUME NEW i \in P
      PROVE  /\ IsFiniteSet(Under(i)) /\ i \notin Under(i)
             /\ Cardinality(Under(i)) \in Nat
             /\ Cardinality(Under(i)) < Cardinality(P)
  <2>1. Under(i) \in SUBSET P /\ i \notin Under(i)
    BY DEF Before
  <2>2. IsFiniteSet(Under(i)) /\ Cardinality(Under(i)) <= Cardinality(P)
    BY <2>1, FS_Subset
  <2>3. Cardinality(P) # Cardinality(Under(i))
    BY <2>1, FS_Subset
  <2>4. Cardinality(Under(i)) \in Nat
    BY <2>2, FS_CardinalityType
  <2> QED
    BY <1>0, <2>1, <2>2, <2>3, <2>4
<1>2. ASSUME NEW i \in P PROVE Place(P, key, i) \in 1..Cardinality(P)
  BY <1>0, <1>1, <1>2 DEF Place
<1>3. ASSUME NEW i \in P, NEW j \in P, Before(key, i, j)
      PROVE  Place(P, key, i) < Place(P, key, j)
  <2>1. Under(i) \in SUBSET Under(j) /\ i \in Under(j) /\ i \notin Under(i)
    <3>1. ASSUME NEW k \in P, Before(key, k, i) PROVE Before(key, k, j)
      <4>1. key[i] \in Int /\ key[j] \in Int /\ key[k] \in Int
        OBVIOUS
      <4> QED
        BY <1>3, <3>1, <4>1 DEF Before
    <3> QED
      BY <1>1, <1>3, <3>1
  <2>2. /\ Cardinality(Under(i)) <= Cardinality(Under(j))
        /\ Cardinality(Under(j)) # Cardinality(Under(i))
    BY <1>1, <2>1, FS_Subset
  <2> QED
    BY <1>1, <2>2 DEF Place
<1>4. ASSUME NEW i \in P, NEW j \in P, i # j
      PROVE  Place(P, key, i) # Place(P, key, j)
  <2>1. Before(key, i, j) \/ Before(key, j, i)
    BY <1>4 DEF Before
  <2>2. /\ Place(P, key, i) \in Int /\ Place(P, key, j) \in Int
        /\ \/ Place(P, key, i) < Place(P, key, j)
           \/ Place(P, key, j) < Place(P, key, i)
    BY <1>2, <1>3, <2>1
  <2> QED
    BY <2>2
<1>5. PICK f \in [P -> 1..Cardinality(P)] :
         \A i \in P : f[i] = Place(P, key, i)
  <2>1. [i \in P |-> Place(P, key, i)] \in [P -> 1..Cardinality(P)]
    BY <1>2
  <2> QED
    BY <2>1
<1>6. f \in Injection(P, 1..Cardinality(P))
  BY <1>4, <1>5 DEF Injection, IsInjective
<1>7. IsFiniteSet(1..Cardinality(P))
      /\ Cardinality(1..Cardinality(P)) = Cardinality(P)
  BY <1>0, FS_Interval
<1>8. f \in Surjection(P, 1..Cardinality(P))
  BY <1>6, <1>7, FS_Injection
<1>9. \A n \in 1..Cardinality(P) : \E i \in P : Place(P, key, i) = n
  BY <1>5, <1>8 DEF Surjection
<1> QED
  BY <1>2, <1>3, <1>9

LEMMA AtPlaces ==
    ASSUME NEW P \in SUBSET Int, IsFiniteSet(P),
           NEW key, \A i \in P : key[i] \in Int
    PROVE  /\ \A n \in 1..Cardinality(P) : At(P, key, n) \in P
           /\ \A i \in P : \E n \in 1..Cardinality(P) : At(P, key, n) = i
           /\ \A m, n \in 1..Cardinality(P) : m < n =>
                 /\ At(P, key, m) # At(P, key, n)
                 /\ key[At(P, key, m)] <= key[At(P, key, n)]
<1>1. ASSUME NEW n \in 1..Cardinality(P)
      PROVE  At(P, key, n) \in P /\ Place(P, key, At(P, key, n)) = n
  BY Places DEF At
<1>2. ASSUME NEW i \in P, NEW j \in P, Place(P, key, i) <= Place(P, key, j)
      PROVE  i = j \/ Before(key, i, j)
  <2>1. ~Before(key, j, i)
    <3>1. /\ Before(key, j, i) => Place(P, key, j) < Place(P, key, i)
          /\ Place(P, key, i) \in 1..Cardinality(P)
          /\ Place(P, key, j) \in 1..Cardinality(P)
      BY Places
    <3> QED
      BY <1>2, <3>1
  <2> QED
    BY <2>1 DEF Before
<1>3. ASSUME NEW i \in P PROVE \E n \in 1..Cardinality(P) : At(P, key, n) = i
  <2>1. Place(P, key, i) \in 1..Cardinality(P)
    BY Places
  <2>2. PICK n \in 1..Cardinality(P) : n = Place(P, key, i)
    BY <2>1
  <2>3. At(P, key, n) \in P /\ Place(P, key, At(P, key, n)) = n
    BY <1>1
  <2>4. PICK j \in P : j = At(P, key, n)
    BY <2>3
  <2>5. Place(P, key, j) = Place(P, key, i)
    BY <2>2, <2>3, <2>4
  <2>6. i = j \/ (Before(key, i, j) /\ Before(key, j, i))
    <3>1. /\ Place(P, key, i) <= Place(P, key, j)
          /\ Place(P, key, j) <= Place(P, key, i)
      BY <2>1, <2>5
    <3> QED
      BY <1>2, <3>1
  <2>7. i = j
    BY <2>6 DEF Before
  <2> QED
    BY <2>4, <2>7
<1>4. ASSUME NEW m \in 1..Cardinality(P), NEW n \in 1..Cardinality(P), m < n
      PROVE  /\ At(P, key, m) # At(P, key, n)
             /\ key[At(P, key, m)] <= key[At(P, key, n)]
  <2>1. PICK i \in P : i = At(P, key, m) /\ Place(P, key, i) = m
    BY <1>1
  <2>2. PICK j \in P : j = At(P, key, n) /\ Place(P, key, j) = n
    BY <1>1
  <2>3. i # j /\ Before(key, i, j)
    BY <1>2, <1>4, <2>1, <2>2
  <2> QED
    BY <2>1, <2>2, <2>3 DEF Before
<1> QED
  BY <1>1, <1>3, <1>4

\* Arrange gives every element at a place of P, once, by its key.
LEMMA Arranged ==
    ASSUME NEW s \in Seq(Posts), NEW P \in SUBSET DOMAIN s,
           NEW key \in [DOMAIN s -> Int]
    PROVE  LET r == Arrange(s, P, key) IN
           /\ r \in Seq(Posts)
           /\ Range(r) = {s[i] : i \in P}
           /\ IsInjective(s) => IsInjective(r)
           /\ \A m, n \in DOMAIN r : m < n =>
                 \E i, j \in P : r[m] = s[i] /\ r[n] = s[j]
                                 /\ key[i] <= key[j]
<1> DEFINE r == Arrange(s, P, key)
<1>1. DOMAIN s = 1..Len(s) /\ Len(s) \in Nat
  OBVIOUS
<1>2. P \in SUBSET Int /\ IsFiniteSet(P) /\ \A i \in P : key[i] \in Int
  <2>1. IsFiniteSet(1..Len(s))
    BY <1>1, FS_Interval
  <2>2. IsFiniteSet(P)
    BY <1>1, <2>1, FS_Subset
  <2> QED
    BY <1>1, <2>2
<1>3. Cardinality(P) \in Nat
  BY <1>2, FS_CardinalityType
<1>4. r = [n \in 1..Cardinality(P) |-> s[At(P, key, n)]]
  BY ArrangeIs
<1> HIDE DEF r
<1>5. DOMAIN r = 1..Cardinality(P)
      /\ \A n \in 1..Cardinality(P) : r[n] = s[At(P, key, n)]
  BY <1>4
<1>6. /\ \A n \in 1..Cardinality(P) : At(P, key, n) \in P
      /\ \A i \in P : \E n \in 1..Cardinality(P) : At(P, key, n) = i
      /\ \A m, n \in 1..Cardinality(P) : m < n =>
            /\ At(P, key, m) # At(P, key, n)
            /\ key[At(P, key, m)] <= key[At(P, key, n)]
  BY <1>2, AtPlaces
<1>7. r \in Seq(Posts)
  <2>1. \A i \in P : s[i] \in Posts
    BY <1>1
  <2>2. \A n \in 1..Cardinality(P) : s[At(P, key, n)] \in Posts
    BY <1>6, <2>1
  <2> QED
    BY <1>3, <1>4, <2>2
<1>8. Range(r) = {s[i] : i \in P}
  BY <1>5, <1>6 DEF Range
<1>9. ASSUME IsInjective(s) PROVE IsInjective(r)
  <2> SUFFICES ASSUME NEW m \in 1..Cardinality(P),
                      NEW n \in 1..Cardinality(P), r[m] = r[n]
               PROVE  m = n
    BY <1>5 DEF IsInjective
  <2>1. At(P, key, m) = At(P, key, n)
    BY <1>5, <1>6, <1>9 DEF IsInjective
  <2> QED
    BY <1>3, <1>6, <2>1
<1>10. ASSUME NEW m \in DOMAIN r, NEW n \in DOMAIN r, m < n
       PROVE  \E i, j \in P : r[m] = s[i] /\ r[n] = s[j]
                              /\ key[i] <= key[j]
  <2>1. /\ m \in 1..Cardinality(P) /\ n \in 1..Cardinality(P)
        /\ r[m] = s[At(P, key, m)] /\ r[n] = s[At(P, key, n)]
    BY <1>5, <1>10
  <2> QED
    BY <1>6, <1>10, <2>1
<1> QED
  BY <1>7, <1>8, <1>9, <1>10 DEF r

\* A sequence without repetition is as long as its range is large.
LEMMA Counted ==
    ASSUME NEW T, NEW s \in Seq(T), IsInjective(s)
    PROVE  Len(s) = Cardinality(Range(s))
<1>1. DOMAIN s = 1..Len(s) /\ Len(s) \in Nat
  OBVIOUS
<1>2. s \in [1..Len(s) -> Range(s)]
  BY <1>1 DEF Range
<1>3. s \in Bijection(1..Len(s), Range(s))
  BY <1>1, <1>2 DEF Bijection, Injection, Surjection, IsInjective, Range
<1> QED
  BY <1>1, <1>3, FS_CountingElements DEF ExistsBijection

-----------------------------------------------------------------------------
(* Filter and order *)

LEMMA PostFields ==
    ASSUME NEW p \in Posts
    PROVE  /\ AllPosts[p].league \in Options
           /\ AllPosts[p].league \in Int
           /\ NLeagues + AllPosts[p].category \in Options
           /\ AllPosts[p].category \in Int
           /\ DateOf(p) \in Int
           /\ Popularity(p) \in Int
<1>1. AllPosts[p] \in Post
  BY ListAssumption DEF Posts
<1>2. /\ AllPosts[p].league \in 0..(NLeagues - 1)
      /\ AllPosts[p].category \in 0..(NCategories - 1)
      /\ AllPosts[p].hour \in Nat /\ AllPosts[p].likes \in Nat
      /\ AllPosts[p].comments \in Nat
  BY <1>1 DEF Post
<1>3. DateOf(p) \in Int
  <2>1. /\ AllPosts[p].hour \div 24 \in Int
        /\ AllPosts[p].hour % 12 \in Int
    BY <1>2, SMT
  <2> QED
    BY <2>1 DEF DateOf, ReadBack
<1>4. Popularity(p) \in Int
  BY <1>2 DEF Popularity
<1>5. NLeagues \in Nat /\ NCategories \in Nat
  BY ListAssumption
<1>6. /\ AllPosts[p].league \in Options
      /\ NLeagues + AllPosts[p].category \in Options
  BY <1>2, <1>5 DEF Options
<1> QED
  BY <1>2, <1>3, <1>4, <1>6

\* filterForumCollection keeps the selected posts and doubles none.
LEMMA Filtered ==
    ASSUME NEW posts \in Seq(Posts), IsInjective(posts), NEW f
    PROVE  /\ FilterForum(posts, f) \in Seq(Posts)
           /\ IsInjective(FilterForum(posts, f))
           /\ Range(FilterForum(posts, f)) =
                 {p \in Range(posts) : Selected(p, f)}
<1> DEFINE P == {i \in DOMAIN posts : f[AllPosts[posts[i]].league]}
           k == [i \in DOMAIN posts |-> AllPosts[posts[i]].league]
           s == Arrange(posts, P, k)
           Q == {i \in DOMAIN s : f[NLeagues + AllPosts[s[i]].category]}
           l == [i \in DOMAIN s |-> AllPosts[s[i]].category]
           r == Arrange(s, Q, l)
<1>1. r = FilterForum(posts, f)
  BY DEF FilterForum
<1>2. k \in [DOMAIN posts -> Int]
  <2>1. \A i \in DOMAIN posts : posts[i] \in Posts
    OBVIOUS
  <2> QED
    BY <2>1, PostFields
<1>3. /\ s \in Seq(Posts) /\ IsInjective(s)
      /\ Range(s) = {posts[i] : i \in P}
  <2>1. P \in SUBSET DOMAIN posts
    OBVIOUS
  <2> HIDE DEF P, k
  <2> QED
    BY <1>2, <2>1, Arranged
<1> HIDE DEF s
<1>4. l \in [DOMAIN s -> Int]
  <2>1. \A i \in DOMAIN s : s[i] \in Posts
    BY <1>3
  <2> QED
    BY <2>1, PostFields
<1>5. /\ r \in Seq(Posts) /\ IsInjective(r)
      /\ Range(r) = {s[i] : i \in Q}
  <2>1. Q \in SUBSET DOMAIN s
    OBVIOUS
  <2> HIDE DEF Q, l
  <2> QED
    BY <1>3, <1>4, <2>1, Arranged
<1> HIDE DEF r
<1>6. Range(s) = {p \in Range(posts) : f[AllPosts[p].league]}
  BY <1>3 DEF Range
<1>7. Range(r) = {p \in Range(s) : f[NLeagues + AllPosts[p].category]}
  BY <1>5 DEF Range
<1>8. Range(r) = {p \in Range(posts) : Selected(p, f)}
  BY <1>6, <1>7 DEF Selected
<1> QED
  BY <1>1, <1>5, <1>8

\* sortForumCollection keeps the posts and sorts them.
LEMMA SortedForum ==
    ASSUME NEW s \in Seq(Posts), IsInjective(s), NEW order
    PROVE  /\ SortForum(s, order) \in Seq(Posts)
           /\ IsInjective(SortForum(s, order))
           /\ Range(SortForum(s, order)) = Range(s)
           /\ Sorted(SortForum(s, order), order)
<1> DEFINE k == [i \in DOMAIN s |-> IF order = "newest" THEN -DateOf(s[i])
                                    ELSE -Popularity(s[i])]
           r == Arrange(s, DOMAIN s, k)
<1>1. r = SortForum(s, order)
  BY DEF SortForum
<1>2. \A i \in DOMAIN s : /\ s[i] \in Posts
                          /\ DateOf(s[i]) \in Int /\ Popularity(s[i]) \in Int
  BY PostFields
<1>k. k \in [DOMAIN s -> Int]
  BY <1>2
<1>3. /\ r \in Seq(Posts) /\ IsInjective(r)
      /\ Range(r) = {s[i] : i \in DOMAIN s}
      /\ \A m, n \in DOMAIN r : m < n =>
            \E i, j \in DOMAIN s : r[m] = s[i] /\ r[n] = s[j]
                                   /\ k[i] <= k[j]
  <2> HIDE DEF k
  <2> QED
    BY <1>k, Arranged
<1> HIDE DEF r
<1>4. Sorted(r, order)
  <2> SUFFICES ASSUME NEW m \in DOMAIN r, NEW n \in DOMAIN r, m < n
               PROVE  IF order = "newest" THEN DateOf(r[m]) >= DateOf(r[n])
                      ELSE Popularity(r[m]) >= Popularity(r[n])
    BY DEF Sorted
  <2>1. PICK i \in DOMAIN s, j \in DOMAIN s :
           r[m] = s[i] /\ r[n] = s[j] /\ k[i] <= k[j]
    BY <1>3
  <2>2. CASE order = "newest"
    <3>1. k[i] = -DateOf(s[i]) /\ k[j] = -DateOf(s[j])
      BY <2>2
    <3> QED
      BY <1>2, <2>1, <2>2, <3>1
  <2>3. CASE order # "newest"
    <3>1. k[i] = -Popularity(s[i]) /\ k[j] = -Popularity(s[j])
      BY <2>3
    <3> QED
      BY <1>2, <2>1, <2>3, <3>1
  <2> QED
    BY <2>2, <2>3
<1>5. Range(r) = Range(s)
  BY <1>3 DEF Range
<1> QED
  BY <1>1, <1>3, <1>4, <1>5

\* The posts of a collection, each once
LEMMA Ordered ==
    ASSUME NEW S \in SUBSET Posts
    PROVE  /\ InIdOrder(S) \in Seq(Posts)
           /\ IsInjective(InIdOrder(S))
           /\ Range(InIdOrder(S)) = S
<1> DEFINE s == [p \in Posts |-> p]
           k == [p \in Posts |-> 0]
<1>1. AllPosts \in Seq(Post)
  BY ListAssumption
<1>2. Posts = 1..Len(AllPosts) /\ Len(AllPosts) \in Nat
  BY <1>1 DEF Posts
<1>3. s \in Seq(Posts) /\ IsInjective(s)
      /\ DOMAIN s = Posts /\ \A p \in Posts : s[p] = p
  BY <1>2 DEF IsInjective
<1>k. k \in [DOMAIN s -> Int]
  BY <1>3
<1>4. InIdOrder(S) = Arrange(s, S, k)
  BY DEF InIdOrder
<1> HIDE DEF s, k
<1>5. /\ InIdOrder(S) \in Seq(Posts)
      /\ IsInjective(InIdOrder(S))
      /\ Range(InIdOrder(S)) = {s[i] : i \in S}
  <2>1. S \in SUBSET DOMAIN s
    BY <1>3
  <2> QED
    <3>1. s \in Seq(Posts) /\ IsInjective(s)
      BY <1>3
    <3>2. /\ Arrange(s, S, k) \in Seq(Posts)
          /\ Range(Arrange(s, S, k)) = {s[i] : i \in S}
          /\ IsInjective(Arrange(s, S, k))
      BY ONLY <1>k, <2>1, <3>1, Arranged
    <3> QED
      BY <1>4, <3>2
<1> QED
  BY <1>3, <1>5

-----------------------------------------------------------------------------
(* The invariant *)

\* The types of all variables
TypeOK ==
    /\ server \in SUBSET Posts
    /\ mForum \in Seq(Posts) \cup {None}
    /\ tab \in BOOLEAN
    /\ filter \in [Options -> BOOLEAN]
    /\ sort \in Sorts /\ choice \in Sorts
    /\ dialog \in {"none", "filter", "sort"}
    /\ replaced \in BOOLEAN
    /\ shown \in Seq(Posts)
    /\ tags \in Tags
    /\ applied \in [Options -> BOOLEAN]
    /\ unconfirmed \in BOOLEAN
    /\ dialog # "none" =>
          original \in [filter : [Options -> BOOLEAN], choice : Sorts]

\* The list holds the selected posts, once.
Selection ==
    /\ mForum # None => IsInjective(mForum)
    /\ tab => /\ mForum # None
              /\ IsInjective(shown)
              /\ Range(shown) = {p \in Range(mForum) : Selected(p, applied)}

\* A dialog that is open belongs to the tab, and as long as nothing is
\* unconfirmed it was opened on what the list was made from.
Confirmed ==
    /\ dialog = "none" /\ tab /\ ~unconfirmed =>
          filter = applied /\ choice = sort
    /\ dialog # "none" => tab
    /\ dialog # "none" /\ ~unconfirmed =>
          original.filter = applied /\ original.choice = sort
    /\ dialog = "sort" /\ ~unconfirmed => filter = original.filter
    /\ replaced => dialog # "none" /\ unconfirmed

Inv == TypeOK /\ Selection /\ Confirmed

LEMMA InitInv == Init => Inv
<1> SUFFICES ASSUME Init PROVE Inv
  OBVIOUS
<1>1. TypeOK
  <2>1. /\ filter \in [Options -> BOOLEAN] /\ applied = filter
        /\ shown \in Seq(Posts) /\ tags \in Tags
    BY DEF Init, Tags, Sorts
  <2> QED
    BY <2>1 DEF Init, TypeOK, Sorts
<1> QED
  BY <1>1 DEF Init, Inv, Selection, Confirmed

\* The list that is made when the tab is shown
LEMMA MadeList ==
    ASSUME Inv, ReplaceForumTab, mForum' \in Seq(Posts), mForum' # None,
           IsInjective(mForum')
    PROVE  /\ shown' \in Seq(Posts) /\ IsInjective(shown')
           /\ applied' = filter /\ tags'.sort = sort /\ tags' \in Tags
           /\ Range(shown') =
                 {p \in Range(mForum') : Selected(p, filter)}
           /\ Sorted(shown', sort)
<1>1. PICK posts \in Seq(Posts) : posts = mForum'
  OBVIOUS
<1>2. /\ FilterForum(posts, filter) \in Seq(Posts)
      /\ IsInjective(FilterForum(posts, filter))
      /\ Range(FilterForum(posts, filter)) =
            {p \in Range(posts) : Selected(p, filter)}
  BY <1>1, Filtered
<1>3. PICK s \in Seq(Posts) : s = FilterForum(posts, filter)
  BY <1>2
<1>4. /\ SortForum(s, sort) \in Seq(Posts)
      /\ IsInjective(SortForum(s, sort))
      /\ Range(SortForum(s, sort)) = Range(s)
      /\ Sorted(SortForum(s, sort), sort)
  BY <1>2, <1>3, SortedForum
<1>5. shown' = SortForum(s, sort)
  BY <1>1, <1>3 DEF ReplaceForumTab
<1>6. applied' = filter /\ tags'.sort = sort /\ tags' \in Tags
  BY DEF ReplaceForumTab, EditTags, Tags, Inv, TypeOK
<1> QED
  BY <1>1, <1>2, <1>3, <1>4, <1>5, <1>6

\* The list that is made when a dialog is answered
LEMMA AnsweredList ==
    ASSUME Inv, NEW f \in [Options -> BOOLEAN], dialog # "none",
           ReplaceForumFragment(f, choice)
    PROVE  Inv'
<1> USE DEF ReplaceForumFragment
<1>1. tab /\ mForum # None /\ mForum \in Seq(Posts) /\ IsInjective(mForum)
  BY DEF Inv, TypeOK, Selection, Confirmed
<1>2. /\ shown' \in Seq(Posts) /\ IsInjective(shown')
      /\ Range(shown') = {p \in Range(mForum) : Selected(p, f)}
  BY <1>1, Filtered
<1>3. tags' \in Tags
  BY DEF EditTags, Tags, Inv, TypeOK
<1>4. TypeOK'
  BY <1>2, <1>3 DEF Inv, TypeOK
<1>5. Selection'
  BY <1>1, <1>2 DEF Selection
<1>6. Confirmed'
  BY DEF Confirmed
<1> QED
  BY <1>4, <1>5, <1>6 DEF Inv

\* Neither the collection nor the list changes.
LEMMA SameList ==
    ASSUME Inv, UNCHANGED <<mForum, shown, applied>>, tab' => tab
    PROVE  Selection'
  BY DEF Inv, Selection

LEMMA NextInv == Inv /\ [Next]_vars => Inv'
<1> SUFFICES ASSUME Inv, [Next]_vars PROVE Inv'
  OBVIOUS
<1>0. TypeOK /\ Selection /\ Confirmed
  BY DEF Inv
<1>1. CASE ServerChanges
  <2>1. TypeOK' /\ Confirmed'
    BY <1>0, <1>1 DEF ServerChanges, TypeOK, Confirmed
  <2> QED
    BY <1>1, <2>1, SameList DEF ServerChanges, Inv
<1>2. CASE Repopulate
  <2>1. /\ mForum' \in Seq(Posts) /\ IsInjective(mForum') /\ mForum' # None
    BY <1>0, <1>2, Ordered, ListAssumption DEF Repopulate, TypeOK
  <2>2. Confirmed'
    <3>1. CASE tab
      BY <1>0, <1>2, <3>1
         DEF Repopulate, ReplaceForumTab, Confirmed, TypeOK
    <3>2. CASE ~tab
      BY <1>0, <1>2, <3>2 DEF Repopulate, Confirmed, TypeOK
    <3> QED
      BY <3>1, <3>2
  <2>3. CASE tab
    <3>1. /\ shown' \in Seq(Posts) /\ IsInjective(shown')
          /\ applied' = filter /\ tags' \in Tags
          /\ Range(shown') = {p \in Range(mForum') : Selected(p, filter)}
      BY <1>2, <2>1, <2>3, MadeList DEF Repopulate
    <3>2. TypeOK'
      BY <1>0, <1>2, <2>1, <3>1 DEF Repopulate, TypeOK
    <3>3. Selection'
      BY <1>2, <2>1, <3>1 DEF Repopulate, Selection
    <3> QED
      BY <2>2, <3>2, <3>3 DEF Inv
  <2>4. CASE ~tab
    <3>1. TypeOK' /\ Selection'
      BY <1>0, <1>2, <2>1, <2>4 DEF Repopulate, TypeOK, Selection
    <3> QED
      BY <2>2, <3>1 DEF Inv
  <2> QED
    BY <2>3, <2>4
<1>3. CASE TapForum
  <2>1. /\ mForum' \in Seq(Posts) /\ IsInjective(mForum') /\ mForum' # None
        /\ mForum' = mForum
    BY <1>0, <1>3 DEF TapForum, TypeOK, Selection
  <2>2. /\ shown' \in Seq(Posts) /\ IsInjective(shown')
        /\ applied' = filter /\ tags' \in Tags
        /\ Range(shown') = {p \in Range(mForum') : Selected(p, filter)}
    BY <1>3, <2>1, MadeList DEF TapForum
  <2>3. TypeOK'
    BY <1>0, <1>3, <2>1, <2>2 DEF TapForum, TypeOK
  <2>4. Selection'
    BY <1>3, <2>1, <2>2 DEF TapForum, Selection
  <2>5. Confirmed'
    BY <1>0, <1>3, <2>2 DEF TapForum, Confirmed
  <2> QED
    BY <2>3, <2>4, <2>5 DEF Inv
<1>4. CASE TapOtherTab
  <2>1. TypeOK' /\ Confirmed'
    BY <1>0, <1>4 DEF TapOtherTab, TypeOK, Confirmed
  <2> QED
    BY <1>4, <2>1, SameList DEF TapOtherTab, Inv
<1>5. ASSUME NEW d \in {"filter", "sort"}, OpenDialog(d) PROVE Inv'
  <2>1. TypeOK' /\ Confirmed'
    BY <1>0, <1>5 DEF OpenDialog, TypeOK, Confirmed
  <2> QED
    BY <1>5, <2>1, SameList DEF OpenDialog, Inv
<1>6. ASSUME NEW o \in Options, Tick(o) PROVE Inv'
  <2>1. TypeOK' /\ Confirmed'
    BY <1>0, <1>6 DEF Tick, TypeOK, Confirmed
  <2> QED
    BY <1>6, <2>1, SameList DEF Tick, Inv
<1>7. ASSUME NEW order \in Sorts, PickSort(order) PROVE Inv'
  <2>1. TypeOK' /\ Confirmed'
    BY <1>0, <1>7 DEF PickSort, TypeOK, Confirmed
  <2> QED
    BY <1>7, <2>1, SameList DEF PickSort, Inv
<1>8. CASE ApplyFilter
  BY <1>0, <1>8, AnsweredList DEF ApplyFilter, TypeOK
<1>9. CASE SelectAll
  <2>1. [o \in Options |-> TRUE] \in [Options -> BOOLEAN]
    OBVIOUS
  <2> QED
    BY <1>9, <2>1, AnsweredList DEF SelectAll
<1>10. CASE ApplySort
  BY <1>0, <1>10, AnsweredList DEF ApplySort, TypeOK
<1>11. CASE CancelFilter
  <2>1. TypeOK' /\ Confirmed'
    BY <1>0, <1>11
       DEF CancelFilter, CloseDialog, Untouched, TypeOK, Confirmed
  <2> QED
    BY <1>11, <2>1, SameList DEF CancelFilter, Inv
<1>12. CASE CancelSort
  <2>1. TypeOK' /\ Confirmed'
    BY <1>0, <1>12 DEF CancelSort, CloseDialog, TypeOK, Confirmed
  <2> QED
    BY <1>12, <2>1, SameList DEF CancelSort, Inv
<1>13. CASE Dismiss
  <2>1. TypeOK' /\ Confirmed'
    BY <1>0, <1>13 DEF Dismiss, CloseDialog, Untouched, TypeOK, Confirmed
  <2> QED
    BY <1>13, <2>1, SameList DEF Dismiss, Inv
<1>14. CASE UNCHANGED vars
  BY <1>0, <1>14 DEF vars, Inv, TypeOK, Selection, Confirmed
<1> QED
  BY <1>1, <1>2, <1>3, <1>4, <1>5, <1>6, <1>7, <1>8, <1>9, <1>10, <1>11,
     <1>12, <1>13, <1>14 DEF Next

LEMMA Invariant == Spec => []Inv
  BY InitInv, NextInv, PTL DEF Spec

-----------------------------------------------------------------------------

\* The forum tab shows every post that belongs to the applied filter, once,
\* and no other, for any posts, leagues and categories: filterForumCollection
\* regroups the posts and sortForumCollection moves them, and neither loses
\* or doubles one.
THEOREM ShowsSelected == Spec => []ShownIsSelected
<1>1. Inv => ShownIsSelected
  BY Counted DEF Inv, TypeOK, Selection, ShownIsSelected
<1> QED
  BY <1>1, Invariant, PTL

\* The open tab was made from what is ticked and chosen, unless a changed
\* dialog was left without Apply or a reload met an open dialog.
THEOREM ChoicesApply == Spec => []ChoiceIsApplied
<1>1. Inv => ChoiceIsApplied
  BY DEF Inv, Confirmed, ChoiceIsApplied
<1> QED
  BY <1>1, Invariant, PTL

\* Opening the tab and reloading the forum leave the list in the order that
\* the sort tag names, for any posts.
THEOREM ReloadIsSorted == Spec => ReloadSorts
<1>1. Inv /\ [Next]_vars =>
         [(tab' /\ ~tab) \/ (tab' /\ mForum' # mForum)
             => Sorted(shown', tags'.sort)]_vars
  <2> SUFFICES ASSUME Inv, Next,
                      (tab' /\ ~tab) \/ (tab' /\ mForum' # mForum)
               PROVE  Sorted(shown', tags'.sort)
    OBVIOUS
  <2>1. /\ mForum' \in Seq(Posts) \cup {None}
        /\ mForum' # None => IsInjective(mForum')
    BY NextInv DEF Inv, TypeOK, Selection
  <2>2. CASE Repopulate
    <3>1. tab /\ mForum' # None
      BY <2>2, Ordered, ListAssumption DEF Repopulate, Inv, TypeOK
    <3> QED
      BY <2>1, <2>2, <3>1, MadeList DEF Repopulate
  <2>3. CASE TapForum
    BY <2>1, <2>3, MadeList DEF TapForum
  <2>4. CASE ~Repopulate /\ ~TapForum
    BY <2>4 DEF Next, ServerChanges, TapOtherTab, OpenDialog, Tick, PickSort,
                ApplyFilter, SelectAll, ApplySort, ReplaceForumFragment,
                CancelFilter, CancelSort, Dismiss
  <2> QED
    BY <2>2, <2>3, <2>4
<1> QED
  BY <1>1, Invariant, PTL DEF Spec, ReloadSorts
=============================================================================
