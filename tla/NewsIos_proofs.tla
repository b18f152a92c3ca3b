---------------------------- MODULE NewsIos_proofs ---------------------------
(***************************************************************************)
(* Theorems about NewsIos, for any number of sign-ins and whatever         *)
(* articles the server answers: screens never pile up, and the list is     *)
(* always that of the loading screen under it.                             *)
(***************************************************************************)
EXTENDS NewsIos, TLAPS

Screens == {"login", "alert", "signUp", "load", "news", "detail"}

\* The few chains of screens that there are.
Chain ==
    /\ stack \in Seq(Screens)
    /\ Len(stack) \in 1..4
    /\ stack[1] = "login"
    /\ Len(stack) > 1 => stack[2] \in {"alert", "signUp", "load"}
    /\ Len(stack) > 2 => stack[2] = "load" /\ stack[3] = "news"
    /\ Len(stack) > 3 => stack[4] = "detail"

\* The sign-ins that were answered number the instances of LoadVC; each waits
\* for its news or for its segue, never for both.
Numbers ==
    /\ asked \in 0..MaxLoads /\ signIns \in 0..asked
    /\ fetches \subseteq 1..(asked - signIns)
    /\ segues \subseteq 1..(asked - signIns)
    /\ load \in 0..(asked - signIns)
    /\ fetches \cap segues = {}

\* What a loading screen on the stack presupposes, and a list over it.
Behind ==
    /\ Len(stack) > 1 /\ stack[2] = "load" => signedIn /\ load # 0
    /\ Len(stack) > 2 => /\ news = got[load]
                         /\ load \notin fetches \cup segues

\* The articles that are kept have titles.
Articles ==
    /\ DOMAIN got = Loads
    /\ \A i \in Loads : \A k \in DOMAIN got[i] : IsNews(got[i][k])
    /\ \A k \in DOMAIN news : IsNews(news[k])
    /\ detail # None => IsNews(detail)

Flags ==
    /\ signedIn \in BOOLEAN /\ crashed \in BOOLEAN
    /\ ended \subseteq Loads

Inv == Chain /\ Numbers /\ Behind /\ Articles /\ Flags

USE NewsIosAssumption

-----------------------------------------------------------------------------
(* The chain of screens *)

\* The screen on top tells how many there are.
LEMMA TopOf ==
    ASSUME Chain
    PROVE  /\ Top = stack[Len(stack)]
           /\ Top = "login" <=> Len(stack) = 1
           /\ Top = "load" => Len(stack) = 2 /\ stack[2] = "load"
           /\ Top = "news" <=> Len(stack) = 3
           /\ Top = "detail" <=> Len(stack) = 4
<1>1. Top = stack[Len(stack)]
  BY DEF Top, Last
<1> QED
  BY <1>1 DEF Chain

\* Presenting a screen over the one on top.
LEMMA Push ==
    ASSUME Chain, NEW s \in Screens, stack' = Append(stack, s),
           \/ Len(stack) = 1 /\ s \in {"alert", "signUp", "load"}
           \/ Len(stack) = 2 /\ stack[2] = "load" /\ s = "news"
           \/ Len(stack) = 3 /\ s = "detail"
    PROVE  /\ Chain'
           /\ Len(stack') = Len(stack) + 1
           /\ stack'[Len(stack')] = s
           /\ \A i \in 1..Len(stack) : stack'[i] = stack[i]
<1>1. /\ stack' \in Seq(Screens)
      /\ Len(stack') = Len(stack) + 1
      /\ stack'[Len(stack) + 1] = s
      /\ \A i \in 1..Len(stack) : stack'[i] = stack[i]
  BY DEF Chain
<1> QED
  BY <1>1 DEF Chain

\* Taking away the screen on top.
LEMMA Pop ==
    ASSUME Chain, Len(stack) > 1, stack' = Front(stack)
    PROVE  /\ Chain'
           /\ Len(stack') = Len(stack) - 1
           /\ \A i \in 1..Len(stack') : stack'[i] = stack[i]
<1>1. stack' = SubSeq(stack, 1, Len(stack) - 1)
  BY DEF Front
<1>2. /\ stack' \in Seq(Screens)
      /\ Len(stack') = Len(stack) - 1
      /\ \A i \in 1..Len(stack') : stack'[i] = stack[i]
  BY <1>1 DEF Chain
<1> QED
  BY <1>2 DEF Chain

\* No two screens of a chain are of one kind.
LEMMA ChainIsOneOfEach ==
    ASSUME Chain
    PROVE  \A i, j \in DOMAIN stack : stack[i] = stack[j] => i = j
<1>1. DOMAIN stack = 1..Len(stack)
  BY DEF Chain
<1> QED
  BY <1>1 DEF Chain

\* The list is on the chain only as its third screen.
LEMMA NewsIsThird ==
    ASSUME Chain, "news" \in Range(stack)
    PROVE  Len(stack) > 2
<1>1. PICK i \in DOMAIN stack : stack[i] = "news"
  BY DEF Range
<1>2. i \in 1..Len(stack)
  BY DEF Chain
<1> QED
  BY <1>1, <1>2 DEF Chain

-----------------------------------------------------------------------------
(* The steps *)

\* The answer to a sign-in, with an instance that no one has waited for.
LEMMA SignedInKeeps ==
    ASSUME Inv, OnSignedIn
    PROVE  Inv'
<1>1. /\ signIns' = signIns - 1 /\ signIns > 0 /\ signedIn' = TRUE
      /\ UNCHANGED <<segues, got, news, detail, crashed, asked, ended>>
  BY DEF OnSignedIn
<1>2. Articles' /\ Flags'
  BY <1>1 DEF Inv, Articles, Flags, IsNews
<1>3. CASE Presents("login")
  <2>1. /\ load' = asked - signIns'
        /\ stack' = Append(stack, "load")
        /\ fetches' = fetches \cup {load'}
    BY <1>3 DEF OnSignedIn
  <2>2. Len(stack) = 1
    BY <1>3, TopOf DEF Inv, Presents
  <2>3. Chain' /\ Len(stack') = 2
    BY <2>1, <2>2, Push DEF Inv, Screens
  <2>4. Numbers'
    BY <1>1, <2>1 DEF Inv, Numbers
  <2>5. Behind'
    BY <1>1, <2>1, <2>3 DEF Inv, Behind, Numbers
  <2> QED
    BY <1>2, <2>3, <2>4, <2>5 DEF Inv
<1>4. CASE ~Presents("login")
  <2>1. UNCHANGED <<load, stack, fetches>>
    BY <1>4 DEF OnSignedIn
  <2>2. Numbers'
    BY <1>1, <2>1 DEF Inv, Numbers
  <2>3. Chain' /\ Behind'
    BY <1>1, <2>1 DEF Inv, Chain, Behind
  <2> QED
    BY <1>2, <2>2, <2>3 DEF Inv
<1> QED
  BY <1>3, <1>4

\* A tap on the button, a refusal or the sign-up screen.
LEMMA LoginKeeps ==
    ASSUME Inv, LoginTap \/ OnRefused \/ SignUpTap
    PROVE  Inv'
<1>1. /\ UNCHANGED <<signedIn, load, fetches, segues, got, news, detail,
                     crashed, ended>>
      /\ \/ asked' = asked + 1 /\ signIns' = signIns + 1 /\ asked < MaxLoads
         \/ asked' = asked /\ signIns' = signIns
         \/ asked' = asked /\ signIns' = signIns - 1 /\ signIns > 0
      /\ \/ stack' = stack
         \/ /\ Presents("login")
            /\ \E s \in {"alert", "signUp"} : stack' = Append(stack, s)
  BY DEF LoginTap, OnRefused, SignUpTap, work
<1>2. Articles' /\ Flags'
  BY <1>1 DEF Inv, Articles, Flags, IsNews
<1>3. Numbers'
  BY <1>1 DEF Inv, Numbers
<1>4. CASE stack' = stack
  <2>1. Chain' /\ Behind'
    BY <1>1, <1>4 DEF Inv, Chain, Behind
  <2> QED
    BY <1>2, <1>3, <2>1 DEF Inv
<1>5. CASE stack' # stack
  <2>1. PICK s \in {"alert", "signUp"} : stack' = Append(stack, s)
    BY <1>1, <1>5
  <2>2. Len(stack) = 1
    BY <1>1, <1>5, TopOf DEF Inv, Presents
  <2>3. Chain' /\ Len(stack') = 2 /\ stack'[2] = s
    BY <2>1, <2>2, Push DEF Inv, Screens
  <2>4. Behind'
    BY <2>3 DEF Behind
  <2> QED
    BY <1>2, <1>3, <2>3, <2>4 DEF Inv
<1> QED
  BY <1>4, <1>5

\* A screen is taken away: what is under a list that stays has not changed.
LEMMA DismissKeeps ==
    ASSUME Inv, Dismiss
    PROVE  Inv'
<1>1. /\ Top \in {"alert", "load", "news", "detail"}
      /\ stack' = Front(stack)
      /\ load' = IF Top = "load" THEN 0 ELSE load
      /\ news' = IF Top = "news" THEN <<>> ELSE news
      /\ detail' = None
      /\ UNCHANGED <<signedIn, signIns, fetches, segues, got, crashed, asked,
                     ended>>
  BY DEF Dismiss, work
<1>2. Len(stack) > 1
  BY <1>1, TopOf DEF Inv, Chain
<1>3. /\ Chain' /\ Len(stack') = Len(stack) - 1
      /\ \A i \in 1..Len(stack') : stack'[i] = stack[i]
  BY <1>1, <1>2, Pop DEF Inv
<1>4. Numbers'
  BY <1>1 DEF Inv, Numbers
<1>5. Flags'
  BY <1>1 DEF Inv, Flags
<1>6. Articles'
  BY <1>1 DEF Inv, Articles, IsNews
<1>7. Behind'
  <2>0. Chain /\ Len(stack) \in 1..4
    BY DEF Inv, Chain
  <2>1. Len(stack') > 1 => Top # "load"
    BY <1>3, <2>0, TopOf
  <2>2. Len(stack') > 2 => Top # "news"
    BY <1>3, <2>0, TopOf
  <2>3. /\ Len(stack') > 1 => stack'[2] = stack[2]
        /\ Len(stack') > 1 => Len(stack) > 1
        /\ Len(stack') > 2 => Len(stack) > 2
    BY <1>3 DEF Inv, Chain
  <2> QED
    BY <1>1, <2>1, <2>2, <2>3, <1>3 DEF Inv, Behind, Chain
<1> QED
  BY <1>3, <1>4, <1>5, <1>6, <1>7 DEF Inv

\* A new process.
LEMMA RestartKeeps ==
    ASSUME Inv, Restart
    PROVE  Inv'
<1>1. Chain' /\ Len(stack') = 1
  BY DEF Restart, Chain, Screens
<1>2. Numbers'
  BY DEF Restart, Inv, Numbers
<1>3. Articles' /\ Flags'
  <2>1. /\ DOMAIN got' = Loads /\ DOMAIN news' = {}
        /\ \A i \in Loads : DOMAIN got'[i] = {}
        /\ detail' = None
    BY DEF Restart
  <2>2. Articles'
    BY <2>1, Zenon DEF Articles
  <2>3. Flags'
    BY DEF Restart, Inv, Flags
  <2> QED
    BY <2>2, <2>3
<1>4. Behind'
  BY <1>1 DEF Behind
<1> QED
  BY <1>1, <1>2, <1>3, <1>4 DEF Inv

\* An answer with articles: the instance that got them has no list yet.
LEMMA NewsKeeps ==
    ASSUME Inv, NEW i \in Loads, NEW items \in Answers, OnNews(i, items)
    PROVE  Inv'
<1>1. /\ i \in fetches /\ fetches' = fetches \ {i}
      /\ UNCHANGED <<signedIn, stack, signIns, load, news, detail, asked,
                     ended>>
  BY DEF OnNews
<1>2. Chain'
  BY <1>1 DEF Inv, Chain
<1>3. CASE \E k \in DOMAIN items : items[k].title = None
  <2>1. crashed' = TRUE /\ UNCHANGED <<got, segues>>
    BY <1>3 DEF OnNews
  <2>2. Numbers'
    BY <1>1, <2>1 DEF Inv, Numbers
  <2>3. Behind'
    BY <1>1, <2>1 DEF Inv, Behind
  <2>4. Articles' /\ Flags'
    BY <1>1, <2>1 DEF Inv, Articles, Flags, IsNews
  <2> QED
    BY <1>2, <2>2, <2>3, <2>4 DEF Inv
<1>4. CASE \A k \in DOMAIN items : items[k].title # None
  <2>1. /\ got' = [got EXCEPT ![i] = Convert(items)]
        /\ segues' = segues \cup {i} /\ crashed' = crashed
    BY <1>4 DEF OnNews
  <2>2. Numbers'
    BY <1>1, <2>1 DEF Inv, Numbers
  <2>3. Len(stack) > 2 => i # load
    BY <1>1 DEF Inv, Behind
  <2>4. Len(stack) > 2 => got'[load] = got[load]
    BY <2>1, <2>3
  <2>5. Behind'
    BY <1>1, <2>1, <2>3, <2>4 DEF Inv, Behind
  <2>6. \A k \in DOMAIN Convert(items) : IsNews(Convert(items)[k])
    <3>1. items \in Seq(Item)
      OBVIOUS
    <3>2. \A k \in DOMAIN items :
             items[k].title \in Titles \cup {None}
      <4>1. \A k \in DOMAIN items : items[k] \in Item
        BY <3>1
      <4>2. \A item \in Item : item.title \in Titles \cup {None}
        BY DEF Item
      <4> QED
        BY <4>1, <4>2
    <3>3. /\ DOMAIN Convert(items) = DOMAIN items
          /\ \A k \in DOMAIN items :
                /\ Convert(items)[k].title = items[k].title
                /\ Convert(items)[k].timestamp = items[k].title
      BY Zenon DEF Convert
    <3> QED
      BY <1>4, <3>2, <3>3 DEF IsNews
  <2>7. Articles' /\ Flags'
    BY <1>1, <2>1, <2>6 DEF Inv, Articles, Flags, IsNews
  <2> QED
    BY <1>2, <2>2, <2>5, <2>7 DEF Inv
<1> QED
  BY <1>3, <1>4

\* A failed load.
LEMMA NoNewsKeeps ==
    ASSUME Inv, NEW i \in Loads, OnNoNews(i)
    PROVE  Inv'
<1>1. /\ fetches' = fetches \ {i} /\ ended' = ended \cup {i}
      /\ UNCHANGED <<signedIn, stack, signIns, load, segues, got, news, detail,
                     crashed, asked>>
  BY DEF OnNoNews
<1>2. Chain' /\ Behind'
  BY <1>1 DEF Inv, Chain, Behind
<1>3. Numbers'
  BY <1>1 DEF Inv, Numbers
<1>4. Articles' /\ Flags'
  BY <1>1 DEF Inv, Articles, Flags, IsNews
<1> QED
  BY <1>2, <1>3, <1>4 DEF Inv

\* The segue of an instance that is still there hands its own news on; after it
\* the instance waits for nothing.
LEMMA MainKeeps ==
    ASSUME Inv, NEW i \in Loads, OnMain(i)
    PROVE  Inv'
<1>1. /\ i \in segues /\ segues' = segues \ {i}
      /\ UNCHANGED <<signedIn, signIns, load, fetches, got, detail, crashed,
                     asked, ended>>
  BY DEF OnMain
<1>2. Numbers' /\ Flags'
  BY <1>1 DEF Inv, Numbers, Flags
<1>3. CASE load = i /\ Presents("load")
  <2>1. stack' = Append(stack, "news") /\ news' = got[i]
    BY <1>3 DEF OnMain
  <2>2. Len(stack) = 2 /\ stack[2] = "load"
    BY <1>3, TopOf DEF Inv, Presents
  <2>3. Chain' /\ stack'[2] = stack[2]
    BY <2>1, <2>2, Push DEF Inv, Screens
  <2>4. load \notin fetches' \cup segues'
    BY <1>1, <1>3 DEF Inv, Numbers
  <2>5. Behind'
    BY <1>1, <1>3, <2>1, <2>2, <2>3, <2>4 DEF Inv, Behind
  <2>6. Articles'
    BY <1>1, <2>1 DEF Inv, Articles, IsNews
  <2> QED
    BY <1>2, <2>3, <2>5, <2>6 DEF Inv
<1>4. CASE ~(load = i /\ Presents("load"))
  <2>1. UNCHANGED <<stack, news>>
    BY <1>4 DEF OnMain
  <2>2. Chain' /\ Behind'
    BY <1>1, <2>1 DEF Inv, Chain, Behind
  <2>3. Articles'
    BY <1>1, <2>1 DEF Inv, Articles, IsNews
  <2> QED
    BY <1>2, <2>2, <2>3 DEF Inv
<1> QED
  BY <1>3, <1>4

\* An article of the list.
LEMMA RowKeeps ==
    ASSUME Inv, NEW k \in DOMAIN news, RowTap(k)
    PROVE  Inv'
<1>1. /\ stack' = Append(stack, "detail") /\ detail' = news[k]
      /\ UNCHANGED <<signedIn, signIns, fetches, segues, load, got, news,
                     crashed, asked, ended>>
  BY DEF RowTap, work
<1>2. Len(stack) = 3
  BY TopOf DEF RowTap, Inv, Presents
<1>3. Chain' /\ stack'[2] = stack[2]
  BY <1>1, <1>2, Push DEF Inv, Screens
<1>4. Numbers' /\ Flags'
  BY <1>1 DEF Inv, Numbers, Flags
<1>5. Articles'
  BY <1>1 DEF Inv, Articles, IsNews
<1>6. Behind'
  BY <1>1, <1>2, <1>3 DEF Inv, Behind
<1> QED
  BY <1>3, <1>4, <1>5, <1>6 DEF Inv

\* Every step keeps the invariant.
LEMMA NextKeeps ==
    ASSUME Inv, [Next]_vars
    PROVE  Inv'
<1>1. CASE UNCHANGED vars
  <2>1. Chain' /\ Numbers' /\ Behind'
    BY <1>1 DEF Inv, vars, Chain, Numbers, Behind
  <2>2. Articles' /\ Flags'
    BY <1>1 DEF Inv, vars, Articles, Flags, IsNews
  <2> QED
    BY <2>1, <2>2 DEF Inv
<1>2. CASE Next
  BY <1>2, SignedInKeeps, LoginKeeps, DismissKeeps, RestartKeeps, NewsKeeps,
     NoNewsKeeps, MainKeeps, RowKeeps DEF Next
<1> QED
  BY <1>1, <1>2

-----------------------------------------------------------------------------

\* The invariant holds in every behaviour.
THEOREM Invariant == Spec => []Inv
<1>1. Init => Inv
  <2> SUFFICES ASSUME Init PROVE Inv
    OBVIOUS
  <2>1. Chain /\ Len(stack) = 1
    BY DEF Init, Chain, Screens
  <2>2. Numbers
    BY DEF Init, Numbers
  <2>3. /\ DOMAIN got = Loads /\ DOMAIN news = {}
        /\ \A i \in Loads : DOMAIN got[i] = {}
        /\ detail = None
    BY DEF Init
  <2>4. Articles
    BY <2>3, Zenon DEF Articles
  <2>5. Flags
    BY DEF Init, Flags
  <2> QED
    BY <2>1, <2>2, <2>4, <2>5 DEF Inv, Behind
<1>2. Inv /\ [Next]_vars => Inv'
  BY NextKeeps
<1> QED
  BY <1>1, <1>2, PTL DEF Spec

\* However many sign-ins are under way and in whatever order they are answered,
\* no screen lies over another of its kind, and nobody who has not signed in
\* sees the news.
THEOREM ScreensNeverPileUp == Spec => []OneOfEach
<1>1. Inv => OneOfEach
  <2> SUFFICES ASSUME Inv PROVE OneOfEach
    OBVIOUS
  <2>1. TypeOK
    BY DEF Inv, TypeOK, Chain, Screens, Numbers, Articles, Flags, Loads
  <2>2. \A i, j \in DOMAIN stack : stack[i] = stack[j] => i = j
    BY ChainIsOneOfEach DEF Inv
  <2> QED
    BY <2>1, <2>2 DEF OneOfEach, Inv, Behind
<1> QED
  BY <1>1, Invariant, PTL

\* The list is always what the loading screen under it was sent: the answer for
\* one that was swept away is never shown, nor is a list replaced under its
\* reader.
THEOREM ListBelongsToLoad == Spec => []NewsOfThisLoad
<1>1. Inv => NewsOfThisLoad
  <2> SUFFICES ASSUME Inv, "news" \in Range(stack)
               PROVE  load # 0 /\ news = got[load]
    BY DEF NewsOfThisLoad
  <2>1. Len(stack) > 2
    BY NewsIsThird DEF Inv
  <2> QED
    BY <2>1 DEF Inv, Behind, Chain
<1> QED
  BY <1>1, Invariant, PTL
=============================================================================
