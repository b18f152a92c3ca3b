-------------------------- MODULE CoreScreen_proofs --------------------------
(***************************************************************************)
(* Theorems about CoreScreen: the screen is uncovered only once everything *)
(* is loaded, and no tab is ever opened on a missing list, for any number  *)
(* of users, leagues and late or lost answers, unless the instance of the  *)
(* activity was made by turning the device; even then it waits for the     *)
(* forum.  A user who waits has one chain of requests and sees no crash.   *)
(***************************************************************************)
EXTENDS CoreScreen, TLAPS, SequenceTheorems

\* What each pending request of the chain presupposes.
TasksReady ==
    \A i \in DOMAIN tasks :
        /\ tasks[i].mine
        /\ mUser # None
        /\ tasks[i].kind \in Tables => mNews /\ mForum
        /\ tasks[i].kind = "standings" => tables["matches"] # None

ForumsReady ==
    /\ forums["POPULATE_FORUM"] > 0 => mUser # None /\ mNews
    /\ forums["REPOPULATE_FORUM"] > 0 => ~overlay

TabReady == tab # "news" => ~overlay

LoadInv ==
    /\ TypeOK
    /\ ~turned
    /\ TasksReady
    /\ ForumsReady
    /\ TabReady
    /\ ShownIsLoaded
    /\ NeverNull

-----------------------------------------------------------------------------
(* Sequences of tasks *)

\* Appending a task adds exactly that task.
LEMMA AppendTask ==
    ASSUME NEW s \in Seq(Task), NEW k \in Task
    PROVE  /\ Append(s, k) \in Seq(Task)
           /\ \A i \in DOMAIN Append(s, k) :
                 \/ i \in DOMAIN s /\ Append(s, k)[i] = s[i]
                 \/ Append(s, k)[i] = k
<1>1. Append(s, k) \in Seq(Task)
  OBVIOUS
<1>2. \A i \in DOMAIN Append(s, k) :
         \/ i \in DOMAIN s /\ Append(s, k)[i] = s[i]
         \/ Append(s, k)[i] = k
  BY AppendProperties
<1> QED
  BY <1>1, <1>2

\* Every task of the tail was there before.
LEMMA TailTask ==
    ASSUME NEW s \in Seq(Task), s # <<>>
    PROVE  /\ Head(s) \in Task
           /\ 1 \in DOMAIN s /\ Head(s) = s[1]
           /\ Tail(s) \in Seq(Task)
           /\ \A i \in DOMAIN Tail(s) :
                 i + 1 \in DOMAIN s /\ Tail(s)[i] = s[i + 1]
  BY HeadTailProperties

-----------------------------------------------------------------------------

\* A fresh instance satisfies the invariant.
LEMMA InitLoad == Init => LoadInv
<1> SUFFICES ASSUME Init PROVE LoadInv
  OBVIOUS
<1>1. infos \in [Users -> Nat] /\ forums \in [ForumTags -> Nat]
      /\ \A t \in ForumTags : forums[t] = 0
  BY DEF Init
<1>2. /\ sel \in [Tables -> 1..Leagues]
      /\ tables \in [Tables -> 0..Leagues \cup {None}]
  BY CoreAssumption DEF Init, FreshSel, FreshTables
<1>3. /\ screen = "core" /\ started = TRUE /\ overlay = TRUE
      /\ tab = "news" /\ mUser = None /\ mNews = FALSE /\ mForum = FALSE
      /\ tasks = <<>> /\ crash = "none" /\ lost = {} /\ turned = FALSE
      /\ hasty = FALSE
      /\ empty \in BOOLEAN /\ taps \in Nat
  BY CoreAssumption DEF Init
<1>4. tasks \in Seq(Task) /\ DOMAIN tasks = {}
  BY <1>3
<1>5. TypeOK
  BY <1>1, <1>2, <1>3, <1>4 DEF TypeOK, Screens, Tabs
<1> QED
  BY <1>1, <1>3, <1>4, <1>5 DEF LoadInv, TasksReady, ForumsReady, TabReady,
                                ShownIsLoaded, NeverNull, ForumTags

\* What a step that shows a fragment leaves behind, when the list is there.
LEMMA Shown ==
    ASSUME NEW t \in Tabs, ReplaceFragment(t),
           t \in Tables => tables'[t] # None,
           overlay \in BOOLEAN
    PROVE  /\ crash' \in {"none", "index", "state"}
           /\ overlay' \in BOOLEAN
           /\ ~overlay => ~overlay'
  BY DEF ReplaceFragment, Tabs, Tables

\* The same without the list: the types stay.
LEMMA ShownType ==
    ASSUME NEW t \in Tabs, ReplaceFragment(t), overlay \in BOOLEAN
    PROVE  /\ crash' \in {"none", "null", "index", "state"}
           /\ overlay' \in BOOLEAN
  BY DEF ReplaceFragment

-----------------------------------------------------------------------------
(* The answers *)

\* The chain's answers keep the invariant.
LEMMA UserInfoLoad ==
    ASSUME LoadInv, NEW u \in Users, UserAnswer(u) \/ AskAuthor(u)
    PROVE  LoadInv'
<1> USE CoreAssumption
<1>1. CASE OnUserInfo(u)
  <2>1. NewTask("news") \in Task /\ NewTask("news").mine
        /\ NewTask("news").kind = "news"
    BY DEF NewTask, Task
  <2>2. /\ tasks' \in Seq(Task)
        /\ \A i \in DOMAIN tasks' :
              \/ i \in DOMAIN tasks /\ tasks'[i] = tasks[i]
              \/ tasks'[i] = NewTask("news")
    BY <1>1, <2>1, AppendTask DEF OnUserInfo, LoadInv, TypeOK
  <2>3. infos' \in [Users -> Nat]
    BY <1>1 DEF OnUserInfo, LoadInv, TypeOK
  <2>4. TypeOK'
    BY <1>1, <2>2, <2>3 DEF OnUserInfo, LoadInv, TypeOK, view
  <2>5. mUser' # None
        /\ UNCHANGED <<turned, hasty, mNews, mForum, tables, forums, view,
                       crash>>
    BY <1>1 DEF OnUserInfo
  <2>6. TasksReady'
    BY <2>1, <2>2, <2>5 DEF LoadInv, TasksReady, Tables
  <2> QED
    BY <2>4, <2>5, <2>6
    DEF LoadInv, ForumsReady, TabReady, ShownIsLoaded, NeverNull, view
<1>2. CASE LoseUserInfo(u) \/ AskAuthor(u)
  <2>1. infos' \in [Users -> Nat]
    <3>1. infos \in [Users -> Nat]
      BY DEF LoadInv, TypeOK
    <3>2. CASE LoseUserInfo(u)
      BY <3>1, <3>2 DEF LoseUserInfo
    <3>3. CASE AskAuthor(u)
      BY <3>1, <3>3 DEF AskAuthor
    <3> QED
      BY <1>2, <3>2, <3>3
  <2>2. /\ UNCHANGED <<screen, started, turned, hasty, view, data, forums,
                       tasks, empty, crash, taps>>
        /\ lost' \subseteq {"answer", "posts"}
    BY <1>2 DEF LoseUserInfo, AskAuthor, LoadInv, TypeOK
  <2> QED
    BY <2>1, <2>2 DEF LoadInv, TypeOK, TasksReady, ForumsReady, TabReady,
                      ShownIsLoaded, NeverNull, view, data
<1> QED
  BY <1>1, <1>2 DEF UserAnswer

\* The three AsyncTasks keep the invariant.
LEMMA TasksLoad ==
    ASSUME LoadInv, TaskEnds
    PROVE  LoadInv'
<1> USE CoreAssumption
<1>1. /\ tasks \in Seq(Task) /\ tasks # <<>>
      /\ Head(tasks) \in Task /\ Head(tasks).mine /\ mUser # None
      /\ Head(tasks).kind \in Tables => mNews /\ mForum
      /\ Head(tasks).kind = "standings" => tables["matches"] # None
      /\ Tail(tasks) \in Seq(Task)
      /\ \A i \in DOMAIN Tail(tasks) :
            i + 1 \in DOMAIN tasks /\ Tail(tasks)[i] = tasks[i + 1]
  <2>1. tasks \in Seq(Task) /\ tasks # <<>>
    BY DEF TaskEnds, OnPostNews, OnPostFixtures, OnPostStandings, NextTask,
           LoadInv, TypeOK
  <2> QED
    BY <2>1, TailTask DEF LoadInv, TasksReady
<1>2. CASE OnPostNews
  <2>1. /\ tasks' = Tail(tasks) /\ mNews' = TRUE
        /\ UNCHANGED <<screen, started, turned, hasty, view, mUser, mForum,
                       tables, infos, empty, crash, lost, taps>>
        /\ forums' = [forums EXCEPT !["POPULATE_FORUM"] = @ + 1]
    BY <1>1, <1>2 DEF OnPostNews, LoadInv, TypeOK
  <2>2. /\ forums' \in [ForumTags -> Nat]
        /\ forums'["REPOPULATE_FORUM"] = forums["REPOPULATE_FORUM"]
    BY <2>1 DEF LoadInv, TypeOK, ForumTags
  <2>3. TypeOK'
    BY <1>1, <2>1, <2>2 DEF LoadInv, TypeOK, view
  <2>4. TasksReady'
    BY <1>1, <2>1 DEF LoadInv, TasksReady
  <2> QED
    BY <1>1, <2>1, <2>2, <2>3, <2>4
    DEF LoadInv, ForumsReady, TabReady, ShownIsLoaded, NeverNull, view
<1>3. CASE OnPostFixtures
  <2> DEFINE next == [Head(tasks) EXCEPT !.kind = "standings"]
  <2>0. Fetched \subseteq 0..Leagues
    BY DEF Fetched
  <2>1. PICK n \in 0..Leagues : tables' = [tables EXCEPT !["matches"] = n]
    <3>1. PICK n \in Fetched :
             tables' = IF Head(tasks).mine
                       THEN [tables EXCEPT !["matches"] = n] ELSE tables
      BY <1>3 DEF OnPostFixtures
    <3> QED
      BY <1>1, <2>0, <3>1
  <2>2. /\ tables' \in [Tables -> 0..Leagues \cup {None}]
        /\ tables'["matches"] # None
        /\ tables'["standings"] = tables["standings"]
    BY <2>1 DEF LoadInv, TypeOK, Tables
  <2>3. next \in Task /\ next.mine /\ next.kind = "standings"
    BY <1>1 DEF Task, Tables
  <2>4. /\ tasks' = Append(Tail(tasks), next)
        /\ UNCHANGED <<screen, started, turned, hasty, view, mUser, mNews,
                       mForum, infos, forums, empty, crash, lost, taps>>
        /\ mNews /\ mForum
    BY <1>1, <1>3 DEF OnPostFixtures, NextTask, Tables
  <2>5. /\ tasks' \in Seq(Task)
        /\ \A i \in DOMAIN tasks' :
              \/ i \in DOMAIN Tail(tasks) /\ tasks'[i] = Tail(tasks)[i]
              \/ tasks'[i] = next
    BY <1>1, <2>3, <2>4, AppendTask
  <2>6. TypeOK'
    BY <2>2, <2>4, <2>5 DEF LoadInv, TypeOK, view
  <2>7. TasksReady'
    <3> SUFFICES ASSUME NEW i \in DOMAIN tasks'
                 PROVE  /\ tasks'[i].mine
                        /\ mUser' # None
                        /\ tasks'[i].kind \in Tables => mNews' /\ mForum'
                        /\ tasks'[i].kind = "standings"
                              => tables'["matches"] # None
      BY DEF TasksReady
    <3>1. tasks'[i].mine
      BY <1>1, <2>3, <2>5 DEF LoadInv, TasksReady
    <3> QED
      BY <1>1, <2>2, <2>4, <3>1
  <2> QED
    BY <2>2, <2>4, <2>6, <2>7
    DEF LoadInv, ForumsReady, TabReady, ShownIsLoaded, NeverNull, view, Tables
<1>4. CASE OnPostStandings
  <2>1. PICK n \in 0..Leagues : tables' = [tables EXCEPT !["standings"] = n]
    BY <1>1, <1>4 DEF OnPostStandings, Fetched
  <2>2. /\ tables' \in [Tables -> 0..Leagues \cup {None}]
        /\ \A t \in Tables : tables'[t] # None
        /\ tables'["matches"] = tables["matches"]
    BY <1>1, <1>4, <2>1
    DEF OnPostStandings, NextTask, LoadInv, TypeOK, Tables
  <2>3. /\ tasks' = Tail(tasks) /\ UNCHANGED sel
        /\ ReplaceFragment(tab)
        /\ UNCHANGED <<screen, started, turned, hasty, tab, mUser, mNews,
                       mForum, infos, forums, empty, lost, taps>>
        /\ mNews /\ mForum
    BY <1>1, <1>4 DEF OnPostStandings, NextTask, Tables
  <2>4. /\ crash' \in {"none", "index", "state"}
        /\ overlay' \in BOOLEAN /\ (~overlay => ~overlay')
    BY <2>2, <2>3, Shown DEF LoadInv, TypeOK
  <2>5. TypeOK'
    BY <1>1, <2>2, <2>3, <2>4 DEF LoadInv, TypeOK
  <2>6. TasksReady'
    BY <1>1, <2>2, <2>3 DEF LoadInv, TasksReady, Tables
  <2> QED
    BY <1>1, <2>2, <2>3, <2>4, <2>5, <2>6
    DEF LoadInv, ForumsReady, TabReady, ShownIsLoaded, NeverNull
<1> QED
  BY <1>2, <1>3, <1>4 DEF TaskEnds

\* The answers about the forum keep the invariant.
LEMMA ForumLoad ==
    ASSUME LoadInv, NEW t \in ForumTags, PostsAnswer(t)
    PROVE  LoadInv'
<1> USE CoreAssumption
<1>1. CASE OnPopulate
  <2>1. /\ forums' = [forums EXCEPT !["POPULATE_FORUM"] = @ - 1]
        /\ forums["POPULATE_FORUM"] > 0
        /\ mForum' = TRUE
        /\ tasks' = Append(tasks, NewTask("matches"))
        /\ UNCHANGED <<screen, started, turned, hasty, view, mUser, mNews,
                       tables, infos, empty, crash, lost, taps>>
    BY <1>1 DEF OnPopulate, ForumAnswer
  <2>2. NewTask("matches") \in Task /\ NewTask("matches").mine
        /\ NewTask("matches").kind = "matches"
    BY DEF NewTask, Task, Tables
  <2>3. /\ tasks' \in Seq(Task)
        /\ \A i \in DOMAIN tasks' :
              \/ i \in DOMAIN tasks /\ tasks'[i] = tasks[i]
              \/ tasks'[i] = NewTask("matches")
    BY <2>1, <2>2, AppendTask DEF LoadInv, TypeOK
  <2>4. /\ forums' \in [ForumTags -> Nat]
        /\ forums'["REPOPULATE_FORUM"] = forums["REPOPULATE_FORUM"]
    BY <2>1 DEF LoadInv, TypeOK, ForumTags
  <2>5. mUser # None /\ mNews
    BY <2>1 DEF LoadInv, ForumsReady
  <2>6. TypeOK'
    BY <2>1, <2>3, <2>4 DEF LoadInv, TypeOK, view
  <2>7. TasksReady'
    BY <2>1, <2>2, <2>3, <2>5 DEF LoadInv, TasksReady
  <2> QED
    BY <2>1, <2>4, <2>5, <2>6, <2>7
    DEF LoadInv, ForumsReady, TabReady, ShownIsLoaded, NeverNull, view
<1>2. CASE OnRepopulate
  <2>1. /\ forums' = [forums EXCEPT !["REPOPULATE_FORUM"] = @ - 1]
        /\ forums["REPOPULATE_FORUM"] > 0
        /\ mForum' = TRUE
        /\ ReplaceFragment(tab)
        /\ UNCHANGED <<screen, started, turned, hasty, tab, sel, tables,
                       mUser, mNews, infos, tasks, empty, lost, taps>>
    BY <1>2 DEF OnRepopulate, ForumAnswer
  <2>2. forums' \in [ForumTags -> Nat]
    BY <2>1 DEF LoadInv, TypeOK, ForumTags
  <2>3. ~overlay
    BY <2>1 DEF LoadInv, ForumsReady
  <2>4. mUser # None /\ mNews /\ mForum /\ \A b \in Tables : tables[b] # None
    BY <2>3 DEF LoadInv, ShownIsLoaded
  <2>5. /\ crash' \in {"none", "index", "state"}
        /\ overlay' \in BOOLEAN /\ ~overlay'
    BY <2>1, <2>3, <2>4, Shown DEF LoadInv, TypeOK
  <2>6. TypeOK'
    BY <2>1, <2>2, <2>5 DEF LoadInv, TypeOK
  <2>7. TasksReady'
    BY <2>1, <2>4 DEF LoadInv, TasksReady
  <2> QED
    BY <2>1, <2>4, <2>5, <2>6, <2>7
    DEF LoadInv, ForumsReady, TabReady, ShownIsLoaded, NeverNull
<1>3. CASE OnEmptyForum(t) \/ LoseForum(t)
  <2>1. /\ forums' = [forums EXCEPT ![t] = @ - 1]
        /\ forums[t] > 0
        /\ UNCHANGED <<screen, started, turned, hasty, view, data, infos,
                       tasks, empty, crash, taps>>
        /\ lost' \subseteq {"answer", "posts"}
    BY <1>3 DEF OnEmptyForum, LoseForum, ForumAnswer, LoadInv, TypeOK
  <2>2. /\ forums' \in [ForumTags -> Nat]
        /\ \A x \in ForumTags : forums'[x] > 0 => forums[x] > 0
    BY <2>1 DEF LoadInv, TypeOK
  <2> QED
    BY <2>1, <2>2 DEF LoadInv, TypeOK, TasksReady, ForumsReady, TabReady,
                      ShownIsLoaded, NeverNull, view, data, ForumTags
<1> QED
  BY <1>1, <1>2, <1>3 DEF PostsAnswer

-----------------------------------------------------------------------------
(* The user and the system *)

\* What the user does on the screen keeps the invariant.
LEMMA TapLoad ==
    ASSUME LoadInv,
           \/ \E t \in Tabs : TapTab(t)
           \/ \E t \in Tables, i \in 1..Leagues : ChooseLeague(t, i)
    PROVE  LoadInv'
<1> USE CoreAssumption
<1>1. PICK t \in Tabs :
         /\ ~overlay /\ ReplaceFragment(t)
         /\ tab' \in Tabs /\ sel' \in [Tables -> 1..Leagues]
         /\ taps' \in Nat
         /\ UNCHANGED <<screen, started, turned, hasty, mUser, mNews, mForum,
                        tables, net, empty, lost>>
  <2>1. CASE \E t \in Tabs : TapTab(t)
    BY <2>1 DEF TapTab, Tap, LoadInv, TypeOK
  <2>2. CASE \E t \in Tables, i \in 1..Leagues : ChooseLeague(t, i)
    <3>1. PICK t \in Tables, i \in 1..Leagues : ChooseLeague(t, i)
      BY <2>2
    <3>2. t \in Tabs
      BY DEF Tabs
    <3>3. sel' \in [Tables -> 1..Leagues]
      BY <3>1 DEF ChooseLeague, LoadInv, TypeOK
    <3> QED
      BY <3>1, <3>2, <3>3 DEF ChooseLeague, Tap, LoadInv, TypeOK
  <2> QED
    BY <2>1, <2>2
<1>2. mUser # None /\ mNews /\ mForum /\ \A b \in Tables : tables[b] # None
  BY <1>1 DEF LoadInv, ShownIsLoaded
<1>3. /\ crash' \in {"none", "index", "state"}
      /\ overlay' \in BOOLEAN /\ ~overlay'
  BY <1>1, <1>2, Shown DEF LoadInv, TypeOK
<1>4. TypeOK'
  BY <1>1, <1>3 DEF LoadInv, TypeOK, net
<1>5. TasksReady'
  BY <1>1 DEF LoadInv, TasksReady, net
<1> QED
  BY <1>1, <1>2, <1>3, <1>4, <1>5
  DEF LoadInv, ForumsReady, TabReady, ShownIsLoaded, NeverNull, net

\* Leaving, being stopped and coming back keep the invariant.
LEMMA LifeLoad ==
    ASSUME LoadInv,
           \/ \E s \in Screens \ {"core"} : Leave(s)
           \/ Stop \/ Return \/ ForumChanges
    PROVE  LoadInv'
<1> USE CoreAssumption
<1>1. CASE \E s \in Screens \ {"core"} : Leave(s)
  <2>1. PICK s \in Screens : Leave(s)
    BY <1>1
  <2>2. infos' \in [Users -> Nat]
    BY <2>1 DEF Leave, LoadInv, TypeOK
  <2>3. screen' \in Screens /\ taps' \in Nat /\ hasty' \in BOOLEAN
        /\ UNCHANGED <<started, turned, view, data, forums, tasks, empty,
                       crash, lost>>
    BY <2>1 DEF Leave, Tap, LoadInv, TypeOK
  <2> QED
    BY <2>2, <2>3 DEF LoadInv, TypeOK, TasksReady, ForumsReady, TabReady,
                      ShownIsLoaded, NeverNull, view, data
<1>2. CASE Stop \/ ForumChanges
  <2>1. started' \in BOOLEAN /\ empty' \in BOOLEAN
        /\ UNCHANGED <<screen, turned, hasty, view, data, net, crash, lost,
                       taps>>
    BY <1>2 DEF Stop, ForumChanges, LoadInv, TypeOK
  <2> QED
    BY <2>1 DEF LoadInv, TypeOK, TasksReady, ForumsReady, TabReady,
                ShownIsLoaded, NeverNull, view, data, net
<1>3. CASE Return
  <2>1. /\ forums' \in [ForumTags -> Nat]
        /\ forums'["POPULATE_FORUM"] = forums["POPULATE_FORUM"]
        /\ tab # "forum" => forums' = forums
    BY <1>3 DEF Return, LoadInv, TypeOK, ForumTags
  <2>2. screen' \in Screens /\ started' \in BOOLEAN /\ hasty' \in BOOLEAN
        /\ UNCHANGED <<turned, view, data, infos, tasks, empty, crash, lost,
                       taps>>
    BY <1>3 DEF Return, Screens
  <2>3. tab = "forum" => ~overlay
    BY DEF LoadInv, TabReady
  <2>4. ForumsReady'
    BY <2>1, <2>2, <2>3 DEF LoadInv, ForumsReady, view, data
  <2> QED
    BY <2>1, <2>2, <2>4 DEF LoadInv, TypeOK, TasksReady, TabReady,
                            ShownIsLoaded, NeverNull, view, data
<1> QED
  BY <1>1, <1>2, <1>3

\* A new process satisfies the invariant.
LEMMA RelaunchLoad ==
    ASSUME TypeOK, Relaunch
    PROVE  LoadInv'
<1>1. infos' \in [Users -> Nat] /\ forums' \in [ForumTags -> Nat]
      /\ \A t \in ForumTags : forums'[t] = 0
  BY DEF Relaunch
<1>2. /\ sel' \in [Tables -> 1..Leagues]
      /\ tables' \in [Tables -> 0..Leagues \cup {None}]
  BY CoreAssumption DEF Relaunch, FreshSel, FreshTables
<1>3. /\ screen' = "core" /\ started' = TRUE /\ overlay' = TRUE
      /\ tab' = "news" /\ mUser' = None /\ mNews' = FALSE /\ mForum' = FALSE
      /\ tasks' = <<>> /\ crash' = "none" /\ lost' = {}
      /\ turned' = FALSE /\ hasty' = FALSE
      /\ UNCHANGED <<empty, taps>>
  BY DEF Relaunch
<1>4. tasks' \in Seq(Task) /\ DOMAIN tasks' = {}
  BY <1>3
<1>5. TypeOK'
  BY <1>1, <1>2, <1>3, <1>4 DEF TypeOK, Screens, Tabs
<1> QED
  BY <1>1, <1>3, <1>4, <1>5 DEF LoadInv, TasksReady, ForumsReady, TabReady,
                                ShownIsLoaded, NeverNull, ForumTags

-----------------------------------------------------------------------------

\* Whether or not the device was turned, every step keeps the types.
LEMMA NextType ==
    ASSUME TypeOK, [Next]_vars
    PROVE  TypeOK'
<1> USE CoreAssumption
<1>1. ASSUME NEW u \in Users, OnUserInfo(u)
      PROVE  TypeOK'
  <2>1. NewTask("news") \in Task
    BY DEF NewTask, Task
  <2>2. tasks' \in Seq(Task)
    BY <1>1, <2>1, AppendTask DEF OnUserInfo, TypeOK
  <2>3. infos' \in [Users -> Nat]
    BY <1>1 DEF OnUserInfo, TypeOK
  <2> QED
    BY <1>1, <2>2, <2>3 DEF OnUserInfo, TypeOK, view
<1>2. ASSUME NEW u \in Users, LoseUserInfo(u) \/ AskAuthor(u)
      PROVE  TypeOK'
  <2>1. infos' \in [Users -> Nat]
    <3>1. infos \in [Users -> Nat]
      BY DEF TypeOK
    <3>2. CASE LoseUserInfo(u)
      BY <3>1, <3>2 DEF LoseUserInfo
    <3>3. CASE AskAuthor(u)
      BY <3>1, <3>3 DEF AskAuthor
    <3> QED
      BY <1>2, <3>2, <3>3
  <2>2. CASE LoseUserInfo(u)
    BY <2>1, <2>2 DEF LoseUserInfo, TypeOK, view, data
  <2>3. CASE AskAuthor(u)
    BY <2>1, <2>3 DEF AskAuthor, TypeOK, view, data
  <2> QED
    BY <1>2, <2>2, <2>3
<1>3. ASSUME TaskEnds
      PROVE  TypeOK'
  <2>1. tasks \in Seq(Task) /\ tasks # <<>>
    BY <1>3 DEF TaskEnds, OnPostNews, OnPostFixtures, OnPostStandings,
                NextTask, TypeOK
  <2>2. Head(tasks) \in Task /\ Tail(tasks) \in Seq(Task)
    BY <2>1, TailTask
  <2>3. Fetched \subseteq 0..Leagues
    BY DEF Fetched
  <2>4. CASE OnPostNews
    <3>1. forums' \in [ForumTags -> Nat]
      BY <2>4 DEF OnPostNews, TypeOK, ForumTags
    <3>2. tasks' = Tail(tasks) /\ mNews' \in BOOLEAN
      BY <2>2, <2>4 DEF OnPostNews, TypeOK, Task
    <3> QED
      BY <2>2, <2>4, <3>1, <3>2 DEF OnPostNews, TypeOK, view
  <2>5. CASE OnPostFixtures
    <3> DEFINE next == [Head(tasks) EXCEPT !.kind = "standings"]
    <3>1. next \in Task
      BY <2>2 DEF Task, Tables
    <3>2. tasks' \in Seq(Task)
      BY <2>2, <2>5, <3>1, AppendTask DEF OnPostFixtures
    <3>3. tables' \in [Tables -> 0..Leagues \cup {None}]
      BY <2>3, <2>5 DEF OnPostFixtures, TypeOK, Tables
    <3> QED
      BY <2>5, <3>2, <3>3 DEF OnPostFixtures, TypeOK, view
  <2>6. CASE OnPostStandings
    <3>1. /\ tasks' = Tail(tasks) /\ UNCHANGED sel
          /\ UNCHANGED <<screen, started, turned, hasty, tab, mUser, mNews,
                         mForum, infos, forums, empty, lost, taps>>
      BY <2>6 DEF OnPostStandings
    <3>2. /\ tables' \in [Tables -> 0..Leagues \cup {None}]
          /\ overlay' \in BOOLEAN
          /\ crash' \in {"none", "null", "index", "state"}
      <4>1. CASE Head(tasks).mine
        <5>1. PICK n \in 0..Leagues :
                 tables' = [tables EXCEPT !["standings"] = n]
          BY <2>3, <2>6, <4>1 DEF OnPostStandings
        <5>2. ReplaceFragment(tab)
          BY <2>6, <4>1 DEF OnPostStandings
        <5> QED
          BY <5>1, <5>2, ShownType DEF TypeOK, Tables
      <4>2. CASE ~Head(tasks).mine
        BY <2>6, <4>2 DEF OnPostStandings, TypeOK
      <4> QED
        BY <4>1, <4>2
    <3> QED
      BY <2>2, <3>1, <3>2 DEF TypeOK
  <2> QED
    BY <1>3, <2>4, <2>5, <2>6 DEF TaskEnds
<1>4. ASSUME NEW t \in ForumTags, PostsAnswer(t)
      PROVE  TypeOK'
  <2>1. ASSUME NEW x \in ForumTags, ForumAnswer(x)
        PROVE  forums' \in [ForumTags -> Nat]
    BY <2>1 DEF ForumAnswer, TypeOK
  <2>2. CASE OnPopulate
    <3>1. NewTask("matches") \in Task
      BY DEF NewTask, Task, Tables
    <3>2. tasks' \in Seq(Task)
      BY <2>2, <3>1, AppendTask DEF OnPopulate, TypeOK
    <3>3. forums' \in [ForumTags -> Nat]
      BY <2>1, <2>2 DEF OnPopulate, ForumTags
    <3> QED
      BY <2>2, <3>2, <3>3 DEF OnPopulate, TypeOK, view
  <2>3. CASE OnRepopulate
    <3>1. forums' \in [ForumTags -> Nat]
      BY <2>1, <2>3 DEF OnRepopulate, ForumTags
    <3>2. overlay' \in BOOLEAN /\ crash' \in {"none", "null", "index", "state"}
      BY <2>3, ShownType DEF OnRepopulate, TypeOK
    <3> QED
      BY <2>3, <3>1, <3>2 DEF OnRepopulate, TypeOK
  <2>4. CASE OnEmptyForum(t) \/ LoseForum(t)
    <3>1. forums' \in [ForumTags -> Nat]
      <4>1. forums[t] > 0 /\ forums' = [forums EXCEPT ![t] = @ - 1]
        BY <2>4 DEF OnEmptyForum, LoseForum, ForumAnswer
      <4> QED
        BY <4>1 DEF TypeOK
    <3> QED
      BY <2>4, <3>1 DEF OnEmptyForum, LoseForum, TypeOK, view, data
  <2> QED
    BY <1>4, <2>2, <2>3, <2>4 DEF PostsAnswer
<1>5. ASSUME NEW t \in Tabs, TapTab(t)
      PROVE  TypeOK'
  <2>1. overlay' \in BOOLEAN /\ crash' \in {"none", "null", "index", "state"}
    BY <1>5, ShownType DEF TapTab, TypeOK
  <2> QED
    BY <1>5, <2>1 DEF TapTab, Tap, TypeOK, net
<1>6. ASSUME NEW t \in Tables, NEW i \in 1..Leagues, ChooseLeague(t, i)
      PROVE  TypeOK'
  <2>1. t \in Tabs
    BY DEF Tabs
  <2>2. overlay' \in BOOLEAN /\ crash' \in {"none", "null", "index", "state"}
    BY <1>6, <2>1, ShownType DEF ChooseLeague, TypeOK
  <2>3. sel' \in [Tables -> 1..Leagues]
    BY <1>6 DEF ChooseLeague, TypeOK
  <2> QED
    BY <1>6, <2>2, <2>3 DEF ChooseLeague, Tap, TypeOK, net
<1>7. ASSUME NEW s \in Screens \ {"core"}, Leave(s)
      PROVE  TypeOK'
  <2>1. infos' \in [Users -> Nat]
    <3>1. infos' = infos \/ infos' = [infos EXCEPT ![Me] = @ + 1]
      BY <1>7 DEF Leave
    <3>2. infos \in [Users -> Nat]
      BY DEF TypeOK
    <3> QED
      BY <3>1, <3>2
  <2> QED
    <3>0. hasty' \in BOOLEAN
      <4>1. hasty' = (hasty \/ ~Quiet)
        BY <1>7 DEF Leave
      <4> QED
        BY <4>1
    <3>1. screen' \in Screens /\ taps' \in Nat
          /\ UNCHANGED <<started, turned, view, data, forums, tasks, empty,
                         crash, lost>>
      BY <1>7 DEF Leave, Tap, TypeOK
    <3> QED
      BY <2>1, <3>0, <3>1 DEF TypeOK, view, data
<1>8. ASSUME Stop \/ Return \/ ForumChanges
      PROVE  TypeOK'
  <2>1. forums' \in [ForumTags -> Nat]
    <3>1. \/ forums' = forums
          \/ forums' = [forums EXCEPT !["REPOPULATE_FORUM"] = @ + 1]
      BY <1>8 DEF Stop, Return, ForumChanges, net
    <3> QED
      BY <3>1 DEF TypeOK, ForumTags
  <2> QED
    <3>1. /\ started' \in BOOLEAN /\ screen' \in Screens
          /\ empty' \in BOOLEAN /\ hasty' \in BOOLEAN
          /\ UNCHANGED <<view, data, infos, tasks, crash, turned, lost, taps>>
      BY <1>8 DEF Stop, Return, ForumChanges, TypeOK, net, Screens
    <3> QED
      BY <2>1, <3>1 DEF TypeOK, view, data
<1>9. ASSUME Rotate
      PROVE  TypeOK'
  <2>1. infos' \in [Users -> Nat] /\ forums' \in [ForumTags -> Nat]
    BY <1>9 DEF Rotate, TypeOK, ForumTags
  <2>2. sel' \in [Tables -> 1..Leagues]
        /\ tables' \in [Tables -> 0..Leagues \cup {None}]
    BY <1>9 DEF Rotate, FreshSel, FreshTables
  <2>3. tasks' \in Seq(Task)
    <3>1. tasks \in Seq(Task)
      BY DEF TypeOK
    <3>2. /\ DOMAIN tasks = 1..Len(tasks) /\ Len(tasks) \in Nat
          /\ \A i \in 1..Len(tasks) : tasks[i] \in Task
      BY <3>1
    <3>3. tasks' \in [1..Len(tasks) -> Task]
      <4>1. tasks' = [i \in 1..Len(tasks) |->
                         [tasks[i] EXCEPT !.mine = FALSE]]
        BY <1>9, <3>2 DEF Rotate
      <4>2. \A i \in 1..Len(tasks) :
               [tasks[i] EXCEPT !.mine = FALSE] \in Task
        BY <3>2 DEF Task
      <4> QED
        BY <4>1, <4>2
    <3> QED
      BY <3>2, <3>3, SeqDef
  <2> QED
    <3>1. /\ overlay' = TRUE /\ mUser' = None
          /\ mNews' = FALSE /\ mForum' = FALSE
          /\ turned' = TRUE /\ lost' = {}
          /\ taps' = taps + 1
          /\ UNCHANGED <<screen, started, tab, hasty, empty, crash>>
      BY <1>9 DEF Rotate, Tap
    <3>2. /\ screen' \in Screens /\ started' \in BOOLEAN /\ tab' \in Tabs
          /\ empty' \in BOOLEAN /\ taps' \in Nat
          /\ crash' \in {"none", "null", "index", "state"}
      BY <3>1 DEF TypeOK
    <3> QED
      BY <2>1, <2>2, <2>3, <3>1, <3>2 DEF TypeOK
<1>10. ASSUME Relaunch
       PROVE  TypeOK'
  BY <1>10, RelaunchLoad DEF LoadInv
<1>11. CASE UNCHANGED vars
  BY <1>11 DEF vars, TypeOK
<1> QED
  BY <1>1, <1>2, <1>3, <1>4, <1>5, <1>6, <1>7, <1>8, <1>9, <1>10, <1>11
  DEF Next, UserAnswer

-----------------------------------------------------------------------------

\* Until the device is turned, every step keeps the invariant; a new process
\* starts with it again.
LEMMA NextLoad ==
    ASSUME TypeOK, turned \/ LoadInv, [Next]_vars
    PROVE  turned' \/ LoadInv'
<1>1. CASE LoadInv /\ Next
  <2>1. CASE Rotate
    BY <2>1 DEF Rotate
  <2> QED
    BY <1>1, <2>1, UserInfoLoad, TasksLoad, ForumLoad, TapLoad, LifeLoad,
       RelaunchLoad DEF Next
<1>2. CASE turned /\ Next
  <2>1. turned' = TRUE \/ Relaunch
    BY <1>2 DEF Next, UserAnswer, TaskEnds, PostsAnswer, OnUserInfo,
       LoseUserInfo, AskAuthor, OnPostNews, OnPostFixtures, OnPostStandings,
       OnPopulate, OnRepopulate, OnEmptyForum, LoseForum, TapTab,
       ChooseLeague, Leave, Stop, Return, Rotate, ForumChanges, TypeOK
  <2> QED
    BY <2>1, RelaunchLoad
<1>3. CASE UNCHANGED vars
  BY <1>3 DEF vars, LoadInv, TypeOK, TasksReady, ForumsReady, TabReady,
              ShownIsLoaded, NeverNull
<1> QED
  BY <1>1, <1>2, <1>3

\* The invariant holds in every behaviour, until the device is turned.
THEOREM LoadInvariant == Spec => [](TypeOK /\ (turned \/ LoadInv))
<1>1. Init => TypeOK /\ (turned \/ LoadInv)
  BY InitLoad DEF LoadInv
<1>2. TypeOK /\ (turned \/ LoadInv) /\ [Next]_vars
         => (TypeOK /\ (turned \/ LoadInv))'
  BY NextType, NextLoad
<1> QED
  BY <1>1, <1>2, PTL DEF Spec

\* Every variable keeps its type, for any number of users and leagues.
THEOREM TypeCorrect == Spec => []TypeOK
<1>1. TypeOK /\ (turned \/ LoadInv) => TypeOK
  OBVIOUS
<1> QED
  BY <1>1, LoadInvariant, PTL

\* The overlay is taken away only once user, news, forum, fixtures and
\* standings have all been loaded by this instance, whatever answers fail, come
\* late, or are another screen's.
THEOREM LoadedWhenShown == Spec => []ShownIsLoaded
<1>1. turned \/ LoadInv => ShownIsLoaded
  BY DEF LoadInv, ShownIsLoaded
<1> QED
  BY <1>1, LoadInvariant, PTL

\* No tab is ever opened on a list that is not there, unless the device was
\* turned.
THEOREM NoMissingList == Spec => []NeverNull
<1>1. turned \/ LoadInv => NeverNull
  BY DEF LoadInv, NeverNull
<1> QED
  BY <1>1, LoadInvariant, PTL
-----------------------------------------------------------------------------
(* After the device was turned *)

\* What is left of LoadInv: this instance fetches fixtures and standings only
\* once its forum is there.
ForumInv ==
    /\ ShownHasForum
    /\ \A i \in DOMAIN tasks :
          tasks[i].mine /\ tasks[i].kind \in Tables => mForum

\* A fragment that is shown by a step which has the forum keeps the invariant.
LEMMA NextForum ==
    ASSUME TypeOK, ForumInv, [Next]_vars
    PROVE  ForumInv'
<1> USE CoreAssumption DEF ForumInv, ShownHasForum
<1>1. ASSUME NEW u \in Users, OnUserInfo(u)
      PROVE  ForumInv'
  <2>1. NewTask("news") \in Task /\ NewTask("news").kind \notin Tables
    BY DEF NewTask, Task, Tables
  <2>2. UNCHANGED <<overlay, mForum>>
        /\ tasks' = Append(tasks, NewTask("news"))
    BY <1>1 DEF OnUserInfo, view
  <2> QED
    BY <2>1, <2>2, AppendTask DEF TypeOK
<1>2. ASSUME TaskEnds
      PROVE  ForumInv'
  <2>1. tasks # <<>> /\ tasks \in Seq(Task)
    BY <1>2 DEF TaskEnds, OnPostNews, OnPostFixtures, OnPostStandings,
       NextTask, TypeOK
  <2>2. UNCHANGED mForum
    BY <1>2 DEF TaskEnds, OnPostNews, OnPostFixtures, OnPostStandings
  <2>3. CASE OnPostNews
    <3>1. tasks' = Tail(tasks) /\ UNCHANGED overlay
      BY <2>3 DEF OnPostNews, view
    <3> QED
      BY <2>1, <2>2, <3>1, TailTask
  <2>4. CASE OnPostFixtures
    <3> DEFINE next == [Head(tasks) EXCEPT !.kind = "standings"]
    <3>1. /\ tasks' = Append(Tail(tasks), next) /\ UNCHANGED overlay
          /\ Head(tasks).kind = "matches"
      BY <2>4 DEF OnPostFixtures, NextTask, view
    <3>2. next \in Task /\ next.mine = Head(tasks).mine
      BY <2>1, TailTask DEF Task, Tables
    <3>3. next.mine => mForum
      BY <2>1, <3>1, <3>2, TailTask DEF Tables
    <3>4. \A i \in DOMAIN Tail(tasks) :
             Tail(tasks)[i].mine /\ Tail(tasks)[i].kind \in Tables => mForum
      BY <2>1, TailTask
    <3>5. Tail(tasks) \in Seq(Task)
      BY <2>1, TailTask
    <3> HIDE DEF next
    <3> QED
      BY <2>2, <3>1, <3>2, <3>3, <3>4, <3>5, AppendTask
  <2>5. CASE OnPostStandings
    <3>1. tasks' = Tail(tasks) /\ Head(tasks).kind = "standings"
      BY <2>5 DEF OnPostStandings, NextTask
    <3>2. Head(tasks).mine \/ UNCHANGED overlay
      BY <2>5 DEF OnPostStandings
    <3>3. Head(tasks).mine => mForum
      BY <2>1, <3>1, TailTask DEF Tables
    <3> QED
      BY <2>1, <2>2, <3>1, <3>2, <3>3, TailTask
  <2> QED
    BY <1>2, <2>3, <2>4, <2>5 DEF TaskEnds
<1>3. ASSUME OnPopulate
      PROVE  ForumInv'
  BY <1>3 DEF OnPopulate
<1>4. ASSUME OnRepopulate
      PROVE  ForumInv'
  BY <1>4 DEF OnRepopulate
<1>5. ASSUME NEW t \in Tabs,
             TapTab(t) \/ \E i \in 1..Leagues : ChooseLeague(t, i)
      PROVE  ForumInv'
  BY <1>5 DEF TapTab, ChooseLeague, net
<1>6. ASSUME Rotate
      PROVE  ForumInv'
  <2>1. overlay' /\ tasks' = [i \in DOMAIN tasks |->
                                 [tasks[i] EXCEPT !.mine = FALSE]]
    BY <1>6 DEF Rotate
  <2>2. \A i \in DOMAIN tasks : tasks[i] \in Task
    BY DEF TypeOK
  <2>3. \A i \in DOMAIN tasks' : tasks'[i].mine = FALSE
    BY <2>1, <2>2 DEF Task
  <2> QED
    BY <2>1, <2>3
<1>7. ASSUME Relaunch
      PROVE  ForumInv'
  <2>1. overlay' = TRUE /\ DOMAIN tasks' = {}
    BY <1>7 DEF Relaunch
  <2> QED
    BY <2>1
<1>8. CASE UNCHANGED <<overlay, mForum, tasks>>
  BY <1>8
<1>9. \/ \E u \in Users : OnUserInfo(u)
      \/ TaskEnds \/ OnPopulate \/ OnRepopulate \/ Rotate \/ Relaunch
      \/ \E t \in Tabs :
            TapTab(t) \/ \E i \in 1..Leagues : ChooseLeague(t, i)
      \/ UNCHANGED <<overlay, mForum, tasks>>
  BY DEF Next, UserAnswer, PostsAnswer, LoseUserInfo, AskAuthor, OnEmptyForum,
     LoseForum, Leave, Stop, Return, ForumChanges, view, data, net, vars,
     Tabs
<1> QED
  BY <1>1, <1>2, <1>3, <1>4, <1>5, <1>6, <1>7, <1>8, <1>9

\* However often the device is turned, and whatever tasks and answers of
\* earlier instances are still under way, nothing is shown before this instance
\* has its forum.
THEOREM ForumWhenShown == Spec => []ShownHasForum
<1>1. Init => TypeOK /\ ForumInv
  <2>1. Init => TypeOK
    BY InitLoad DEF LoadInv
  <2>2. Init => ForumInv
    BY DEF Init, ForumInv, ShownHasForum
  <2> QED
    BY <2>1, <2>2
<1>2. TypeOK /\ ForumInv /\ [Next]_vars => (TypeOK /\ ForumInv)'
  BY NextType, NextForum
<1>3. TypeOK /\ ForumInv => ShownHasForum
  BY DEF ForumInv
<1> QED
  BY <1>1, <1>2, <1>3, PTL DEF Spec
-----------------------------------------------------------------------------
(* The calm user *)

\* On the screen one request of the chain is under way; off the screen none,
\* whatever the other screens ask for.
ChainInv ==
    Calm =>
       /\ mUser \in {Me, None}
       /\ Resumed => /\ started
                     /\ \A u \in Users \ {Me} : infos[u] = 0
                     /\ infos[Me] + forums["POPULATE_FORUM"] + Len(tasks) <= 1
       /\ ~Resumed => /\ \A t \in ForumTags : forums[t] = 0
                      /\ tasks = <<>>

\* The length of the queue of tasks.
LEMMA TaskCount ==
    ASSUME NEW s \in Seq(Task)
    PROVE  /\ Len(s) \in Nat
           /\ s # <<>> => Len(s) > 0 /\ Len(Tail(s)) = Len(s) - 1
           /\ \A k \in Task : Len(Append(s, k)) = Len(s) + 1
<1>1. s # <<>> => Len(s) > 0 /\ Len(Tail(s)) = Len(s) - 1
  BY EmptySeq, HeadTailProperties
<1>2. \A k \in Task : Len(Append(s, k)) = Len(s) + 1
  BY AppendProperties
<1> QED
  BY <1>1, <1>2

LEMMA UserInfoChain ==
    ASSUME TypeOK, ChainInv, NEW u \in Users, UserAnswer(u) \/ AskAuthor(u)
    PROVE  ChainInv'
<1> USE CoreAssumption
<1>1. /\ infos \in [Users -> Nat] /\ forums \in [ForumTags -> Nat]
      /\ Len(tasks) \in Nat /\ tasks \in Seq(Task)
      /\ forums["POPULATE_FORUM"] \in Nat
  BY TaskCount DEF TypeOK, ForumTags
<1>2. CASE OnUserInfo(u)
  <2>1. PICK k \in Task : k = NewTask("news")
    BY DEF NewTask, Task
  <2>2. /\ UNCHANGED <<screen, started, turned, hasty, forums>>
        /\ Resumed /\ infos[u] > 0 /\ mUser' = u
        /\ infos' = [infos EXCEPT ![u] = @ - 1]
        /\ tasks' = Append(tasks, k)
    BY <1>2, <2>1 DEF OnUserInfo
  <2>3. Len(tasks') = Len(tasks) + 1
    BY <1>1, <2>1, <2>2, TaskCount
  <2> QED
    BY <1>1, <2>2, <2>3 DEF ChainInv, Calm, Resumed
<1>3. CASE LoseUserInfo(u)
  <2>1. /\ UNCHANGED <<screen, started, turned, hasty, forums, tasks, mUser>>
        /\ infos[u] > 0 /\ infos' = [infos EXCEPT ![u] = @ - 1]
    BY <1>3 DEF LoseUserInfo, data
  <2>2. \A x \in Users : infos'[x] \in Nat /\ infos'[x] <= infos[x]
    BY <1>1, <2>1
  <2> QED
    BY <1>1, <2>1, <2>2 DEF ChainInv, Calm, Resumed
<1>4. CASE AskAuthor(u)
  BY <1>4 DEF AskAuthor, data, ChainInv, Calm, Resumed
<1> QED
  BY <1>2, <1>3, <1>4 DEF UserAnswer

LEMMA TasksChain ==
    ASSUME TypeOK, TypeOK', ChainInv, TaskEnds
    PROVE  ChainInv'
<1> USE CoreAssumption
<1>1. /\ forums["POPULATE_FORUM"] \in Nat /\ infos[Me] \in Nat
      /\ tasks \in Seq(Task) /\ tasks # <<>>
      /\ UNCHANGED <<screen, started, turned, hasty, mUser, infos>>
  BY DEF TaskEnds, OnPostNews, OnPostFixtures, OnPostStandings, NextTask,
         TypeOK, ForumTags
<1>2. /\ Len(tasks) \in Nat /\ Len(Tail(tasks)) = Len(tasks) - 1
      /\ Head(tasks) \in Task /\ Tail(tasks) \in Seq(Task)
  BY <1>1, TaskCount, TailTask
<1>3. CASE OnPostNews
  <2>1. /\ forums'["POPULATE_FORUM"] = forums["POPULATE_FORUM"] + 1
        /\ tasks' = Tail(tasks)
    BY <1>3 DEF OnPostNews, TypeOK, ForumTags
  <2> QED
    BY <1>1, <1>2, <2>1 DEF ChainInv, Calm, Resumed
<1>4. CASE OnPostFixtures
  <2>1. PICK k \in Task : k = [Head(tasks) EXCEPT !.kind = "standings"]
    BY <1>2 DEF Task, Tables
  <2>2. tasks' = Append(Tail(tasks), k) /\ UNCHANGED forums
    BY <1>4, <2>1 DEF OnPostFixtures
  <2>3. Len(tasks') = Len(tasks)
    BY <1>2, <2>2, TaskCount
  <2> QED
    BY <1>1, <1>2, <2>2, <2>3 DEF ChainInv, Calm, Resumed
<1>5. CASE OnPostStandings
  <2>1. tasks' = Tail(tasks) /\ UNCHANGED forums
    BY <1>5 DEF OnPostStandings
  <2> QED
    BY <1>1, <1>2, <2>1 DEF ChainInv, Calm, Resumed
<1> QED
  BY <1>3, <1>4, <1>5 DEF TaskEnds

LEMMA ForumChain ==
    ASSUME TypeOK, TypeOK', ChainInv, NEW t \in ForumTags, PostsAnswer(t)
    PROVE  ChainInv'
<1> USE CoreAssumption
<1>1. /\ forums \in [ForumTags -> Nat] /\ forums' \in [ForumTags -> Nat]
      /\ forums["POPULATE_FORUM"] \in Nat /\ infos[Me] \in Nat
      /\ tasks \in Seq(Task) /\ Len(tasks) \in Nat
      /\ UNCHANGED <<screen, started, turned, hasty, mUser, infos>>
  BY TaskCount DEF PostsAnswer, OnPopulate, OnRepopulate, OnEmptyForum,
         LoseForum, TypeOK, ForumTags, data
<1>2. CASE OnPopulate
  <2>1. PICK k \in Task : k = NewTask("matches")
    BY DEF NewTask, Task, Tables
  <2>2. /\ forums["POPULATE_FORUM"] > 0 /\ Resumed
        /\ forums' = [forums EXCEPT !["POPULATE_FORUM"] = @ - 1]
        /\ tasks' = Append(tasks, k)
    BY <1>2, <2>1 DEF OnPopulate, ForumAnswer
  <2>3. /\ Len(tasks') = Len(tasks) + 1
        /\ forums'["POPULATE_FORUM"] = forums["POPULATE_FORUM"] - 1
    BY <1>1, <2>1, <2>2, TaskCount DEF ForumTags
  <2> QED
    BY <1>1, <2>2, <2>3 DEF ChainInv, Calm, Resumed
<1>3. CASE OnRepopulate \/ OnEmptyForum(t) \/ LoseForum(t)
  <2>1. PICK x \in ForumTags : forums' = [forums EXCEPT ![x] = @ - 1]
                               /\ forums[x] > 0
    BY <1>3 DEF OnRepopulate, OnEmptyForum, LoseForum, ForumAnswer, ForumTags
  <2>2. UNCHANGED tasks
    BY <1>3 DEF OnRepopulate, OnEmptyForum, LoseForum
  <2>3. \A y \in ForumTags : forums'[y] \in Nat /\ forums'[y] <= forums[y]
    BY <1>1, <2>1
  <2>4. /\ forums'["POPULATE_FORUM"] <= forums["POPULATE_FORUM"]
        /\ forums'["POPULATE_FORUM"] \in Nat
    BY <2>3 DEF ForumTags
  <2> QED
    BY <1>1, <2>1, <2>2, <2>3, <2>4 DEF ChainInv, Calm, Resumed
<1> QED
  BY <1>2, <1>3 DEF PostsAnswer

\* Whoever leaves or returns while nothing is under way stays calm.
LEMMA LifeChain ==
    ASSUME TypeOK, TypeOK', ChainInv,
           \/ \E s \in Screens \ {"core"} : Leave(s)
           \/ Stop \/ Return \/ ForumChanges
    PROVE  ChainInv'
<1> USE CoreAssumption
<1>1. CASE \E s \in Screens \ {"core"} : Leave(s)
  <2>1. /\ screen' # "core" /\ hasty' = (hasty \/ ~Quiet)
        /\ UNCHANGED <<turned, mUser, forums, tasks>>
    BY <1>1 DEF Leave, data
  <2> QED
    BY <2>1 DEF ChainInv, Calm, Resumed, Quiet
<1>2. CASE Stop
  BY <1>2 DEF Stop, data, net, ChainInv, Calm, Resumed
<1>3. CASE ForumChanges
  BY <1>3 DEF ForumChanges, data, net, ChainInv, Calm, Resumed
<1>4. CASE Return
  <2>1. /\ screen' = "core" /\ started' = TRUE
        /\ hasty' = (hasty \/ ~Quiet)
        /\ UNCHANGED <<turned, mUser, infos, tasks>>
        /\ forums'["POPULATE_FORUM"] = forums["POPULATE_FORUM"]
    BY <1>4 DEF Return, data, TypeOK, ForumTags
  <2>2. Quiet => /\ \A u \in Users : infos[u] = 0
                 /\ forums["POPULATE_FORUM"] = 0
                 /\ Len(tasks) = 0
    BY EmptySeq DEF Quiet, ForumTags
  <2>3. Calm' => Calm /\ Quiet
    BY <2>1 DEF Calm
  <2>4. Calm' => infos'[Me] + forums'["POPULATE_FORUM"] + Len(tasks') = 0
    BY <2>1, <2>2, <2>3
  <2>5. Resumed'
    BY <2>1 DEF Resumed
  <2>6. Calm => mUser \in {Me, None}
    BY DEF ChainInv
  <2> QED
    BY <2>1, <2>2, <2>3, <2>4, <2>5, <2>6 DEF ChainInv
<1> QED
  BY <1>1, <1>2, <1>3, <1>4

LEMMA NextChain ==
    ASSUME TypeOK, TypeOK', ChainInv, [Next]_vars
    PROVE  ChainInv'
<1> USE CoreAssumption
<1>1. CASE \/ \E t \in Tabs : TapTab(t)
           \/ \E t \in Tables, i \in 1..Leagues : ChooseLeague(t, i)
  <2>1. UNCHANGED <<screen, started, turned, hasty, mUser, net>>
    BY <1>1 DEF TapTab, ChooseLeague
  <2> QED
    BY <2>1 DEF ChainInv, Calm, Resumed, net
<1>2. CASE Rotate
  BY <1>2 DEF Rotate, ChainInv, Calm
<1>3. CASE Relaunch
  <2>1. /\ mUser' = None /\ screen' = "core" /\ started' = TRUE
        /\ infos' = [u \in Users |-> IF u = Me THEN 1 ELSE 0]
        /\ forums'["POPULATE_FORUM"] = 0 /\ tasks' = <<>>
    BY <1>3 DEF Relaunch, ForumTags
  <2>2. Len(tasks') = 0
    BY <2>1
  <2> QED
    BY <2>1, <2>2 DEF ChainInv, Resumed
<1>4. CASE UNCHANGED vars
  BY <1>4 DEF vars, ChainInv, Calm, Resumed
<1> QED
  BY <1>1, <1>2, <1>3, <1>4, UserInfoChain, TasksChain, ForumChain, LifeChain
     DEF Next

\* A crash of the calm user's screen is a fragment's that finds a list shorter
\* than the leagues.
LEMMA NextNoCrash ==
    ASSUME TypeOK, TypeOK', turned \/ LoadInv, turned' \/ LoadInv', ChainInv,
           NoCrash, [Next]_vars
    PROVE  NoCrash'
<1> USE CoreAssumption
<1> SUFFICES ASSUME Calm', ~Alive', Next
             PROVE  \E t \in Tables : tables'[t] # None /\ tables'[t] < Leagues
  BY DEF NoCrash, vars, Calm, Alive
<1>1. CASE /\ UNCHANGED <<crash, tables, turned>>
           /\ ~Alive \/ crash' = "none"
           /\ hasty => hasty'
  BY <1>1 DEF NoCrash, Calm, Alive
<1>2. ASSUME NEW t \in Tabs, ReplaceFragment(t), Resumed, Calm
      PROVE  \E k \in Tables : tables'[k] # None /\ tables'[k] < Leagues
  <2>1. started
    BY <1>2 DEF ChainInv
  <2>2. crash' # "null"
    BY DEF LoadInv, NeverNull, Calm
  <2>3. t \in Tables /\ tables'[t] # None /\ sel'[t] > tables'[t]
    BY <1>2, <2>1, <2>2 DEF ReplaceFragment, Alive
  <2>4. sel'[t] \in 1..Leagues /\ tables'[t] \in 0..Leagues
    BY <2>3 DEF TypeOK
  <2> QED
    BY <2>3, <2>4
<1>3. CASE OnPostStandings
  <2>1. Calm /\ tasks # <<>> /\ tab \in Tabs
    BY <1>3 DEF OnPostStandings, NextTask, Calm, TypeOK
  <2>2. Resumed
    BY <2>1 DEF ChainInv
  <2>3. Head(tasks).mine
    BY <2>1, TailTask DEF Calm, LoadInv, TypeOK, TasksReady
  <2>4. ReplaceFragment(tab)
    BY <1>3, <2>3 DEF OnPostStandings
  <2> QED
    BY <1>2, <2>1, <2>2, <2>4
<1>4. CASE OnRepopulate
  <2>1. Calm /\ Resumed /\ tab \in Tabs /\ ReplaceFragment(tab)
    BY <1>4 DEF OnRepopulate, ForumAnswer, Calm, TypeOK
  <2> QED
    BY <1>2, <2>1
<1>5. CASE \/ \E t \in Tabs : TapTab(t)
           \/ \E t \in Tables, i \in 1..Leagues : ChooseLeague(t, i)
  <2>1. ASSUME NEW t \in Tabs, TapTab(t)
        PROVE  Calm /\ Resumed /\ ReplaceFragment(t)
    BY <2>1 DEF TapTab, Calm
  <2>2. ASSUME NEW t \in Tables, NEW i \in 1..Leagues, ChooseLeague(t, i)
        PROVE  t \in Tabs /\ Calm /\ Resumed /\ ReplaceFragment(t)
    BY <2>2 DEF ChooseLeague, Calm, Tabs
  <2> QED
    BY <1>2, <1>5, <2>1, <2>2
<1>6. CASE Rotate \/ Relaunch
  BY <1>6 DEF Rotate, Relaunch, Calm, Alive
<1>7. CASE OnPostFixtures
  BY <1>7 DEF OnPostFixtures, NextTask, Alive
<1>8. CASE \/ \E u \in Users : UserAnswer(u) \/ AskAuthor(u)
           \/ OnPostNews \/ OnPopulate
           \/ \E t \in ForumTags : OnEmptyForum(t) \/ LoseForum(t)
           \/ \E s \in Screens \ {"core"} : Leave(s)
           \/ Stop \/ Return
  <2>1. Alive /\ UNCHANGED crash
    BY <1>8 DEF UserAnswer, OnUserInfo, LoseUserInfo, AskAuthor, OnPostNews,
       NextTask, OnPopulate, OnEmptyForum, ForumAnswer, LoseForum, Leave, Tap,
       Stop, Return
  <2> QED
    BY <2>1 DEF Alive
<1>9. CASE ForumChanges
  BY <1>9, <1>1 DEF ForumChanges, data, Alive
<1> QED
  BY <1>3, <1>4, <1>5, <1>6, <1>7, <1>8, <1>9
     DEF Next, TaskEnds, PostsAnswer

LEMMA CalmInvariant ==
    Spec => [](TypeOK /\ (turned \/ LoadInv) /\ ChainInv /\ NoCrash)
<1>1. Init => TypeOK /\ (turned \/ LoadInv) /\ ChainInv /\ NoCrash
  <2>1. Init => TypeOK /\ (turned \/ LoadInv)
    BY InitLoad DEF LoadInv
  <2>2. ASSUME Init PROVE ChainInv /\ NoCrash
    <3>1. /\ mUser = None /\ screen = "core" /\ started /\ crash = "none"
          /\ \A u \in Users : infos[u] = IF u = Me THEN 1 ELSE 0
          /\ forums["POPULATE_FORUM"] = 0 /\ tasks = <<>>
      BY <2>2 DEF Init, ForumTags
    <3>2. Len(tasks) = 0
      BY <3>1
    <3> QED
      BY <3>1, <3>2, CoreAssumption DEF ChainInv, NoCrash, Resumed, Alive
  <2> QED
    BY <2>1, <2>2
<1>2. TypeOK /\ (turned \/ LoadInv) /\ ChainInv /\ NoCrash /\ [Next]_vars
         => (TypeOK /\ (turned \/ LoadInv) /\ ChainInv /\ NoCrash)'
  BY NextType, NextLoad, NextChain, NextNoCrash
<1> QED
  BY <1>1, <1>2, PTL DEF Spec

\* A user who lets each screen be answered before he leaves it has one chain of
\* requests under way at most, and his own account on the screen, although the
\* other screens' requests for authors have the same action string.
THEOREM CalmHasOneChain == Spec => []OneChain
<1>1. ChainInv => OneChain
  BY DEF ChainInv, OneChain
<1> QED
  BY <1>1, CalmInvariant, PTL

\* He sees no crash either, if every league was fetched: the chain commits no
\* fragment on a stopped screen and misses no list.
THEOREM CalmSeesNoCrash == Spec => []NoCrash
BY CalmInvariant, PTL
=============================================================================
