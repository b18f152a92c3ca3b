----------------------------- MODULE CoreScreen -----------------------------
(***************************************************************************)
(* CoreActivity: the main screen and the chain of requests that fills it.  *)
(*                                                                         *)
(*   user --> news --> forum --> fixtures --> standings --> first fragment *)
(*                                                                         *)
(* Each arrow is a callback that starts the next request.  News, fixtures  *)
(* and standings are AsyncTasks: they run one after the other and always   *)
(* call back the instance of the activity that started them.  User and     *)
(* forum are broadcasts: only the instance that is resumed hears them, and *)
(* it also hears the GET_USER_INFO answers that other screens asked for.   *)
(* A progress overlay covers the screen until a fragment is shown.         *)
(*                                                                         *)
(* Left out: what the lists contain (ForumList has the forum's), the       *)
(* floating button's visibility, titles; UPDATE_FORUM and                  *)
(* CHECK_FORUM_COUNT, which nobody sends while this screen is resumed.     *)
(***************************************************************************)
EXTENDS Naturals, Sequences

CONSTANTS
    Me,          \* the signed-in user
    Users,
    Leagues,     \* how many leagues are fetched
    Emptiness,   \* what "the posts collection is empty" can be
    MayRotate,   \* TRUE: the user may turn the device
    MaxRequests, \* bound: pending requests of one kind from outside the chain
    MaxTaps,     \* bound: commands of the user
    None

ASSUME CoreAssumption ==
    /\ Me \in Users
    /\ Leagues \in Nat \ {0}
    /\ MayRotate \in BOOLEAN
    /\ Emptiness \subseteq BOOLEAN /\ Emptiness # {}
    /\ MaxRequests \in Nat /\ MaxTaps \in Nat
    /\ None \notin Users \cup Nat

VARIABLES
    screen,      \* the activity on top
    started,     \* CoreActivity's state is not saved: fragments may change
    overlay,     \* the progress overlay is visible
    tab,         \* the item selected in the bottom navigation
    sel,         \* mMatchesFilterSelection, mStandingsFilterSelection
    mUser,       \* the user, or None
    mNews,       \* mNewsCollection is there
    mForum,      \* mForumCollection is there
    tables,      \* sizes of mMatchesCollection, mStandingCollection, or None
    infos,       \* GET_USER_INFO requests not yet answered, by user
    forums,      \* forum_get_posts requests not yet answered, by action
    tasks,       \* AsyncTasks, oldest first; mine: started by this instance
    empty,       \* the posts collection is empty
    crash,       \* the exception that ended the process, or "none"
    turned,      \* history: this instance was made by turning the device
    hasty,       \* history: the user left a screen before it was answered
    lost,        \* history: an answer of the chain failed or found nobody,
                 \* or an empty forum
    taps

view  == <<overlay, tab, sel>>
data  == <<mUser, mNews, mForum, tables>>
net   == <<infos, forums, tasks>>
vars  == <<screen, started, overlay, tab, sel, mUser, mNews, mForum, tables,
           infos, forums, tasks, empty, crash, turned, hasty, lost, taps>>

Tables    == {"matches", "standings"}
Tabs      == {"news", "forum"} \cup Tables
Screens   == {"core", "home", "detail", "form", "profile"}
ForumTags == {"POPULATE_FORUM", "REPOPULATE_FORUM"}
Task      == [kind : {"news"} \cup Tables, mine : BOOLEAN]

Alive   == crash = "none"
Resumed == screen = "core"
Quiet   == /\ \A u \in Users : infos[u] = 0
           /\ \A t \in ForumTags : forums[t] = 0
           /\ tasks = <<>>
Tap     == Alive /\ taps < MaxTaps /\ taps' = taps + 1

NewTask(k) == [kind |-> k, mine |-> TRUE]

\* The fields of a new instance.
FreshSel    == [t \in Tables |-> 1]
FreshTables == [t \in Tables |-> None]

\* onCreate: nothing is loaded, the overlay is up, the user is asked for.
Init ==
    /\ screen  = "core"
    /\ started = TRUE
    /\ overlay = TRUE
    /\ tab     = "news"
    /\ sel     = FreshSel
    /\ mUser   = None
    /\ mNews   = FALSE
    /\ mForum  = FALSE
    /\ tables  = FreshTables
    /\ infos   = [u \in Users |-> IF u = Me THEN 1 ELSE 0]
    /\ forums  = [t \in ForumTags |-> 0]
    /\ tasks   = <<>>
    /\ empty   \in Emptiness
    /\ crash   = "none"
    /\ turned  = FALSE
    /\ hasty   = FALSE
    /\ lost    = {}
    /\ taps    = 0

-----------------------------------------------------------------------------

\* replaceFragment(t), after the step has set the fields: the chosen league is
\* looked up, the overlay is taken away, the fragment is committed.
ReplaceFragment(t) ==
    LET missing == t \in Tables /\ tables'[t] = None
        short   == /\ t \in Tables /\ tables'[t] # None
                   /\ sel'[t] > tables'[t]
    IN  /\ overlay' = (overlay /\ (missing \/ short))
        /\ crash'   = IF missing THEN "null"
                   ELSE IF short THEN "index"
                   ELSE IF started THEN "none" ELSE "state"

-----------------------------------------------------------------------------
(* Answers *)

\* GET_USER_INFO: anyone's answer restarts the chain.
OnUserInfo(u) ==
    /\ Alive /\ Resumed
    /\ infos[u] > 0
    /\ infos' = [infos EXCEPT ![u] = @ - 1]
    /\ mUser' = u
    /\ tasks' = Append(tasks, NewTask("news"))
    /\ UNCHANGED <<screen, started, turned, hasty, view, mNews, mForum,
                   tables, forums, empty, crash, lost, taps>>

\* A failed read is answered FALSE, which changes nothing; an answer that
\* comes while another screen is on top is that screen's, or nobody's.
LoseUserInfo(u) ==
    /\ Alive
    /\ infos[u] > 0
    /\ infos' = [infos EXCEPT ![u] = @ - 1]
    /\ lost'  = lost \cup {"answer"}
    /\ UNCHANGED <<screen, started, turned, hasty, view, data, forums, tasks,
                   empty, crash, taps>>

NextTask(k) == Alive /\ tasks # <<>> /\ Head(tasks).kind = k

\* mutant: the fixtures are fetched at once, without waiting for the forum
MutOnPostNews ==
    /\ NextTask("news")
    /\ mNews'  = (mNews \/ Head(tasks).mine)
    /\ forums' = [forums EXCEPT !["POPULATE_FORUM"] = @ + 1]
    /\ tasks'  = Append(Tail(tasks), NewTask("matches"))
    /\ UNCHANGED <<screen, started, turned, hasty, view, mUser, mForum,
                   tables, infos, empty, crash, lost, taps>>

\* onPostNewsAsync.  mContext is static: also an instance that was destroyed
\* asks for the forum in the name of the present one.
OnPostNews ==
    /\ NextTask("news")
    /\ mNews'  = (mNews \/ Head(tasks).mine)
    /\ forums' = [forums EXCEPT !["POPULATE_FORUM"] = @ + 1]
    /\ tasks'  = Tail(tasks)
    /\ UNCHANGED <<screen, started, turned, hasty, view, mUser, mForum,
                   tables, infos, empty, crash, lost, taps>>

\* One entry per league whose fetch did not throw.
Fetched == 0..Leagues

\* mutant: the standings are not fetched when there are no fixtures
MutOnPostFixtures ==
    /\ NextTask("matches")
    /\ \E n \in Fetched :
          /\ tables' = IF Head(tasks).mine
                       THEN [tables EXCEPT !["matches"] = n] ELSE tables
          /\ tasks'  = IF n = 0 THEN Tail(tasks)
                       ELSE Append(Tail(tasks),
                                   [Head(tasks) EXCEPT !.kind = "standings"])
    /\ UNCHANGED <<screen, started, turned, hasty, view, mUser, mNews, mForum,
                   infos, forums, empty, crash, lost, taps>>

\* onPostFixturesAsync
OnPostFixtures ==
    /\ NextTask("matches")
    /\ \E n \in Fetched :
          tables' = IF Head(tasks).mine
                    THEN [tables EXCEPT !["matches"] = n] ELSE tables
    /\ tasks' = Append(Tail(tasks), [Head(tasks) EXCEPT !.kind = "standings"])
    /\ UNCHANGED <<screen, started, turned, hasty, view, mUser, mNews, mForum,
                   infos, forums, empty, crash, lost, taps>>

\* mutant: whichever instance asked, the present one is shown
MutOnPostStandings ==
    /\ NextTask("standings")
    /\ tasks' = Tail(tasks)
    /\ \E n \in Fetched : tables' = [tables EXCEPT !["standings"] = n]
    /\ UNCHANGED sel
    /\ ReplaceFragment(tab)
    /\ UNCHANGED <<screen, started, turned, hasty, tab, mUser, mNews, mForum,
                   infos, forums, empty, lost, taps>>

\* onPostStandingsAsync.  No item has the id 0, so the selected tab stays.  An
\* instance that was destroyed cannot commit a fragment.
OnPostStandings ==
    /\ NextTask("standings")
    /\ tasks' = Tail(tasks)
    /\ UNCHANGED sel
    /\ \/ /\ Head(tasks).mine
          /\ \E n \in Fetched : tables' = [tables EXCEPT !["standings"] = n]
          /\ ReplaceFragment(tab)
       \/ /\ ~Head(tasks).mine
          /\ crash' = "state"
          /\ UNCHANGED <<tables, overlay>>
    /\ UNCHANGED <<screen, started, turned, hasty, tab, mUser, mNews, mForum,
                   infos, forums, empty, lost, taps>>

\* The answer to forum_get_posts: an empty collection has no payload.
ForumAnswer(t) ==
    /\ Alive /\ Resumed
    /\ forums[t] > 0
    /\ forums' = [forums EXCEPT ![t] = @ - 1]

\* mutant: the fragment is shown as soon as the forum is there
MutOnPopulate ==
    /\ ForumAnswer("POPULATE_FORUM")
    /\ ~empty
    /\ mForum' = TRUE
    /\ tasks'  = Append(tasks, NewTask("matches"))
    /\ UNCHANGED <<sel, tables>>
    /\ ReplaceFragment(tab)
    /\ UNCHANGED <<screen, started, turned, hasty, tab, mUser, mNews, infos,
                   empty, lost, taps>>

\* POPULATE_FORUM
OnPopulate ==
    /\ ForumAnswer("POPULATE_FORUM")
    /\ ~empty
    /\ mForum' = TRUE
    /\ tasks'  = Append(tasks, NewTask("matches"))
    /\ UNCHANGED <<screen, started, turned, hasty, view, mUser, mNews, tables,
                   infos, empty, crash, lost, taps>>

\* REPOPULATE_FORUM
OnRepopulate ==
    /\ ForumAnswer("REPOPULATE_FORUM")
    /\ ~empty
    /\ mForum' = TRUE
    /\ UNCHANGED <<sel, tables>>
    /\ ReplaceFragment(tab)
    /\ UNCHANGED <<screen, started, turned, hasty, tab, mUser, mNews, infos,
                   tasks, empty, lost, taps>>

\* The branches without an else.
OnEmptyForum(t) ==
    /\ ForumAnswer(t)
    /\ empty
    /\ lost' = lost \cup {"posts"}
    /\ UNCHANGED <<screen, started, turned, hasty, view, data, infos, tasks,
                   empty, crash, taps>>

\* No failure of forum_get_posts is answered; an answer while another screen
\* is on top reaches nobody.
LoseForum(t) ==
    /\ Alive
    /\ forums[t] > 0
    /\ forums' = [forums EXCEPT ![t] = @ - 1]
    /\ lost'   = lost \cup {"answer"}
    /\ UNCHANGED <<screen, started, turned, hasty, view, data, infos, tasks,
                   empty, crash, taps>>

-----------------------------------------------------------------------------
(* The user, the system, the other users *)

\* onBnvClick: the navigation is under the overlay until something is shown.
TapTab(t) ==
    /\ Tap
    /\ Resumed /\ ~overlay
    /\ tab' = t
    /\ UNCHANGED <<sel, tables>>
    /\ ReplaceFragment(t)
    /\ UNCHANGED <<screen, started, turned, hasty, mUser, mNews, mForum, net,
                   empty, lost>>

\* mutant: the item's position is taken to count from 0 twice
MutChooseLeague(t, i) ==
    /\ Tap
    /\ Resumed /\ ~overlay
    /\ tab = t
    /\ sel' = [sel EXCEPT ![t] = i + 1]
    /\ UNCHANGED tables
    /\ ReplaceFragment(t)
    /\ UNCHANGED <<screen, started, turned, hasty, tab, mUser, mNews, mForum,
                   net, empty, lost>>

\* replaceMatchesFragment, replaceStandingsFragment: the dialog of the tab
ChooseLeague(t, i) ==
    /\ Tap
    /\ Resumed /\ ~overlay
    /\ tab = t
    /\ sel' = [sel EXCEPT ![t] = i]
    /\ UNCHANGED tables
    /\ ReplaceFragment(t)
    /\ UNCHANGED <<screen, started, turned, hasty, tab, mUser, mNews, mForum,
                   net, empty, lost>>

\* onPause.  The home screen is always there, the app's other screens once a
\* fragment is shown; the form and the profile ask for the user at once.
Leave(s) ==
    /\ Tap
    /\ Resumed
    /\ hasty' = (hasty \/ ~Quiet)
    /\ s # "home" => ~overlay
    /\ s \in {"form", "detail"} => tab = "forum"
    /\ screen' = s
    /\ IF s \in {"form", "profile"}
       THEN /\ infos[Me] < MaxRequests
            /\ infos' = [infos EXCEPT ![Me] = @ + 1]
       ELSE UNCHANGED infos
    /\ UNCHANGED <<started, turned, view, data, forums, tasks, empty, crash,
                   lost>>

\* ForumDetailActivity asks for a post's author under the same action string.
AskAuthor(u) ==
    /\ Alive
    /\ screen = "detail"
    /\ infos[u] < MaxRequests
    /\ infos' = [infos EXCEPT ![u] = @ + 1]
    /\ UNCHANGED <<screen, started, turned, hasty, view, data, forums, tasks,
                   empty, crash, lost, taps>>

\* The system saves the state of an activity that is no longer visible.
Stop ==
    /\ Alive /\ ~Resumed
    /\ started
    /\ started' = FALSE
    /\ UNCHANGED <<screen, turned, hasty, view, data, net, empty, crash, lost,
                   taps>>

\* onResume
Return ==
    /\ Alive /\ ~Resumed
    /\ hasty' = (hasty \/ ~Quiet)
    /\ screen'  = "core"
    /\ started' = TRUE
    /\ IF tab = "forum"
       THEN /\ forums["REPOPULATE_FORUM"] < MaxRequests
            /\ forums' = [forums EXCEPT !["REPOPULATE_FORUM"] = @ + 1]
       ELSE UNCHANGED forums
    /\ UNCHANGED <<turned, view, data, infos, tasks, empty, crash, lost,
                   taps>>

\* The device is turned: a new instance, which keeps the selected tab; the
\* old one's tasks go on.
Rotate ==
    /\ MayRotate
    /\ Tap
    /\ Resumed
    /\ infos[Me] < MaxRequests
    /\ forums["REPOPULATE_FORUM"] < MaxRequests
    /\ overlay' = TRUE
    /\ sel'     = FreshSel
    /\ tables'  = FreshTables
    /\ mUser'   = None
    /\ mNews'   = FALSE
    /\ mForum'  = FALSE
    /\ infos'   = [infos EXCEPT ![Me] = @ + 1]
    /\ forums'  = [forums EXCEPT !["REPOPULATE_FORUM"] =
                      IF tab = "forum" THEN @ + 1 ELSE @]
    /\ tasks'   = [i \in DOMAIN tasks |-> [tasks[i] EXCEPT !.mine = FALSE]]
    /\ turned'  = TRUE
    /\ lost'    = {}
    /\ UNCHANGED <<screen, started, tab, hasty, empty, crash>>

\* After a crash the app is started again.
Relaunch ==
    /\ ~Alive
    /\ screen'  = "core"
    /\ started' = TRUE
    /\ overlay' = TRUE
    /\ tab'     = "news"
    /\ sel'     = FreshSel
    /\ mUser'   = None
    /\ mNews'   = FALSE
    /\ mForum'  = FALSE
    /\ tables'  = FreshTables
    /\ infos'   = [u \in Users |-> IF u = Me THEN 1 ELSE 0]
    /\ forums'  = [t \in ForumTags |-> 0]
    /\ tasks'   = <<>>
    /\ crash'   = "none"
    /\ turned'  = FALSE
    /\ hasty'   = FALSE
    /\ lost'    = {}
    /\ UNCHANGED <<empty, taps>>

\* Other devices create the first post or delete the last one.
ForumChanges ==
    /\ empty' \in Emptiness \ {empty}
    /\ UNCHANGED <<screen, started, turned, hasty, view, data, net, crash,
                   lost, taps>>

-----------------------------------------------------------------------------

UserAnswer(u) == OnUserInfo(u) \/ LoseUserInfo(u)
TaskEnds      == OnPostNews \/ OnPostFixtures \/ OnPostStandings
PostsAnswer(t) == \/ t = "POPULATE_FORUM" /\ OnPopulate
                  \/ t = "REPOPULATE_FORUM" /\ OnRepopulate
                  \/ OnEmptyForum(t)
                  \/ LoseForum(t)

Next ==
    \/ \E u \in Users : UserAnswer(u) \/ AskAuthor(u)
    \/ TaskEnds
    \/ \E t \in ForumTags : PostsAnswer(t)
    \/ \E t \in Tabs : TapTab(t)
    \/ \E t \in Tables, i \in 1..Leagues : ChooseLeague(t, i)
    \/ \E s \in Screens \ {"core"} : Leave(s)
    \/ Stop \/ Return \/ Rotate \/ Relaunch \/ ForumChanges

Spec == Init /\ [][Next]_vars

\* Firestore and HTTP answer or fail within their time-outs.
Fairness ==
    /\ \A u \in Users : WF_vars(UserAnswer(u))
    /\ WF_vars(TaskEnds)
    /\ \A t \in ForumTags : WF_vars(PostsAnswer(t))

FairSpec == Spec /\ Fairness

-----------------------------------------------------------------------------
(* Properties *)

\* Types of all variables.
TypeOK ==
    /\ screen \in Screens
    /\ started \in BOOLEAN /\ overlay \in BOOLEAN
    /\ tab \in Tabs
    /\ sel \in [Tables -> 1..Leagues]
    /\ mUser \in Users \cup {None}
    /\ mNews \in BOOLEAN /\ mForum \in BOOLEAN
    /\ tables \in [Tables -> 0..Leagues \cup {None}]
    /\ infos \in [Users -> Nat]
    /\ forums \in [ForumTags -> Nat]
    /\ tasks \in Seq(Task)
    /\ empty \in BOOLEAN /\ turned \in BOOLEAN
    /\ hasty \in BOOLEAN /\ lost \subseteq {"answer", "posts"}
    /\ crash \in {"none", "null", "index", "state"}
    /\ taps \in Nat

\* Once the overlay is gone everything the tabs show has been loaded: the
\* chain shows the first fragment only at its end, whichever answers of other
\* screens restart it.  (Not so after a rotation: see ShownHasForum.)
ShownIsLoaded ==
    ~overlay => \/ turned
                \/ /\ mUser # None
                   /\ mNews /\ mForum
                   /\ \A t \in Tables : tables[t] # None

\* No tab is ever opened on a list that is not there, unless the instance was
\* made by turning the device.
NeverNull == crash = "null" => turned

\* The user has left each screen only once it was answered.
Calm == ~hasty /\ ~turned

\* A calm user sees no crash as long as every league was fetched: no callback
\* of the chain finds a list missing or the screen stopped.
NoCrash ==
    Calm /\ ~Alive => \E t \in Tables : tables[t] # None /\ tables[t] < Leagues

\* While the user is calm the requests of the chain never run in parallel, and
\* his screen is that of the signed-in user, although other screens ask for
\* authors under the same action string: no late answer starts a second chain
\* that resets what he sees.
OneChain == Calm =>
    /\ mUser \in {Me, None}
    /\ Resumed => infos[Me] + forums["POPULATE_FORUM"] + Len(tasks) <= 1

\* Even when the device is turned while old tasks and answers are under way,
\* nothing is shown before this instance has its forum.
ShownHasForum == ~overlay => mForum

\* The overlay goes away, unless an answer failed or was missed or the app
\* died.  onReceive's comment on POPULATE_FORUM has a null payload accepted.
Loads == overlay ~> (~overlay \/ "answer" \in lost \/ ~Alive)

\* With posts to show the overlay goes away, unless an answer failed or was
\* missed or the app died.
LoadsPosts == overlay ~> (~overlay \/ lost # {} \/ ~Alive)
=============================================================================
