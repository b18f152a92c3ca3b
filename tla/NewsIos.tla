------------------------------- MODULE NewsIos -------------------------------
(***************************************************************************)
(* The iOS app: signing in (LoginVC), the news load behind it (LoadVC),    *)
(* the list (NewsVC) and one article (NewsDetailVC).                       *)
(*                                                                         *)
(* The storyboard has no navigation controller, so each segue presents its *)
(* screen over the one that performs it.  UIKit refuses that, with a       *)
(* warning in the log, if the screen is not in the window or has another   *)
(* on top.  Sheets are swept away; the sign-up screen is full and has no   *)
(* way back.                                                               *)
(***************************************************************************)
EXTENDS Naturals, Sequences, SequencesExt

CONSTANTS
    Titles, Contents,
    Answers,     \* the articles that an answer of the server may hold
    MaxLoads,    \* bound: sign-ins asked for
    None

Item == [title : Titles \cup {None}, body : Seq(Contents \cup {None})]

ASSUME NewsIosAssumption ==
    /\ Answers \subseteq Seq(Item)
    /\ MaxLoads \in Nat
    /\ None \notin Titles \cup Contents

VARIABLES
    signedIn,    \* Auth.auth().currentUser, kept on the device
    stack,       \* the screens, each presented by the one before it
    signIns,     \* sign-ins that the server has not answered
    load,        \* the instance of LoadVC that is presented, or 0
    fetches,     \* instances whose news have not been answered
    segues,      \* instances whose segue waits for the main queue
    got,         \* mNewsCollection of each instance
    news,        \* mCollection of NewsVC
    detail,      \* the article of NewsDetailVC
    crashed,
    asked,       \* sign-ins asked for so far
    ended        \* history: instances whose load failed or was refused

work == <<signIns, fetches, segues>>
vars == <<signedIn, stack, signIns, load, fetches, segues, got, news, detail,
          crashed, asked, ended>>

Loads == 1..MaxLoads

Init ==
    /\ signedIn = FALSE
    /\ stack = <<"login">>
    /\ signIns = 0 /\ load = 0 /\ fetches = {} /\ segues = {}
    /\ got = [i \in Loads |-> <<>>] /\ news = <<>> /\ detail = None
    /\ crashed = FALSE /\ asked = 0 /\ ended = {}

-----------------------------------------------------------------------------

Alive == ~crashed
Top   == Last(stack)

\* mutant: a screen that is not on top presents, too
MutPresents(screen) == screen \in Range(stack)

\* UIKit: only the screen on top presents another.
Presents(screen) == Top = screen

\* loginTap: nothing keeps the button from a second tap.
LoginTap ==
    /\ Alive /\ Top = "login" /\ asked < MaxLoads
    /\ asked' = asked + 1
    /\ signIns' = signIns + 1
    /\ UNCHANGED <<signedIn, stack, load, fetches, segues, got, news, detail,
                   crashed, ended>>

\* The answer shows the loading screen, a new instance that asks for the news
\* as it is shown.
OnSignedIn ==
    /\ Alive /\ signIns > 0
    /\ signIns' = signIns - 1
    /\ signedIn' = TRUE
    /\ IF Presents("login")
       THEN /\ load' = asked - signIns'   \* of the sign-ins that are over
            /\ stack' = Append(stack, "load")
            /\ fetches' = fetches \cup {load'}
       ELSE UNCHANGED <<load, stack, fetches>>
    /\ UNCHANGED <<segues, got, news, detail, crashed, asked, ended>>

\* A wrong password, or no network: an alert
OnRefused ==
    /\ Alive /\ signIns > 0
    /\ signIns' = signIns - 1
    /\ stack' = IF Presents("login") THEN Append(stack, "alert") ELSE stack
    /\ UNCHANGED <<signedIn, load, fetches, segues, got, news, detail, crashed,
                   asked, ended>>

SignUpTap ==
    /\ Alive /\ Presents("login")
    /\ stack' = Append(stack, "signUp")
    /\ UNCHANGED <<signedIn, work, load, got, news, detail, crashed, asked,
                   ended>>

\* The user sweeps the top sheet away, or taps the alert's button.  What the
\* screen had asked for goes on.
Dismiss ==
    /\ Alive /\ Top \in {"alert", "load", "news", "detail"}
    /\ stack' = Front(stack)
    /\ load' = IF Top = "load" THEN 0 ELSE load
    /\ news' = IF Top = "news" THEN <<>> ELSE news
    /\ detail' = None
    /\ UNCHANGED <<signedIn, work, got, crashed, asked, ended>>

\* The process ends and is started again.  viewDidLoad finds the user signed in
\* and performs the segue to the loading screen before its own view is in the
\* window: it is refused, and the user signs in again.
Restart ==
    /\ stack' = <<"login">>
    /\ signIns' = 0 /\ load' = 0 /\ fetches' = {} /\ segues' = {}
    /\ got' = [i \in Loads |-> <<>>] /\ news' = <<>> /\ detail' = None
    /\ crashed' = FALSE
    /\ UNCHANGED <<signedIn, asked, ended>>

-----------------------------------------------------------------------------

\* convertJson: `description' is never emptied between two articles, and the
\* title is the time stamp.
Convert(items) ==
    LET content(item) == SelectSeq(item.body, LAMBDA c : c # None)
        upTo(k) == FlattenSeq([j \in 1..k |-> content(items[j])])
    IN  [k \in DOMAIN items |->
            [title |-> items[k].title, timestamp |-> items[k].title,
             description |-> upTo(k)]]

\* mutant: no segue to an empty list
MutOnNews(i, items) ==
    /\ Alive /\ i \in fetches
    /\ fetches' = fetches \ {i}
    /\ IF \E k \in DOMAIN items : items[k].title = None
       THEN crashed' = TRUE /\ UNCHANGED <<got, segues>>
       ELSE /\ got' = [got EXCEPT ![i] = Convert(items)]
            /\ segues' = IF items = <<>> THEN segues ELSE segues \cup {i}
            /\ UNCHANGED crashed
    /\ UNCHANGED <<signedIn, stack, signIns, load, news, detail, asked, ended>>

\* The news are there, on a thread of their own: the instance keeps them and
\* hands its segue to the main queue.  A missing title ends the process.
OnNews(i, items) ==
    /\ Alive /\ i \in fetches
    /\ fetches' = fetches \ {i}
    /\ IF \E k \in DOMAIN items : items[k].title = None
       THEN crashed' = TRUE /\ UNCHANGED <<got, segues>>
       ELSE /\ got' = [got EXCEPT ![i] = Convert(items)]
            /\ segues' = segues \cup {i}
            /\ UNCHANGED crashed
    /\ UNCHANGED <<signedIn, stack, signIns, load, news, detail, asked, ended>>

\* An error, or an answer that is not JSON, is only logged.
OnNoNews(i) ==
    /\ Alive /\ i \in fetches
    /\ fetches' = fetches \ {i}
    /\ ended' = ended \cup {i}
    /\ UNCHANGED <<signedIn, stack, signIns, load, segues, got, news, detail,
                   crashed, asked>>

\* mutant: the instance is not looked at
MutOnMain(i) ==
    /\ Alive /\ i \in segues
    /\ segues' = segues \ {i}
    /\ IF Presents("load")
       THEN stack' = Append(stack, "news") /\ news' = got[i]
       ELSE UNCHANGED <<stack, news>>
    /\ UNCHANGED <<signedIn, signIns, load, fetches, got, detail, crashed,
                   asked, ended>>

\* The segue of instance i: prepare hands its news on.  An instance that was
\* swept away is not in the window.
OnMain(i) ==
    /\ Alive /\ i \in segues
    /\ segues' = segues \ {i}
    /\ IF load = i /\ Presents("load")
       THEN stack' = Append(stack, "news") /\ news' = got[i]
       ELSE UNCHANGED <<stack, news>>
    /\ UNCHANGED <<signedIn, signIns, load, fetches, got, detail, crashed,
                   asked, ended>>

\* A tap on a row performs two segues to the same screen, the cell's and
\* didSelectRowAt's; the second is refused.
RowTap(k) ==
    /\ Alive /\ Presents("news") /\ k \in DOMAIN news
    /\ stack' = Append(stack, "detail")
    /\ detail' = news[k]
    /\ UNCHANGED <<signedIn, work, load, got, news, crashed, asked, ended>>

Next ==
    \/ LoginTap \/ OnSignedIn \/ OnRefused \/ SignUpTap \/ Dismiss \/ Restart
    \/ \E i \in Loads :
          \/ \E items \in Answers : OnNews(i, items)
          \/ OnNoNews(i) \/ OnMain(i)
    \/ \E k \in DOMAIN news : RowTap(k)

\* URLSession answers every task, if only with a time-out after 100 seconds,
\* and the main queue runs what it is given.
Fairness ==
    \A i \in Loads :
        /\ WF_vars((\E items \in Answers : OnNews(i, items)) \/ OnNoNews(i))
        /\ WF_vars(OnMain(i))

Spec == Init /\ [][Next]_vars /\ Fairness

-----------------------------------------------------------------------------
(* Properties *)

\* An article as it is kept: the time stamp is its title.
IsNews(n) == n.title \in Titles /\ n.timestamp \in Titles

\* Types of all variables: the first part of OneOfEach.
TypeOK ==
    /\ signedIn \in BOOLEAN /\ crashed \in BOOLEAN
    /\ stack \in Seq({"login", "alert", "signUp", "load", "news", "detail"})
    /\ signIns \in 0..MaxLoads /\ asked \in 0..MaxLoads
    /\ load \in {0} \cup Loads
    /\ fetches \subseteq Loads /\ segues \subseteq Loads
    /\ ended \subseteq Loads
    /\ DOMAIN got = Loads
    /\ \A i \in Loads : \A k \in DOMAIN got[i] : IsNews(got[i][k])
    /\ \A k \in DOMAIN news : IsNews(news[k])
    /\ detail # None => IsNews(detail)

\* However often the button is tapped and in whatever order the answers come,
\* no screen lies over another of its kind, and the news are open to nobody who
\* has not signed in.
OneOfEach ==
    /\ TypeOK
    /\ \A i, j \in DOMAIN stack : stack[i] = stack[j] => i = j
    /\ Len(stack) > 1 /\ stack[2] = "load" => signedIn

\* The list shows what the loading screen under it was sent, also when the
\* answer of one that was swept away comes later.
NewsOfThisLoad ==
    "news" \in Range(stack) => load # 0 /\ news = got[load]

\* A loading screen that has asked for news does not wait for ever: the list
\* opens, the user leaves, or the load was one that failed.
LoadsEnd ==
    \A i \in Loads :
        (i \in fetches /\ load = i)
            ~> ("news" \in Range(stack) \/ load # i \/ i \in ended \/ crashed)
=============================================================================
