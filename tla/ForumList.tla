------------------------------ MODULE ForumList ------------------------------
(***************************************************************************)
(* The forum tab: how CoreActivity filters and sorts mForumCollection, and *)
(* the dialogs of ForumFragment that change the filter and the order.      *)
(*                                                                         *)
(* The selections are one boolean[] that CoreActivity, the fragment and    *)
(* the dialog share: a tick in the dialog changes it at once.  The order   *)
(* is an int, of which the fragment has a copy.                            *)
(***************************************************************************)
EXTENDS TextUtil, FiniteSets, Functions

CONSTANTS
    NLeagues, NCategories,
    AllPosts,    \* the posts there can be, in the order of their document ids
    None

\* The place of a post in AllPosts stands for it.
Posts == DOMAIN AllPosts

\* A post: its league and category, which are positions of the form's two
\* spinners, the hour it was written, the numbers of likes and comments.
Post == [league : 0..(NLeagues - 1), category : 0..(NCategories - 1),
         hour : Nat, likes : Nat, comments : Nat]

ASSUME ListAssumption ==
    /\ NLeagues \in Nat \ {0} /\ NCategories \in Nat \ {0}
    /\ AllPosts \in Seq(Post)
    /\ None \notin Seq(Posts)

VARIABLES
    server,      \* the posts that exist
    mForum,      \* mForumCollection, or None
    tab,         \* the forum tab is selected
    filter,      \* mForumFilterSelection and the fragment's mCheckedFilterItems
    sort,        \* mForumSortSelection
    choice,      \* the fragment's mCheckedSortItem
    dialog,      \* the open dialog
    replaced,    \* a reload put a new fragment under the open dialog
    shown,       \* the fragment's list
    tags,        \* the texts of the filter tag and the sort tag
    applied,     \* history: the filter when the list was made
    original,    \* filter and choice when the dialog was opened, or None
    unconfirmed  \* history: since the list was last made, a changed dialog was
                 \* closed without Apply, or a reload met an open dialog

vars == <<server, mForum, tab, filter, sort, choice, dialog, shown, tags,
          applied, original, unconfirmed, replaced>>

Options == 0..(NLeagues + NCategories - 1)
Sorts   == {"newest", "popular"}
Tags    == [filter : {"all", "custom"}, sort : Sorts]

-----------------------------------------------------------------------------
(* Posts *)

\* getPopularity
Popularity(p) == AllPosts[p].likes + AllPosts[p].comments * 2

\* extractDateFromDocumentId
DateOf(p) == ReadBack(AllPosts[p].hour)

\* The elements of s at the places P, those of the least key first; equal keys
\* keep their order.
Arrange(s, P, key) ==
    LET before(i, j) == \/ key[i] < key[j]
                        \/ key[i] = key[j] /\ i < j
        place(i) == Cardinality({j \in P : before(j, i)}) + 1
    IN  [n \in 1..Cardinality(P) |-> s[CHOOSE i \in P : place(i) = n]]

\* The documents of a collection come in the order of their ids.
InIdOrder(S) == Arrange([p \in Posts |-> p], S, [p \in Posts |-> 0])

\* sortForumCollection: the newest or the most popular first
SortForum(s, order) ==
    Arrange(s, DOMAIN s,
            [i \in DOMAIN s |-> IF order = "newest" THEN -DateOf(s[i])
                                ELSE -Popularity(s[i])])

\* mutant: the categories' ticks are looked for one place too early
MutFilterForum(posts, f) ==
    LET league(i)   == AllPosts[posts[i]].league
        byLeague    == Arrange(posts, {i \in DOMAIN posts : f[league(i)]},
                               [i \in DOMAIN posts |-> league(i)])
        category(i) == AllPosts[byLeague[i]].category
    IN  Arrange(byLeague,
                {i \in DOMAIN byLeague : f[NLeagues - 1 + category(i)]},
                [i \in DOMAIN byLeague |-> category(i)])

\* filterForumCollection: for each ticked league its posts, and of these, for
\* each ticked category its posts.
FilterForum(posts, f) ==
    LET league(i)   == AllPosts[posts[i]].league
        byLeague    == Arrange(posts, {i \in DOMAIN posts : f[league(i)]},
                               [i \in DOMAIN posts |-> league(i)])
        category(i) == AllPosts[byLeague[i]].category
    IN  Arrange(byLeague, {i \in DOMAIN byLeague : f[NLeagues + category(i)]},
                [i \in DOMAIN byLeague |-> category(i)])

Selected(p, f) ==
    f[AllPosts[p].league] /\ f[NLeagues + AllPosts[p].category]

-----------------------------------------------------------------------------

Init ==
    /\ server   \in SUBSET Posts
    /\ mForum   = None
    /\ tab      = FALSE
    /\ filter   = [o \in Options |-> TRUE]
    /\ sort     = "newest"
    /\ choice   = "newest"
    /\ dialog   = "none"
    /\ shown    = <<>>
    /\ tags     = [filter |-> "all", sort |-> "newest"]
    /\ applied  = filter
    /\ original = None
    /\ unconfirmed = FALSE
    /\ replaced = FALSE

\* editOptionTags
EditTags(f, order) ==
    tags' = [filter |-> IF \A o \in Options : f[o] THEN "all" ELSE "custom",
             sort   |-> order]

\* replaceFragment(bnv_forum): a new fragment, filtered and sorted.
ReplaceForumTab ==
    /\ shown'   = IF mForum' = None THEN <<>>
                  ELSE SortForum(FilterForum(mForum', filter), sort)
    /\ applied' = filter
    /\ EditTags(filter, sort)

\* mutant: a dialog's choice is applied only when the tab is shown again
MutReplaceForumFragment(f, order) ==
    /\ filter'  = f
    /\ sort'    = order
    /\ choice'  = order
    /\ dialog'  = "none"
    /\ EditTags(f, order)
    /\ unconfirmed' = FALSE
    /\ replaced' = FALSE
    /\ original' = None
    /\ UNCHANGED <<server, mForum, tab, shown, applied>>

\* replaceForumFragment(f, order): filtered, not sorted.
ReplaceForumFragment(f, order) ==
    /\ filter'  = f
    /\ sort'    = order
    /\ choice'  = order
    /\ dialog'  = "none"
    /\ EditTags(f, order)
    /\ shown'   = FilterForum(mForum, f)
    /\ applied' = f
    /\ unconfirmed' = FALSE
    /\ replaced' = FALSE
    /\ original' = None
    /\ UNCHANGED <<server, mForum, tab>>

-----------------------------------------------------------------------------
(* Actions *)

\* Posts come and go.
ServerChanges ==
    /\ server' \in SUBSET Posts
    /\ server' # server
    /\ UNCHANGED <<mForum, tab, filter, sort, choice, dialog, shown, tags,
                   applied, original, unconfirmed, replaced>>

\* POPULATE_FORUM and REPOPULATE_FORUM; without posts there is no payload.  An
\* open dialog stays, with the fragment that opened it, under which a new one is
\* put; what is ticked in it is applied although nobody confirmed it.
Repopulate ==
    /\ server # {}
    /\ mForum' = InIdOrder(server)
    /\ IF tab THEN ReplaceForumTab ELSE UNCHANGED <<shown, applied, tags>>
    /\ choice' = IF tab /\ dialog = "none" THEN sort ELSE choice
    /\ replaced' = (replaced \/ (tab /\ dialog # "none"))
    /\ unconfirmed' = ((unconfirmed /\ ~tab) \/ (tab /\ dialog # "none"))
    /\ UNCHANGED <<server, tab, filter, sort, dialog, original>>

\* mutant: the list is not sorted again when the tab is opened
MutTapForum ==
    /\ dialog = "none"
    /\ mForum # None
    /\ tab'    = TRUE
    /\ shown'  = FilterForum(mForum, filter)
    /\ applied' = filter
    /\ EditTags(filter, sort)
    /\ choice' = sort
    /\ unconfirmed' = FALSE
    /\ UNCHANGED <<server, mForum, filter, sort, dialog, original, replaced>>

TapForum ==
    /\ dialog = "none"
    /\ mForum # None
    /\ tab'    = TRUE
    /\ UNCHANGED mForum
    /\ ReplaceForumTab
    /\ choice' = sort
    /\ unconfirmed' = FALSE
    /\ UNCHANGED <<server, filter, sort, dialog, original, replaced>>

TapOtherTab ==
    /\ dialog = "none"
    /\ tab /\ tab' = FALSE
    /\ UNCHANGED <<server, mForum, filter, sort, choice, dialog, shown, tags,
                   applied, original, unconfirmed, replaced>>

\* displayFilterDialog, displaySortDialog
OpenDialog(d) ==
    /\ tab /\ dialog = "none"
    /\ dialog'   = d
    /\ original' = [filter |-> filter, choice |-> choice]
    /\ UNCHANGED <<server, mForum, tab, filter, sort, choice, shown, tags,
                   applied, unconfirmed, replaced>>

\* A tick writes into the array the dialog was given.
Tick(o) ==
    /\ dialog = "filter"
    /\ filter' = [filter EXCEPT ![o] = ~@]
    /\ UNCHANGED <<server, mForum, tab, sort, choice, dialog, shown, tags,
                   applied, original, unconfirmed, replaced>>

\* Apply.  The counters count the items, not the ticks: nothing is refused.
ApplyFilter ==
    /\ dialog = "filter"
    /\ ReplaceForumFragment(filter, choice)

\* Select All
SelectAll ==
    /\ dialog = "filter"
    /\ ReplaceForumFragment([o \in Options |-> TRUE], choice)

PickSort(order) ==
    /\ dialog = "sort"
    /\ choice' = order
    /\ UNCHANGED <<server, mForum, tab, filter, sort, dialog, shown, tags,
                   applied, original, unconfirmed, replaced>>

ApplySort ==
    /\ dialog = "sort"
    /\ ReplaceForumFragment(filter, choice)

\* A dialog is closed with nothing applied; c is the choice it leaves in the
\* fragment that opened it, which may no longer be the one on the screen.
CloseDialog(c) ==
    /\ dialog'   = "none"
    /\ choice'   = IF replaced THEN sort ELSE c
    /\ replaced' = FALSE
    /\ original' = None

Untouched == filter = original.filter /\ choice = original.choice

\* Cancel in the filter dialog: `original' is the array itself.
CancelFilter ==
    /\ dialog = "filter"
    /\ CloseDialog(choice)
    /\ unconfirmed' = (unconfirmed \/ ~Untouched)
    /\ UNCHANGED <<server, mForum, tab, filter, sort, shown, tags, applied>>

\* Cancel in the sort dialog: `original' is a copy of the number.
CancelSort ==
    /\ dialog = "sort"
    /\ CloseDialog(original.choice)
    /\ UNCHANGED <<server, mForum, tab, filter, sort, shown, tags, applied,
                   unconfirmed>>

\* The back key closes a dialog without any callback.
Dismiss ==
    /\ dialog # "none"
    /\ CloseDialog(choice)
    /\ unconfirmed' = (unconfirmed \/ ~Untouched)
    /\ UNCHANGED <<server, mForum, tab, filter, sort, shown, tags, applied>>

Next ==
    \/ ServerChanges \/ Repopulate \/ TapForum \/ TapOtherTab
    \/ \E d \in {"filter", "sort"} : OpenDialog(d)
    \/ \E o \in Options : Tick(o)
    \/ \E order \in Sorts : PickSort(order)
    \/ ApplyFilter \/ SelectAll \/ ApplySort
    \/ CancelFilter \/ CancelSort \/ Dismiss

Spec == Init /\ [][Next]_vars

-----------------------------------------------------------------------------
(* Properties *)

\* A reader sees every post that belongs to the applied filter exactly once,
\* and no other: the two passes of filterForumCollection lose nothing and
\* double nothing, although they regroup the posts.
ShownIsSelected ==
    tab => /\ Range(shown) = {p \in Range(mForum) : Selected(p, applied)}
           /\ Len(shown) = Cardinality(Range(shown))

\* The open tab was made from what the user last ticked and chose, unless he
\* left a changed dialog without Apply or a reload met an open dialog; the next
\* Apply, reload or opening of the tab mends that.
ChoiceIsApplied ==
    tab /\ dialog = "none" /\ ~unconfirmed => filter = applied /\ choice = sort

Sorted(s, order) ==
    \A i, j \in DOMAIN s : i < j =>
        IF order = "newest" THEN DateOf(s[i]) >= DateOf(s[j])
        ELSE Popularity(s[i]) >= Popularity(s[j])

\* Opening the tab and reloading the forum leave the list in the order that
\* the sort tag names.
ReloadSorts ==
    [][ (tab' /\ ~tab) \/ (tab' /\ mForum' # mForum)
            => Sorted(shown', tags'.sort) ]_vars
=============================================================================
