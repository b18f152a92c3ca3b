# The Football Gallery: a TLA+ model of its forum and its screens

This directory models the Android app *The Football Gallery*
(`SeanLee_TheFootballGallery_2201`): a forum kept in Firestore that several
devices edit at once, and the screens that load it, show it and change it. The
repository also holds a small iOS app (`SeanLee_TFG_ios_2202`), vendored iOS
libraries and documents. The paths below are relative to
`src/SeanLee_TheFootballGallery_2201/app/src/main/java/com/example/seanlee_thefootballgallery_2201/`
unless they start with `src/`.

## 1. The system

### 1.1 How the parts talk

Nothing in the app waits for an answer. A screen calls a static method of
`DBUtil` (Firestore, Firebase Auth) or starts an `AsyncTask` (HTTP); the
callback, on the main thread, sends a *broadcast* whose **action string** is the
only link between answer and request (`DBUtil.sendBroadcast` 1067-1074). The
activity that happens to be registered for that string handles the answer with
the fields it holds *then*. So the hard behaviours of this program are:

- an answer reaches another screen than the one that asked (several classes
  use the same action string; two receivers of one class never differ at all);
- an answer reaches nobody, because `onPause` unregistered the receiver;
- documents are saved whole, from copies read earlier, by several devices;
- one operation is several writes (a comment, then the post that lists it; a
  post, then the user's list), and the process can die between them;
- handlers use fields that another answer was supposed to set (`mCurrentUser`),
  in an order the network decides;
- ids are time stamps.

### 1.2 Components

| component | state | operations | with whom | what makes it correct |
|---|---|---|---|---|
| Forum documents (`f_utils/DBUtil.java` 528-1032, `e_models/objects`) | collections `posts`, `comments`, `users.posts` | create, update, delete a post; read all, read one; create a comment | `CoreActivity`, `ForumDetailActivity`, `ForumFormActivity` | a post lists only comments that exist; a deleted post stays deleted; a user's list names posts that were created; only the author deletes |
| Post screen (`b_core/ForumDetailActivity.java`) | `mPost`, `mNewPost`, `mComment`, `mNewComment`, `mCurrentUser`, `mIsMyPost`, registered receivers | load user, author, comments; comment, like, yellow card, edit, delete | `DBUtil`; covers the list, is covered by the form | answers act on the post they were asked for; every answer finds the fields it needs |
| Post form (`b_core/ForumFormActivity.java`) | `mAuthor`, `mOldPost`, `mNewPost` | post, save an edit, leave | `DBUtil`, result to `CoreActivity` | the author of a post is the user who wrote it; an edit loses nothing |
| Forum list (`b_core/CoreActivity.java`, `ForumFragment.java`) | `mForumCollection`, `mUser`, filter and sort fields | load, filter, sort, reload | all | what is shown is the collection, filtered and sorted |
| Core screen's load chain (`CoreActivity` 131-170, 315-332, 421-461, 515-604) | which fields have arrived; the progress overlay | user -> news -> forum -> fixtures -> standings -> show | `DBUtil`, `APIUtil` | the overlay goes away only when all is loaded; it goes away |
| Comments of a post (`DBUtil` 815-983, `ForumDetailCommentFragment.java` 66-112) | partial lists of authors, mentions | four dependent reads; order replies under their parents | post screen | every comment is shown once, with its own author and its own mention, below its parent |
| Comment reactions (`CommentAdapter.java`, `ForumDetailActivity` 381-418, 562-594) | `likes`, `ycards` of a comment, `commentLikes`, `commentYCards` of a user | like, yellow card, reply | `DBUtil` | the counters agree with the users' arrays |
| Sign-up and sign-in (`a_authentications/`, `DBUtil` 52-196) | the Auth accounts, `users`, the form's validity flags | verify e-mail, create account, verify user name, create user | Auth, Firestore | one user per name; an account has a user document |
| Profile (`d_profiles/`, `DBUtil` 198-239) | a copy of the user document | edit, save | Firestore | saving a profile changes the profile only |
| Helpers (`f_utils/StringUtil.java`) | none | ids, time differences, validity, summaries | all | a time difference falls in exactly one unit; ids differ |
| News, matches, standings (`f_utils/APIUtil.java`, `ConvertUtil`, fragments, adapters) | lists per league | fetch, convert, show | HTTP | a league's fixtures are shown under that league |
| iOS app (`src/SeanLee_TFG_ios_2202/SeanLee_TFG_ios_2202`) | the chain of screens, the news of each loading screen | sign in, fetch news, convert, show | Firebase Auth, HTTP, UIKit | no screen twice; a list is that of its own load; a load ends |
| Vendored Pods, documents, layouts, drawables | - | - | - | - |

Section 6 says which parts are not modelled and why.

## 2. The modules

| module | models | status |
|---|---|---|
| `Forum` | the documents, the write queues and the answers of several devices, and the three screens that edit posts | done |
| `ForumPromise` | what the documents promise, without devices, queues or screens | done |
| `CoreScreen` | the core screen's chain of requests, its life cycle and its tabs | done |
| `ForumList` | the forum tab's filter and order, with their dialogs | done |
| `SignUp` | sign-up, sign-in and sign-out on several devices | done |
| `Registration` | what accounts and documents promise, without devices or screens | done |
| `UserDoc` | likes and cards of comments, and the profile that is saved whole | done |
| `PostScreen` | the post screen's loads, life cycle, comments and replies, and the form that edits | done |
| `TextUtil` | the conversions of `StringUtil` | done |
| `Reader` | the forum's two reads and the comments' four, while others write | done |
| `NewsIos` | the iOS app | done |
| `MC...` | constants of the small instances | done |
| `Forum_proofs`, `CoreScreen_proofs`, `ForumList_proofs`, `SignUp_proofs`, `UserDoc_proofs`, `PostScreen_proofs`, `Reader_proofs`, `NewsIos_proofs` | theorems | section 4 |

The components meet in few places. `CoreScreen` takes the lists as present or
absent, and `ForumList` takes the load as a reload at any time, so each is
checked against every behaviour of the other. `SignUp` ends where `CoreScreen`
begins. `Forum` reads and writes what `CoreScreen` lists. The post screen is too
large for one instance, so three modules share it, each with the others'
actions as its environment: `Forum` has several devices and the documents,
`PostScreen` one device and the order of its answers, `UserDoc` the reactions.
`Reader` is `PostScreen`'s single answer "comments" taken apart into the four
reads that make it.

Definitions whose names begin with `Mut` are plausible wrong versions of the
definition that follows them. No specification uses them; for each property
there is one with which the property fails on the same instance.

### 2.1 `Forum`

State, and where it lives in the program:

| variable | in the program |
|---|---|
| `posts`, `comments`, `userPosts` | the Firestore collections; of a user only the `posts` array |
| `scr` | the activity on top: `CoreActivity` ("list"), `ForumDetailActivity` ("detail"), `ForumFormActivity` for a new post ("newForm") or over a post ("editForm") |
| `list` | `CoreActivity.mForumCollection` |
| `mPost`, `mNew`, `mine`, `ready` | `ForumDetailActivity.mPost`, `mNewPost`, `mIsMyPost`, and whether `populateInfo` has set the listeners |
| `formNew` | the id of `ForumFormActivity.mNewPost` |
| `queue[d]` | Firestore's queue of pending writes: first in first out, kept on disk |
| `acks[d]` | results not yet delivered as broadcasts |
| `reads[d]` | `forum_get_post_with_id` requests |
| `taps`, `usedIds`, `failed`, `deleted` | the bound on user commands; history used by ids and properties |

Actions follow the code one by one: `OpenDetail`, `CommentTap`, `YCardTap`,
`DeleteTap`, `EditTap`, `CreateTap`, `EditPostTap` ... are the taps;
`CommitComment`, `CommitSave`, `CommitDelete`, `CommitUser`, `Reject`,
`ServeRead`, `LoseRead` are the server; `On...` are the branches of the two
`onReceive` methods; `Die` is the death of the process. Three points carry most
of the behaviour:

- **Order and overlay.** A device's writes are committed in the order they were
  made, and its reads see its own queued writes (`View`): this is Firestore's
  latency compensation, not code of the repository, and is marked external.
- **Who hears an answer.** `Registered` says which strings the screen on top is
  registered for. `ForumDetailActivity.onPause` (184-196) unregisters eight of
  its receivers; the others stay registered under a form (`LeakedTags`).
- **Shared objects.** `onCommentTap` appends the new id to `mPost` and
  `mNewPost`, which are then one object, before anything is written.

What is abstracted: titles, texts and tags; the like and yellow-card counters of
a post (`ForumDetailActivity` compares drawables by identity, so the branches
that count are never taken, and the model keeps that: `LikeTap` sends nothing).
`Populate` stands for the chain of comment reads; `Die` covers every
`NullPointerException` and the system's own kills.

`FormAuthors` lets the form name any user as the author unless users are
patient: the form's receiver for `GET_USER_INFO` also hears answers that
`ForumDetailActivity` asked for.

### 2.2 `ForumPromise`

Five steps: publish a post, write a comment, refuse a document, save a live post
with comments that were written or refused, retire a post for good. `Forum`
implements it under the mapping `Promise` at its end (checked as the property
`KeepsPromise`): the queues, copies, screens and answers vanish, and no order of
devices shows through.

### 2.3 `CoreScreen`

`CoreActivity` fills itself by a chain: user, news, forum, fixtures, standings,
then the first fragment. A progress overlay covers the screen until a fragment
is shown.

| variable | in the program |
|---|---|
| `screen`, `started` | the activity on top; whether the core screen's state has not been saved (a fragment may be committed) |
| `overlay`, `tab`, `sel` | the progress dialog, the selected navigation item, the chosen league of matches and standings |
| `mUser`, `mNews`, `mForum`, `tables` | which fields have arrived, and the sizes of the two lists of leagues |
| `infos`, `forums`, `tasks` | pending `GET_USER_INFO`, pending `forum_get_posts`, the serial queue of `AsyncTask`s |
| `crash` | the exception that ended the process |
| `turned`, `hasty`, `lost`, `taps` | history for properties (the device was turned; a screen was left before it was answered; an answer failed or was missed, or there was no post), the bound on commands |

Each callback is an action (`OnUserInfo`, `OnPostNews`, `OnPopulate`,
`OnPostFixtures`, `OnPostStandings`, `OnRepopulate`). The asymmetry that matters
is in their guards: a broadcast is heard only by the resumed instance, and also
when another screen asked (`AskAuthor`, `Leave`); an `AsyncTask` always calls the
instance that started it, even destroyed (`mine`). `ReplaceFragment` is
`replaceFragment` with the exceptions it can throw: a list that is missing, a
league that is out of range because a fetch failed, a commit after the state was
saved. What the lists contain is left out.

### 2.4 `ForumList`

`filter` is one variable for three fields, because `CoreActivity`, the fragment
and the dialog share one `boolean[]`; `sort` and `choice` are two, because the
order is an `int` that is copied. A post is its place in `AllPosts`. `Arrange`
puts the elements of a sequence in the order of a key, equal keys as they were:
`FilterForum` is the two passes of `filterForumCollection` by league and by
category, `SortForum` the stable sort, `DateOf` the date that a 12-hour time
stamp is read as. `Repopulate` may come at
any moment, also under an open dialog. `applied` and `unconfirmed` are history.

### 2.5 `SignUp` and `Registration`

Each device has the stack of the app's activities, the signed-in user, the
fields of the sign-up screens, and its calls of `DBUtil` under way. The server
handles a call (`Serve`) or it fails (`Fail`); the answer is taken by whichever
screen is registered then (`On...`), which takes the next step with the fields it
holds *then*, or nobody hears it (`Ignore`). The photo picker, other apps, the
back key, the end of the process and the launcher are actions of their own.

`Registration` is two steps: open an account that is not there, fill the document
of an account that has none. `KeepsPromise` says that every step of `SignUp` is
one of these or changes neither, as long as nobody interfered. `spoiled` records
the interference: a failed call, or a command, pause or kill while a call is
under way or after an e-mail was verified. Without this condition the property
is false; section 3.3 says how.

Formats of e-mail, password and name are left out (all typed values are valid,
the password is there iff the name is), and so are the photo's contents and the
team.

### 2.6 `UserDoc`

A reaction to a comment is two writes: the user's array, and when this is
answered the whole comment, with the counters of `mComment`, the object that was
tapped *last*. Comments are loaded without their counters, so the first reaction
of a screen counts from zero. `ProfileActivity` gets a copy of the user in
answer to `GET_USER_INFO` and `ProfileEditActivity` saves that copy whole,
arrays included. The model has the two queues (writes and answers), both
screens, and the post screen reached over the profile. `shown` are the objects of
the list, `View` is the device's own queued writes laid over the server's
document. `made`, `spoiled`, `saver` and `astray` are history.

### 2.7 `PostScreen`

One device, its post screen and the form over it. `reads` holds every request of
the screen (user, author, post, comments), each of which may be answered in any
order, lost, or answered when another instance is resumed; `stale` marks a
request of an instance that is gone. `Populate` is `populateInfo`, which throws
without a user; `reply` and `popup` are `mCurrentParentId` and the line
"Replying to". The history `odd` is the worst that has happened to the instance
(a refused write, an answer out of order, a failed read, an answer of another
instance), and the properties say which of them excuses what. `ids` is the
history of comment ids that `generateId` has used. The comments that are there
at the start are in threads already (`OldThreads`).

### 2.8 `TextUtil` and `Reader`

`TextUtil` has the time in an id (`ReadBack`, `Written`: twelve hours, no am or
pm), `TimeDiff`, and the loop of `summarize` as the set of word counts at which
it may stop. A text is the sequence of the places at which its words end, since
nothing else of it decides where the loop stops. `Reader` reads the forum (`AskPosts`, `OnPostIds`, `OnPosts`), draws
its rows (`Draw`), opens a post and loads its comments (`AskComments`, `OnFound`,
`OnDocs`, `OnMentions`, `OnNames`), each step seeing the collections as they are
then. `IdOrder` is the order of a Firestore query, `Combined` the dealing out of
names, `Organize` `organizeComments`. Both orders put each element at the place
that the number of those before it gives it (`Sorted`). Meanwhile this device comments
(`CommentTap`, `Commit`, `Refuse`) and others comment and delete posts. A user
document never goes in this program, so step four finds each name.

### 2.9 `NewsIos`

`stack` is the chain of presented screens. `Presents` is the rule of UIKit that
decides everything: a screen that is not in the window, or has another on top,
presents nothing. A loading screen is an instance with its own request and its
own news (`got`), and hands its segue to the main queue (`OnNews`, `OnMain`).

## 3. What is checked

### 3.1 Properties

| module | property | kind | about |
|---|---|---|---|
| `Forum` | `TypeOK` | invariant | types, and that a post's screen has a post |
| | `ListedCommentsExist` | invariant | a post lists only comments that exist or were rejected |
| | `NoResurrection` | invariant | a late save never brings a deleted post back |
| | `CommentsBelong` | invariant | comments stay with their post |
| | `ProfilePostsWereCreated` | invariant | a user's list names only posts that were created or refused |
| | `UnlistedAfterDelete` | step | a post leaves its author's list only after its document is gone |
| | `OnlyAuthorDeletes` | step | only the author's device deletes a post |
| | `KeepsPromise` | refinement | `Forum` implements `ForumPromise` |
| `CoreScreen` | `TypeOK` | invariant | types |
| | `ShownIsLoaded` | invariant | without overlay everything is loaded |
| | `NeverNull` | invariant | no tab is opened on a missing list |
| | `ShownHasForum` | invariant | also after a rotation there is a forum when the overlay goes |
| | `NoCrash`, `OneChain` | invariant | calm user: no exception; one chain, for one's own user |
| | `LoadsPosts` | liveness | with posts to show the overlay goes away, unless an answer failed or was missed or the app died |
| | `Loads` | liveness | the same with no post to show; fails |
| `ForumList` | `ShownIsSelected` | invariant | exactly the posts that belong, each once |
| | `ChoiceIsApplied` | invariant | the list was made from what was last confirmed |
| | `ReloadSorts` | step | opening and reloading sort as the tag says |
| `SignUp` | `AnswersFindTheirScreen` | invariant | types; no crash from blank fields or without a user, the core screen is under a signed-in user |
| | `KeepsPromise` | step | steps of `Registration` until somebody interferes |
| | `DocumentFollows` | liveness | an account gets its document |
| | `NamesUnique` | invariant | one user per name; fails |
| `UserDoc` | `OwnProfile` | invariant | only one's own profile is saved, if the user waits |
| | `CountsAreMarked` | invariant | whatever a comment counts is in somebody's array |
| | `LastReactionStored` | invariant | after any run of taps the comment tapped last is stored as counted |
| | `FieldsAreThere` | invariant | types; no handler misses a user or a comment, if the user waits |
| | `MarksKept` | step | saving a profile undoes no reaction of the device |
| `PostScreen` | `CrashHasCause` | invariant | types; which disturbance each exception needs |
| | `AuthorKept` | invariant | an edit never changes the author |
| | `ShownIsStored` | invariant | an undisturbed screen at rest shows what is stored |
| | `ReplyAsShown` | invariant | the next comment replies to what "Replying to" names |
| | `RepliesStay` | invariant | replies have one level, stay in their post and are listed with their parent |
| | `TextKept` | step | a typed text is not wiped before it is posted and listed |
| `Reader` | `CrashHasCause` | invariant | types; which deletion, refusal or text each exception needs |
| | `NamesRight` | invariant | each row has its author and the name it answers |
| | `InOrderMade` | invariant | a thread is in the order it was made, within a half-day |
| | `RepliesInThread`, `AllShown` | invariant | replies stand under their parent; nothing is dropped unless something was refused |
| `NewsIos` | `OneOfEach` | invariant | types; no screen twice, whatever the order of sign-ins |
| | `NewsOfThisLoad` | invariant | a list is what the loading screen under it was sent |
| | `LoadsEnd` | liveness | a load ends in a list, a failure or the user's leaving |

### 3.2 Runs

| run | instance | answer |
|---|---|---|
| `forum_race` | 2 devices, 1 post, 1 comment, 2 reads, 4 taps; users leave at any time | no dangling comment, no revived post, and `ForumPromise` holds |
| `forum_patient` | 2 devices, an old post and a new one, 1 comment, 4 taps; patient users | comments stay, only authors delete, lists shrink after documents, lists name created posts |
| `menu_crosstalk` | 1 device, 2 posts of two authors, 2 reads, 3 taps | **violated**: the menu deletes a post of someone else |
| `core_restless` | 2 users, 2 leagues of which any may fail, posts that come and go, 3 taps, rotation; user leaves at any time | the overlay goes only when all is loaded, and it goes; a calm user sees no crash, one chain, oneself |
| `core_empty` | the same with all fetched, an empty forum and 2 taps | **violated**: the overlay stays |
| `list_any` | 2 posts, 2 leagues, 2 categories, all interleavings of dialogs and reloads | filter and order hold |
| `signup_accounts` | 2 devices, 2 e-mails, 1 name, 1 call at a time per device, 4 taps | `Registration` holds, documents follow, until somebody interferes |
| `names_race` | the same | **violated**: one name, two users |
| `user_reactions` | 1 device, 2 users, 2 comments, 2 reads, 2 writes, 4 taps | counters and arrays agree; profiles keep marks |
| `post_odds` | 2 posts of two authors, 3 comments of which two stand, 3 reads, 1 write, 3 taps | each failure of the post screen has the cause named |
| `comments` | 2 posts, 2 users, 4 comments before and after noon, 1 write | names, order and threads are right; each crash has its cause |
| `news_ios` | 3 sign-ins, 4 answers, one broken | no screen twice, each list from its own load |

### 3.3 Where the program disagrees with itself

The three violated runs are findings in `PROJECT.json`, each with the line of the
repository that it contradicts:

- `mIsMyPost` is computed once (`ForumDetailActivity` 75), but `UPDATE_FIELDS`
  (493) replaces `mPost` by the post of any late answer. The menu of one's own
  post then deletes another's.
- With no post in the collection the answer has no payload, `hasExtra`
  (`CoreActivity` 545) is false, and the chain stops under the overlay.
- A user name is checked (`DBUtil` 175) long before it is written (158).

Others met while modelling have no run of their own:

- `original` (`ForumFragment` 135) is a second name for the array of ticks, so
  Cancel (193) restores nothing; `CancelFilter` of `ForumList` does just that.
- `replaceForumFragment` (`CoreActivity` 489-496) sets the sort tag and does not
  sort (279); `ApplySort` of `ForumList`. `ReloadSorts` therefore speaks of
  opening the tab and reloading only.
- A post of 51 to 55 letters is cut by `getDescSummary` (`Post` 213) to a length
  that `summarize` (`StringUtil` 228) looks for behind its last word: the row
  throws on every device that draws it (`Draw` of `Reader`). These lengths, and
  only these, throw, and the news, cut to 55, never do: theorem `SummaryEdges`,
  and for all texts of two words `SummaryCheck` of `MCReader`.
- A reply may be stored although the comment it answers was refused. Every later
  load of that post throws at `DBUtil` 964, on every device.
- The load of comments throws when a pending comment is refused between its
  first and second read (889), and the load of the forum when a post is deleted
  between the list and the reads (606).
- A time of exactly one minute, hour, day ... is shown as nothing (`StringUtil`
  163-184), and no unit is ever shown with a 1 (theorems `SilentAtEdges` and
  `DiffIsRight` of `ForumList_proofs`).
- Once `populateInfo` has hidden the comments of a post that has none, a later
  load does not show them; the user's own comment does.
- An edit saves a post without its comments (`ForumFormActivity` 134-152).
- A failed reload leaves "Replying to" on the screen while the next comment
  goes on top.
- A refused comment stays in the post that is held in memory and is listed by
  the next save.
- Leaving the app before the first `GET_CURRENT_USER` is answered makes the
  return throw: nothing asks again.
- Receivers 1 to 9 of the comments' reactions are never unregistered, so an
  answer reaches every post screen that was open before.
- iOS: `convertJson` (`LoadVC` 74-96) never empties `description`, so each
  article starts with the texts of those before it; the time stamp is the title.
  A user who is signed in at launch is not taken further, because `viewDidLoad`
  (`LoginVC` 27) is too early to present a screen; and the sign-up screen has no
  way back.

Further, with the modules of the forum and the accounts:

- `ForumDetailActivity` 479 removes `mPost.getId()` from the user's posts when a
  delete is answered; `mPost` is the post of the screen that is open *then*.
  `UnlistedAfterDelete` is therefore checked with patient users only, and fails
  with `Patient = FALSE`.
- The filter dialog's counters (`ForumFragment` 164-170) count items, not ticks:
  "minimum selection required" is never said.
- Ids and dates use `hh` without an afternoon (`StringUtil` 113, 192): a post of
  1 pm is dated 1 am and sorts before the morning's.
- `OnCompleteListener` of the e-mail check (`DBUtil` 82) reads the result of a
  failed task, which throws, so the app ends where `onFailure` would have
  answered. In the model this is `Fail`.
- An account without a users document (its screen was left, paused or killed in
  between) makes `user_get_user_info` die on a missing field at every launch
  (`OnNoUserInfo`), and nothing in the app can repair it.
- The answer to an account creation is taken with the fields of the present
  screen: after back and a second sign-up, the document that is written may be
  of an e-mail that has no account yet, or overwrite an earlier one.
- After a rotation with the forum selected, `REPOPULATE_FORUM` uncovers a screen
  whose other lists are missing; the matches tab then is a
  `NullPointerException`. This is why `ShownIsLoaded` and `NeverNull` excuse
  instances made by turning the device (`turned`), and `ShownHasForum` does not.

### 3.4 Bounds

| bound | why it is enough |
|---|---|
| `Forum`: `Devices`, `Users` (1 or 2) | a hazard needs one device that edits and one that holds an old copy |
| `PostIds` (1 or 2), `CommentIds` (1) | cross-talk needs the post asked for and the post shown; properties speak of one comment at a time |
| `Slots` (1 or 2), `MaxQueue` (2) | reads of two screens in flight at once; a write and its successor, or a double tap |
| `MaxTaps` of `Forum` (3 or 4) | open, act, leave, act again; the counterexample takes three |
| `CoreScreen`: `Users` (2), `Leagues` (2) | oneself and an author; a league that fails and one that does not |
| `MaxRequests` (1) | one request of each kind from outside the chain is enough to restart it under the first |
| `MaxTaps` of `CoreScreen` (2, 3) | leave, turn, tap a tab |
| `ForumList`: posts (2), `NLeagues`, `NCategories` (2) | two posts that differ in everything decide a filter and an order |
| `SignUp`: `Devices`, `Emails` (2), `Names` (1) | two devices that meet in an e-mail or in a name |
| `Slots` of `SignUp` (1) | one call of a device at a time; two is a matter of `spoiled` anyway |
| `MaxTaps` of `SignUp` (4) | both devices verify an e-mail and a name; going forward is not counted |
| `UserDoc`: `Devices` (1), `Comments` (2, symmetric) | the hazards are between two answers of one device; the other user's profile is the one that must not be saved. Opening the form costs no tap |
| `MaxReads`, `MaxQueue` (2), `MaxTaps` (4) of `UserDoc` | two reactions under way, then the profile |
| `PostScreen`: posts (2), comments (3) | a stale answer needs another post; one's own reply, to a comment or to a reply |
| `MaxReads` (3), `MaxQueue` (1), `MaxTaps` (3) of `PostScreen` | the three reads that a new instance has under way; the save follows the comment, so one write is in the queue at a time |
| `Reader`: posts (2), comments (4), `MaxQueue` (1) | one text that throws; both sides of noon, where the order of ids, of dates and of making all differ |
| `NewsIos`: `MaxLoads` (3) | a loading screen swept away, the next, and a sign-in that is still under way |

`Room` keeps a user of `Forum` from commanding while `MaxQueue` writes are
unanswered; the program has no such limit. Slots of one device are
interchangeable, which `forum_race` uses as symmetry, and so are the two comments
of `user_reactions`. Deadlock is checked for the runs of `Forum`, `ForumList` and
`NewsIos`; in the others the taps can run out with every request answered, and
then the system rightly stops.

### 3.5 Fairness

`Forum`, `ForumList`, `UserDoc`, `PostScreen` and `Reader` state safety only. `CoreScreen` and `SignUp` are checked
under weak fairness of what the platform, not the user, does: Firestore, Firebase
Auth and HTTP answer or fail within their time-outs, and the main thread handles
what it is told. In `CoreScreen` these are `UserAnswer(u)`, `TaskEnds` and
`PostsAnswer(t)`, each of which contains its own loss, so that fairness never
forces an answer to succeed or to be heard; `LoadsPosts` therefore excuses `lost`. In
`SignUp` they are `Serve` and `Answer` per device and call. No user command, no
return to the screen and no relaunch is fair. In `NewsIos` a `URLSession` task
ends, if only by its time-out of 100 seconds (`LoadVC` 34), and the main queue
runs what it is given; whether the answer is a list, an error or broken is
free.

## 4. What is proved

The provers check the following for every value of the constants that satisfies
the assumptions named in the modules.

`Forum_proofs` (`ForumAssumption`: types of the constants; `NoneAssumption`:
`None` is no document), for every number of devices, users, posts, comments,
reads and queued writes:

- `TypeCorrect == Spec => []TypeOK`. One lemma per group of actions
  (`UserTypes`, `AnswerTypes`, `ServerTypes`, `DieTypes`), on top of lemmas about
  the operators they share (`SendType`, `CompleteType`, `ViewType` ...).
- `CommentsAreThere == Spec => []ListedCommentsExist`. The property alone is not
  inductive: the document the server saves comes from a queue, the queued
  document from a copy, the copy from a read. The invariant `CommentsInv` says
  that every copy a device holds lists only comments that are *known* (written
  or rejected) or whose document is in that device's queue (`CopiesCovered`), and
  that a queued save stands *behind* the documents of the comments it lists
  (`SavesCovered`). The argument has two halves: what a step may do to a queue
  (`QueueStep`: nothing, append a covered write, answer the oldest, forget the
  listeners), under which sent comments stay sent (`SentIsStable`,
  `SavesStayCovered`); and that every action is such a step and replaces copies
  by covered ones (`UserSound`, `AnswerSound`, `ServerSound`, `DieSound`). It
  rests on the queue being first in first out and not on ids being unique, so
  it also holds for the colliding ids that the program can produce (`UniqueIds = FALSE`).

`CommentsInv` was model-checked on the instance of `forum_race`, and on one
whose ids may repeat, before it was proved.

The second half of `Forum_proofs` is about the life of a post. `UniqueIds`
(no id is made twice) and `Patient` (a user commands nothing before the last
answer) are constants of `Forum`, and a theorem that needs one has it as its
hypothesis; 3.3 says what happens without.

- `StaysDeleted == UniqueIds => (Spec => []NoResurrection)` and `PromiseIsKept ==
  UniqueIds => (Spec => KeepsPromise)`. `LifeInv` adds to `CommentsInv` that an id
  that was not made is in no copy (`NewIdsUnknown`), and that a post yet to be
  created is known to its creator alone, who writes it first, once, and without
  comments (`CreationsPrivate`). Each step of `Forum` is then a step of
  `ForumPromise` or is not seen: one lemma per kind of commit, all others leave
  the documents.
- `ProfilesNameCreated == Patient => (Spec => []ProfilePostsWereCreated)` and
  `UnlistedLast == Patient => (Spec => UnlistedAfterDelete)`. Both second requests
  are made by the first one's answer with the fields the screen holds then.
  `Focus` says that a waiting device has one post on its screen, in its queue and
  in its answers, and `Made` that the post about to be listed was created before.
- `CommentsStayHome == UniqueIds /\ Patient => (Spec => []CommentsBelong)` and
  `AuthorDeletes == UniqueIds /\ Patient => (Spec => OnlyAuthorDeletes)`.
  `BelongInv` says that there is one assignment of authors to posts and of posts
  to comments, with which every copy, read and write of every device agrees.

`CoreScreen_proofs` (`CoreAssumption`), for every number of users, leagues and
requests, with restless users, failing leagues and rotation:

- `LoadInvariant == Spec => [](TypeOK /\ (turned \/ LoadInv))`, and from it
  `TypeCorrect`, `LoadedWhenShown == Spec => []ShownIsLoaded` and
  `NoMissingList == Spec => []NeverNull`.
- `ShownIsLoaded` alone is not inductive: the last callback of the chain knows
  that fixtures and standings are there, not that user, news and forum are.
  `LoadInv` adds what every pending request presupposes (`TasksReady`: a task for
  fixtures has news and forum behind it, a task for standings also fixtures;
  `ForumsReady`: a request of the forum has user and news) and what the selected tab
  presupposes (`TabReady`). Other screens' answers may start the chain again at
  any link; the invariant survives because no step of the chain unloads
  anything. Only `Rotate` does, and it is recorded by `turned`.
- `ForumWhenShown == Spec => []ShownHasForum` is what is left after `Rotate`. Its
  invariant `ForumInv` says that a task of this instance that fetches fixtures or
  standings has the forum behind it; tasks of earlier instances are not `mine`,
  and uncover nothing.

- `CalmHasOneChain == Spec => []OneChain` and `CalmSeesNoCrash == Spec =>
  []NoCrash` are about a user who leaves no screen before it is answered (`hasty`
  is false). `ChainInv` says which single link is under way while he is on the
  screen, and that no request of the forum and no task is while he is off it,
  although other screens make requests with the same action string.

`NewsIos_proofs` (`NewsIosAssumption`), for every number of sign-ins and any set
of answers:

- `Invariant == Spec => []Inv`, and from it `ScreensNeverPileUp == Spec =>
  []OneOfEach` and `ListBelongsToLoad == Spec => []NewsOfThisLoad`.
- `Chain` lists the few chains of screens; `Numbers` says that answered sign-ins
  number the instances, so that a new one is none that is waited for, and that
  no instance waits for its news and for its segue at once; `Behind` says that an
  instance under a list waits for neither. Without the last two a late answer
  could replace what a list was made from. What `convertJson` makes of the texts
  is a fold, so the types speak of titles only.

`ForumList_proofs` (`ListAssumption`), for any posts, leagues, categories,
dates and counts:

- `ShowsSelected == Spec => []ShownIsSelected`, `ChoicesApply == Spec =>
  []ChoiceIsApplied` and `ReloadIsSorted == Spec => ReloadSorts`. `FilterForum`
  and `SortForum` put each post of a set at the place that its key gives it
  (`Arrange`). Places are different, so an injection into the numbers up to the
  size of the set, and therefore leave no gap (`Places`, `AtPlaces`): nothing is
  lost or doubled, and no induction over the list is needed. `Confirmed` says
  that an open dialog was opened on what the list was made from.
- `DiffIsRight`: at least a minute ago and not at the edge of a unit, the time
  shown is rounded up in a unit that it is longer than. It rests on
  `CeilDivBounds`, what `Math.ceil` does to a quotient.
- `SilentAtEdges`: nothing at all is shown for exactly one unit, and only then.
- `HalfDayOrder`, `AfternoonIsMorning`: two ids of one morning or afternoon keep
  their order, and an afternoon is read back as the morning of its day; this is
  why `InOrderMade` asks for one half-day.

`SignUp_proofs` (`SignUpAssumption`), for every number of devices, e-mails, names
and calls:

- `FindTheirScreen == Spec => []AnswersFindTheirScreen` and `SignUpKeepsPromise ==
  Spec => KeepsPromise`. `Undisturbed` says what holds while `spoiled` is false: a
  device waits for one call at a time, on the screen that made it (`OneAtATime`,
  `Awaited`), and a document that is still to be written is not there, has an
  account and is written by one call of one device (`OneFills`).

`UserDoc_proofs` (`UserDocAssumption`), for every number of devices, users,
comments, reads and writes:

- `MarksComeFirst == Spec => []CountsAreMarked`: `CountInv` says of each counter,
  on a screen or in a queue, that the mark it counts is stored or stands before
  it in that device's queue.
- `OwnProfileOnly == Spec => []OwnProfile` and `NothingMissing == Spec =>
  []FieldsAreThere`: `OwnInv` says that off a post's screen a waiting user has
  reads of the own profile only, and that the answer of each mark finds the
  comment it is about.
- `ProfilesKeepMarks == OwnAccounts => (Spec => MarksKept)`: a copy of the profile
  has what was stored and what was on its way before it (`Kept`). `OwnAccounts`
  says that nobody is signed in on two devices, which the code does not prevent;
  without it the second device's save wipes the first one's marks, as saving
  whole documents must.
- `LastTapIsStored == Spec => []LastReactionStored`: until the save of the comment
  tapped last is stored, that save or a mark whose answer will make it is under
  way (`StoredInv`).

`PostScreen_proofs` (`PostScreenAssumption`, `NullAssumption`; `OldThreads`: the
comments that are there at the start are in threads, used for the last theorem
only), for any posts, comments, users, reads and writes:

- `CrashesExplained == Spec => []CrashHasCause`. `CauseInv` says of each handler
  that needs a field what will set it first: a read of this instance about the
  user stands before all that draw (`UserComes`).
- `AuthorsStay == Spec => []AuthorKept`. `KeptInv` follows the author through
  documents, writes, copies, reads, the flag `mine` and the form.
- `ReplyIsShown == Spec => []ReplyAsShown`. While `mCurrentParentId` and the line
  "Replying to" differ, a read is under way whose answer resets both (`ReplyInv`).
- `TextIsKept == Spec => TextKept`. `TextInv` lists the stages of a typed text,
  and what is under way in each: nothing, the comment, the save, the reload.
- `ShowsStored == Spec => []ShownIsStored`. The screen may be drawn from what is
  old by then, so `ShownInv` looks ahead: either the post on the screen is the
  stored one as this device will leave it (`Stored`, over the queued writes), or
  a read that will bring it is under way behind all that bring something older
  (`Come`), or a write is whose answer makes such a read; the same of the
  comments.
- `ThreadsStay == Spec => []RepliesStay`. `ThreadInv` speaks of every list of
  comments, stored, shown, read or queued (`Holds`): it is of one post
  (`Of`) and has the parents of its comments (`Closed`). A reply is to a comment
  at the top of a thread that the screen shows (`ReplyTo`), and by
  `ShownIsStored` a quiet screen shows what is stored, so the parent is listed
  with it.

`Reader_proofs` (`ReaderAssumption`: types of the constants, and that no two
comments have one id; `NoneAssumption`: `None` is no document), for any posts,
comments, users and pending writes:

- `SummaryEdges`: the row of a post throws for exactly the texts of 51 to 55
  letters and the row of the news for none, whatever the words. What the loop
  has taken after k words is where the k-th ends, so each pass can be looked at
  by itself and no induction over the loop is needed: with 56 letters or more
  there is no room after the last word, with fewer no pass stops.
- `NoLoadThrowsAlone == Spec => []CrashHasCause`, `NamesBelong == Spec =>
  []NamesRight`, `ThreadsInOrder == Spec => []InOrderMade`, `RepliesStayInThread ==
  Spec => []RepliesInThread` and `NothingDropped == Spec => []AllShown`, all from
  one inductive invariant `Inv`, because the list shown is made of four reads and
  each property speaks of all of them. Its parts: `Ids`, a comment that was made
  exists or was refused, and has one document; `Docs`, a document names its
  author, and its parent is on top; `Lists`, every list of comments that is
  stored, read or held names the parents of the replies it names (`Closed`),
  and what a load asks for is in the screen's list; `Loading`, the documents of
  the load under way are those of the comments asked for, and its names belong
  to its replies one by one or are too few for them (`Named`); `Shows`, each row
  tells what its document says, and its parent is a row too.
- The lemmas under it say what the list operators return for any input:
  `Places` and `SortedIs` (each element once, in order), `Organized`,
  `OrganizedByDate` and `OrganizedInThreads` (what `organizeComments` keeps, and
  how it orders it), `Dealt` (the n-th reply gets the n-th name). `Dates` says
  that two ids of one half-day are dated in the order they were made. `Makes` and
  `Answers` say what making a comment, and its being accepted or refused, leaves
  of what every other part knows (`Keeps`).

The `Patient`, `UniqueIds` and `OwnAccounts` hypotheses hold in the
runs that check the property.

Only model-checked:

- Liveness under fairness, which is out of the provers' reach: `LoadsPosts`,
  `DocumentFollows`, `LoadsEnd`.

## 5. Hazards

`PROJECT.json` lists every hazard at its line with the properties that would
catch it going wrong; hazards of one cause share an entry, which names the other
lines. One has none, because no state depends on it: the edges of time
differences, which a theorem settles.

## 6. Not modelled, and why

- Layouts, drawables, adapters that only show fields, fragments without state:
  no behaviour beyond showing.
- HTTP and JSON (`APIUtil`, `ConvertUtil`): I/O and field-by-field conversion;
  the model takes their results as success, failure or nothing.
- `forum_create_comment` (`DBUtil` 788-813) and `forum_update_like_on_comment`
  (1039-1060): nothing calls them.
- Two comments with one id: `Reader` and `UserDoc` take ids to differ; `Forum`
  is proved without that.
- Cards and the menu of the post screen are in `Forum` only, texts and titles
  nowhere.
- The iOS tab bar and `APIManager`: no scene uses the one, nothing calls the
  other.
- Formats of dates and the checks of fields (`StringUtil` 43-100, 117-144): they
  decide only what is shown, or are a guard of `SignUp`.
- Inboxes and `AuthSignUpConfirmation`: stubs.
- iOS Pods (`src/SeanLee_TFG_ios_2202/Pods`): third-party code.
- Documents (`src/job`, `src/pax application`) and recordings: not programs.
- The placeholder unit tests: they test nothing of the app.

## 7. Plan

All modules of the plan are done, and every invariant and every step property
of the passing runs is a theorem. What is left: `PostScreen` and `Forum` overlap
in the post's screen, and that `Forum` with one device behaves as `PostScreen`
with its environment is said in words only.
