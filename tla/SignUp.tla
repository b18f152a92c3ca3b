------------------------------- MODULE SignUp -------------------------------
(***************************************************************************)
(* Signing up, in and out: AuthHome, AuthSignUpEmail, AuthSignUpProfile    *)
(* and the Firebase account and users document behind them.                *)
(*                                                                         *)
(*   check e-mail --> check name --> create account --> create users doc   *)
(*                                                                         *)
(* Each arrow is a broadcast: whichever instance of the screen is there    *)
(* when the answer comes takes the next step, with its own fields.  The    *)
(* receivers of AuthSignUpProfile differ: onPause forgets all but the one  *)
(* of the name check.                                                      *)
(*                                                                         *)
(* Left out: the formats of e-mail and password (both are valid, and the   *)
(* password is there iff the name is), the photo (it is taken; taking it   *)
(* is one way to pause), the team, the password dialogs that do nothing.   *)
(***************************************************************************)
EXTENDS Naturals, Sequences, FiniteSets, SequencesExt

CONSTANTS
    Devices, Emails, Names,
    Blank,       \* a name field nobody has filled
    None,
    Slots,       \* bound: calls of a device under way
    MaxTaps      \* bound: commands of all users, but for going forward

ASSUME SignUpAssumption ==
    /\ MaxTaps \in Nat
    /\ Blank \notin Names /\ None \notin Names \cup Emails \cup {Blank}

VARIABLES
    accounts,    \* Firebase Auth: e-mails with an account
    users,       \* the users collection: the username of an e-mail's document
    stack,       \* the app's activities, the topmost last; <<>>: not running
    front,       \* the app is in front of other apps and of the photo picker
    signed,      \* FirebaseAuth.getCurrentUser()
    mEt_login,   \* AuthHome.mEt_email; None is no text
    mEt_email,   \* AuthSignUpEmail.mEt_email
    verified,    \* AuthSignUpEmail: the Next button is clickable
    mEmail,      \* AuthSignUpProfile.mEmail
    mEt_uname,   \* AuthSignUpProfile: the name typed
    calls,       \* calls of DBUtil under way
    crash,       \* the exception that ended the process, or "none"
    spoiled,     \* history: a call failed, or a user or the system interfered
                 \* with one that was under way
    taps

backend == <<accounts, users>>
fields  == <<mEt_login, mEt_email, verified, mEmail, mEt_uname>>
vars    == <<accounts, users, stack, front, signed, mEt_login, mEt_email,
             verified, mEmail, mEt_uname, calls, crash, spoiled, taps>>

Kinds   == {"checkLogin", "login", "checkSignUp", "verifyName",
            "createAccount", "createUser", "userInfo"}
Writes  == {"createAccount", "createUser"}
Screens == {"home", "email", "profile", "core"}
Call    == [kind : Kinds, email : Emails \cup {None},
            name : Names \cup {Blank, None},
            answer : {"none", "yes", "no"}, deaf : BOOLEAN]

NewCall(k, e, n) ==
    [kind |-> k, email |-> e, name |-> n, answer |-> "none", deaf |-> FALSE]

Init ==
    /\ accounts  = {}
    /\ users     = [e \in Emails |-> None]
    /\ stack     = [d \in Devices |-> <<"home">>]
    /\ front     = [d \in Devices |-> TRUE]
    /\ signed    = [d \in Devices |-> None]
    /\ mEt_login = [d \in Devices |-> None]
    /\ mEt_email = [d \in Devices |-> None]
    /\ verified  = [d \in Devices |-> FALSE]
    /\ mEmail    = [d \in Devices |-> None]
    /\ mEt_uname = [d \in Devices |-> Blank]
    /\ calls     = [d \in Devices |-> [s \in Slots |-> None]]
    /\ crash     = [d \in Devices |-> "none"]
    /\ spoiled   = FALSE
    /\ taps      = 0

-----------------------------------------------------------------------------

Resumed(d, screen) == front[d] /\ stack[d] # <<>> /\ Last(stack[d]) = screen
Pending(d) == \E s \in Slots : calls[d][s] # None

\* A user's command; it spoils what is under way if the condition says so.
Spoil(interferes) == spoiled' = (spoiled \/ interferes)
Tap(interferes)   == taps < MaxTaps /\ taps' = taps + 1 /\ Spoil(interferes)

Put(d, s, call) == calls' = [calls EXCEPT ![d][s] = call]

\* A call of DBUtil.
Request(d, k, e, n) ==
    \E s \in Slots : calls[d][s] = None /\ Put(d, s, NewCall(k, e, n))

\* CoreActivity starts on top of base and asks for the user's document; nobody
\* signed in is a NullPointerException.  s is the slot the call may take.
StartCore(d, base, s, user) ==
    IF user = None
    THEN /\ stack' = [stack EXCEPT ![d] = <<>>]
         /\ crash' = [crash EXCEPT ![d] = "noUser"]
         /\ Put(d, s, None)
    ELSE /\ stack' = [stack EXCEPT ![d] = Append(base, "core")]
         /\ Put(d, s, NewCall("userInfo", user, None))
         /\ UNCHANGED crash

\* The activities of base come to the front.  AuthHome.onStart starts
\* CoreActivity when somebody is signed in.
Uncover(d, base) ==
    IF Last(base) = "home" /\ signed[d] # None
    THEN \E s \in Slots :
            calls[d][s] = None /\ StartCore(d, base, s, signed[d])
    ELSE /\ stack' = [stack EXCEPT ![d] = base]
         /\ UNCHANGED <<calls, crash>>

-----------------------------------------------------------------------------
(* AuthHome *)

\* onLoginTap, with e typed
LoginTap(d, e) ==
    /\ Resumed(d, "home")
    /\ Tap(Pending(d))
    /\ mEt_login' = [mEt_login EXCEPT ![d] = e]
    /\ Request(d, "checkLogin", e, None)
    /\ UNCHANGED <<backend, stack, front, signed, mEt_email, verified, mEmail,
                   mEt_uname, crash>>

\* mutant: the buttons are not reset
MutSignUpTap(d) ==
    /\ Resumed(d, "home")
    /\ Spoil(Pending(d))
    /\ stack'     = [stack EXCEPT ![d] = Append(@, "email")]
    /\ mEt_email' = [mEt_email EXCEPT ![d] = None]
    /\ UNCHANGED <<backend, front, signed, mEt_login, verified, mEmail,
                   mEt_uname, calls, crash, taps>>

\* onSignUpTap
SignUpTap(d) ==
    /\ Resumed(d, "home")
    /\ Spoil(Pending(d))
    /\ stack'     = [stack EXCEPT ![d] = Append(@, "email")]
    /\ mEt_email' = [mEt_email EXCEPT ![d] = None]
    /\ verified'  = [verified EXCEPT ![d] = FALSE]
    /\ UNCHANGED <<backend, front, signed, mEt_login, mEmail, mEt_uname,
                   calls, crash, taps>>

-----------------------------------------------------------------------------
(* AuthSignUpEmail *)

\* onVerifyTap, with e typed
VerifyTap(d, e) ==
    /\ Resumed(d, "email") /\ ~verified[d]
    /\ Tap(Pending(d))
    /\ mEt_email' = [mEt_email EXCEPT ![d] = e]
    /\ Request(d, "checkSignUp", e, None)
    /\ UNCHANGED <<backend, stack, front, signed, mEt_login, verified, mEmail,
                   mEt_uname, crash>>

\* The field stays open after the e-mail was verified.
EditEmail(d, e) ==
    /\ Resumed(d, "email")
    /\ e # mEt_email[d]
    /\ Tap(verified[d] \/ Pending(d))
    /\ mEt_email' = [mEt_email EXCEPT ![d] = e]
    /\ UNCHANGED <<backend, stack, front, signed, mEt_login, verified, mEmail,
                   mEt_uname, calls, crash>>

\* onNextTap, AuthSignUpProfile.onCreate
NextTap(d) ==
    /\ Resumed(d, "email") /\ verified[d]
    /\ Spoil(Pending(d))
    /\ stack'     = [stack EXCEPT ![d] = Append(@, "profile")]
    /\ mEmail'    = [mEmail EXCEPT ![d] = mEt_email[d]]
    /\ mEt_uname' = [mEt_uname EXCEPT ![d] = Blank]
    /\ UNCHANGED <<backend, front, signed, mEt_login, mEt_email, verified,
                   calls, crash, taps>>

-----------------------------------------------------------------------------
(* AuthSignUpProfile *)

\* onDoneTap, with n and a password typed
DoneTap(d, n) ==
    /\ Resumed(d, "profile")
    /\ Tap(Pending(d))
    /\ mEt_uname' = [mEt_uname EXCEPT ![d] = n]
    /\ Request(d, "verifyName", None, n)
    /\ UNCHANGED <<backend, stack, front, signed, mEt_login, mEt_email,
                   verified, mEmail, crash>>

\* The name is changed, or name and password are cleared.
EditName(d, n) ==
    /\ Resumed(d, "profile")
    /\ n # mEt_uname[d]
    /\ Tap(Pending(d))
    /\ mEt_uname' = [mEt_uname EXCEPT ![d] = n]
    /\ UNCHANGED <<backend, stack, front, signed, mEt_login, mEt_email,
                   verified, mEmail, calls, crash>>

-----------------------------------------------------------------------------
(* Coming and going *)

\* The back key: the topmost activity is destroyed.
Back(d) ==
    /\ front[d] /\ Len(stack[d]) > 1
    /\ Tap(Pending(d))
    /\ Uncover(d, Front(stack[d]))
    /\ UNCHANGED <<backend, front, signed, fields>>

\* Another app or the photo picker comes to the front.
Pause(d) ==
    /\ front[d] /\ stack[d] # <<>>
    /\ Tap(Pending(d))
    /\ front' = [front EXCEPT ![d] = FALSE]
    /\ UNCHANGED <<backend, stack, signed, fields, calls, crash>>

Return(d) ==
    /\ ~front[d] /\ stack[d] # <<>>
    /\ front' = [front EXCEPT ![d] = TRUE]
    /\ Uncover(d, stack[d])
    /\ UNCHANGED <<backend, signed, fields, spoiled, taps>>

\* ProfileActivity, once the user is shown: the task is cleared, AuthHome new.
SignOut(d) ==
    /\ Resumed(d, "core")
    /\ \A s \in Slots : calls[d][s] # None => calls[d][s].kind # "userInfo"
    /\ Tap(Pending(d))
    /\ signed' = [signed EXCEPT ![d] = None]
    /\ stack'  = [stack EXCEPT ![d] = <<"home">>]
    /\ mEt_login' = [mEt_login EXCEPT ![d] = None]
    /\ UNCHANGED <<backend, front, mEt_email, verified, mEmail, mEt_uname,
                   calls, crash>>

\* The calls of a process that ended: what is on its way to the server may
\* still get there, and nobody waits for the answer.
Orphaned(d) ==
    [s \in Slots |->
        IF calls[d][s] # None /\ calls[d][s].kind \in Writes
                              /\ calls[d][s].answer = "none"
        THEN [calls[d][s] EXCEPT !.deaf = TRUE] ELSE None]

\* The system ends the process, or an exception has.
Die(d) ==
    /\ stack[d] # <<>> \/ crash[d] # "none"
    /\ stack'   = [stack EXCEPT ![d] = <<>>]
    /\ crash'   = [crash EXCEPT ![d] = "none"]
    /\ calls'   = [calls EXCEPT ![d] = Orphaned(d)]
    /\ Spoil(Pending(d))
    /\ UNCHANGED <<backend, front, signed, fields, taps>>

\* The launcher starts AuthHome; who was signed in still is.
Launch(d) ==
    /\ stack[d] = <<>> /\ crash[d] = "none"
    /\ front' = [front EXCEPT ![d] = TRUE]
    /\ mEt_login' = [mEt_login EXCEPT ![d] = None]
    /\ Uncover(d, <<"home">>)
    /\ UNCHANGED <<backend, signed, mEt_email, verified, mEmail, mEt_uname,
                   spoiled, taps>>

-----------------------------------------------------------------------------
(* Firebase *)

Unserved(d, s) == calls[d][s] # None /\ calls[d][s].answer = "none"

\* What the server says.
Accepts(c) ==
    CASE c.kind \in {"checkLogin", "login"} -> c.email \in accounts
      [] c.kind \in {"checkSignUp", "createAccount"} -> c.email \notin accounts
      [] c.kind = "verifyName" -> \A e \in Emails : users[e] # c.name
      [] c.kind = "userInfo" -> users[c.email] # None
      [] c.kind = "createUser" -> TRUE

\* A password may be wrong.
Verdicts(c) == IF c.kind = "login" THEN {Accepts(c), FALSE} ELSE {Accepts(c)}

\* The server handles a call.
Serve(d, s) ==
    /\ Unserved(d, s)
    /\ LET c == calls[d][s]
       IN  \E yes \in Verdicts(c) :
             /\ accounts' = IF yes /\ c.kind = "createAccount"
                            THEN accounts \cup {c.email} ELSE accounts
             /\ users' = IF c.kind = "createUser"
                         THEN [users EXCEPT ![c.email] = c.name] ELSE users
             /\ Put(d, s,
                    IF c.deaf THEN None
                    ELSE [c EXCEPT !.answer = IF yes THEN "yes" ELSE "no"])
    /\ UNCHANGED <<stack, front, signed, fields, crash, spoiled, taps>>

\* A call fails before it reaches the server, or a created account's answer
\* does not come back.
Fails(d, s) ==
    \/ Unserved(d, s)
    \/ /\ calls[d][s] # None
       /\ calls[d][s].kind = "createAccount"
       /\ calls[d][s].answer = "yes"

\* A failed e-mail check throws in onComplete, before onFailure answers FALSE.
Fail(d, s) ==
    /\ Fails(d, s)
    /\ spoiled' = TRUE
    /\ IF calls[d][s].kind \in {"checkLogin", "checkSignUp"}
       THEN /\ stack' = [stack EXCEPT ![d] = <<>>]
            /\ crash' = [crash EXCEPT ![d] = "check"]
            /\ Put(d, s, None)
       ELSE /\ Put(d, s, IF calls[d][s].deaf \/ calls[d][s].kind = "userInfo"
                         THEN None ELSE [calls[d][s] EXCEPT !.answer = "no"])
            /\ UNCHANGED <<stack, crash>>
    /\ UNCHANGED <<backend, front, signed, fields, taps>>

-----------------------------------------------------------------------------
(* Answers *)

Answered(d, s, k, a) ==
    /\ calls[d][s] # None
    /\ calls[d][s].kind = k
    /\ calls[d][s].answer = a

\* Firebase Auth throws IllegalArgumentException on a blank e-mail or password.
Ask(d, s, k, e, blank) ==
    IF blank
    THEN /\ stack' = [stack EXCEPT ![d] = <<>>]
         /\ crash' = [crash EXCEPT ![d] = "blank"]
         /\ Put(d, s, None)
    ELSE /\ Put(d, s, NewCall(k, e, None))
         /\ UNCHANGED <<stack, crash>>

\* An answer that changes nothing but a message on the screen, or that comes
\* when no receiver for it is registered.
Ignore(d, s) ==
    /\ \/ \E k \in Kinds \ {"userInfo"} : Answered(d, s, k, "no")
       \/ Answered(d, s, "userInfo", "yes")
       \/ Answered(d, s, "checkLogin", "yes") /\ ~Resumed(d, "home")
       \/ Answered(d, s, "checkSignUp", "yes") /\ ~Resumed(d, "email")
       \/ /\ Answered(d, s, "verifyName", "yes")
          /\ ~Contains(stack[d], "profile")
       \/ Answered(d, s, "createUser", "yes") /\ ~Resumed(d, "profile")
    /\ Put(d, s, None)
    /\ UNCHANGED <<backend, stack, front, signed, fields, crash, spoiled,
                   taps>>

\* AUTH_EMAIL_CHECK in AuthHome: auth_login with the text of now
OnEmailCheck(d, s) ==
    /\ Answered(d, s, "checkLogin", "yes") /\ Resumed(d, "home")
    /\ Ask(d, s, "login", mEt_login[d], mEt_login[d] = None)
    /\ UNCHANGED <<backend, front, signed, fields, spoiled, taps>>

\* AUTH_LOGIN: Firebase has signed in the user, whoever hears of it.
OnLogin(d, s) ==
    /\ Answered(d, s, "login", "yes")
    /\ signed' = [signed EXCEPT ![d] = calls[d][s].email]
    /\ IF Resumed(d, "home")
       THEN StartCore(d, stack[d], s, calls[d][s].email)
       ELSE Put(d, s, None) /\ UNCHANGED <<stack, crash>>
    /\ UNCHANGED <<backend, front, fields, spoiled, taps>>

\* VERIFY_EMAIL
OnVerifyEmail(d, s) ==
    /\ Answered(d, s, "checkSignUp", "yes") /\ Resumed(d, "email")
    /\ verified' = [verified EXCEPT ![d] = TRUE]
    /\ Put(d, s, None)
    /\ UNCHANGED <<backend, stack, front, signed, mEt_login, mEt_email,
                   mEmail, mEt_uname, crash, spoiled, taps>>

\* mutant: the document is written first, then the account is created
MutOnVerifyName(d, s) ==
    /\ Answered(d, s, "verifyName", "yes")
    /\ Contains(stack[d], "profile")
    /\ Put(d, s, NewCall("createUser", mEmail[d], mEt_uname[d]))
    /\ UNCHANGED <<backend, stack, front, signed, fields, crash, spoiled,
                   taps>>

\* USER_VERIFY_USERNAME: heard as long as there is a profile screen, paused or
\* not.
OnVerifyName(d, s) ==
    /\ Answered(d, s, "verifyName", "yes")
    /\ Contains(stack[d], "profile")
    /\ Ask(d, s, "createAccount", mEmail[d],
           mEmail[d] = None \/ mEt_uname[d] = Blank)
    /\ UNCHANGED <<backend, front, signed, fields, spoiled, taps>>

\* mutant: the receiver is not registered again after the photo was taken
MutOnCreateAccount(d, s) ==
    /\ Answered(d, s, "createAccount", "yes")
    /\ signed' = [signed EXCEPT ![d] = calls[d][s].email]
    /\ Put(d, s, None)
    /\ UNCHANGED <<backend, stack, front, fields, crash, spoiled, taps>>

\* AUTH_CREATE_ACCOUNT: Firebase has signed in the new account; the document
\* is made from the fields of the screen that hears of it.
OnCreateAccount(d, s) ==
    /\ Answered(d, s, "createAccount", "yes")
    /\ signed' = [signed EXCEPT ![d] = calls[d][s].email]
    /\ Put(d, s, IF Resumed(d, "profile")
                 THEN NewCall("createUser", mEmail[d], mEt_uname[d]) ELSE None)
    /\ UNCHANGED <<backend, stack, front, fields, crash, spoiled, taps>>

\* AUTH_CREATE_USER_IN_USERS
OnCreateUser(d, s) ==
    /\ Answered(d, s, "createUser", "yes") /\ Resumed(d, "profile")
    /\ StartCore(d, stack[d], s, signed[d])
    /\ UNCHANGED <<backend, front, signed, fields, spoiled, taps>>

\* user_get_user_info of an e-mail without a document dies on its fields.
OnNoUserInfo(d, s) ==
    /\ Answered(d, s, "userInfo", "no")
    /\ stack' = [stack EXCEPT ![d] = <<>>]
    /\ crash' = [crash EXCEPT ![d] = "noDoc"]
    /\ Put(d, s, None)
    /\ UNCHANGED <<backend, front, signed, fields, spoiled, taps>>

-----------------------------------------------------------------------------

User(d) ==
    \/ \E e \in Emails : LoginTap(d, e) \/ VerifyTap(d, e) \/ EditEmail(d, e)
    \/ \E n \in Names : DoneTap(d, n)
    \/ \E n \in Names \cup {Blank} : EditName(d, n)
    \/ SignUpTap(d) \/ NextTap(d) \/ Back(d) \/ Pause(d) \/ Return(d)
    \/ SignOut(d)

Answer(d, s) ==
    \/ Ignore(d, s) \/ OnEmailCheck(d, s) \/ OnLogin(d, s)
    \/ OnVerifyEmail(d, s) \/ OnVerifyName(d, s) \/ OnCreateAccount(d, s)
    \/ OnCreateUser(d, s) \/ OnNoUserInfo(d, s)

Next == \E d \in Devices :
    \/ User(d) \/ Die(d) \/ Launch(d)
    \/ \E s \in Slots : Serve(d, s) \/ Fail(d, s) \/ Answer(d, s)

Spec == Init /\ [][Next]_vars

\* Firebase answers or fails, and the main thread handles what it is told.
Fairness == \A d \in Devices, s \in Slots :
    WF_vars(Serve(d, s)) /\ WF_vars(Answer(d, s))

FairSpec == Spec /\ Fairness

-----------------------------------------------------------------------------
(* Properties *)

\* Types of all variables: the first part of AnswersFindTheirScreen.
TypeOK ==
    /\ accounts \subseteq Emails
    /\ users \in [Emails -> Names \cup {Blank, None}]
    /\ stack \in [Devices -> Seq(Screens)]
    /\ front \in [Devices -> BOOLEAN]
    /\ signed \in [Devices -> Emails \cup {None}]
    /\ mEt_login \in [Devices -> Emails \cup {None}]
    /\ mEt_email \in [Devices -> Emails \cup {None}]
    /\ verified \in [Devices -> BOOLEAN]
    /\ mEmail \in [Devices -> Emails \cup {None}]
    /\ mEt_uname \in [Devices -> Names \cup {Blank}]
    /\ calls \in [Devices -> [Slots -> Call \cup {None}]]
    /\ crash \in [Devices -> {"none", "noUser", "noDoc", "blank", "check"}]
    /\ spoiled \in BOOLEAN
    /\ taps \in Nat

\* While nobody interferes with a call, answers find the screen and the fields
\* they were asked for: no account is created from blank fields, and nobody
\* enters CoreActivity signed out.  Nobody is signed out under it either.  (An
\* account whose document is not there yet may crash a second device that logs
\* in.)
AnswersFindTheirScreen ==
    /\ TypeOK
    /\ \A d \in Devices :
          /\ crash[d] \in {"blank", "noUser", "check"} => spoiled
          /\ Contains(stack[d], "core") => signed[d] # None

\* While nobody interferes, devices that sign up at once, even with one e-mail
\* and whatever the answers' order, open accounts once and give each account
\* one document, which no later sign-up overwrites.
Promise == INSTANCE Registration
KeepsPromise ==
    Promise!Init /\ [][spoiled' \/ [Promise!Next]_(Promise!vars)]_vars

\* Every account gets its document, unless somebody interfered.
DocumentFollows ==
    \A e \in Emails : e \in accounts ~> (users[e] # None \/ spoiled)

\* "Username exists. Choose a different username.": while nobody interferes no
\* two users have one name.
NamesUnique ==
    ~spoiled => \A e, f \in Emails :
                    e # f /\ users[e] # None => users[e] # users[f]
=============================================================================
