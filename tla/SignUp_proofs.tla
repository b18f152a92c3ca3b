---------------------------- MODULE SignUp_proofs ----------------------------
(***************************************************************************)
(* Theorems about SignUp, for any number of devices, accounts, names and   *)
(* calls under way: answers find the screen they were asked for, nobody is *)
(* on CoreActivity signed out, and signing up implements Registration, as  *)
(* long as nobody interferes with a call.                                  *)
(***************************************************************************)
EXTENDS SignUp, SequenceTheorems, TLAPS

USE SignUpAssumption

-----------------------------------------------------------------------------
(* The invariant *)

\* Who an answer signs in, and whose data it brings, is known.
Named(d) ==
    \A s \in Slots : calls[d][s] # None =>
        /\ calls[d][s].kind \in {"login", "createAccount", "userInfo"} =>
              calls[d][s].email \in Emails
        /\ calls[d][s].kind = "createUser" =>
              calls[d][s].name \in Names \cup {Blank}

\* CoreActivity is there for somebody only.
SignedIn(d) == Contains(stack[d], "core") => signed[d] # None

\* What a call presupposes of the screen that waits for it.
Awaited(d, c) ==
    /\ ~c.deaf
    /\ c.kind \in {"checkLogin", "login"} =>
          Resumed(d, "home") /\ mEt_login[d] \in Emails
    /\ c.kind = "checkSignUp" => Resumed(d, "email") /\ mEt_email[d] \in Emails
    /\ c.kind \in {"verifyName", "createAccount", "createUser"} =>
          Resumed(d, "profile") /\ mEt_uname[d] \in Names
    /\ c.kind = "createAccount" => c.email = mEmail[d]
    /\ c.kind = "createUser" =>
          /\ c.email = mEmail[d] /\ c.name = mEt_uname[d]
          /\ signed[d] = mEmail[d]
    /\ c.kind = "userInfo" => Resumed(d, "core")

\* While nobody interferes, a device waits for one call at a time, on the
\* screen that made it.
OneAtATime(d) ==
    /\ \A s \in Slots : calls[d][s] # None =>
          /\ Awaited(d, calls[d][s])
          /\ \A t \in Slots : calls[d][t] # None => t = s
    /\ verified[d] => mEt_email[d] \in Emails
    /\ Contains(stack[d], "profile") => mEmail[d] \in Emails
    /\ crash[d] \notin {"blank", "noUser", "check"}

\* The document of e is still to be written, by the call in slot s.
Fills(d, s, e) ==
    /\ calls[d][s] # None /\ calls[d][s].email = e
    /\ \/ calls[d][s].kind = "createAccount" /\ calls[d][s].answer = "yes"
       \/ calls[d][s].kind = "createUser" /\ calls[d][s].answer = "none"

\* While nobody interferes, a document that is still to be written is not
\* there, its account is, and one device writes it.
OneFills ==
    /\ \A e \in Emails : users[e] # None => e \in accounts
    /\ \A d \in Devices, s \in Slots, e \in Emails :
          Fills(d, s, e) =>
              /\ e \in accounts /\ users[e] = None
              /\ \A f \in Devices, t \in Slots :
                    Fills(f, t, e) => f = d /\ t = s

Undisturbed ==
    /\ \A d \in Devices : OneAtATime(d)
    /\ OneFills

Inv ==
    /\ TypeOK
    /\ \A d \in Devices : Named(d) /\ SignedIn(d)
    /\ ~spoiled => Undisturbed

-----------------------------------------------------------------------------
(* Activities *)

\* What a stack of activities holds after one is added, taken away or all are.
LEMMA Stacks ==
    ASSUME NEW base \in Seq(Screens), NEW x \in Screens
    PROVE  /\ Append(base, x) \in Seq(Screens)
           /\ Append(base, x) # <<>>
           /\ Last(Append(base, x)) = x
           /\ \A y : Contains(Append(base, x), y) => Contains(base, y) \/ y = x
           /\ Len(base) > 1 =>
                 /\ Front(base) \in Seq(Screens)
                 /\ \A y : Contains(Front(base), y) => Contains(base, y)
           /\ <<x>> \in Seq(Screens) /\ <<>> \in Seq(Screens)
           /\ <<x>> # <<>> /\ Last(<<x>>) = x
           /\ \A y : Contains(<<x>>, y) => y = x
           /\ \A y : ~Contains(<<>>, y)
<1>1. Len(base) \in Nat /\ DOMAIN base = 1..Len(base)
  BY LenProperties
<1>2. /\ Append(base, x) \in Seq(Screens)
      /\ Len(Append(base, x)) = Len(base) + 1
      /\ \A i \in 1..Len(base) : Append(base, x)[i] = base[i]
      /\ Append(base, x)[Len(base) + 1] = x
  BY AppendProperties
<1>3. Append(base, x) # <<>>
  BY <1>1, <1>2, EmptySeq
<1>4. Last(Append(base, x)) = x
  BY <1>1, <1>2 DEF Last
<1>5. \A y : Contains(Append(base, x), y) => Contains(base, y) \/ y = x
  BY <1>1, <1>2 DEF Contains
<1>6. Len(base) > 1 =>
         /\ Front(base) \in Seq(Screens)
         /\ \A y : Contains(Front(base), y) => Contains(base, y)
  BY <1>1 DEF Front, Contains
<1>7. /\ <<x>> \in Seq(Screens) /\ Len(<<x>>) = 1 /\ <<x>>[1] = x
      /\ Len(<<>>) = 0 /\ <<>> \in Seq(Screens) /\ <<x>> # <<>>
  OBVIOUS
<1>8. Last(<<x>>) = x /\ \A y : Contains(<<x>>, y) => y = x
  BY <1>7 DEF Last, Contains
<1>9. \A y : ~Contains(<<>>, y)
  BY <1>7 DEF Contains
<1> QED
  BY <1>2, <1>3, <1>4, <1>5, <1>6, <1>7, <1>8, <1>9

\* One slot of a device changes.
LEMMA PutStep ==
    ASSUME TypeOK, NEW d \in Devices, NEW s \in Slots,
           NEW x \in Call \cup {None}, Put(d, s, x)
    PROVE  /\ calls' \in [Devices -> [Slots -> Call \cup {None}]]
           /\ calls'[d][s] = x
           /\ \A t \in Slots \ {s} : calls'[d][t] = calls[d][t]
           /\ \A e \in Devices \ {d} : calls'[e] = calls[e]
BY DEF TypeOK, Put

LEMMA NewCallType ==
    ASSUME NEW k \in Kinds, NEW e \in Emails \cup {None},
           NEW n \in Names \cup {Blank, None}
    PROVE  /\ NewCall(k, e, n) \in Call
           /\ NewCall(k, e, n).kind = k
           /\ NewCall(k, e, n).email = e
           /\ NewCall(k, e, n).name = n
           /\ NewCall(k, e, n).answer = "none"
           /\ ~NewCall(k, e, n).deaf
BY DEF NewCall, Call

\* A call takes a free slot.
Added(d, call) ==
    \E s \in Slots :
        /\ calls[d][s] = None
        /\ calls'[d][s] = call
        /\ \A t \in Slots \ {s} : calls'[d][t] = calls[d][t]

LEMMA RequestStep ==
    ASSUME TypeOK, NEW d \in Devices, NEW k \in Kinds,
           NEW e \in Emails \cup {None}, NEW n \in Names \cup {Blank, None},
           Request(d, k, e, n)
    PROVE  /\ calls' \in [Devices -> [Slots -> Call \cup {None}]]
           /\ Added(d, NewCall(k, e, n))
           /\ \A f \in Devices \ {d} : calls'[f] = calls[f]
<1>1. PICK s \in Slots : calls[d][s] = None /\ Put(d, s, NewCall(k, e, n))
  BY DEF Request
<1>2. NewCall(k, e, n) \in Call
  BY NewCallType
<1>3. /\ calls' \in [Devices -> [Slots -> Call \cup {None}]]
      /\ calls'[d][s] = NewCall(k, e, n)
      /\ \A t \in Slots \ {s} : calls'[d][t] = calls[d][t]
      /\ \A f \in Devices \ {d} : calls'[f] = calls[f]
  BY <1>1, <1>2, PutStep
<1> QED
  BY <1>1, <1>3 DEF Added

\* CoreActivity comes up, or the process dies for want of a user.
LEMMA StartCoreStep ==
    ASSUME TypeOK, NEW d \in Devices, NEW s \in Slots,
           NEW base \in Seq(Screens), NEW user \in Emails \cup {None},
           StartCore(d, base, s, user)
    PROVE  /\ stack' \in [Devices -> Seq(Screens)]
           /\ calls' \in [Devices -> [Slots -> Call \cup {None}]]
           /\ crash' \in [Devices ->
                             {"none", "noUser", "noDoc", "blank", "check"}]
           /\ \A e \in Devices \ {d} : /\ stack'[e] = stack[e]
                                       /\ calls'[e] = calls[e]
                                       /\ crash'[e] = crash[e]
           /\ \A t \in Slots \ {s} : calls'[d][t] = calls[d][t]
           /\ user = None => stack'[d] = <<>> /\ calls'[d][s] = None
           /\ user # None => /\ stack'[d] = Append(base, "core")
                             /\ calls'[d][s] = NewCall("userInfo", user, None)
                             /\ crash'[d] = crash[d]
<1>0. /\ Append(base, "core") \in Seq(Screens) /\ <<>> \in Seq(Screens)
      /\ NewCall("userInfo", user, None) \in Call
  BY Stacks, NewCallType DEF Screens, Kinds
<1>1. CASE user = None
  <2>1. /\ stack' = [stack EXCEPT ![d] = <<>>]
        /\ crash' = [crash EXCEPT ![d] = "noUser"]
        /\ Put(d, s, None)
    BY <1>1 DEF StartCore
  <2> QED
    BY <1>0, <1>1, <2>1, PutStep DEF TypeOK
<1>2. CASE user # None
  <2>1. /\ stack' = [stack EXCEPT ![d] = Append(base, "core")]
        /\ crash' = crash
        /\ Put(d, s, NewCall("userInfo", user, None))
    BY <1>2 DEF StartCore
  <2> QED
    BY <1>0, <1>2, <2>1, PutStep DEF TypeOK
<1> QED
  BY <1>1, <1>2

\* The screens below come to the front, or CoreActivity on top of them.
LEMMA UncoverStep ==
    ASSUME TypeOK, NEW d \in Devices, NEW base \in Seq(Screens),
           Uncover(d, base)
    PROVE  /\ stack' \in [Devices -> Seq(Screens)]
           /\ calls' \in [Devices -> [Slots -> Call \cup {None}]]
           /\ crash' \in [Devices ->
                             {"none", "noUser", "noDoc", "blank", "check"}]
           /\ \A e \in Devices \ {d} : /\ stack'[e] = stack[e]
                                       /\ calls'[e] = calls[e]
                                       /\ crash'[e] = crash[e]
           /\ crash'[d] = crash[d]
           /\ \/ stack'[d] = base /\ calls'[d] = calls[d]
              \/ /\ signed[d] # None
                 /\ stack'[d] = Append(base, "core")
                 /\ Added(d, NewCall("userInfo", signed[d], None))
<1>1. CASE Last(base) = "home" /\ signed[d] # None
  <2>1. PICK s \in Slots :
           calls[d][s] = None /\ StartCore(d, base, s, signed[d])
    BY <1>1 DEF Uncover
  <2>2. signed[d] \in Emails \cup {None}
    BY DEF TypeOK
  <2> QED
    BY <1>1, <2>1, <2>2, StartCoreStep DEF Added
<1>2. CASE ~(Last(base) = "home" /\ signed[d] # None)
  <2>1. stack' = [stack EXCEPT ![d] = base] /\ UNCHANGED <<calls, crash>>
    BY <1>2 DEF Uncover
  <2> QED
    BY <2>1 DEF TypeOK
<1> QED
  BY <1>1, <1>2

-----------------------------------------------------------------------------
(* Steps of one device *)

OthersStay(d) ==
    \A e \in Devices \ {d} :
        /\ stack'[e] = stack[e] /\ front'[e] = front[e]
        /\ signed'[e] = signed[e] /\ calls'[e] = calls[e]
        /\ crash'[e] = crash[e] /\ verified'[e] = verified[e]
        /\ mEt_login'[e] = mEt_login[e] /\ mEt_email'[e] = mEt_email[e]
        /\ mEmail'[e] = mEmail[e] /\ mEt_uname'[e] = mEt_uname[e]

\* What a step of device d leaves as the invariant says.
Kept(d) ==
    /\ TypeOK'
    /\ OthersStay(d)
    /\ Named(d)' /\ SignedIn(d)'
    /\ ~spoiled' => ~spoiled /\ OneAtATime(d)'

\* No document becomes due, none is written.
NothingFilled(d) ==
    /\ UNCHANGED backend
    /\ ~spoiled' => \A s \in Slots, e \in Emails :
                       Fills(d, s, e)' => Fills(d, s, e)

LEMMA OthersKept ==
    ASSUME Inv, NEW d \in Devices, Kept(d)
    PROVE  /\ TypeOK'
           /\ \A e \in Devices : Named(e)' /\ SignedIn(e)'
           /\ ~spoiled' => \A e \in Devices : OneAtATime(e)'
<1>1. ASSUME NEW e \in Devices \ {d}
      PROVE  /\ Named(e)' /\ SignedIn(e)'
             /\ ~spoiled' => OneAtATime(e)'
  <2>1. /\ stack'[e] = stack[e] /\ front'[e] = front[e]
        /\ signed'[e] = signed[e] /\ calls'[e] = calls[e]
        /\ crash'[e] = crash[e] /\ verified'[e] = verified[e]
        /\ mEt_login'[e] = mEt_login[e] /\ mEt_email'[e] = mEt_email[e]
        /\ mEmail'[e] = mEmail[e] /\ mEt_uname'[e] = mEt_uname[e]
    BY DEF Kept, OthersStay
  <2>2. Named(e)' /\ SignedIn(e)'
    BY <2>1 DEF Inv, Named, SignedIn
  <2>3. ~spoiled' => OneAtATime(e)'
    BY <2>1 DEF Kept, Inv, Undisturbed, OneAtATime, Awaited, Resumed
  <2> QED
    BY <2>2, <2>3
<1> QED
  BY <1>1 DEF Kept

LEMMA DeviceStep ==
    ASSUME Inv, NEW d \in Devices, Kept(d), NothingFilled(d)
    PROVE  Inv'
<1>1. ASSUME ~spoiled' PROVE OneFills'
  <2>1. OneFills
    BY <1>1 DEF Kept, Inv, Undisturbed
  <2>2. \A f \in Devices, s \in Slots, e \in Emails :
           Fills(f, s, e)' => Fills(f, s, e)
    BY <1>1 DEF Kept, OthersStay, NothingFilled, Fills
  <2>3. UNCHANGED <<accounts, users>>
    BY DEF NothingFilled, backend
  <2> QED
    BY <2>1, <2>2, <2>3 DEF OneFills
<1> QED
  BY <1>1, OthersKept DEF Inv, Undisturbed

\* A call that is awaited has its screen in front.
LEMMA AwaitedInFront ==
    ASSUME TypeOK, NEW d \in Devices, OneAtATime(d), NEW s \in Slots,
           calls[d][s] # None
    PROVE  front[d] /\ stack[d] # <<>>
<1>1. calls[d][s].kind \in Kinds
  BY DEF TypeOK, Call
<1>2. Awaited(d, calls[d][s])
  BY DEF OneAtATime
<1> QED
  BY <1>1, <1>2 DEF Awaited, Resumed, Kinds

\* A device without a call makes one that its screen awaits.
LEMMA AddedKept ==
    ASSUME TypeOK, NEW d \in Devices, OneAtATime(d), ~Pending(d),
           NEW c, Added(d, c), Awaited(d, c)'
    PROVE  \A s \in Slots : calls'[d][s] # None =>
              /\ Awaited(d, calls[d][s])'
              /\ \A t \in Slots : calls'[d][t] # None => t = s
<1>1. PICK s \in Slots : /\ calls'[d][s] = c
                         /\ \A t \in Slots \ {s} : calls'[d][t] = calls[d][t]
  BY DEF Added
<1>2. \A t \in Slots \ {s} : calls'[d][t] = None
  BY <1>1 DEF Pending
<1> QED
  BY <1>1, <1>2 DEF Awaited, Resumed

-----------------------------------------------------------------------------
(* The commands of a user *)

LEMMA LoginTapKept ==
    ASSUME Inv, NEW d \in Devices, NEW e \in Emails, LoginTap(d, e)
    PROVE  Kept(d) /\ NothingFilled(d)
<1> DEFINE call == NewCall("checkLogin", e, None)
<1>1. TypeOK /\ Request(d, "checkLogin", e, None)
  BY DEF LoginTap, Inv
<1>2. /\ call \in Call /\ call.kind = "checkLogin" /\ ~call.deaf
      /\ call.answer = "none"
  BY NewCallType DEF Kinds
<1>3. /\ calls' \in [Devices -> [Slots -> Call \cup {None}]]
      /\ Added(d, call)
      /\ \A f \in Devices \ {d} : calls'[f] = calls[f]
  BY <1>1, RequestStep DEF Kinds
<1> HIDE DEF call
<1>4. TypeOK' /\ OthersStay(d)
  BY <1>1, <1>3 DEF LoginTap, Tap, Spoil, TypeOK, OthersStay, backend
<1>5. Named(d)' /\ SignedIn(d)'
  BY <1>2, <1>3 DEF LoginTap, Added, Named, SignedIn, Inv
<1>6. ASSUME ~spoiled' PROVE ~spoiled /\ OneAtATime(d)'
  <2>1. ~spoiled /\ ~Pending(d) /\ OneAtATime(d)
    BY <1>6 DEF LoginTap, Tap, Spoil, Inv, Undisturbed
  <2>2. Awaited(d, call)'
    BY <1>1, <1>2 DEF LoginTap, Awaited, Resumed, TypeOK
  <2>3. \A s \in Slots : calls'[d][s] # None =>
           /\ Awaited(d, calls[d][s])'
           /\ \A t \in Slots : calls'[d][t] # None => t = s
    BY <1>1, <1>3, <2>1, <2>2, AddedKept
  <2> QED
    BY <1>1, <2>1, <2>3 DEF LoginTap, OneAtATime, TypeOK
<1>7. NothingFilled(d)
  BY <1>2, <1>3 DEF LoginTap, backend, NothingFilled, Fills, Added
<1> QED
  BY <1>4, <1>5, <1>6, <1>7 DEF Kept

LEMMA VerifyTapKept ==
    ASSUME Inv, NEW d \in Devices, NEW e \in Emails, VerifyTap(d, e)
    PROVE  Kept(d) /\ NothingFilled(d)
<1> DEFINE call == NewCall("checkSignUp", e, None)
<1>1. TypeOK /\ Request(d, "checkSignUp", e, None)
  BY DEF VerifyTap, Inv
<1>2. /\ call \in Call /\ call.kind = "checkSignUp" /\ ~call.deaf
      /\ call.answer = "none"
  BY NewCallType DEF Kinds
<1>3. /\ calls' \in [Devices -> [Slots -> Call \cup {None}]]
      /\ Added(d, call)
      /\ \A f \in Devices \ {d} : calls'[f] = calls[f]
  BY <1>1, RequestStep DEF Kinds
<1> HIDE DEF call
<1>4. TypeOK' /\ OthersStay(d)
  BY <1>1, <1>3 DEF VerifyTap, Tap, Spoil, TypeOK, OthersStay, backend
<1>5. Named(d)' /\ SignedIn(d)'
  BY <1>2, <1>3 DEF VerifyTap, Added, Named, SignedIn, Inv
<1>6. ASSUME ~spoiled' PROVE ~spoiled /\ OneAtATime(d)'
  <2>1. ~spoiled /\ ~Pending(d) /\ OneAtATime(d)
    BY <1>6 DEF VerifyTap, Tap, Spoil, Inv, Undisturbed
  <2>2. Awaited(d, call)'
    BY <1>1, <1>2 DEF VerifyTap, Awaited, Resumed, TypeOK
  <2>3. \A s \in Slots : calls'[d][s] # None =>
           /\ Awaited(d, calls[d][s])'
           /\ \A t \in Slots : calls'[d][t] # None => t = s
    BY <1>1, <1>3, <2>1, <2>2, AddedKept
  <2> QED
    BY <1>1, <2>1, <2>3 DEF VerifyTap, OneAtATime, TypeOK
<1>7. NothingFilled(d)
  BY <1>2, <1>3 DEF VerifyTap, backend, NothingFilled, Fills, Added
<1> QED
  BY <1>4, <1>5, <1>6, <1>7 DEF Kept

LEMMA DoneTapKept ==
    ASSUME Inv, NEW d \in Devices, NEW n \in Names, DoneTap(d, n)
    PROVE  Kept(d) /\ NothingFilled(d)
<1> DEFINE call == NewCall("verifyName", None, n)
<1>1. TypeOK /\ Request(d, "verifyName", None, n)
  BY DEF DoneTap, Inv
<1>2. /\ call \in Call /\ call.kind = "verifyName" /\ ~call.deaf
      /\ call.answer = "none"
  BY NewCallType DEF Kinds
<1>3. /\ calls' \in [Devices -> [Slots -> Call \cup {None}]]
      /\ Added(d, call)
      /\ \A f \in Devices \ {d} : calls'[f] = calls[f]
  BY <1>1, RequestStep DEF Kinds
<1> HIDE DEF call
<1>4. TypeOK' /\ OthersStay(d)
  BY <1>1, <1>3 DEF DoneTap, Tap, Spoil, TypeOK, OthersStay, backend
<1>5. Named(d)' /\ SignedIn(d)'
  BY <1>2, <1>3 DEF DoneTap, Added, Named, SignedIn, Inv
<1>6. ASSUME ~spoiled' PROVE ~spoiled /\ OneAtATime(d)'
  <2>1. ~spoiled /\ ~Pending(d) /\ OneAtATime(d)
    BY <1>6 DEF DoneTap, Tap, Spoil, Inv, Undisturbed
  <2>2. Awaited(d, call)'
    BY <1>1, <1>2 DEF DoneTap, Awaited, Resumed, TypeOK
  <2>3. \A s \in Slots : calls'[d][s] # None =>
           /\ Awaited(d, calls[d][s])'
           /\ \A t \in Slots : calls'[d][t] # None => t = s
    BY <1>1, <1>3, <2>1, <2>2, AddedKept
  <2> QED
    BY <1>1, <2>1, <2>3 DEF DoneTap, OneAtATime, TypeOK
<1>7. NothingFilled(d)
  BY <1>2, <1>3 DEF DoneTap, backend, NothingFilled, Fills, Added
<1> QED
  BY <1>4, <1>5, <1>6, <1>7 DEF Kept

\* Typing into a field changes no call.
LEMMA EditKept ==
    ASSUME Inv, NEW d \in Devices,
           \/ \E e \in Emails : EditEmail(d, e)
           \/ \E n \in Names \cup {Blank} : EditName(d, n)
    PROVE  Kept(d) /\ NothingFilled(d)
<1>1. ASSUME NEW e \in Emails, EditEmail(d, e)
      PROVE  Kept(d) /\ NothingFilled(d)
  <2>1. TypeOK' /\ OthersStay(d)
    BY <1>1 DEF EditEmail, Tap, Spoil, Inv, TypeOK, OthersStay, backend
  <2>2. Named(d)' /\ SignedIn(d)' /\ NothingFilled(d)
    BY <1>1 DEF EditEmail, Named, SignedIn, Inv, NothingFilled, Fills, backend
  <2>3. ASSUME ~spoiled' PROVE ~spoiled /\ OneAtATime(d)'
    BY <1>1, <2>3 DEF EditEmail, Tap, Spoil, Pending, Inv, Undisturbed,
                      OneAtATime
  <2> QED
    BY <2>1, <2>2, <2>3 DEF Kept
<1>2. ASSUME NEW n \in Names \cup {Blank}, EditName(d, n)
      PROVE  Kept(d) /\ NothingFilled(d)
  <2>1. TypeOK' /\ OthersStay(d)
    BY <1>2 DEF EditName, Tap, Spoil, Inv, TypeOK, OthersStay, backend
  <2>2. Named(d)' /\ SignedIn(d)' /\ NothingFilled(d)
    BY <1>2 DEF EditName, Named, SignedIn, Inv, NothingFilled, Fills, backend
  <2>3. ASSUME ~spoiled' PROVE ~spoiled /\ OneAtATime(d)'
    BY <1>2, <2>3 DEF EditName, Tap, Spoil, Pending, Inv, Undisturbed,
                      OneAtATime
  <2> QED
    BY <2>1, <2>2, <2>3 DEF Kept
<1> QED
  BY <1>1, <1>2

\* The next screen of signing up comes up.
LEMMA ForwardKept ==
    ASSUME Inv, NEW d \in Devices, SignUpTap(d) \/ NextTap(d)
    PROVE  Kept(d) /\ NothingFilled(d)
<1>0. PICK base \in Seq(Screens) : stack[d] = base
  BY DEF Inv, TypeOK
<1> DEFINE next(x) == Append(base, x)
<1>a. ASSUME NEW x \in Screens
      PROVE  /\ next(x) \in Seq(Screens)
             /\ \A y : Contains(next(x), y) => Contains(base, y) \/ y = x
  BY Stacks
<1>b. "email" \in Screens /\ "profile" \in Screens
  BY DEF Screens
<1> HIDE DEF next
<1>1. CASE SignUpTap(d)
  <2>0. stack'[d] = next("email")
    BY <1>0, <1>1 DEF SignUpTap, Inv, TypeOK, next
  <2>1. /\ stack'[d] \in Seq(Screens)
        /\ \A y : Contains(stack'[d], y) =>
                     Contains(stack[d], y) \/ y = "email"
    BY <1>0, <1>a, <1>b, <2>0
  <2>2. TypeOK' /\ OthersStay(d)
    BY <1>1, <2>0, <2>1
       DEF SignUpTap, Spoil, Inv, TypeOK, OthersStay, backend
  <2>3. Named(d)' /\ SignedIn(d)' /\ NothingFilled(d)
    BY <1>1, <2>1
       DEF SignUpTap, Named, SignedIn, Inv, NothingFilled, Fills, backend
  <2>4. ASSUME ~spoiled' PROVE ~spoiled /\ OneAtATime(d)'
    BY <1>1, <2>1, <2>2, <2>4
       DEF SignUpTap, Spoil, Pending, Inv, Undisturbed, OneAtATime, TypeOK
  <2> QED
    BY <2>2, <2>3, <2>4 DEF Kept
<1>2. CASE NextTap(d)
  <2>0. stack'[d] = next("profile")
    BY <1>0, <1>2 DEF NextTap, Inv, TypeOK, next
  <2>1. /\ stack'[d] \in Seq(Screens)
        /\ \A y : Contains(stack'[d], y) =>
                     Contains(stack[d], y) \/ y = "profile"
    BY <1>0, <1>a, <1>b, <2>0
  <2>2. TypeOK' /\ OthersStay(d)
    BY <1>2, <2>0, <2>1
       DEF NextTap, Spoil, Inv, TypeOK, OthersStay, backend
  <2>3. Named(d)' /\ SignedIn(d)' /\ NothingFilled(d)
    BY <1>2, <2>1
       DEF NextTap, Named, SignedIn, Inv, NothingFilled, Fills, backend
  <2>4. ASSUME ~spoiled' PROVE ~spoiled /\ OneAtATime(d)'
    <3>1. /\ ~spoiled /\ ~Pending(d) /\ OneAtATime(d) /\ verified[d]
          /\ mEmail'[d] = mEt_email[d]
      BY <1>2, <2>4 DEF NextTap, Spoil, Inv, TypeOK, Undisturbed
    <3> QED
      BY <1>2, <2>2, <3>1 DEF NextTap, Pending, OneAtATime, TypeOK
  <2> QED
    BY <2>2, <2>3, <2>4 DEF Kept
<1> QED
  BY <1>1, <1>2

\* What comes up from below, with CoreActivity on top or without.
LEMMA UncoveredKept ==
    ASSUME Inv, NEW d \in Devices, NEW base \in Seq(Screens),
           Uncover(d, base), front'[d], base # <<>>,
           \A y : Contains(base, y) => Contains(stack[d], y) \/ y = "home",
           UNCHANGED <<signed, mEt_email, verified, mEmail>>,
           ~spoiled' => ~spoiled /\ ~Pending(d)
    PROVE  /\ Named(d)' /\ SignedIn(d)'
           /\ ~spoiled' => OneAtATime(d)'
<1>1. /\ stack' \in [Devices -> Seq(Screens)]
      /\ calls' \in [Devices -> [Slots -> Call \cup {None}]]
      /\ crash'[d] = crash[d]
      /\ \/ stack'[d] = base /\ calls'[d] = calls[d]
         \/ /\ signed[d] # None
            /\ stack'[d] = Append(base, "core")
            /\ Added(d, NewCall("userInfo", signed[d], None))
  BY UncoverStep DEF Inv
<1>2. CASE stack'[d] = base /\ calls'[d] = calls[d]
  <2>1. Named(d)' /\ SignedIn(d)'
    BY <1>2 DEF Inv, Named, SignedIn
  <2>2. ASSUME ~spoiled' PROVE OneAtATime(d)'
    BY <1>1, <1>2, <2>2 DEF Inv, Undisturbed, OneAtATime, Pending
  <2> QED
    BY <2>1, <2>2
<1>3. CASE /\ signed[d] # None
           /\ stack'[d] = Append(base, "core")
           /\ Added(d, NewCall("userInfo", signed[d], None))
  <2>0. PICK user \in Emails : signed[d] = user
    BY <1>3 DEF Inv, TypeOK
  <2> DEFINE call == NewCall("userInfo", user, None)
  <2>1. call.kind = "userInfo" /\ call.email = user /\ ~call.deaf
    BY NewCallType DEF Kinds
  <2>2. Added(d, call)
    BY <1>3, <2>0
  <2> HIDE DEF call
  <2>3. /\ stack'[d] # <<>> /\ Last(stack'[d]) = "core"
        /\ \A y : Contains(stack'[d], y) => Contains(base, y) \/ y = "core"
    BY <1>3, Stacks DEF Screens
  <2>4. Named(d)' /\ SignedIn(d)'
    BY <1>3, <2>0, <2>1, <2>2 DEF Inv, Added, Named, SignedIn
  <2>5. ASSUME ~spoiled' PROVE OneAtATime(d)'
    <3>1. ~spoiled /\ ~Pending(d) /\ OneAtATime(d) /\ TypeOK
      BY <2>5 DEF Inv, Undisturbed
    <3>2. Awaited(d, call)'
      BY <2>1, <2>3 DEF Awaited, Resumed
    <3>3. \A s \in Slots : calls'[d][s] # None =>
             /\ Awaited(d, calls[d][s])'
             /\ \A t \in Slots : calls'[d][t] # None => t = s
      BY <2>2, <3>1, <3>2, AddedKept
    <3> QED
      BY <1>1, <2>3, <3>1, <3>3 DEF OneAtATime
  <2> QED
    BY <2>4, <2>5
<1> QED
  BY <1>1, <1>2, <1>3

\* No document is written by a call that asks for one.
LEMMA UncoveredFills ==
    ASSUME Inv, NEW d \in Devices, NEW base \in Seq(Screens),
           Uncover(d, base), UNCHANGED backend
    PROVE  NothingFilled(d)
<1>0. PICK user \in Emails \cup {None} : signed[d] = user
  BY DEF Inv, TypeOK
<1> DEFINE call == NewCall("userInfo", user, None)
<1>1. calls'[d] = calls[d] \/ Added(d, call)
  BY <1>0, UncoverStep DEF Inv
<1>2. call.kind = "userInfo"
  BY NewCallType DEF Kinds
<1> HIDE DEF call
<1> QED
  BY <1>1, <1>2 DEF NothingFilled, Fills, Added

LEMMA BackKept ==
    ASSUME Inv, NEW d \in Devices, Back(d)
    PROVE  Kept(d) /\ NothingFilled(d)
<1>1. PICK base \in Seq(Screens) : stack[d] = base
  BY DEF Inv, TypeOK
<1>2. /\ Front(base) \in Seq(Screens) /\ Front(base) # <<>>
      /\ \A y : Contains(Front(base), y) => Contains(base, y)
  <2>1. Len(base) > 1 /\ Len(base) \in Nat
    BY <1>1, LenProperties DEF Back
  <2>2. "home" \in Screens
    BY DEF Screens
  <2>3. /\ Front(base) \in Seq(Screens)
        /\ \A y : Contains(Front(base), y) => Contains(base, y)
    BY <2>1, <2>2, Stacks
  <2>4. Len(Front(base)) = Len(base) - 1
    BY <2>1 DEF Front
  <2>5. Front(base) # <<>>
    BY <2>1, <2>4
  <2> QED
    BY <2>3, <2>5
<1>3. Uncover(d, Front(base))
  BY <1>1 DEF Back
<1>4. /\ TypeOK /\ front[d]
      /\ Tap(Pending(d))
      /\ UNCHANGED <<accounts, users, front, signed, mEt_login, mEt_email,
                     verified, mEmail, mEt_uname>>
  BY DEF Back, Inv, backend, fields
<1>5. TypeOK' /\ OthersStay(d)
  BY <1>2, <1>3, <1>4, UncoverStep DEF TypeOK, OthersStay, Tap, Spoil
<1>6. ~spoiled' => ~spoiled /\ ~Pending(d)
  BY <1>4 DEF Tap, Spoil
<1>7. /\ Named(d)' /\ SignedIn(d)'
      /\ ~spoiled' => OneAtATime(d)'
  BY <1>1, <1>2, <1>3, <1>4, <1>6, UncoveredKept
<1>8. NothingFilled(d)
  BY <1>2, <1>3, <1>4, UncoveredFills DEF backend
<1> QED
  BY <1>5, <1>6, <1>7, <1>8 DEF Kept

LEMMA PauseKept ==
    ASSUME Inv, NEW d \in Devices, Pause(d)
    PROVE  Kept(d) /\ NothingFilled(d)
<1>1. TypeOK' /\ OthersStay(d)
  BY DEF Pause, Tap, Spoil, Inv, TypeOK, OthersStay, backend, fields
<1>2. Named(d)' /\ SignedIn(d)' /\ NothingFilled(d)
  BY DEF Pause, Named, SignedIn, Inv, NothingFilled, Fills, backend, fields
<1>3. ASSUME ~spoiled' PROVE ~spoiled /\ OneAtATime(d)'
  BY <1>3 DEF Pause, Tap, Spoil, Pending, Inv, Undisturbed, OneAtATime, fields
<1> QED
  BY <1>1, <1>2, <1>3 DEF Kept

\* Nobody waits for a call behind another app.
LEMMA ReturnKept ==
    ASSUME Inv, NEW d \in Devices, Return(d)
    PROVE  Kept(d) /\ NothingFilled(d)
<1>1. PICK base \in Seq(Screens) : stack[d] = base
  BY DEF Inv, TypeOK
<1>2. /\ TypeOK /\ ~front[d] /\ base # <<>> /\ Uncover(d, base)
      /\ front' = [front EXCEPT ![d] = TRUE]
      /\ UNCHANGED <<accounts, users, signed, mEt_login, mEt_email, verified,
                     mEmail, mEt_uname, spoiled, taps>>
  BY <1>1 DEF Return, Inv, backend, fields
<1>3. TypeOK' /\ OthersStay(d) /\ front'[d]
  BY <1>2, UncoverStep DEF TypeOK, OthersStay
<1>4. ~spoiled' => ~spoiled /\ ~Pending(d)
  BY <1>2, AwaitedInFront DEF Inv, Undisturbed, Pending
<1>5. /\ Named(d)' /\ SignedIn(d)'
      /\ ~spoiled' => OneAtATime(d)'
  BY <1>1, <1>2, <1>3, <1>4, UncoveredKept
<1>6. NothingFilled(d)
  BY <1>2, UncoveredFills DEF backend
<1> QED
  BY <1>3, <1>4, <1>5, <1>6 DEF Kept

\* The stack of a process that has just started.
LEMMA Home ==
    /\ <<"home">> \in Seq(Screens) /\ <<"home">> # <<>>
    /\ Last(<<"home">>) = "home"
    /\ \A y : Contains(<<"home">>, y) => y = "home"
    /\ <<>> \in Seq(Screens) /\ \A y : ~Contains(<<>>, y)
<1>1. <<>> \in Seq(Screens) /\ "home" \in Screens
  BY DEF Screens
<1> QED
  BY <1>1, Stacks

LEMMA LaunchKept ==
    ASSUME Inv, NEW d \in Devices, Launch(d)
    PROVE  Kept(d) /\ NothingFilled(d)
<1>1. /\ TypeOK /\ stack[d] = <<>> /\ Uncover(d, <<"home">>)
      /\ front' = [front EXCEPT ![d] = TRUE]
      /\ mEt_login' = [mEt_login EXCEPT ![d] = None]
      /\ UNCHANGED <<accounts, users, signed, mEt_email, verified,
                     mEmail, mEt_uname, spoiled, taps>>
  BY DEF Launch, Inv, backend
<1>2. TypeOK' /\ OthersStay(d) /\ front'[d]
  BY <1>1, Home, UncoverStep DEF TypeOK, OthersStay
<1>3. ~spoiled' => ~spoiled /\ ~Pending(d)
  BY <1>1, AwaitedInFront DEF Inv, Undisturbed, Pending
<1>4. /\ Named(d)' /\ SignedIn(d)'
      /\ ~spoiled' => OneAtATime(d)'
  BY <1>1, <1>2, <1>3, Home, UncoveredKept
<1>5. NothingFilled(d)
  BY <1>1, Home, UncoveredFills DEF backend
<1> QED
  BY <1>2, <1>3, <1>4, <1>5 DEF Kept

LEMMA SignOutKept ==
    ASSUME Inv, NEW d \in Devices, SignOut(d)
    PROVE  Kept(d) /\ NothingFilled(d)
<1>1. TypeOK' /\ OthersStay(d) /\ stack'[d] = <<"home">>
  BY Home DEF SignOut, Tap, Spoil, Inv, TypeOK, OthersStay, backend
<1>2. Named(d)' /\ NothingFilled(d)
  BY DEF SignOut, Named, Inv, NothingFilled, Fills, backend
<1>3. \A y : Contains(stack'[d], y) => y = "home"
  BY <1>1, Home
<1>4. SignedIn(d)'
  BY <1>3 DEF SignedIn
<1>5. ASSUME ~spoiled' PROVE ~spoiled /\ OneAtATime(d)'
  <2>1. ~Contains(stack'[d], "profile")
    BY <1>3
  <2> QED
    BY <1>5, <2>1
       DEF SignOut, Tap, Spoil, Pending, Inv, Undisturbed, OneAtATime
<1> QED
  BY <1>1, <1>2, <1>4, <1>5 DEF Kept

\* A process that ends under a call counts as interference.
LEMMA DieKept ==
    ASSUME Inv, NEW d \in Devices, Die(d)
    PROVE  Kept(d) /\ NothingFilled(d)
<1>1. /\ \A s \in Slots : Orphaned(d)[s] \in Call \cup {None}
      /\ \A s \in Slots : Orphaned(d)[s] # None =>
            /\ calls[d][s] # None
            /\ Orphaned(d)[s].kind = calls[d][s].kind
            /\ Orphaned(d)[s].email = calls[d][s].email
            /\ Orphaned(d)[s].name = calls[d][s].name
            /\ Orphaned(d)[s].answer = calls[d][s].answer
  <2>1. ASSUME NEW c \in Call
        PROVE  /\ [c EXCEPT !.deaf = TRUE] \in Call
               /\ [c EXCEPT !.deaf = TRUE].kind = c.kind
               /\ [c EXCEPT !.deaf = TRUE].email = c.email
               /\ [c EXCEPT !.deaf = TRUE].name = c.name
               /\ [c EXCEPT !.deaf = TRUE].answer = c.answer
    BY DEF Call
  <2>2. ASSUME NEW s \in Slots
        PROVE  \/ Orphaned(d)[s] = None
               \/ /\ calls[d][s] \in Call /\ calls[d][s] # None
                  /\ Orphaned(d)[s] = [calls[d][s] EXCEPT !.deaf = TRUE]
    <3>1. calls[d][s] \in Call \cup {None}
      BY DEF Inv, TypeOK
    <3> QED
      BY <3>1 DEF Orphaned
  <2>3. ASSUME NEW s \in Slots
        PROVE  /\ Orphaned(d)[s] \in Call \cup {None}
               /\ Orphaned(d)[s] # None =>
                     /\ calls[d][s] # None
                     /\ Orphaned(d)[s].kind = calls[d][s].kind
                     /\ Orphaned(d)[s].email = calls[d][s].email
                     /\ Orphaned(d)[s].name = calls[d][s].name
                     /\ Orphaned(d)[s].answer = calls[d][s].answer
    <3>1. CASE Orphaned(d)[s] = None
      BY <3>1
    <3>2. CASE Orphaned(d)[s] # None
      <4>1. /\ calls[d][s] \in Call
            /\ Orphaned(d)[s] = [calls[d][s] EXCEPT !.deaf = TRUE]
            /\ calls[d][s] # None
        BY <2>2, <3>2
      <4> QED
        BY <2>1, <4>1
    <3> QED
      BY <3>1, <3>2
  <2> QED
    BY <2>3
<1>2. Orphaned(d) \in [Slots -> Call \cup {None}]
  BY <1>1 DEF Orphaned
<1>3. calls'[d] = Orphaned(d) /\ stack'[d] = <<>> /\ crash'[d] = "none"
  BY DEF Die, Inv, TypeOK
<1>4. TypeOK' /\ OthersStay(d)
  BY <1>2, Home DEF Die, Spoil, Inv, TypeOK, OthersStay, backend, fields
<1>5. Named(d)'
  BY <1>1, <1>3 DEF Named, Inv
<1>6. \A y : ~Contains(stack'[d], y)
  BY <1>3, Home
<1>7. SignedIn(d)'
  BY <1>6 DEF SignedIn
<1>8. ASSUME ~spoiled' PROVE ~spoiled /\ OneAtATime(d)'
  <2>1. ~spoiled /\ ~Pending(d) /\ OneAtATime(d)
    BY <1>8 DEF Die, Spoil, Inv, Undisturbed
  <2>2. \A s \in Slots : calls'[d][s] = None
    BY <1>1, <1>3, <2>1 DEF Pending
  <2> QED
    BY <1>3, <1>6, <2>1, <2>2 DEF Die, OneAtATime, fields
<1>9. NothingFilled(d)
  BY <1>1, <1>3 DEF Die, NothingFilled, Fills
<1> QED
  BY <1>4, <1>5, <1>7, <1>8, <1>9 DEF Kept

LEMMA UserKept ==
    ASSUME Inv, NEW d \in Devices, User(d)
    PROVE  Kept(d) /\ NothingFilled(d)
BY LoginTapKept, VerifyTapKept, DoneTapKept, EditKept, ForwardKept, BackKept,
   PauseKept, ReturnKept, SignOutKept DEF User

-----------------------------------------------------------------------------
(* Answers and failures *)

\* A call of a device ends, or one takes its place that the screen awaits.
LEMMA Ended ==
    ASSUME TypeOK, NEW d \in Devices, NEW s \in Slots, OneAtATime(d),
           calls[d][s] # None, NEW x \in Call \cup {None},
           calls'[d][s] = x,
           \A t \in Slots \ {s} : calls'[d][t] = calls[d][t],
           x # None => Awaited(d, x)'
    PROVE  \A t \in Slots : calls'[d][t] # None =>
              /\ Awaited(d, calls[d][t])'
              /\ \A r \in Slots : calls'[d][r] # None => r = t
<1>1. \A t \in Slots \ {s} : calls'[d][t] = None
  BY DEF OneAtATime
<1> QED
  BY <1>1

LEMMA FailKept ==
    ASSUME Inv, NEW d \in Devices, NEW s \in Slots, Fail(d, s)
    PROVE  Kept(d) /\ NothingFilled(d)
<1>0. /\ TypeOK /\ calls[d][s] \in Call /\ calls[d][s] # None
      /\ spoiled' = TRUE
  BY DEF Fail, Fails, Unserved, Inv, TypeOK
<1>1. /\ UNCHANGED <<accounts, users, front, signed, mEt_login, mEt_email,
                     verified, mEmail, mEt_uname, taps>>
  BY DEF Fail, backend, fields
<1>2. PICK x \in Call \cup {None} :
        /\ Put(d, s, x)
        /\ x # None => x.kind = calls[d][s].kind /\ x.email = calls[d][s].email
                       /\ x.name = calls[d][s].name
  <2>1. [calls[d][s] EXCEPT !.answer = "no"] \in Call
    BY <1>0 DEF Call
  <2>2. /\ [calls[d][s] EXCEPT !.answer = "no"].kind = calls[d][s].kind
        /\ [calls[d][s] EXCEPT !.answer = "no"].email = calls[d][s].email
        /\ [calls[d][s] EXCEPT !.answer = "no"].name = calls[d][s].name
    BY <1>0 DEF Call
  <2>3. \/ Put(d, s, None)
        \/ Put(d, s, [calls[d][s] EXCEPT !.answer = "no"])
    BY DEF Fail
  <2> QED
    BY <2>1, <2>2, <2>3
<1>3. /\ calls' \in [Devices -> [Slots -> Call \cup {None}]]
      /\ calls'[d][s] = x
      /\ \A t \in Slots \ {s} : calls'[d][t] = calls[d][t]
      /\ \A e \in Devices \ {d} : calls'[e] = calls[e]
  BY <1>0, <1>2, PutStep
<1>4. \/ /\ stack' = [stack EXCEPT ![d] = <<>>]
         /\ crash' = [crash EXCEPT ![d] = "check"]
      \/ UNCHANGED <<stack, crash>>
  BY DEF Fail
<1>5. TypeOK' /\ OthersStay(d)
  <2>1. /\ stack' \in [Devices -> Seq(Screens)]
        /\ \A e \in Devices \ {d} : stack'[e] = stack[e]
    <3>1. stack \in [Devices -> Seq(Screens)]
      BY <1>0 DEF TypeOK
    <3> QED
      BY <1>4, <3>1, Home
  <2>2. /\ crash' \in [Devices ->
                          {"none", "noUser", "noDoc", "blank", "check"}]
        /\ \A e \in Devices \ {d} : crash'[e] = crash[e]
    BY <1>0, <1>4 DEF TypeOK
  <2>3. TypeOK'
    BY <1>0, <1>1, <1>3, <2>1, <2>2 DEF TypeOK
  <2>4. OthersStay(d)
    BY <1>1, <1>3, <2>1, <2>2 DEF OthersStay
  <2> QED
    BY <2>3, <2>4
<1>6. Named(d)'
  BY <1>0, <1>2, <1>3 DEF Named, Inv
<1>7. SignedIn(d)'
  BY <1>0, <1>1, <1>4, Home DEF SignedIn, Inv, TypeOK
<1>8. NothingFilled(d)
  BY <1>0, <1>1 DEF NothingFilled, backend
<1> QED
  BY <1>0, <1>5, <1>6, <1>7, <1>8 DEF Kept

LEMMA IgnoreKept ==
    ASSUME Inv, NEW d \in Devices, NEW s \in Slots, Ignore(d, s)
    PROVE  Kept(d) /\ NothingFilled(d)
<1>1. /\ TypeOK /\ calls[d][s] # None /\ Put(d, s, None)
      /\ UNCHANGED <<accounts, users, stack, front, signed, mEt_login,
                     mEt_email, verified, mEmail, mEt_uname, crash, spoiled,
                     taps>>
  BY DEF Ignore, Inv, Answered, backend, fields
<1>2. /\ calls' \in [Devices -> [Slots -> Call \cup {None}]]
      /\ calls'[d][s] = None
      /\ \A t \in Slots \ {s} : calls'[d][t] = calls[d][t]
      /\ \A e \in Devices \ {d} : calls'[e] = calls[e]
  BY <1>1, PutStep
<1>3. TypeOK' /\ OthersStay(d)
  BY <1>1, <1>2 DEF TypeOK, OthersStay
<1>4. Named(d)' /\ SignedIn(d)' /\ NothingFilled(d)
  BY <1>1, <1>2 DEF Named, SignedIn, Inv, NothingFilled, Fills, backend
<1>5. ASSUME ~spoiled' PROVE ~spoiled /\ OneAtATime(d)'
  BY <1>1, <1>2, <1>5
     DEF Inv, Undisturbed, OneAtATime, Awaited, Resumed
<1> QED
  BY <1>3, <1>4, <1>5 DEF Kept

LEMMA VerifyEmailKept ==
    ASSUME Inv, NEW d \in Devices, NEW s \in Slots, OnVerifyEmail(d, s)
    PROVE  Kept(d) /\ NothingFilled(d)
<1>1. /\ TypeOK /\ calls[d][s] # None /\ Put(d, s, None)
      /\ calls[d][s].kind = "checkSignUp"
      /\ verified' = [verified EXCEPT ![d] = TRUE]
      /\ UNCHANGED <<accounts, users, stack, front, signed, mEt_login,
                     mEt_email, mEmail, mEt_uname, crash, spoiled, taps>>
  BY DEF OnVerifyEmail, Inv, Answered, backend
<1>2. /\ calls' \in [Devices -> [Slots -> Call \cup {None}]]
      /\ calls'[d][s] = None
      /\ \A t \in Slots \ {s} : calls'[d][t] = calls[d][t]
      /\ \A e \in Devices \ {d} : calls'[e] = calls[e]
  BY <1>1, PutStep
<1>3. TypeOK' /\ OthersStay(d)
  BY <1>1, <1>2 DEF TypeOK, OthersStay
<1>4. Named(d)' /\ SignedIn(d)' /\ NothingFilled(d)
  BY <1>1, <1>2 DEF Named, SignedIn, Inv, NothingFilled, Fills, backend
<1>5. ASSUME ~spoiled' PROVE ~spoiled /\ OneAtATime(d)'
  <2>1. /\ ~spoiled /\ OneAtATime(d)
    BY <1>1, <1>5 DEF Inv, Undisturbed
  <2>2. mEt_email'[d] \in Emails
    BY <1>1, <2>1 DEF OneAtATime, Awaited
  <2>3. \A t \in Slots : calls'[d][t] = None
    BY <1>1, <1>2, <2>1 DEF OneAtATime
  <2> QED
    BY <1>1, <2>1, <2>2, <2>3 DEF OneAtATime
<1> QED
  BY <1>3, <1>4, <1>5 DEF Kept

\* The next call of Firebase Auth, or its exception.
LEMMA AskStep ==
    ASSUME TypeOK, NEW d \in Devices, NEW s \in Slots, NEW k \in Kinds,
           NEW e \in Emails \cup {None}, NEW blank \in BOOLEAN,
           Ask(d, s, k, e, blank)
    PROVE  /\ stack' \in [Devices -> Seq(Screens)]
           /\ calls' \in [Devices -> [Slots -> Call \cup {None}]]
           /\ crash' \in [Devices ->
                             {"none", "noUser", "noDoc", "blank", "check"}]
           /\ \A f \in Devices \ {d} : /\ stack'[f] = stack[f]
                                       /\ calls'[f] = calls[f]
                                       /\ crash'[f] = crash[f]
           /\ \A t \in Slots \ {s} : calls'[d][t] = calls[d][t]
           /\ blank => stack'[d] = <<>> /\ calls'[d][s] = None
           /\ ~blank => /\ stack'[d] = stack[d]
                        /\ calls'[d][s] = NewCall(k, e, None)
                        /\ crash'[d] = crash[d]
<1>1. NewCall(k, e, None) \in Call
  BY NewCallType
<1>2. CASE blank
  <2>1. /\ stack' = [stack EXCEPT ![d] = <<>>]
        /\ crash' = [crash EXCEPT ![d] = "blank"]
        /\ Put(d, s, None)
    BY <1>2 DEF Ask
  <2> QED
    BY <1>2, <2>1, Home, PutStep DEF TypeOK
<1>3. CASE ~blank
  <2>1. Put(d, s, NewCall(k, e, None)) /\ UNCHANGED <<stack, crash>>
    BY <1>3 DEF Ask
  <2> QED
    BY <1>1, <1>3, <2>1, PutStep DEF TypeOK
<1> QED
  BY <1>2, <1>3

\* The login goes on with the text of now, which is still the one checked.
LEMMA EmailCheckKept ==
    ASSUME Inv, NEW d \in Devices, NEW s \in Slots, OnEmailCheck(d, s)
    PROVE  Kept(d) /\ NothingFilled(d)
<1>0. PICK e \in Emails \cup {None} : mEt_login[d] = e
  BY DEF Inv, TypeOK
<1>a. PICK blank \in BOOLEAN : blank = (e = None)
  OBVIOUS
<1>1. /\ TypeOK /\ calls[d][s] # None /\ calls[d][s].kind = "checkLogin"
      /\ Ask(d, s, "login", e, blank)
      /\ UNCHANGED <<accounts, users, front, signed, mEt_login, mEt_email,
                     verified, mEmail, mEt_uname, spoiled, taps>>
  BY <1>0, <1>a DEF OnEmailCheck, Inv, Answered, backend, fields
<1> DEFINE call == NewCall("login", e, None)
<1>2. /\ call \in Call /\ call.kind = "login" /\ call.email = e /\ ~call.deaf
  BY NewCallType DEF Kinds
<1>3. /\ stack' \in [Devices -> Seq(Screens)]
      /\ calls' \in [Devices -> [Slots -> Call \cup {None}]]
      /\ crash' \in [Devices -> {"none", "noUser", "noDoc", "blank", "check"}]
      /\ \A f \in Devices \ {d} : /\ stack'[f] = stack[f]
                                  /\ calls'[f] = calls[f]
                                  /\ crash'[f] = crash[f]
      /\ \A t \in Slots \ {s} : calls'[d][t] = calls[d][t]
      /\ blank => stack'[d] = <<>> /\ calls'[d][s] = None
      /\ ~blank => /\ stack'[d] = stack[d] /\ calls'[d][s] = call
                   /\ crash'[d] = crash[d]
  BY <1>1, AskStep DEF Kinds
<1> HIDE DEF call
<1>4. TypeOK' /\ OthersStay(d)
  <2>1. TypeOK'
    BY <1>1, <1>3 DEF TypeOK
  <2>2. OthersStay(d)
    BY <1>1, <1>3 DEF OthersStay
  <2> QED
    BY <2>1, <2>2
<1>5. Named(d)' /\ NothingFilled(d)
  <2>1. \/ calls'[d][s] = None
        \/ calls'[d][s].kind = "login" /\ calls'[d][s].email \in Emails
    BY <1>a, <1>2, <1>3
  <2>2. Named(d)'
    <3>1. Named(d)
      BY <1>1 DEF Inv
    <3>2. ASSUME NEW t \in Slots \ {s}
          PROVE  calls'[d][t] = calls[d][t]
      BY <1>3
    <3> QED
      BY <2>1, <3>1, <3>2, SMTT(20) DEF Named
  <2>3. ASSUME NEW t \in Slots, NEW f \in Emails, Fills(d, t, f)'
        PROVE  Fills(d, t, f)
    BY <1>1, <1>3, <2>1, <2>3 DEF Fills
  <2>4. NothingFilled(d)
    BY <1>1, <2>3 DEF NothingFilled, backend
  <2> QED
    BY <2>2, <2>4
<1>6. SignedIn(d)'
  BY <1>1, <1>3, Home DEF SignedIn, Inv
<1>7. ASSUME ~spoiled' PROVE ~spoiled /\ OneAtATime(d)'
  <2>1. ~spoiled /\ OneAtATime(d) /\ Awaited(d, calls[d][s])
    BY <1>1, <1>7 DEF Inv, Undisturbed, OneAtATime
  <2>2. ~blank /\ e \in Emails
    BY <1>0, <1>a, <1>1, <2>1 DEF Awaited
  <2>3. Awaited(d, call)'
    BY <1>1, <1>2, <1>3, <2>1, <2>2 DEF Awaited, Resumed
  <2>4. \A t \in Slots : calls'[d][t] # None =>
           /\ Awaited(d, calls[d][t])'
           /\ \A r \in Slots : calls'[d][r] # None => r = t
    BY <1>1, <1>2, <1>3, <2>1, <2>2, <2>3, Ended
  <2> QED
    BY <1>1, <1>3, <2>1, <2>2, <2>4 DEF OneAtATime
<1> QED
  BY <1>4, <1>5, <1>6, <1>7 DEF Kept

\* The account is created with the e-mail and the name on the screen.
LEMMA VerifyNameKept ==
    ASSUME Inv, NEW d \in Devices, NEW s \in Slots, OnVerifyName(d, s)
    PROVE  Kept(d) /\ NothingFilled(d)
<1>0. PICK e \in Emails \cup {None} : mEmail[d] = e
  BY DEF Inv, TypeOK
<1>a. PICK blank \in BOOLEAN : blank = (e = None \/ mEt_uname[d] = Blank)
  OBVIOUS
<1>1. /\ TypeOK /\ calls[d][s] # None /\ calls[d][s].kind = "verifyName"
      /\ Contains(stack[d], "profile")
      /\ Ask(d, s, "createAccount", e, blank)
      /\ UNCHANGED <<accounts, users, front, signed, mEt_login, mEt_email,
                     verified, mEmail, mEt_uname, spoiled, taps>>
  BY <1>0, <1>a DEF OnVerifyName, Inv, Answered, backend, fields
<1> DEFINE call == NewCall("createAccount", e, None)
<1>2. /\ call \in Call /\ call.kind = "createAccount" /\ call.email = e
      /\ ~call.deaf /\ call.answer = "none"
  BY NewCallType DEF Kinds
<1>3. /\ stack' \in [Devices -> Seq(Screens)]
      /\ calls' \in [Devices -> [Slots -> Call \cup {None}]]
      /\ crash' \in [Devices -> {"none", "noUser", "noDoc", "blank", "check"}]
      /\ \A f \in Devices \ {d} : /\ stack'[f] = stack[f]
                                  /\ calls'[f] = calls[f]
                                  /\ crash'[f] = crash[f]
      /\ \A t \in Slots \ {s} : calls'[d][t] = calls[d][t]
      /\ blank => stack'[d] = <<>> /\ calls'[d][s] = None
      /\ ~blank => /\ stack'[d] = stack[d] /\ calls'[d][s] = call
                   /\ crash'[d] = crash[d]
  BY <1>1, AskStep DEF Kinds
<1> HIDE DEF call
<1>4. TypeOK' /\ OthersStay(d)
  <2>1. TypeOK'
    BY <1>1, <1>3 DEF TypeOK
  <2>2. OthersStay(d)
    BY <1>1, <1>3 DEF OthersStay
  <2> QED
    BY <2>1, <2>2
<1>5. Named(d)' /\ NothingFilled(d)
  <2>1. \/ calls'[d][s] = None
        \/ /\ calls'[d][s].kind = "createAccount"
           /\ calls'[d][s].email \in Emails
           /\ calls'[d][s].answer = "none"
    BY <1>0, <1>a, <1>2, <1>3
  <2>2. Named(d)'
    <3>1. Named(d)
      BY <1>1 DEF Inv
    <3>2. ASSUME NEW t \in Slots \ {s}
          PROVE  calls'[d][t] = calls[d][t]
      BY <1>3
    <3> QED
      BY <2>1, <3>1, <3>2, SMTT(20) DEF Named
  <2>3. ASSUME NEW t \in Slots, NEW f \in Emails, Fills(d, t, f)'
        PROVE  Fills(d, t, f)
    BY <1>1, <1>3, <2>1, <2>3 DEF Fills
  <2> QED
    BY <1>1, <2>2, <2>3 DEF NothingFilled, backend
<1>6. SignedIn(d)'
  BY <1>1, <1>3, Home DEF SignedIn, Inv
<1>7. ASSUME ~spoiled' PROVE ~spoiled /\ OneAtATime(d)'
  <2>1. ~spoiled /\ OneAtATime(d) /\ Awaited(d, calls[d][s])
    BY <1>1, <1>7 DEF Inv, Undisturbed, OneAtATime
  <2>2. ~blank /\ e \in Emails
    BY <1>0, <1>a, <1>1, <2>1 DEF Awaited, OneAtATime
  <2>3. Awaited(d, call)'
    BY <1>0, <1>1, <1>2, <1>3, <2>1, <2>2 DEF Awaited, Resumed
  <2>4. \A t \in Slots : calls'[d][t] # None =>
           /\ Awaited(d, calls[d][t])'
           /\ \A r \in Slots : calls'[d][r] # None => r = t
    BY <1>1, <1>2, <1>3, <2>1, <2>2, <2>3, Ended
  <2> QED
    BY <1>1, <1>3, <2>1, <2>2, <2>4 DEF OneAtATime
<1> QED
  BY <1>4, <1>5, <1>6, <1>7 DEF Kept

\* The document that is due after the account is the next call's.
LEMMA CreateAccountKept ==
    ASSUME Inv, NEW d \in Devices, NEW s \in Slots, OnCreateAccount(d, s)
    PROVE  Kept(d) /\ NothingFilled(d)
<1>0. PICK e \in Emails \cup {None}, n \in Names \cup {Blank} :
         mEmail[d] = e /\ mEt_uname[d] = n
  BY DEF Inv, TypeOK
<1> DEFINE call == NewCall("createUser", e, n)
<1>1. /\ call \in Call /\ call.kind = "createUser" /\ call.email = e
      /\ call.name = n /\ ~call.deaf /\ call.answer = "none"
  BY NewCallType DEF Kinds
<1>2. /\ TypeOK /\ calls[d][s] # None /\ calls[d][s].kind = "createAccount"
      /\ calls[d][s].answer = "yes"
      /\ signed' = [signed EXCEPT ![d] = calls[d][s].email]
      /\ Put(d, s, IF Resumed(d, "profile") THEN call ELSE None)
      /\ UNCHANGED <<accounts, users, stack, front, mEt_login, mEt_email,
                     verified, mEmail, mEt_uname, crash, spoiled, taps>>
  BY <1>0 DEF OnCreateAccount, Inv, Answered, backend, fields
<1> HIDE DEF call
<1>3. calls[d][s].email \in Emails
  BY <1>2 DEF Inv, Named
<1>4. PICK x \in {call, None} :
         /\ x \in Call \cup {None}
         /\ Put(d, s, x)
         /\ Resumed(d, "profile") => x = call
  BY <1>1, <1>2
<1>5. /\ calls' \in [Devices -> [Slots -> Call \cup {None}]]
      /\ calls'[d][s] = x
      /\ \A t \in Slots \ {s} : calls'[d][t] = calls[d][t]
      /\ \A f \in Devices \ {d} : calls'[f] = calls[f]
  BY <1>2, <1>4, PutStep
<1>6. TypeOK' /\ OthersStay(d)
  <2>1. signed' \in [Devices -> Emails \cup {None}]
    BY <1>2, <1>3 DEF TypeOK
  <2>2. TypeOK'
    BY <1>2, <1>5, <2>1 DEF TypeOK
  <2>3. OthersStay(d)
    BY <1>2, <1>5 DEF OthersStay
  <2> QED
    BY <2>2, <2>3
<1>7. Named(d)'
  BY <1>1, <1>2, <1>4, <1>5 DEF Named, Inv
<1>8. SignedIn(d)'
  BY <1>2, <1>3 DEF SignedIn, TypeOK
<1>9. ASSUME ~spoiled'
      PROVE  /\ ~spoiled /\ OneAtATime(d)'
             /\ \A t \in Slots, f \in Emails :
                   Fills(d, t, f)' => Fills(d, t, f)
  <2>1. ~spoiled /\ OneAtATime(d) /\ Awaited(d, calls[d][s])
    BY <1>2, <1>9 DEF Inv, Undisturbed, OneAtATime
  <2>2. /\ Resumed(d, "profile") /\ n \in Names /\ calls[d][s].email = e
        /\ x = call /\ signed'[d] = e
    BY <1>0, <1>2, <1>4, <2>1 DEF Awaited, TypeOK
  <2>3. Awaited(d, x)'
    BY <1>0, <1>1, <1>2, <2>1, <2>2 DEF Awaited, Resumed
  <2>4. \A t \in Slots : calls'[d][t] # None =>
           /\ Awaited(d, calls[d][t])'
           /\ \A r \in Slots : calls'[d][r] # None => r = t
    BY <1>1, <1>2, <1>4, <1>5, <2>1, <2>3, Ended
  <2>5. OneAtATime(d)'
    BY <1>2, <2>1, <2>4 DEF OneAtATime
  <2>6. \A t \in Slots, f \in Emails : Fills(d, t, f)' => Fills(d, t, f)
    BY <1>1, <1>2, <1>5, <2>2 DEF Fills
  <2> QED
    BY <2>1, <2>5, <2>6
<1>10. NothingFilled(d)
  BY <1>2, <1>9 DEF NothingFilled, backend
<1> QED
  BY <1>6, <1>7, <1>8, <1>9, <1>10 DEF Kept

LEMMA NoUserInfoKept ==
    ASSUME Inv, NEW d \in Devices, NEW s \in Slots, OnNoUserInfo(d, s)
    PROVE  Kept(d) /\ NothingFilled(d)
<1>1. /\ TypeOK /\ calls[d][s] # None /\ Put(d, s, None)
      /\ stack' = [stack EXCEPT ![d] = <<>>]
      /\ crash' = [crash EXCEPT ![d] = "noDoc"]
      /\ UNCHANGED <<accounts, users, front, signed, mEt_login,
                     mEt_email, verified, mEmail, mEt_uname, spoiled, taps>>
  BY DEF OnNoUserInfo, Inv, Answered, backend, fields
<1>2. /\ calls' \in [Devices -> [Slots -> Call \cup {None}]]
      /\ calls'[d][s] = None
      /\ \A t \in Slots \ {s} : calls'[d][t] = calls[d][t]
      /\ \A e \in Devices \ {d} : calls'[e] = calls[e]
  BY <1>1, PutStep
<1>3. TypeOK' /\ OthersStay(d)
  BY <1>1, <1>2, Home DEF TypeOK, OthersStay
<1>4. stack'[d] = <<>> /\ crash'[d] = "noDoc"
  BY <1>1 DEF TypeOK
<1>5. \A y : ~Contains(stack'[d], y)
  BY <1>4, Home
<1>6. Named(d)' /\ SignedIn(d)' /\ NothingFilled(d)
  <2>1. Named(d)' /\ SignedIn(d)'
    BY <1>1, <1>2, <1>5 DEF Named, SignedIn, Inv
  <2>2. ASSUME NEW t \in Slots, NEW f \in Emails, Fills(d, t, f)'
        PROVE  Fills(d, t, f)
    BY <1>2, <2>2 DEF Fills
  <2> QED
    BY <1>1, <2>1, <2>2 DEF NothingFilled, backend
<1>7. ASSUME ~spoiled' PROVE ~spoiled /\ OneAtATime(d)'
  <2>1. ~spoiled /\ OneAtATime(d)
    BY <1>1, <1>7 DEF Inv, Undisturbed
  <2>2. \A t \in Slots : calls'[d][t] = None
    BY <1>1, <1>2, <2>1 DEF OneAtATime
  <2> QED
    BY <1>1, <1>4, <1>5, <2>1, <2>2 DEF OneAtATime
<1> QED
  BY <1>3, <1>6, <1>7 DEF Kept

\* The topmost activity is one of the activities.
LEMMA TopIsThere ==
    ASSUME NEW base \in Seq(Screens), base # <<>>
    PROVE  Contains(base, Last(base))
<1>1. Len(base) \in Nat /\ Len(base) # 0
  BY EmptySeq, LenProperties
<1> QED
  BY <1>1 DEF Contains, Last

\* CoreActivity comes up for the user who is signed in by then.
LEMMA StartedKept ==
    ASSUME Inv, NEW d \in Devices, NEW s \in Slots, calls[d][s] # None,
           NEW user \in Emails \cup {None}, StartCore(d, stack[d], s, user),
           signed'[d] = user,
           UNCHANGED <<front, mEt_email, verified, mEmail, spoiled>>,
           ~spoiled' => user # None /\ front[d]
    PROVE  /\ Named(d)' /\ SignedIn(d)'
           /\ ~spoiled' => OneAtATime(d)'
           /\ \A t \in Slots, e \in Emails : Fills(d, t, e)' => Fills(d, t, e)
<1>0. PICK base \in Seq(Screens) : stack[d] = base
  BY DEF Inv, TypeOK
<1> DEFINE call == NewCall("userInfo", user, None)
           next == Append(base, "core")
<1>1. /\ call \in Call /\ call.kind = "userInfo" /\ call.email = user
      /\ ~call.deaf
  BY NewCallType DEF Kinds
<1>2. /\ next # <<>> /\ Last(next) = "core"
      /\ \A y : Contains(next, y) => Contains(base, y) \/ y = "core"
  BY Stacks DEF Screens
<1>3. /\ \A t \in Slots \ {s} : calls'[d][t] = calls[d][t]
      /\ user = None => stack'[d] = <<>> /\ calls'[d][s] = None
      /\ user # None => /\ stack'[d] = next
                        /\ calls'[d][s] = call
                        /\ crash'[d] = crash[d]
  BY <1>0, StartCoreStep DEF Inv
<1> HIDE DEF call, next
<1>4. Named(d)'
  BY <1>1, <1>3 DEF Named, Inv
<1>5. SignedIn(d)'
  BY <1>3, Home DEF SignedIn
<1>6. \A t \in Slots, e \in Emails : Fills(d, t, e)' => Fills(d, t, e)
  BY <1>1, <1>3 DEF Fills
<1>7. ASSUME ~spoiled' PROVE OneAtATime(d)'
  <2>1. ~spoiled /\ OneAtATime(d) /\ user # None /\ front'[d] /\ TypeOK
    BY <1>7 DEF Inv, Undisturbed
  <2>2. Awaited(d, call)'
    BY <1>1, <1>2, <1>3, <2>1 DEF Awaited, Resumed
  <2>3. \A t \in Slots : calls'[d][t] # None =>
           /\ Awaited(d, calls[d][t])'
           /\ \A r \in Slots : calls'[d][r] # None => r = t
    BY <1>1, <1>3, <2>1, <2>2, Ended
  <2>4. Contains(stack'[d], "profile") => Contains(stack[d], "profile")
    BY <1>0, <1>2, <1>3, <2>1
  <2> QED
    BY <1>3, <2>1, <2>3, <2>4 DEF OneAtATime
<1> QED
  BY <1>4, <1>5, <1>6, <1>7

LEMMA LoginKept ==
    ASSUME Inv, NEW d \in Devices, NEW s \in Slots, OnLogin(d, s)
    PROVE  Kept(d) /\ NothingFilled(d)
<1>1. /\ TypeOK /\ calls[d][s] # None /\ calls[d][s].kind = "login"
      /\ UNCHANGED <<accounts, users, front, mEt_login, mEt_email, verified,
                     mEmail, mEt_uname, spoiled, taps>>
  BY DEF OnLogin, Inv, Answered, backend, fields
<1>2. PICK user \in Emails : calls[d][s].email = user
  BY <1>1 DEF Inv, Named
<1>3. /\ signed' = [signed EXCEPT ![d] = user]
      /\ IF Resumed(d, "home")
         THEN StartCore(d, stack[d], s, user)
         ELSE Put(d, s, None) /\ UNCHANGED <<stack, crash>>
  BY <1>2 DEF OnLogin
<1>4. signed'[d] = user /\ user # None
  BY <1>1, <1>2, <1>3 DEF TypeOK
<1>5. CASE Resumed(d, "home")
  <2>0. PICK base \in Seq(Screens) : stack[d] = base
    BY <1>1 DEF TypeOK
  <2>1. TypeOK' /\ OthersStay(d)
    BY <1>1, <1>3, <1>5, <2>0, StartCoreStep DEF TypeOK, OthersStay
  <2>2. /\ Named(d)' /\ SignedIn(d)'
        /\ ~spoiled' => OneAtATime(d)'
        /\ \A t \in Slots, e \in Emails : Fills(d, t, e)' => Fills(d, t, e)
    BY <1>1, <1>3, <1>4, <1>5, StartedKept DEF Resumed
  <2> QED
    BY <1>1, <2>1, <2>2 DEF Kept, NothingFilled, backend
<1>6. CASE ~Resumed(d, "home")
  <2>1. /\ calls' \in [Devices -> [Slots -> Call \cup {None}]]
        /\ calls'[d][s] = None
        /\ \A t \in Slots \ {s} : calls'[d][t] = calls[d][t]
        /\ \A e \in Devices \ {d} : calls'[e] = calls[e]
    BY <1>1, <1>3, <1>6, PutStep
  <2>2. TypeOK' /\ OthersStay(d)
    BY <1>1, <1>2, <1>3, <1>6, <2>1 DEF TypeOK, OthersStay
  <2>3. Named(d)' /\ SignedIn(d)' /\ NothingFilled(d)
    BY <1>1, <1>4, <2>1
       DEF Named, SignedIn, Inv, NothingFilled, Fills, backend
  <2>4. spoiled
    BY <1>1, <1>6 DEF Inv, Undisturbed, OneAtATime, Awaited
  <2> QED
    BY <1>1, <2>2, <2>3, <2>4 DEF Kept
<1> QED
  BY <1>5, <1>6

LEMMA CreateUserKept ==
    ASSUME Inv, NEW d \in Devices, NEW s \in Slots, OnCreateUser(d, s)
    PROVE  Kept(d) /\ NothingFilled(d)
<1>0. PICK user \in Emails \cup {None} : signed[d] = user
  BY DEF Inv, TypeOK
<1>1. /\ TypeOK /\ calls[d][s] # None /\ calls[d][s].kind = "createUser"
      /\ Resumed(d, "profile") /\ StartCore(d, stack[d], s, user)
      /\ UNCHANGED <<accounts, users, front, signed, mEt_login, mEt_email,
                     verified, mEmail, mEt_uname, spoiled, taps>>
  BY <1>0 DEF OnCreateUser, Inv, Answered, backend, fields
<1>2. PICK base \in Seq(Screens) : stack[d] = base
  BY <1>1 DEF TypeOK
<1>3. TypeOK' /\ OthersStay(d)
  BY <1>1, <1>2, StartCoreStep DEF TypeOK, OthersStay
<1>4. ~spoiled' => user # None /\ front[d]
  <2>1. Contains(stack[d], "profile")
    BY <1>1, <1>2, TopIsThere DEF Resumed
  <2> QED
    BY <1>0, <1>1, <2>1
       DEF Resumed, Inv, Undisturbed, OneAtATime, Awaited
<1>5. /\ Named(d)' /\ SignedIn(d)'
      /\ ~spoiled' => OneAtATime(d)'
      /\ \A t \in Slots, e \in Emails : Fills(d, t, e)' => Fills(d, t, e)
  BY <1>0, <1>1, <1>4, StartedKept
<1> QED
  BY <1>1, <1>3, <1>5 DEF Kept, NothingFilled, backend

LEMMA AnswerKept ==
    ASSUME Inv, NEW d \in Devices, NEW s \in Slots, Answer(d, s)
    PROVE  Kept(d) /\ NothingFilled(d)
BY IgnoreKept, EmailCheckKept, LoginKept, VerifyEmailKept, VerifyNameKept,
   CreateAccountKept, CreateUserKept, NoUserInfoKept DEF Answer

-----------------------------------------------------------------------------
(* The server *)

\* A served call is answered, or nobody is left to hear of it.
LEMMA ServeKept ==
    ASSUME Inv, NEW d \in Devices, NEW s \in Slots, Serve(d, s),
           NEW c \in Call, calls[d][s] = c
    PROVE  /\ Kept(d)
           /\ \A t \in Slots \ {s} : calls'[d][t] = calls[d][t]
           /\ c # None /\ c.answer = "none"
           /\ spoiled' = spoiled
           /\ \E yes \in Verdicts(c) :
                /\ accounts' = IF yes /\ c.kind = "createAccount"
                               THEN accounts \cup {c.email} ELSE accounts
                /\ users' = IF c.kind = "createUser"
                            THEN [users EXCEPT ![c.email] = c.name] ELSE users
                /\ calls'[d][s] # None =>
                      /\ calls'[d][s].kind = c.kind
                      /\ calls'[d][s].email = c.email
                      /\ calls'[d][s].answer = IF yes THEN "yes" ELSE "no"
<1>1. /\ TypeOK /\ c # None /\ c.answer = "none"
      /\ UNCHANGED <<stack, front, signed, mEt_login, mEt_email, verified,
                     mEmail, mEt_uname, crash, spoiled, taps>>
  BY DEF Serve, Unserved, Inv, fields
<1>2. PICK yes \in Verdicts(c) :
        /\ accounts' = IF yes /\ c.kind = "createAccount"
                       THEN accounts \cup {c.email} ELSE accounts
        /\ users' = IF c.kind = "createUser"
                    THEN [users EXCEPT ![c.email] = c.name] ELSE users
        /\ Put(d, s, IF c.deaf THEN None
                     ELSE [c EXCEPT !.answer = IF yes THEN "yes" ELSE "no"])
  BY DEF Serve
<1> DEFINE told == [c EXCEPT !.answer = IF yes THEN "yes" ELSE "no"]
<1>3. /\ told \in Call /\ told.kind = c.kind /\ told.email = c.email
      /\ told.name = c.name /\ told.deaf = c.deaf
      /\ told.answer = IF yes THEN "yes" ELSE "no"
  BY DEF Call
<1> HIDE DEF told
<1>4. PICK x \in Call \cup {None} :
        Put(d, s, x) /\ (x # None => x = told)
  BY <1>2, <1>3 DEF told
<1>5. /\ calls' \in [Devices -> [Slots -> Call \cup {None}]]
      /\ calls'[d][s] = x
      /\ \A t \in Slots \ {s} : calls'[d][t] = calls[d][t]
      /\ \A f \in Devices \ {d} : calls'[f] = calls[f]
  BY <1>1, <1>4, PutStep
<1>6. accounts' \subseteq Emails
  <2>1. c.kind = "createAccount" => c.email \in Emails
    BY <1>1 DEF Inv, Named
  <2> QED
    BY <1>1, <1>2, <2>1 DEF TypeOK
<1>7. users' \in [Emails -> Names \cup {Blank, None}]
  <2>1. c.kind = "createUser" => c.name \in Names \cup {Blank, None}
    BY DEF Call
  <2> QED
    BY <1>1, <1>2, <2>1 DEF TypeOK
<1>8. TypeOK' /\ OthersStay(d)
  BY <1>1, <1>5, <1>6, <1>7 DEF TypeOK, OthersStay
<1>9. Named(d)' /\ SignedIn(d)'
  BY <1>1, <1>3, <1>4, <1>5 DEF Named, SignedIn, Inv
<1>10. ASSUME ~spoiled' PROVE ~spoiled /\ OneAtATime(d)'
  <2>1. ~spoiled /\ OneAtATime(d) /\ Awaited(d, c)
    BY <1>1, <1>10 DEF Inv, Undisturbed, OneAtATime
  <2>2. x # None => Awaited(d, x)'
    BY <1>1, <1>3, <1>4, <2>1 DEF Awaited, Resumed
  <2>3. \A t \in Slots : calls'[d][t] # None =>
           /\ Awaited(d, calls[d][t])'
           /\ \A r \in Slots : calls'[d][r] # None => r = t
    BY <1>1, <1>5, <2>1, <2>2, Ended
  <2> QED
    BY <1>1, <2>1, <2>3 DEF OneAtATime
<1> QED
  BY <1>1, <1>2, <1>3, <1>4, <1>5, <1>8, <1>9, <1>10 DEF Kept

\* Serving keeps what is due in order, and does to the accounts and profiles
\* what Registration allows.
LEMMA ServePromise ==
    ASSUME Inv, NEW d \in Devices, NEW s \in Slots, Serve(d, s)
    PROVE  /\ Inv'
           /\ spoiled' \/ Promise!Next \/ UNCHANGED backend
<1>0. PICK c \in Call : calls[d][s] = c
  BY DEF Serve, Unserved, Inv, TypeOK
<1>1. /\ Kept(d)
      /\ \A t \in Slots \ {s} : calls'[d][t] = calls[d][t]
      /\ c # None /\ c.answer = "none"
      /\ spoiled' = spoiled
      /\ \E yes \in Verdicts(c) :
           /\ accounts' = IF yes /\ c.kind = "createAccount"
                          THEN accounts \cup {c.email} ELSE accounts
           /\ users' = IF c.kind = "createUser"
                       THEN [users EXCEPT ![c.email] = c.name] ELSE users
           /\ calls'[d][s] # None =>
                 /\ calls'[d][s].kind = c.kind
                 /\ calls'[d][s].email = c.email
                 /\ calls'[d][s].answer = IF yes THEN "yes" ELSE "no"
  BY <1>0, ServeKept
<1>2. PICK yes \in Verdicts(c) :
         /\ accounts' = IF yes /\ c.kind = "createAccount"
                        THEN accounts \cup {c.email} ELSE accounts
         /\ users' = IF c.kind = "createUser"
                     THEN [users EXCEPT ![c.email] = c.name] ELSE users
         /\ calls'[d][s] # None =>
               /\ calls'[d][s].kind = c.kind
               /\ calls'[d][s].email = c.email
               /\ calls'[d][s].answer = IF yes THEN "yes" ELSE "no"
  BY <1>1
<1>3. \A f \in Devices \ {d} : calls'[f] = calls[f]
  BY <1>1 DEF Kept, OthersStay
<1>4. CASE c.kind = "createAccount" /\ yes /\ ~spoiled
  <2>1. c.email \in Emails
    BY <1>0, <1>1, <1>4 DEF Inv, Named
  <2>2. c.email \notin accounts
    BY <1>4 DEF Verdicts, Accepts
  <2>3. accounts' = accounts \cup {c.email} /\ users' = users
    BY <1>2, <1>4
  <2>4. OneFills
    BY <1>4 DEF Inv, Undisturbed
  <2>5. \A f \in Devices, t \in Slots, e \in Emails :
           Fills(f, t, e)' => Fills(f, t, e) \/ (f = d /\ t = s /\ e = c.email)
    BY <1>1, <1>2, <1>3 DEF Fills
  <2>6. OneFills'
    BY <2>1, <2>2, <2>3, <2>4, <2>5 DEF OneFills
  <2>7. Promise!Open(c.email)
    BY <2>2, <2>3 DEF Promise!Open
  <2>8. Promise!Next
    BY <2>1, <2>7 DEF Promise!Next
  <2> QED
    BY <1>1, <1>4, <2>6, <2>8, OthersKept DEF Inv, Undisturbed
<1>5. CASE c.kind = "createUser" /\ ~spoiled
  <2>0. OneFills /\ OneAtATime(d) /\ TypeOK
    BY <1>5 DEF Inv, Undisturbed
  <2>1. Awaited(d, c)
    BY <1>0, <1>1, <2>0 DEF OneAtATime
  <2>2. PICK e \in Emails : c.email = e
    BY <1>0, <1>1, <1>5, <2>0, <2>1, TopIsThere
       DEF Awaited, OneAtATime, Resumed, TypeOK
  <2>3. PICK n \in Names : c.name = n
    BY <1>5, <2>1 DEF Awaited
  <2>4. Fills(d, s, e)
    BY <1>0, <1>1, <1>5, <2>2 DEF Fills
  <2>5. /\ e \in accounts /\ users[e] = None
        /\ \A f \in Devices, t \in Slots :
              Fills(f, t, e) => f = d /\ t = s
    BY <2>0, <2>4 DEF OneFills
  <2>6. accounts' = accounts /\ users' = [users EXCEPT ![e] = n]
    BY <1>2, <1>5, <2>2, <2>3
  <2>7. \A f \in Devices, t \in Slots, g \in Emails :
           Fills(f, t, g)' => Fills(f, t, g) /\ ~(f = d /\ t = s)
    BY <1>0, <1>1, <1>2, <1>3, <1>5 DEF Fills
  <2>8. OneFills'
    BY <2>0, <2>5, <2>6, <2>7 DEF OneFills, TypeOK
  <2>9. Promise!Fill(e, n)
    BY <2>5, <2>6 DEF Promise!Fill
  <2>10. Promise!Next
    BY <2>9 DEF Promise!Next
  <2> QED
    BY <1>1, <1>5, <2>8, <2>10, OthersKept DEF Inv, Undisturbed
<1>6. CASE /\ ~(c.kind = "createAccount" /\ yes)
           /\ c.kind # "createUser"
  <2>1. UNCHANGED backend
    BY <1>2, <1>6 DEF backend
  <2>2. \A t \in Slots, e \in Emails : Fills(d, t, e)' => Fills(d, t, e)
    BY <1>1, <1>2, <1>6 DEF Fills
  <2>3. NothingFilled(d)
    BY <2>1, <2>2 DEF NothingFilled
  <2> QED
    BY <1>1, <2>1, <2>3, DeviceStep
<1>7. CASE spoiled
  BY <1>1, <1>7, OthersKept DEF Inv
<1> QED
  BY <1>4, <1>5, <1>6, <1>7

-----------------------------------------------------------------------------
(* All steps *)

LEMMA InitInv == Init => Inv /\ Promise!Init
<1> SUFFICES ASSUME Init PROVE Inv /\ Promise!Init
  OBVIOUS
<1>1. TypeOK
  BY Home DEF Init, TypeOK
<1>2. \A d \in Devices, s \in Slots : calls[d][s] = None
  BY DEF Init
<1>3. \A d \in Devices : ~Contains(stack[d], "core")
                         /\ ~Contains(stack[d], "profile")
  BY Home DEF Init
<1>4. \A d \in Devices : Named(d) /\ SignedIn(d)
  BY <1>2, <1>3 DEF Named, SignedIn
<1>5. \A d \in Devices : OneAtATime(d)
  BY <1>2, <1>3 DEF Init, OneAtATime
<1>6. OneFills
  BY <1>2 DEF Init, OneFills, Fills
<1>7. Promise!Init
  BY DEF Init, Promise!Init
<1> QED
  BY <1>1, <1>4, <1>5, <1>6, <1>7 DEF Inv, Undisturbed

LEMMA NextInv ==
    ASSUME Inv, [Next]_vars
    PROVE  /\ Inv'
           /\ spoiled' \/ Promise!Next \/ UNCHANGED backend
<1>1. CASE UNCHANGED vars
  <2>1. Inv'
    BY <1>1 DEF vars, Inv, TypeOK, Named, SignedIn, Undisturbed, OneAtATime,
                Awaited, Resumed, OneFills, Fills
  <2> QED
    BY <1>1, <2>1 DEF vars, backend
<1>2. ASSUME NEW d \in Devices, User(d) \/ Die(d) \/ Launch(d)
      PROVE  Inv' /\ UNCHANGED backend
  <2>1. Kept(d) /\ NothingFilled(d)
    BY <1>2, UserKept, DieKept, LaunchKept
  <2> QED
    BY <2>1, DeviceStep DEF NothingFilled
<1>3. ASSUME NEW d \in Devices, NEW s \in Slots, Fail(d, s) \/ Answer(d, s)
      PROVE  Inv' /\ UNCHANGED backend
  <2>1. Kept(d) /\ NothingFilled(d)
    BY <1>3, FailKept, AnswerKept
  <2> QED
    BY <2>1, DeviceStep DEF NothingFilled
<1> QED
  BY <1>1, <1>2, <1>3, ServePromise DEF Next

\* In every reachable state of any number of devices: while nobody interferes
\* with a call, none comes to an account with blank fields, to CoreActivity
\* without a user or to a failed check; and nobody is signed out under
\* CoreActivity, interference or not.
THEOREM FindTheirScreen == Spec => []AnswersFindTheirScreen
<1>1. Inv => AnswersFindTheirScreen
  BY DEF Inv, AnswersFindTheirScreen, SignedIn, Undisturbed, OneAtATime
<1>2. Inv /\ [Next]_vars => Inv'
  BY NextInv
<1> QED
  BY InitInv, <1>1, <1>2, PTL DEF Spec

\* Signing up implements Registration until somebody interferes: whatever the
\* order of the devices' calls and answers, an e-mail is opened once, and its
\* profile is written once, with a name.
THEOREM SignUpKeepsPromise == Spec => KeepsPromise
<1>1. Inv /\ [Next]_vars => Inv'
  BY NextInv
<1>2. Inv /\ [Next]_vars => spoiled' \/ [Promise!Next]_(Promise!vars)
  BY NextInv DEF backend, Promise!vars
<1> QED
  BY InitInv, <1>1, <1>2, PTL DEF Spec, KeepsPromise
=============================================================================
