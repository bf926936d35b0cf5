---------------------- MODULE AccountsEmailQueue_proofs ----------------------
(***************************************************************************)
(* Proofs about Accounts and about EmailQueue, two components that share   *)
(* no state; one module holds both so that a reader has one place for what *)
(* is promised to a user about his account and about his mail.             *)
(*                                                                         *)
(* Accounts: for any number of users, accounts, emails, handlers and       *)
(* failures, PostgreSQL and Firebase agree about an account that nobody is *)
(* at work on, and the code mailed last is the one that works. What is     *)
(* known of an account or a user that no two handlers met on and no        *)
(* failure hit depends on its row, on the users of the account and on the  *)
(* one handler at work on it; a step is checked against the row it writes, *)
(* and frames every other.                                                 *)
(*                                                                         *)
(* EmailQueue: what the table says of a message is true when no two        *)
(* handlers met on it: only one handler at most has it in its hands then,  *)
(* and what that handler read is still so when it writes.                  *)
(***************************************************************************)
EXTENDS Accounts, EmailQueue, TLAPS

\* What a handler carries at each step.
Shape(h) ==
  /\ h.step \in {"idle", "firebase"} => h.user = None /\ h.uid = None
  /\ h.step = "insert" => h.user = None
  /\ h.step \in {"insert", "claims", "rollback", "drop"} => h.uid \in Uid
  /\ h.step \in {"claims", "code", "mail", "verify", "drop"} => h.user \in User

HandlersInShape == \A p \in Request : Shape(proc[p])

\* A user refers to an account, and a user who never was has got no mail.
RowsInShape ==
  \A u \in User :
    IF user[u].status = "none" THEN mailed[u] = 0
    ELSE user[u].uid \in Uid /\ firebase[user[u].uid].status # "none"

\* A handler is at work on rows that were made.
HeldExist ==
  \A p \in Request :
    /\ proc[p].user \in User => user[proc[p].user].status # "none"
    /\ proc[p].uid \in Uid => firebase[proc[p].uid].status # "none"

Owners(x) == {u \in User : HasUid(u, x)}
AtAccount(x) == {p \in Request : proc[p].uid = x}
AtUser(u) == {p \in Request : proc[p].user = u}

\* What the handler of a calm account knows: the account is still there, and the user it
\* inserted, or that there is no user of it.
KnowsAccount(h, x) ==
  /\ h.step \in {"insert", "claims"} => InFirebase(x)
  /\ h.step = "claims" => h.user \in Owners(x)
  /\ h.step \in {"insert", "rollback", "drop"} => Owners(x) = {}

\* One user an account; a calm account has one handler at most, its claims name the user
\* unless the handler has still to write them, and, made for a password, it has a user
\* unless the handler has still to insert him or to drop the account.
AccountOK(x) ==
  /\ \A u, v \in Owners(x) : u = v
  /\ x \notin disturbed =>
       /\ \A p, q \in AtAccount(x) : p = q
       /\ \A p \in AtAccount(x) : KnowsAccount(proc[p], x)
       /\ \A u \in Owners(x) :
            \/ InFirebase(x) /\ firebase[x].claims = u
            \/ \E p \in AtAccount(x) : proc[p].step = "claims" /\ proc[p].user = u
       /\ InFirebase(x) /\ ~firebase[x].social =>
            \/ Owners(x) # {}
            \/ \E p \in AtAccount(x) : proc[p].step \in {"insert", "rollback", "drop"}

\* A calm user has one handler at most, and the code of the last email, until he uses it,
\* unless that handler has still to mail it.
UserOK(u) ==
  u \notin disturbed =>
    /\ \A p, q \in AtUser(u) : p = q
    /\ \A p \in AtUser(u) : proc[p].step = "mail" => user[u].code = proc[p].code
    /\ Live(u) =>
         \/ mailed[u] = user[u].code
         \/ \E p \in AtUser(u) : proc[p].step = "mail"

IInv ==
  /\ TypeOK
  /\ HandlersInShape
  /\ RowsInShape
  /\ HeldExist
  /\ \A x \in Uid : AccountOK(x)
  /\ \A u \in User : UserOK(u)

----------------------------------------------------------------------------
LEMMA RowFacts ==
  /\ Idle \in Handler /\ Shape(Idle)
  /\ Idle.step = "idle" /\ Idle.user = None /\ Idle.uid = None
  /\ NoUser \in UserRow /\ NoUser.status = "none" /\ NoUser.code = 0
  /\ NoAccount \in Account /\ NoAccount.status = "none"
BY DEF Idle, Handler, Step, Shape, NoUser, UserRow, NoAccount, Account

LEMMA InitInv == Init => IInv
<1> SUFFICES ASSUME Init PROVE IInv
  OBVIOUS
<1> USE DEF Init
<1>1. TypeOK
  BY RowFacts, BoundsAssumption DEF TypeOK
<1>2. HandlersInShape /\ RowsInShape /\ HeldExist
  BY RowFacts, NoneAssumption DEF HandlersInShape, RowsInShape, HeldExist
<1>3. \A x \in Uid : AccountOK(x)
  BY RowFacts, NoneAssumption DEF AccountOK, Owners, AtAccount, HasUid, Live, InFirebase
<1>4. \A u \in User : UserOK(u)
  BY RowFacts, NoneAssumption DEF UserOK, AtUser, Live
<1> QED
  BY <1>1, <1>2, <1>3, <1>4 DEF IInv

----------------------------------------------------------------------------
\* What a step that does not touch an account, or a user, leaves of it.
AtWork == {"insert", "claims", "rollback", "drop"}

LEMMA AccountFrame ==
  ASSUME NEW x \in Uid, AccountOK(x), firebase'[x] = firebase[x], Owners(x)' = Owners(x),
         \A p \in AtAccount(x)' :
           p \in AtAccount(x) /\ (proc'[p] = proc[p] \/ proc'[p].step \notin AtWork),
         \A p \in AtAccount(x) : \/ p \in AtAccount(x)' /\ proc'[p] = proc[p]
                                 \/ proc[p].step \notin AtWork,
         disturbed \subseteq disturbed'
  PROVE  AccountOK(x)'
<1> SUFFICES ASSUME x \notin disturbed'
             PROVE  AccountOK(x)'
  BY DEF AccountOK
<1>1. \A p \in AtAccount(x)' : KnowsAccount(proc[p], x)'
  BY DEF AccountOK, KnowsAccount, AtWork, InFirebase
<1>2. \A u \in Owners(x)' :
        \/ InFirebase(x)' /\ firebase'[x].claims = u
        \/ \E p \in AtAccount(x)' : proc'[p].step = "claims" /\ proc'[p].user = u
  BY DEF AccountOK, AtWork, InFirebase
<1>3. InFirebase(x)' /\ ~firebase'[x].social =>
        \/ Owners(x)' # {}
        \/ \E p \in AtAccount(x)' : proc'[p].step \in {"insert", "rollback", "drop"}
  BY DEF AccountOK, AtWork, InFirebase
<1> QED
  BY <1>1, <1>2, <1>3 DEF AccountOK

LEMMA AccountDisturbed ==
  ASSUME NEW x \in Uid, AccountOK(x), Owners(x)' \subseteq Owners(x), x \in disturbed'
  PROVE  AccountOK(x)'
BY DEF AccountOK

LEMMA UserFrame ==
  ASSUME NEW u \in User, UserOK(u), user'[u].code = user[u].code, mailed'[u] = mailed[u],
         Live(u)' => Live(u),
         \A p \in AtUser(u)' :
           p \in AtUser(u) /\ (proc'[p] = proc[p] \/ proc'[p].step # "mail"),
         \A p \in AtUser(u) : \/ p \in AtUser(u)' /\ proc'[p] = proc[p]
                              \/ proc[p].step # "mail",
         disturbed \subseteq disturbed'
  PROVE  UserOK(u)'
BY DEF UserOK

\* Nobody is at work on a row that never was.
LEMMA FreshAccount ==
  ASSUME IInv, NEW x \in Uid, firebase[x].status = "none"
  PROVE  Owners(x) = {} /\ AtAccount(x) = {}
BY DEF IInv, RowsInShape, HeldExist, Owners, HasUid, Live, AtAccount

LEMMA FreshUser ==
  ASSUME IInv, NEW u \in User, user[u].status = "none"
  PROVE  AtUser(u) = {} /\ mailed[u] = 0
BY DEF IInv, RowsInShape, HeldExist, AtUser

\* Handler p goes on as h; the rows it is at work on are still there.
LEMMA MoveInv ==
  ASSUME IInv, NEW p \in Request, NEW h \in Handler, Shape(h), proc' = [proc EXCEPT ![p] = h],
         proc' \in [Request -> Handler] => TypeOK',
         \A u \in User : user[u].status # "none" => user'[u].status # "none",
         \A x \in Uid : firebase[x].status # "none" => firebase'[x].status # "none",
         h.user \in User => h.user = proc[p].user \/ user'[h.user].status # "none",
         h.uid \in Uid => h.uid = proc[p].uid \/ firebase'[h.uid].status # "none",
         RowsInShape', \A x \in Uid : AccountOK(x)', \A u \in User : UserOK(u)'
  PROVE  IInv'
<1>1. /\ proc' \in [Request -> Handler]
      /\ proc'[p] = h /\ \A q \in Request \ {p} : proc'[q] = proc[q]
  BY DEF IInv, TypeOK
<1>2. HandlersInShape'
  BY <1>1 DEF IInv, HandlersInShape
<1>3. HeldExist'
  BY <1>1 DEF IInv, HeldExist
<1> QED
  BY <1>1, <1>2, <1>3 DEF IInv

\* The rows stay as they are.
LEMMA RowsStay ==
  ASSUME IInv, UNCHANGED <<user, mailed>>,
         \A x \in Uid : firebase[x].status # "none" => firebase'[x].status # "none"
  PROVE  RowsInShape'
BY DEF IInv, RowsInShape

\* The handler that takes a step.
LEMMA MovedFacts ==
  ASSUME IInv, NEW p \in Request, NEW h \in Handler, proc' = [proc EXCEPT ![p] = h]
  PROVE  /\ proc'[p] = h /\ \A q \in Request \ {p} : proc'[q] = proc[q]
         /\ Shape(proc[p]) /\ proc[p] \in Handler
BY DEF IInv, HandlersInShape, TypeOK

LEMMA MovedAccount ==
  ASSUME IInv, NEW p \in Request, NEW h \in Handler, proc' = [proc EXCEPT ![p] = h], NEW x
  PROVE  AtAccount(x)' = (AtAccount(x) \ {p}) \cup (IF h.uid = x THEN {p} ELSE {})
<1>1. proc'[p] = h /\ \A q \in Request \ {p} : proc'[q] = proc[q]
  BY MovedFacts
<1> QED
  BY <1>1 DEF AtAccount

LEMMA MovedUser ==
  ASSUME IInv, NEW p \in Request, NEW h \in Handler, proc' = [proc EXCEPT ![p] = h], NEW u
  PROVE  AtUser(u)' = (AtUser(u) \ {p}) \cup (IF h.user = u THEN {p} ELSE {})
<1>1. proc'[p] = h /\ \A q \in Request \ {p} : proc'[q] = proc[q]
  BY MovedFacts
<1> QED
  BY <1>1 DEF AtUser

\* What handler p's going on as h leaves of the accounts and users it is not at work on.
LEMMA MoveAccount ==
  ASSUME IInv, NEW p \in Request, NEW h \in Handler, proc' = [proc EXCEPT ![p] = h],
         NEW x \in Uid, firebase'[x] = firebase[x], Owners(x)' = Owners(x),
         proc[p].uid = x => proc[p].step \notin AtWork,
         h.uid = x => proc[p].uid = x /\ h.step \notin AtWork,
         disturbed \subseteq disturbed'
  PROVE  AccountOK(x)'
<1>1. proc'[p] = h /\ \A q \in Request \ {p} : proc'[q] = proc[q]
  BY MovedFacts
<1>2. \A q \in AtAccount(x)' :
        q \in AtAccount(x) /\ (proc'[q] = proc[q] \/ proc'[q].step \notin AtWork)
  BY <1>1 DEF AtAccount
<1>3. \A q \in AtAccount(x) : \/ q \in AtAccount(x)' /\ proc'[q] = proc[q]
                              \/ proc[q].step \notin AtWork
  BY <1>1 DEF AtAccount
<1> QED
  BY <1>2, <1>3, AccountFrame DEF IInv

LEMMA MoveUser ==
  ASSUME IInv, NEW p \in Request, NEW h \in Handler, proc' = [proc EXCEPT ![p] = h],
         NEW u \in User, user'[u].code = user[u].code, mailed'[u] = mailed[u],
         Live(u)' => Live(u),
         proc[p].user = u => proc[p].step # "mail",
         h.user = u => proc[p].user = u /\ h.step # "mail",
         disturbed \subseteq disturbed'
  PROVE  UserOK(u)'
<1>1. proc'[p] = h /\ \A q \in Request \ {p} : proc'[q] = proc[q]
  BY MovedFacts
<1>2. \A q \in AtUser(u)' :
        q \in AtUser(u) /\ (proc'[q] = proc[q] \/ proc'[q].step # "mail")
  BY <1>1 DEF AtUser
<1>3. \A q \in AtUser(u) : \/ q \in AtUser(u)' /\ proc'[q] = proc[q]
                           \/ proc[q].step # "mail"
  BY <1>1 DEF AtUser
<1> QED
  BY <1>2, <1>3, UserFrame DEF IInv

----------------------------------------------------------------------------
LEMMA SignInSocialInv ==
  ASSUME IInv, NEW x \in Uid, NEW e \in Email, SignInSocial(x, e), requests' \in 0..MaxRequests
  PROVE  IInv'
<1> USE DEF SignInSocial
<1>1. /\ firebase' \in [Uid -> Account] /\ firebase'[x].status = "live"
      /\ firebase'[x].social = TRUE
      /\ \A y \in Uid \ {x} : firebase'[y] = firebase[y]
  <2>1. [NoAccount EXCEPT !.status = "live", !.email = e, !.social = TRUE] \in Account
    BY RowFacts DEF Account
  <2>2. /\ [NoAccount EXCEPT !.status = "live", !.email = e, !.social = TRUE].status = "live"
        /\ [NoAccount EXCEPT !.status = "live", !.email = e, !.social = TRUE].social = TRUE
    BY RowFacts DEF Account
  <2> QED
    BY <2>1, <2>2 DEF IInv, TypeOK
<1>2. Owners(x) = {} /\ AtAccount(x) = {}
  BY RowFacts, FreshAccount
<1>3. \A y : Owners(y)' = Owners(y) /\ AtAccount(y)' = AtAccount(y) /\ AtUser(y)' = AtUser(y)
  BY DEF Owners, HasUid, Live, AtAccount, AtUser
<1>4. TypeOK' /\ HandlersInShape' /\ RowsInShape' /\ HeldExist'
  BY <1>1 DEF IInv, TypeOK, HandlersInShape, RowsInShape, HeldExist
<1>5. ASSUME NEW y \in Uid PROVE AccountOK(y)'
  <2>1. CASE y = x
    BY <1>1, <1>2, <1>3, <2>1 DEF AccountOK
  <2>2. CASE y # x
    BY <1>1, <1>3, <2>2, AccountFrame DEF IInv
  <2> QED
    BY <2>1, <2>2
<1>6. ASSUME NEW u \in User PROVE UserOK(u)'
  BY <1>3, UserFrame DEF IInv, Live
<1> QED
  BY <1>4, <1>5, <1>6 DEF IInv

LEMMA RegisterInv ==
  ASSUME IInv, NEW p \in Request, NEW e \in Email, NEW b \in BOOLEAN, Register(p, e, b),
         requests' \in 0..MaxRequests
  PROVE  IInv'
<1> USE DEF Register, Start
<1>1. PICK h \in Handler :
        /\ proc' = [proc EXCEPT ![p] = h]
        /\ h.step = "firebase" /\ h.user = None /\ h.uid = None
  <2> DEFINE g == [Idle EXCEPT !.step = "firebase", !.email = e, !.byAdmin = b]
  <2>1. g \in Handler /\ g.step = "firebase" /\ g.user = None /\ g.uid = None
    BY RowFacts DEF Handler, Step
  <2>2. proc' = [proc EXCEPT ![p] = g]
    OBVIOUS
  <2> HIDE DEF g
  <2> QED
    BY <2>1, <2>2
<1>2. UNCHANGED <<user, firebase, mailed, disturbed>>
  BY DEF stores
<1>3. /\ Shape(h) /\ RowsInShape'
      /\ proc[p].user = None /\ proc[p].uid = None
  BY <1>1, <1>2, RowsStay, MovedFacts DEF Shape
<1>4. ASSUME NEW x \in Uid PROVE AccountOK(x)'
  BY <1>1, <1>2, <1>3, NoneAssumption, MoveAccount DEF Owners, HasUid, Live
<1>5. ASSUME NEW u \in User PROVE UserOK(u)'
  BY <1>1, <1>2, <1>3, NoneAssumption, MoveUser DEF Live
<1>6. proc' \in [Request -> Handler] => TypeOK'
  BY <1>2 DEF IInv, TypeOK
<1> QED
  BY <1>1, <1>2, <1>3, <1>4, <1>5, <1>6, NoneAssumption, MoveInv

LEMMA OwnersStay ==
  ASSUME user' = user
  PROVE  \A x : Owners(x)' = Owners(x)
BY DEF Owners, HasUid, Live

\* A handler that has written nothing, and has nothing to undo, ends.
LEMMA EndInv ==
  ASSUME IInv, NEW p \in Request, proc[p].step \notin AtWork \cup {"mail"}, Done(p),
         UNCHANGED <<stores, mailed, disturbed, codes, faults, requests>>
  PROVE  IInv'
<1>1. proc' = [proc EXCEPT ![p] = Idle]
  BY DEF Done
<1>2. UNCHANGED <<user, firebase, mailed, disturbed>>
  BY DEF stores
<1>3. ASSUME NEW x \in Uid PROVE AccountOK(x)'
  BY <1>1, <1>2, RowFacts, NoneAssumption, OwnersStay, MoveAccount
<1>4. ASSUME NEW u \in User PROVE UserOK(u)'
  BY <1>1, <1>2, RowFacts, NoneAssumption, MoveUser DEF Live
<1>5. proc' \in [Request -> Handler] => TypeOK'
  BY <1>2 DEF IInv, TypeOK
<1> QED
  BY <1>1, <1>2, <1>3, <1>4, <1>5, RowFacts, NoneAssumption, RowsStay, MoveInv

LEMMA CreateFirebaseUserInv ==
  ASSUME IInv, NEW p \in Request, CreateFirebaseUser(p)
  PROVE  IInv'
<1>1. CASE EmailInFirebase(proc[p].email)
  BY <1>1, EndInv DEF CreateFirebaseUser, AtWork, stores
<1>2. CASE ~EmailInFirebase(proc[p].email)
  <2>1. PICK x \in Uid :
          /\ firebase[x] = NoAccount
          /\ firebase' = [firebase EXCEPT ![x] =
               [NoAccount EXCEPT !.status = "live", !.email = proc[p].email]]
          /\ proc' = [proc EXCEPT ![p] = [@ EXCEPT !.step = "insert", !.uid = x]]
    BY <1>2 DEF CreateFirebaseUser
  <2>2. /\ proc[p] \in Handler /\ proc[p].user = None /\ proc[p].uid = None
        /\ UNCHANGED <<user, mailed, disturbed, codes, faults, requests>>
    BY DEF CreateFirebaseUser, IInv, TypeOK, HandlersInShape, Shape
  <2>3. PICK h \in Handler :
          /\ proc' = [proc EXCEPT ![p] = h]
          /\ h.step = "insert" /\ h.user = None /\ h.uid = x
    <3> DEFINE g == [proc[p] EXCEPT !.step = "insert", !.uid = x]
    <3>1. g \in Handler /\ g.step = "insert" /\ g.user = None /\ g.uid = x
      BY <2>2 DEF Handler, Step
    <3>2. proc' = [proc EXCEPT ![p] = g]
      BY <2>1 DEF IInv, TypeOK
    <3> HIDE DEF g
    <3> QED
      BY <3>1, <3>2
  <2>4. /\ firebase' \in [Uid -> Account] /\ firebase'[x].status = "live"
        /\ \A y \in Uid \ {x} : firebase'[y] = firebase[y]
    <3>1. /\ [NoAccount EXCEPT !.status = "live", !.email = proc[p].email] \in Account
          /\ [NoAccount EXCEPT !.status = "live", !.email = proc[p].email].status = "live"
      BY <2>2, RowFacts DEF Account, Handler
    <3> QED
      BY <2>1, <3>1 DEF IInv, TypeOK
  <2>5. Owners(x)' = {} /\ AtAccount(x)' = {p}
    <3>1. Owners(x) = {} /\ AtAccount(x) = {}
      BY <2>1, RowFacts, FreshAccount
    <3>2. AtAccount(x)' = (AtAccount(x) \ {p}) \cup (IF h.uid = x THEN {p} ELSE {})
      BY <2>3, MovedAccount
    <3> QED
      BY <2>2, <2>3, <3>1, <3>2, OwnersStay
  <2>6. ASSUME NEW y \in Uid PROVE AccountOK(y)'
    <3>1. CASE y = x
      <4>1. proc'[p] = h
        BY <2>3, MovedFacts
      <4> QED
        BY <2>3, <2>4, <2>5, <3>1, <4>1 DEF AccountOK, KnowsAccount, InFirebase
    <3>2. CASE y # x
      <4>1. firebase'[y] = firebase[y] /\ Owners(y)' = Owners(y)
        BY <2>2, <2>4, <3>2, OwnersStay
      <4>2. proc[p].uid # y /\ h.uid # y
        BY <2>2, <2>3, <3>2, NoneAssumption
      <4> QED
        BY <2>2, <2>3, <4>1, <4>2, MoveAccount
    <3> QED
      BY <3>1, <3>2
  <2>7. ASSUME NEW u \in User PROVE UserOK(u)'
    BY <2>2, <2>3, NoneAssumption, MoveUser DEF Live
  <2>8. proc' \in [Request -> Handler] => TypeOK'
    BY <2>2, <2>4 DEF IInv, TypeOK
  <2>9. Shape(h) /\ \A y \in Uid : firebase[y].status # "none" => firebase'[y].status # "none"
    BY <2>3, <2>4 DEF Shape
  <2> QED
    BY <2>2, <2>3, <2>4, <2>6, <2>7, <2>8, <2>9, NoneAssumption, RowsStay, MoveInv
<1> QED
  BY <1>1, <1>2

LEMMA RegisterSocialInv ==
  ASSUME IInv, NEW p \in Request, NEW x \in Uid, NEW b \in BOOLEAN, RegisterSocial(p, x, b),
         requests' \in 0..MaxRequests
  PROVE  IInv'
<1> USE DEF RegisterSocial, Start
<1>1. PICK h \in Handler :
        /\ proc' = [proc EXCEPT ![p] = h]
        /\ h.step \in {"insert", "rollback"} /\ h.user = None /\ h.uid = x
        /\ h.step = "rollback" => Owners(x) # {}
        /\ h.step = "insert" => Owners(x) = {}
  <2> DEFINE known == \E u \in User : HasUid(u, x)
             g == [Idle EXCEPT !.step = IF known THEN "rollback" ELSE "insert", !.uid = x,
                               !.email = firebase[x].email, !.byAdmin = b]
  <2>1. firebase[x].email \in Email \cup {None}
    BY DEF IInv, TypeOK, Account
  <2>2. proc' = [proc EXCEPT ![p] = g]
    OBVIOUS
  <2>3. /\ g \in Handler /\ g.step = IF known THEN "rollback" ELSE "insert"
        /\ g.user = None /\ g.uid = x
    BY <2>1, RowFacts DEF Handler, Step
  <2> HIDE DEF g
  <2> QED
    BY <2>2, <2>3 DEF Owners
<1>2. /\ UNCHANGED <<user, firebase, mailed>> /\ firebase[x].status # "none"
      /\ disturbed \subseteq disturbed' /\ disturbed' \subseteq User \cup Uid
  BY DEF stores, Meets, IInv, TypeOK
<1>3. Shape(h) /\ proc[p].user = None /\ proc[p].uid = None
  BY <1>1, MovedFacts DEF Shape
<1>4. ASSUME NEW y \in Uid PROVE AccountOK(y)'
  <2>1. CASE y = x /\ x \in disturbed'
    BY <1>2, <2>1, OwnersStay, AccountDisturbed DEF IInv
  <2>2. CASE y = x /\ x \notin disturbed'
    <3>1. AtAccount(x) = {} /\ Owners(x) = {} /\ InFirebase(x)
      BY <2>2, NoneAssumption DEF Meets, Held, AtAccount, Owners
    <3>2. AtAccount(x)' = {p} /\ Owners(x)' = {} /\ proc'[p] = h
      <4>1. AtAccount(x)' = (AtAccount(x) \ {p}) \cup (IF h.uid = x THEN {p} ELSE {})
        BY <1>1, MovedAccount
      <4>2. proc'[p] = h
        BY <1>1, MovedFacts
      <4> QED
        BY <1>1, <1>2, <3>1, <4>1, <4>2, OwnersStay
    <3> QED
      BY <1>1, <1>2, <2>2, <3>1, <3>2 DEF AccountOK, KnowsAccount, InFirebase
  <2>3. CASE y # x
    BY <1>1, <1>2, <1>3, <2>3, NoneAssumption, OwnersStay, MoveAccount
  <2> QED
    BY <2>1, <2>2, <2>3
<1>5. ASSUME NEW u \in User PROVE UserOK(u)'
  BY <1>1, <1>2, <1>3, NoneAssumption, MoveUser DEF Live
<1>6. proc' \in [Request -> Handler] => TypeOK'
  BY <1>2 DEF IInv, TypeOK
<1> QED
  BY <1>1, <1>2, <1>3, <1>4, <1>5, <1>6, NoneAssumption, RowsStay, MoveInv

----------------------------------------------------------------------------
\* The handler of a calm account, or user, is alone at work on it.
LEMMA AloneAtAccount ==
  ASSUME IInv, NEW p \in Request, NEW x \in Uid, proc[p].uid = x, x \notin disturbed
  PROVE  AtAccount(x) = {p} /\ KnowsAccount(proc[p], x)
BY DEF IInv, AccountOK, AtAccount

LEMMA AloneAtUser ==
  ASSUME IInv, NEW p \in Request, NEW u \in User, proc[p].user = u, u \notin disturbed
  PROVE  AtUser(u) = {p} /\ (proc[p].step = "mail" => user[u].code = proc[p].code)
BY DEF IInv, UserOK, AtUser

\* The handler that undoes what it made.
LEMMA ToRollback ==
  ASSUME IInv, NEW p \in Request, proc[p].step \in {"insert", "claims"}, Goto(p, "rollback"),
         UNCHANGED stores, UNCHANGED mailed, disturbed \subseteq disturbed',
         disturbed' \subseteq User \cup Uid,
         proc' \in [Request -> Handler] => TypeOK',
         proc[p].uid \in disturbed' \/ Owners(proc[p].uid) = {}
  PROVE  IInv'
<1>1. PICK x \in Uid : x = proc[p].uid
  BY MovedFacts DEF IInv, HandlersInShape, Shape
<1>2. PICK h \in Handler :
        /\ proc' = [proc EXCEPT ![p] = h]
        /\ h.step = "rollback" /\ h.user = proc[p].user /\ h.uid = x
  <2> DEFINE g == [proc[p] EXCEPT !.step = "rollback"]
  <2>1. proc[p] \in Handler
    BY DEF IInv, TypeOK
  <2>2. g \in Handler /\ g.step = "rollback" /\ g.user = proc[p].user /\ g.uid = x
    BY <1>1, <2>1 DEF Handler, Step
  <2>3. proc' = [proc EXCEPT ![p] = g]
    BY DEF Goto
  <2> HIDE DEF g
  <2> QED
    BY <2>2, <2>3
<1>3. UNCHANGED <<user, firebase, mailed>>
  BY DEF stores
<1>4. Shape(h)
  BY <1>2 DEF Shape
<1>5. ASSUME NEW y \in Uid PROVE AccountOK(y)'
  <2>1. Owners(y)' = Owners(y)
    BY <1>3, OwnersStay
  <2>2. CASE y # x
    BY <1>1, <1>2, <1>3, <2>1, <2>2, MoveAccount
  <2>3. CASE y = x /\ x \in disturbed'
    BY <2>1, <2>3, AccountDisturbed DEF IInv
  <2>4. CASE y = x /\ x \notin disturbed'
    <3>1. AtAccount(x) = {p} /\ Owners(x) = {}
      BY <1>1, <2>4, AloneAtAccount
    <3>2. AtAccount(x)' = {p} /\ proc'[p] = h
      <4>1. AtAccount(x)' = (AtAccount(x) \ {p}) \cup (IF h.uid = x THEN {p} ELSE {})
        BY <1>2, MovedAccount
      <4>2. proc'[p] = h
        BY <1>2, MovedFacts
      <4> QED
        BY <1>2, <3>1, <4>1, <4>2
    <3> QED
      BY <1>2, <2>1, <2>4, <3>1, <3>2 DEF AccountOK, KnowsAccount
  <2> QED
    BY <2>2, <2>3, <2>4
<1>6. ASSUME NEW u \in User PROVE UserOK(u)'
  BY <1>2, <1>3, MoveUser DEF Live
<1> QED
  BY <1>1, <1>2, <1>3, <1>4, <1>5, <1>6, RowsStay, MoveInv

LEMMA InsertUserInv ==
  ASSUME IInv, NEW p \in Request, InsertUser(p)
  PROVE  IInv'
<1>1. /\ proc[p].step = "insert" /\ proc[p].user = None /\ proc[p] \in Handler
      /\ UNCHANGED <<firebase, mailed, disturbed, codes, faults, requests>>
  BY DEF InsertUser, IInv, TypeOK, HandlersInShape, Shape
<1>2. PICK x \in Uid : x = proc[p].uid
  BY <1>1 DEF IInv, HandlersInShape, Shape
<1>3. x \notin disturbed => AtAccount(x) = {p} /\ Owners(x) = {} /\ InFirebase(x)
  BY <1>1, <1>2, AloneAtAccount DEF KnowsAccount
<1>4. CASE \E u \in User : HasEmail(u, proc[p].email) \/ HasUid(u, proc[p].uid)
  <2>1. Goto(p, "rollback") /\ UNCHANGED user
    BY <1>4 DEF InsertUser
  <2>2. proc' \in [Request -> Handler] => TypeOK'
    BY <1>1, <2>1 DEF IInv, TypeOK
  <2>3. disturbed' \subseteq User \cup Uid
    BY <1>1 DEF IInv, TypeOK
  <2> QED
    BY <1>1, <1>2, <1>3, <2>1, <2>2, <2>3, ToRollback DEF stores
<1>5. CASE ~\E u \in User : HasEmail(u, proc[p].email) \/ HasUid(u, proc[p].uid)
  <2>1. PICK u \in User :
          /\ user[u] = NoUser
          /\ user' = [user EXCEPT ![u] = [NoUser EXCEPT !.status = "live",
                                            !.email = proc[p].email, !.uid = proc[p].uid]]
          /\ proc' = [proc EXCEPT ![p] = [proc[p] EXCEPT !.step = "claims", !.user = u]]
    BY <1>5 DEF InsertUser
  <2>2. /\ user' \in [User -> UserRow] /\ user[u].status = "none"
        /\ user'[u].status = "live" /\ user'[u].uid = x /\ user'[u].code = 0
        /\ \A v \in User \ {u} : user'[v] = user[v]
    <3> DEFINE new == [NoUser EXCEPT !.status = "live", !.email = proc[p].email,
                                     !.uid = proc[p].uid]
    <3>1. new \in UserRow /\ new.status = "live" /\ new.uid = x /\ new.code = 0
      BY <1>1, <1>2, RowFacts DEF UserRow, Handler
    <3>2. user' = [user EXCEPT ![u] = new]
      BY <2>1
    <3> HIDE DEF new
    <3> QED
      BY <2>1, <3>1, <3>2, RowFacts DEF IInv, TypeOK
  <2>3. PICK h \in Handler :
          /\ proc' = [proc EXCEPT ![p] = h]
          /\ h.step = "claims" /\ h.user = u /\ h.uid = x
    <3> DEFINE g == [proc[p] EXCEPT !.step = "claims", !.user = u]
    <3>1. g \in Handler /\ g.step = "claims" /\ g.user = u /\ g.uid = x
      BY <1>1, <1>2 DEF Handler, Step
    <3>2. proc' = [proc EXCEPT ![p] = g]
      BY <2>1
    <3> HIDE DEF g
    <3> QED
      BY <3>1, <3>2
  <2>4. \A y \in Uid \ {x} : Owners(y)' = Owners(y)
    BY <2>2 DEF Owners, HasUid, Live
  <2>5. Owners(x) = {} /\ Owners(x)' = {u}
    BY <1>2, <1>5, <2>2 DEF Owners, HasUid, Live
  <2>6. proc'[p] = h
    BY <2>3, MovedFacts
  <2>7. AtAccount(x)' = (AtAccount(x) \ {p}) \cup (IF h.uid = x THEN {p} ELSE {})
    BY <2>3, MovedAccount
  <2>8. AtUser(u)' = (AtUser(u) \ {p}) \cup (IF h.user = u THEN {p} ELSE {})
    BY <2>3, MovedUser
  <2>9. ASSUME NEW y \in Uid PROVE AccountOK(y)'
    <3>1. CASE y = x
      BY <1>1, <1>3, <2>3, <2>5, <2>6, <2>7, <3>1 DEF AccountOK, KnowsAccount, InFirebase
    <3>2. CASE y # x
      <4>1. firebase'[y] = firebase[y] /\ Owners(y)' = Owners(y)
        BY <1>1, <2>4, <3>2
      <4>2. proc[p].uid # y /\ h.uid # y
        BY <1>2, <2>3, <3>2
      <4> QED
        BY <1>1, <2>3, <4>1, <4>2, MoveAccount
    <3> QED
      BY <3>1, <3>2
  <2>10. ASSUME NEW v \in User PROVE UserOK(v)'
    <3>1. CASE v = u
      <4>1. AtUser(u)' = {p} /\ mailed'[u] = user'[u].code
        BY <1>1, <2>2, <2>3, <2>8, FreshUser
      <4> QED
        BY <2>3, <2>6, <3>1, <4>1 DEF UserOK
    <3>2. CASE v # u
      <4>1. proc[p].user # v /\ h.user # v
        BY <1>1, <2>3, <3>2, NoneAssumption
      <4> QED
        BY <1>1, <2>2, <2>3, <3>2, <4>1, MoveUser DEF Live
    <3> QED
      BY <3>1, <3>2
  <2>11. RowsInShape'
    <3>1. firebase[x].status # "none"
      BY <1>2 DEF IInv, HeldExist
    <3> QED
      BY <1>1, <2>2, <3>1 DEF IInv, RowsInShape
  <2>12. proc' \in [Request -> Handler] => TypeOK'
    BY <1>1, <2>2 DEF IInv, TypeOK
  <2>13. /\ Shape(h) /\ \A v \in User : user[v].status # "none" => user'[v].status # "none"
    BY <2>2, <2>3 DEF Shape
  <2> QED
    BY <1>1, <1>2, <2>2, <2>3, <2>9, <2>10, <2>11, <2>12, <2>13, MoveInv
<1> QED
  BY <1>4, <1>5

LEMMA SetClaimsInv ==
  ASSUME IInv, NEW p \in Request, SetClaims(p)
  PROVE  IInv'
<1>1. /\ proc[p].step = "claims" /\ proc[p] \in Handler
      /\ UNCHANGED <<user, mailed, disturbed, codes, faults, requests>>
  BY DEF SetClaims, IInv, TypeOK
<1>2. PICK x \in Uid, u \in User : x = proc[p].uid /\ u = proc[p].user
  BY <1>1 DEF IInv, HandlersInShape, Shape
<1>3. x \notin disturbed => AtAccount(x) = {p} /\ u \in Owners(x) /\ InFirebase(x)
  BY <1>1, <1>2, AloneAtAccount DEF KnowsAccount
<1>4. \A y : Owners(y)' = Owners(y)
  BY <1>1, OwnersStay
<1>5. CASE ~InFirebase(x)
  <2>1. Goto(p, "rollback") /\ UNCHANGED firebase
    BY <1>2, <1>5 DEF SetClaims
  <2>2. proc' \in [Request -> Handler] => TypeOK'
    BY <1>1, <2>1 DEF IInv, TypeOK
  <2>3. disturbed' \subseteq User \cup Uid
    BY <1>1 DEF IInv, TypeOK
  <2> QED
    BY <1>1, <1>2, <1>3, <1>5, <2>1, <2>2, <2>3, ToRollback DEF stores
<1>6. CASE InFirebase(x)
  <2>1. /\ firebase' = [firebase EXCEPT ![x].claims = u]
        /\ Done(p) \/ Goto(p, "code")
    BY <1>2, <1>6 DEF SetClaims
  <2>2. /\ firebase' \in [Uid -> Account] /\ firebase'[x].claims = u
        /\ firebase'[x].status = "live"
        /\ \A y \in Uid \ {x} : firebase'[y] = firebase[y]
    BY <1>6, <2>1 DEF IInv, TypeOK, Account, InFirebase
  <2>3. PICK h \in Handler :
          /\ proc' = [proc EXCEPT ![p] = h] /\ Shape(h)
          /\ \/ h.user = None /\ h.uid = None
             \/ h.user = u /\ h.uid = x
          /\ h.step \in {"idle", "code"}
    <3>1. CASE Done(p)
      BY <3>1, RowFacts DEF Done
    <3>2. CASE Goto(p, "code")
      <4> DEFINE g == [proc[p] EXCEPT !.step = "code"]
      <4>1. g \in Handler /\ g.step = "code" /\ g.user = u /\ g.uid = x
        BY <1>1, <1>2 DEF Handler, Step
      <4>2. proc' = [proc EXCEPT ![p] = g]
        BY <3>2 DEF Goto
      <4> HIDE DEF g
      <4>3. Shape(g)
        BY <4>1 DEF Shape
      <4> QED
        BY <4>1, <4>2, <4>3
    <3> QED
      BY <2>1, <3>1, <3>2
  <2>4. proc'[p] = h
    BY <2>3, MovedFacts
  <2>5. AtAccount(x)' = (AtAccount(x) \ {p}) \cup (IF h.uid = x THEN {p} ELSE {})
    BY <2>3, MovedAccount
  <2>6. ASSUME NEW y \in Uid PROVE AccountOK(y)'
    <3>1. CASE y = x /\ x \in disturbed'
      BY <1>4, <3>1, AccountDisturbed DEF IInv
    <3>2. CASE y = x /\ x \notin disturbed'
      <4>1. AtAccount(x) = {p} /\ Owners(x) = {u}
        BY <1>1, <1>3, <3>2 DEF IInv, AccountOK
      <4>2. \A q \in AtAccount(x)' : q = p
        BY <2>5, <4>1
      <4> QED
        BY <1>4, <2>2, <2>3, <2>4, <3>2, <4>1, <4>2 DEF AccountOK, KnowsAccount, InFirebase
    <3>3. CASE y # x
      <4>1. firebase'[y] = firebase[y]
        BY <2>2, <3>3
      <4>2. proc[p].uid # y /\ h.uid # y
        BY <1>2, <2>3, <3>3, NoneAssumption
      <4> QED
        BY <1>1, <1>4, <2>3, <4>1, <4>2, MoveAccount
    <3> QED
      BY <3>1, <3>2, <3>3
  <2>7. ASSUME NEW v \in User PROVE UserOK(v)'
    <3>1. h.user = v => proc[p].user = v /\ h.step # "mail"
      BY <1>2, <2>3, NoneAssumption
    <3> QED
      BY <1>1, <2>3, <3>1, MoveUser DEF Live
  <2>8. proc' \in [Request -> Handler] => TypeOK'
    BY <1>1, <2>2 DEF IInv, TypeOK
  <2>9. \A y \in Uid : firebase[y].status # "none" => firebase'[y].status # "none"
    BY <2>2
  <2> QED
    BY <1>1, <1>2, <2>3, <2>6, <2>7, <2>8, <2>9, NoneAssumption, RowsStay, MoveInv
<1> QED
  BY <1>5, <1>6

\* The account is deleted, by a rollback or with its user.
LEMMA AccountGoneInv ==
  ASSUME IInv, NEW p \in Request, Rollback(p) \/ DropAccount(p)
  PROVE  IInv'
<1>1. /\ proc[p].step \in {"rollback", "drop"} /\ proc[p] \in Handler
      /\ UNCHANGED <<user, mailed, disturbed, codes, faults, requests>>
      /\ firebase' = [firebase EXCEPT ![proc[p].uid].status = "gone"]
  BY DEF Rollback, DropAccount, IInv, TypeOK
<1>2. PICK h \in Handler : /\ proc' = [proc EXCEPT ![p] = h] /\ Shape(h)
                           /\ h.step = "idle" /\ h.user = None /\ h.uid = None
  BY RowFacts DEF Rollback, DropAccount, Done
<1>3. PICK x \in Uid : x = proc[p].uid
  BY <1>1 DEF IInv, HandlersInShape, Shape
<1>4. x \notin disturbed => AtAccount(x) = {p} /\ Owners(x) = {}
  BY <1>1, <1>3, AloneAtAccount DEF KnowsAccount
<1>5. \A y : Owners(y)' = Owners(y)
  BY <1>1, OwnersStay
<1>6. /\ firebase' \in [Uid -> Account] /\ firebase'[x].status = "gone"
      /\ \A y \in Uid \ {x} : firebase'[y] = firebase[y]
  BY <1>1, <1>3 DEF IInv, TypeOK, Account
<1>7. ASSUME NEW y \in Uid PROVE AccountOK(y)'
  <2>1. CASE y = x /\ x \in disturbed'
    BY <1>5, <2>1, AccountDisturbed DEF IInv
  <2>2. CASE y = x /\ x \notin disturbed'
    <3>1. AtAccount(x)' = (AtAccount(x) \ {p}) \cup (IF h.uid = x THEN {p} ELSE {})
      BY <1>2, MovedAccount
    <3>2. AtAccount(x)' = {} /\ Owners(x)' = {}
      BY <1>1, <1>2, <1>4, <1>5, <2>2, <3>1, NoneAssumption
    <3> QED
      BY <1>6, <2>2, <3>2 DEF AccountOK, InFirebase
  <2>3. CASE y # x
    <3>1. firebase'[y] = firebase[y] /\ h.uid # y /\ proc[p].uid # y
      BY <1>2, <1>3, <1>6, <2>3, NoneAssumption
    <3> QED
      BY <1>1, <1>2, <1>5, <3>1, MoveAccount
  <2> QED
    BY <2>1, <2>2, <2>3
<1>8. ASSUME NEW u \in User PROVE UserOK(u)'
  BY <1>1, <1>2, NoneAssumption, MoveUser DEF Live
<1>9. proc' \in [Request -> Handler] => TypeOK'
  BY <1>1, <1>6 DEF IInv, TypeOK
<1>10. \A y \in Uid : firebase[y].status # "none" => firebase'[y].status # "none"
  BY <1>6
<1> QED
  BY <1>1, <1>2, <1>7, <1>8, <1>9, <1>10, NoneAssumption, RowsStay, MoveInv

\* A handler that resends or takes the code of a user.
LEMMA AtUserInv ==
  ASSUME IInv, NEW p \in Request, NEW u \in User, Resend(p, u) \/ VerifyEmailCode(p, u),
         requests' \in 0..MaxRequests
  PROVE  IInv'
<1>1. PICK h \in Handler :
        /\ proc' = [proc EXCEPT ![p] = h]
        /\ h.step \in {"code", "verify"} /\ h.user = u /\ h.uid = None
  <2>1. ASSUME NEW s \in {"code", "verify"}, Start(p, [Idle EXCEPT !.step = s, !.user = u])
        PROVE  \E h \in Handler :
                 /\ proc' = [proc EXCEPT ![p] = h]
                 /\ h.step \in {"code", "verify"} /\ h.user = u /\ h.uid = None
    <3> DEFINE g == [Idle EXCEPT !.step = s, !.user = u]
    <3>1. g \in Handler /\ g.step = s /\ g.user = u /\ g.uid = None
      BY RowFacts DEF Handler, Step
    <3>2. proc' = [proc EXCEPT ![p] = g]
      BY <2>1 DEF Start
    <3> HIDE DEF g
    <3> QED
      BY <3>1, <3>2
  <2> QED
    BY <2>1 DEF Resend, VerifyEmailCode
<1>2. /\ UNCHANGED <<user, firebase, mailed, codes, faults>> /\ Live(u)
      /\ disturbed' = disturbed \cup Meets({u}) /\ disturbed' \subseteq User \cup Uid
      /\ proc[p].step = "idle"
  BY DEF Resend, VerifyEmailCode, Start, stores, Meets, IInv, TypeOK
<1>3. Shape(h) /\ proc[p].user = None /\ proc[p].uid = None
  BY <1>1, <1>2, MovedFacts DEF Shape
<1>4. ASSUME NEW x \in Uid PROVE AccountOK(x)'
  BY <1>1, <1>2, <1>3, NoneAssumption, OwnersStay, MoveAccount
<1>5. ASSUME NEW v \in User PROVE UserOK(v)'
  <2>1. CASE v = u /\ u \notin disturbed'
    <3>1. AtUser(u) = {}
      BY <1>2, <2>1, NoneAssumption DEF Meets, Held, AtUser
    <3>2. AtUser(u)' = (AtUser(u) \ {p}) \cup (IF h.user = u THEN {p} ELSE {})
      BY <1>1, MovedUser
    <3>3. proc'[p] = h
      BY <1>1, MovedFacts
    <3>4. \A q \in AtUser(u)' : q = p /\ proc'[q].step # "mail"
      BY <1>1, <3>1, <3>2, <3>3
    <3>5. mailed[u] = user[u].code
      BY <1>2, <2>1, <3>1 DEF IInv, UserOK
    <3> QED
      BY <1>2, <2>1, <3>4, <3>5 DEF UserOK
  <2>2. CASE v = u /\ u \in disturbed'
    BY <2>2 DEF UserOK
  <2>3. CASE v # u
    BY <1>1, <1>2, <1>3, <2>3, NoneAssumption, MoveUser DEF Live
  <2> QED
    BY <2>1, <2>2, <2>3
<1>6. proc' \in [Request -> Handler] => TypeOK'
  BY <1>2 DEF IInv, TypeOK
<1> QED
  BY <1>1, <1>2, <1>3, <1>4, <1>5, <1>6, NoneAssumption, RowsStay, MoveInv DEF Live

\* The rows of the users stay those of the same accounts.
LEMMA SameOwners ==
  ASSUME IInv, \A u \in User : user'[u].status = user[u].status /\ user'[u].uid = user[u].uid
  PROVE  /\ \A x : Owners(x)' = Owners(x)
         /\ UNCHANGED <<firebase, mailed>> => RowsInShape'
BY DEF IInv, RowsInShape, Owners, HasUid, Live

LEMMA StoreCodeInv ==
  ASSUME IInv, NEW p \in Request, StoreCode(p)
  PROVE  IInv'
<1>1. /\ proc[p].step = "code" /\ proc[p] \in Handler
      /\ UNCHANGED <<firebase, mailed, disturbed, faults, requests>>
  BY DEF StoreCode, IInv, TypeOK
<1>2. PICK u \in User : u = proc[p].user
  BY <1>1 DEF IInv, HandlersInShape, Shape
<1>3. CASE ~Live(u)
  <2>1. Done(p) /\ UNCHANGED <<user, codes>>
    BY <1>2, <1>3 DEF StoreCode
  <2> QED
    BY <1>1, <2>1, EndInv DEF AtWork, stores
<1>4. CASE Live(u)
  <2>1. /\ codes' = codes + 1
        /\ user' = [user EXCEPT ![u].code = codes + 1]
        /\ proc' = [proc EXCEPT ![p] = [proc[p] EXCEPT !.step = "mail", !.code = codes + 1]]
    BY <1>2, <1>4 DEF StoreCode
  <2>2. codes \in Nat /\ codes' \in Nat
    BY <2>1 DEF IInv, TypeOK
  <2>3. /\ user' \in [User -> UserRow] /\ user'[u].code = codes'
        /\ \A v \in User : user'[v].status = user[v].status /\ user'[v].uid = user[v].uid
        /\ \A v \in User \ {u} : user'[v] = user[v]
    BY <2>1, <2>2 DEF IInv, TypeOK, UserRow
  <2>4. PICK h \in Handler :
          /\ proc' = [proc EXCEPT ![p] = h]
          /\ h.step = "mail" /\ h.user = u /\ h.uid = proc[p].uid /\ h.code = codes'
    <3> DEFINE g == [proc[p] EXCEPT !.step = "mail", !.code = codes']
    <3>1. g \in Handler /\ g.step = "mail" /\ g.user = u /\ g.uid = proc[p].uid /\ g.code = codes'
      BY <1>1, <1>2, <2>2 DEF Handler, Step
    <3>2. proc' = [proc EXCEPT ![p] = g]
      BY <2>1
    <3> HIDE DEF g
    <3> QED
      BY <3>1, <3>2
  <2>5. ASSUME NEW x \in Uid PROVE AccountOK(x)'
    BY <1>1, <2>3, <2>4, SameOwners, MoveAccount DEF AtWork
  <2>6. ASSUME NEW v \in User PROVE UserOK(v)'
    <3>1. CASE v = u /\ u \notin disturbed'
      <4>1. AtUser(u) = {p}
        BY <1>1, <1>2, <3>1, AloneAtUser
      <4>2. AtUser(u)' = (AtUser(u) \ {p}) \cup (IF h.user = u THEN {p} ELSE {})
        BY <2>4, MovedUser
      <4>3. proc'[p] = h
        BY <2>4, MovedFacts
      <4> QED
        BY <2>3, <2>4, <3>1, <4>1, <4>2, <4>3 DEF UserOK
    <3>2. CASE v = u /\ u \in disturbed'
      BY <3>2 DEF UserOK
    <3>3. CASE v # u
      BY <1>1, <1>2, <2>3, <2>4, <3>3, MoveUser DEF Live
    <3> QED
      BY <3>1, <3>2, <3>3
  <2>7. proc' \in [Request -> Handler] => TypeOK'
    BY <1>1, <2>2, <2>3 DEF IInv, TypeOK
  <2>8. Shape(h) /\ RowsInShape'
    BY <1>1, <2>3, <2>4, SameOwners DEF Shape
  <2> QED
    BY <1>1, <1>2, <2>3, <2>4, <2>5, <2>6, <2>7, <2>8, MoveInv
<1> QED
  BY <1>3, <1>4

LEMMA QueueCodeInv ==
  ASSUME IInv, NEW p \in Request, QueueCode(p)
  PROVE  IInv'
<1>1. /\ proc[p].step = "mail" /\ proc[p] \in Handler
      /\ UNCHANGED <<user, firebase, disturbed, codes, faults, requests>>
      /\ mailed' = IF Live(proc[p].user) THEN [mailed EXCEPT ![proc[p].user] = proc[p].code]
                   ELSE mailed
  BY DEF QueueCode, stores, IInv, TypeOK
<1>2. PICK u \in User : u = proc[p].user
  BY <1>1 DEF IInv, HandlersInShape, Shape
<1>3. PICK h \in Handler : /\ proc' = [proc EXCEPT ![p] = h] /\ Shape(h)
                           /\ h.step = "idle" /\ h.user = None /\ h.uid = None
  BY RowFacts DEF QueueCode, Done
<1>4. /\ mailed' \in [User -> Nat]
      /\ Live(u) => mailed'[u] = proc[p].code
      /\ \A v \in User : v # u \/ ~Live(u) => mailed'[v] = mailed[v]
  BY <1>1, <1>2 DEF IInv, TypeOK, Handler
<1>5. ASSUME NEW x \in Uid PROVE AccountOK(x)'
  BY <1>1, <1>3, NoneAssumption, OwnersStay, MoveAccount DEF AtWork
<1>6. ASSUME NEW v \in User PROVE UserOK(v)'
  <2>1. CASE v = u /\ u \notin disturbed'
    <3>1. AtUser(u) = {p} /\ user[u].code = proc[p].code
      BY <1>1, <1>2, <2>1, AloneAtUser
    <3>2. AtUser(u)' = (AtUser(u) \ {p}) \cup (IF h.user = u THEN {p} ELSE {})
      BY <1>3, MovedUser
    <3>3. AtUser(u)' = {}
      BY <1>3, <3>1, <3>2, NoneAssumption
    <3> QED
      BY <1>1, <1>4, <2>1, <3>1, <3>3 DEF UserOK, Live
  <2>2. CASE v = u /\ u \in disturbed'
    BY <2>2 DEF UserOK
  <2>3. CASE v # u
    BY <1>1, <1>2, <1>3, <1>4, <2>3, NoneAssumption, MoveUser DEF Live
  <2> QED
    BY <2>1, <2>2, <2>3
<1>7. RowsInShape'
  BY <1>1, <1>4 DEF IInv, RowsInShape, Live
<1>8. proc' \in [Request -> Handler] => TypeOK'
  BY <1>1, <1>4 DEF IInv, TypeOK
<1> QED
  BY <1>1, <1>3, <1>5, <1>6, <1>7, <1>8, NoneAssumption, MoveInv

LEMMA MarkVerifiedInv ==
  ASSUME IInv, NEW p \in Request, MarkVerified(p)
  PROVE  IInv'
<1>1. /\ proc[p].step = "verify"
      /\ UNCHANGED <<firebase, disturbed, codes, faults, requests>>
  BY DEF MarkVerified
<1>2. PICK u \in User : u = proc[p].user
  BY <1>1 DEF IInv, HandlersInShape, Shape
<1>3. PICK h \in Handler : /\ proc' = [proc EXCEPT ![p] = h] /\ Shape(h)
                           /\ h.step = "idle" /\ h.user = None /\ h.uid = None
  BY RowFacts DEF MarkVerified, Done
<1>4. /\ user' \in [User -> UserRow] /\ mailed' \in [User -> Nat]
      /\ \A v \in User : user'[v].status = user[v].status /\ user'[v].uid = user[v].uid
      /\ \A v \in User \ {u} : user'[v] = user[v] /\ mailed'[v] = mailed[v]
      /\ \/ user' = user /\ mailed' = mailed
         \/ Live(u) /\ user'[u].code = 0 /\ mailed'[u] = 0
  <2>1. CASE Live(u)
    <3> DEFINE row == [user[u] EXCEPT !.verified = TRUE, !.code = 0]
    <3>1. user' = [user EXCEPT ![u] = row] /\ mailed' = [mailed EXCEPT ![u] = 0]
      BY <1>2, <2>1 DEF MarkVerified, IInv, TypeOK
    <3>2. /\ user[u] \in UserRow /\ user \in [User -> UserRow]
          /\ mailed \in [User -> Nat]
      BY DEF IInv, TypeOK
    <3>3. row \in UserRow /\ row.status = user[u].status /\ row.uid = user[u].uid
      BY <3>2 DEF UserRow
    <3>4. row.code = 0
      BY <3>2 DEF UserRow
    <3> HIDE DEF row
    <3> QED
      BY <2>1, <3>1, <3>2, <3>3, <3>4
  <2>2. CASE ~Live(u)
    BY <1>2, <2>2 DEF MarkVerified, IInv, TypeOK
  <2> QED
    BY <2>1, <2>2
<1>5. ASSUME NEW x \in Uid PROVE AccountOK(x)'
  BY <1>1, <1>3, <1>4, NoneAssumption, SameOwners, MoveAccount DEF AtWork
<1>6. ASSUME NEW v \in User PROVE UserOK(v)'
  <2>1. CASE user'[v] = user[v] /\ mailed'[v] = mailed[v]
    BY <1>1, <1>3, <2>1, NoneAssumption, MoveUser DEF Live
  <2>2. CASE v = u /\ user'[u].code = 0 /\ mailed'[u] = 0
    <3>1. AtUser(u)' = (AtUser(u) \ {p}) \cup (IF h.user = u THEN {p} ELSE {})
      BY <1>3, MovedUser
    <3>2. u \notin disturbed => AtUser(u)' = {}
      BY <1>1, <1>2, <1>3, <3>1, AloneAtUser, NoneAssumption
    <3> QED
      BY <1>1, <2>2, <3>2 DEF UserOK
  <2> QED
    BY <1>4, <2>1, <2>2
<1>7. RowsInShape'
  BY <1>1, <1>4 DEF IInv, RowsInShape, Live
<1>8. proc' \in [Request -> Handler] => TypeOK'
  BY <1>1, <1>4 DEF IInv, TypeOK
<1> QED
  BY <1>1, <1>3, <1>4, <1>5, <1>6, <1>7, <1>8, NoneAssumption, MoveInv

----------------------------------------------------------------------------
\* The row of user u is deleted, which leaves his account without a user.
LEMMA UserGone ==
  ASSUME IInv, NEW u \in User, Live(u), user' = [user EXCEPT ![u].status = "gone"]
  PROVE  \E x \in Uid :
           /\ x = user[u].uid /\ Owners(x)' = {}
           /\ \A y : y # x => Owners(y)' = Owners(y)
           /\ user' \in [User -> UserRow] /\ user'[u].status = "gone"
           /\ \A v \in User \ {u} : user'[v] = user[v]
           /\ firebase[x].status # "none"
           /\ UNCHANGED <<firebase, mailed>> => RowsInShape'
<1>1. PICK x \in Uid : x = user[u].uid /\ firebase[x].status # "none"
  BY DEF IInv, RowsInShape, Live
<1>2. /\ user' \in [User -> UserRow]
      /\ user'[u].status = "gone" /\ user'[u].uid = x
      /\ \A v \in User \ {u} : user'[v] = user[v]
  BY <1>1 DEF IInv, TypeOK, UserRow
<1>3. \A y : y # x => Owners(y)' = Owners(y)
  BY <1>1, <1>2 DEF Owners, HasUid, Live
<1>4. Owners(x)' = {}
  <2>1. \A v \in Owners(x) : v = u
    BY <1>1 DEF IInv, AccountOK, Owners, HasUid
  <2> QED
    BY <1>2, <2>1 DEF Owners, HasUid, Live
<1>5. UNCHANGED <<firebase, mailed>> => RowsInShape'
  BY <1>1, <1>2 DEF IInv, RowsInShape, Live
<1> QED
  BY <1>1, <1>2, <1>3, <1>4, <1>5

LEMMA DeleteAccountInv ==
  ASSUME IInv, NEW p \in Request, NEW u \in User, DeleteAccount(p, u),
         requests' \in 0..MaxRequests
  PROVE  IInv'
<1>1. /\ proc[p].step = "idle" /\ Live(u)
      /\ user' = [user EXCEPT ![u].status = "gone"]
      /\ UNCHANGED <<firebase, mailed, codes, faults>>
      /\ disturbed' = disturbed \cup Meets({u, user[u].uid})
      /\ proc' = [proc EXCEPT ![p] =
                    [Idle EXCEPT !.step = "drop", !.user = u, !.uid = user[u].uid]]
  BY DEF DeleteAccount, Start
<1>2. PICK x \in Uid :
        /\ x = user[u].uid /\ Owners(x)' = {}
        /\ \A y : y # x => Owners(y)' = Owners(y)
        /\ user' \in [User -> UserRow] /\ user'[u].status = "gone"
        /\ \A v \in User \ {u} : user'[v] = user[v]
        /\ firebase[x].status # "none" /\ RowsInShape'
  BY <1>1, UserGone
<1>3. PICK h \in Handler :
        /\ proc' = [proc EXCEPT ![p] = h]
        /\ h.step = "drop" /\ h.user = u /\ h.uid = x
  <2> DEFINE g == [Idle EXCEPT !.step = "drop", !.user = u, !.uid = x]
  <2>1. g \in Handler /\ g.step = "drop" /\ g.user = u /\ g.uid = x
    BY RowFacts DEF Handler, Step
  <2>2. proc' = [proc EXCEPT ![p] = g]
    BY <1>1, <1>2
  <2> HIDE DEF g
  <2> QED
    BY <2>1, <2>2
<1>4. /\ Shape(h) /\ proc[p].user = None /\ proc[p].uid = None /\ proc'[p] = h
      /\ disturbed \subseteq disturbed' /\ disturbed' \subseteq User \cup Uid
  <2>1. Shape(h) /\ proc'[p] = h
    BY <1>3, MovedFacts DEF Shape
  <2>2. proc[p].user = None /\ proc[p].uid = None
    BY <1>1, <1>3, MovedFacts DEF Shape
  <2>3. disturbed \subseteq disturbed' /\ disturbed' \subseteq User \cup Uid
    BY <1>1, <1>2 DEF Meets, IInv, TypeOK
  <2> QED
    BY <2>1, <2>2, <2>3
<1>5. ASSUME NEW y \in Uid PROVE AccountOK(y)'
  <2>1. CASE y = x /\ x \in disturbed'
    BY <1>2, <2>1, AccountDisturbed DEF IInv
  <2>2. CASE y = x /\ x \notin disturbed'
    <3>1. AtAccount(x) = {}
      BY <1>1, <1>2, <2>2, NoneAssumption DEF Meets, Held, AtAccount
    <3>2. AtAccount(x)' = (AtAccount(x) \ {p}) \cup (IF h.uid = x THEN {p} ELSE {})
      BY <1>3, MovedAccount
    <3>3. AtAccount(x)' = {p}
      BY <1>3, <3>1, <3>2
    <3> QED
      BY <1>2, <1>3, <1>4, <2>2, <3>3 DEF AccountOK, KnowsAccount
  <2>3. CASE y # x
    <3>1. firebase'[y] = firebase[y] /\ Owners(y)' = Owners(y)
      BY <1>1, <1>2, <2>3
    <3>2. proc[p].uid # y /\ h.uid # y
      BY <1>3, <1>4, <2>3, NoneAssumption
    <3> QED
      BY <1>3, <1>4, <3>1, <3>2, MoveAccount
  <2> QED
    BY <2>1, <2>2, <2>3
<1>6. ASSUME NEW v \in User PROVE UserOK(v)'
  <2>1. CASE v = u /\ u \in disturbed'
    BY <2>1 DEF UserOK
  <2>2. CASE v = u /\ u \notin disturbed'
    <3>1. AtUser(u) = {}
      BY <1>1, <2>2, NoneAssumption DEF Meets, Held, AtUser
    <3>2. AtUser(u)' = (AtUser(u) \ {p}) \cup (IF h.user = u THEN {p} ELSE {})
      BY <1>3, MovedUser
    <3>3. \A q \in AtUser(u)' : q = p /\ proc'[q].step # "mail"
      BY <1>3, <1>4, <3>1, <3>2
    <3> QED
      BY <1>2, <2>2, <3>3 DEF UserOK, Live
  <2>3. CASE v # u
    <3>1. proc[p].user # v /\ h.user # v
      BY <1>3, <1>4, <2>3, NoneAssumption
    <3> QED
      BY <1>1, <1>2, <1>3, <1>4, <2>3, <3>1, MoveUser DEF Live
  <2> QED
    BY <2>1, <2>2, <2>3
<1>7. proc' \in [Request -> Handler] => TypeOK'
  BY <1>1, <1>2, <1>4 DEF IInv, TypeOK
<1>8. \A v \in User : user[v].status # "none" => user'[v].status # "none"
  BY <1>2
<1> QED
  BY <1>1, <1>2, <1>3, <1>4, <1>5, <1>6, <1>7, <1>8, MoveInv, ZenonT(30)

LEMMA DeleteUserInv ==
  ASSUME IInv, NEW u \in User, DeleteUser(u), requests' \in 0..MaxRequests
  PROVE  IInv'
<1>1. /\ Live(u) /\ user' = [user EXCEPT ![u].status = "gone"]
      /\ disturbed' = disturbed \cup {u, user[u].uid}
      /\ UNCHANGED <<firebase, proc, mailed, codes, faults>>
  BY DEF DeleteUser
<1>2. PICK x \in Uid :
        /\ x = user[u].uid /\ Owners(x)' = {}
        /\ \A y : y # x => Owners(y)' = Owners(y)
        /\ user' \in [User -> UserRow] /\ user'[u].status = "gone"
        /\ \A v \in User \ {u} : user'[v] = user[v]
        /\ RowsInShape'
  BY <1>1, UserGone
<1>3. \A y : AtAccount(y)' = AtAccount(y) /\ AtUser(y)' = AtUser(y)
  BY <1>1 DEF AtAccount, AtUser
<1>4. ASSUME NEW y \in Uid PROVE AccountOK(y)'
  <2>1. CASE y = x
    BY <1>1, <1>2, <2>1, AccountDisturbed DEF IInv
  <2>2. CASE y # x
    BY <1>1, <1>2, <1>3, <2>2, AccountFrame DEF IInv
  <2> QED
    BY <2>1, <2>2
<1>5. ASSUME NEW v \in User PROVE UserOK(v)'
  <2>1. CASE v = u
    BY <1>1, <2>1 DEF UserOK
  <2>2. CASE v # u
    BY <1>1, <1>2, <1>3, <2>2, UserFrame DEF IInv, Live
  <2> QED
    BY <2>1, <2>2
<1>6. TypeOK' /\ HandlersInShape' /\ HeldExist'
  BY <1>1, <1>2 DEF IInv, TypeOK, HandlersInShape, HeldExist
<1> QED
  BY <1>2, <1>4, <1>5, <1>6 DEF IInv

LEMMA UpdateUserInv ==
  ASSUME IInv, NEW u \in User, NEW e \in Email, NEW b \in BOOLEAN, UpdateUser(u, e, b),
         requests' \in 0..MaxRequests
  PROVE  IInv'
<1>1. UNCHANGED <<firebase, proc, mailed, disturbed, codes, faults>>
  BY DEF UpdateUser
<1>2. /\ user' \in [User -> UserRow]
      /\ \A v \in User : /\ user'[v].status = user[v].status /\ user'[v].uid = user[v].uid
                         /\ user'[v].code = user[v].code
  BY DEF UpdateUser, IInv, TypeOK, UserRow
<1>3. \A y : AtAccount(y)' = AtAccount(y) /\ AtUser(y)' = AtUser(y)
  BY <1>1 DEF AtAccount, AtUser
<1>4. ASSUME NEW y \in Uid PROVE AccountOK(y)'
  BY <1>1, <1>2, <1>3, SameOwners, AccountFrame DEF IInv
<1>5. ASSUME NEW v \in User PROVE UserOK(v)'
  BY <1>1, <1>2, <1>3, UserFrame DEF IInv, Live
<1>6. TypeOK' /\ HandlersInShape' /\ HeldExist' /\ RowsInShape'
  BY <1>1, <1>2, SameOwners DEF IInv, TypeOK, HandlersInShape, HeldExist
<1> QED
  BY <1>4, <1>5, <1>6 DEF IInv

\* The user moves to another account, and both are disturbed.
LEMMA RelinkInv ==
  ASSUME IInv, NEW u \in User, NEW x \in Uid, NEW n \in Nat, Relink(u, x, n),
         requests' \in 0..MaxRequests
  PROVE  IInv'
<1>1. /\ Live(u) /\ firebase[x].status # "none" /\ \A v \in User \ {u} : ~HasUid(v, x)
      /\ user' = [user EXCEPT ![u].uid = x, ![u].code = n]
      /\ disturbed' = disturbed \cup {u, user[u].uid, x}
      /\ UNCHANGED <<firebase, proc, mailed, codes, faults>>
  BY DEF Relink
<1>2. user[u].uid \in Uid
  BY <1>1 DEF IInv, RowsInShape, Live
<1>3. /\ user' \in [User -> UserRow]
      /\ user'[u].status = user[u].status /\ user'[u].uid = x
      /\ \A v \in User \ {u} : user'[v] = user[v]
  BY <1>1 DEF IInv, TypeOK, UserRow
<1>4. \A y : AtAccount(y)' = AtAccount(y) /\ AtUser(y)' = AtUser(y)
  BY <1>1 DEF AtAccount, AtUser
<1>5. ASSUME NEW y \in Uid PROVE AccountOK(y)'
  <2>1. CASE y \notin {user[u].uid, x}
    <3>1. Owners(y)' = Owners(y)
      BY <1>3, <2>1 DEF Owners, HasUid, Live
    <3> QED
      BY <1>1, <1>4, <3>1, AccountFrame DEF IInv
  <2>2. CASE y = x
    <3>1. \A v \in Owners(x)' : v = u
      BY <1>1, <1>3 DEF Owners, HasUid, Live
    <3> QED
      BY <1>1, <2>2, <3>1 DEF AccountOK
  <2>3. CASE y = user[u].uid /\ y # x
    <3>1. Owners(y)' \subseteq Owners(y)
      BY <1>3, <2>3 DEF Owners, HasUid, Live
    <3> QED
      BY <1>1, <2>3, <3>1, AccountDisturbed DEF IInv
  <2> QED
    BY <2>1, <2>2, <2>3
<1>6. ASSUME NEW v \in User PROVE UserOK(v)'
  <2>1. CASE v = u
    BY <1>1, <2>1 DEF UserOK
  <2>2. CASE v # u
    BY <1>1, <1>3, <1>4, <2>2, UserFrame DEF IInv, Live
  <2> QED
    BY <2>1, <2>2
<1>7. RowsInShape'
  BY <1>1, <1>3 DEF IInv, RowsInShape, Live
<1>8. TypeOK' /\ HandlersInShape' /\ HeldExist'
  BY <1>1, <1>2, <1>3 DEF IInv, TypeOK, HandlersInShape, HeldExist
<1> QED
  BY <1>5, <1>6, <1>7, <1>8 DEF IInv

LEMMA FailInv ==
  ASSUME IInv, NEW p \in Request, Fail(p)
  PROVE  IInv'
<1>1. /\ disturbed' = disturbed \cup ({proc[p].user, proc[p].uid} \ {None})
      /\ \/ Done(p)
         \/ proc[p].step \in {"insert", "claims"} /\ Goto(p, "rollback")
      /\ UNCHANGED <<user, firebase, mailed, codes, requests>>
      /\ faults' \in 0..MaxFaults /\ disturbed' \subseteq User \cup Uid
      /\ proc[p] \in Handler
  BY BoundsAssumption DEF Fail, stores, IInv, TypeOK, Handler
<1>2. proc' \in [Request -> Handler] => TypeOK'
  BY <1>1 DEF IInv, TypeOK
<1>3. CASE proc[p].step \in {"insert", "claims"} /\ Goto(p, "rollback")
  <2>1. proc[p].uid \in disturbed'
    BY <1>1, <1>3, NoneAssumption DEF IInv, HandlersInShape, Shape
  <2> QED
    BY <1>1, <1>2, <1>3, <2>1, ToRollback DEF stores
<1>4. CASE Done(p)
  <2>1. PICK h \in Handler : /\ proc' = [proc EXCEPT ![p] = h] /\ Shape(h)
                             /\ h.user = None /\ h.uid = None
    BY <1>4, RowFacts DEF Done
  <2>2. ASSUME NEW x \in Uid PROVE AccountOK(x)'
    <3>1. CASE x = proc[p].uid
      BY <1>1, <3>1, NoneAssumption, OwnersStay, AccountDisturbed DEF IInv
    <3>2. CASE x # proc[p].uid
      BY <1>1, <2>1, <3>2, NoneAssumption, OwnersStay, MoveAccount
    <3> QED
      BY <3>1, <3>2
  <2>3. ASSUME NEW u \in User PROVE UserOK(u)'
    <3>1. CASE u = proc[p].user
      BY <1>1, <3>1, NoneAssumption DEF UserOK
    <3>2. CASE u # proc[p].user
      BY <1>1, <2>1, <3>2, NoneAssumption, MoveUser DEF Live
    <3> QED
      BY <3>1, <3>2
  <2> QED
    BY <1>1, <1>2, <2>1, <2>2, <2>3, NoneAssumption, RowsStay, MoveInv
<1> QED
  BY <1>1, <1>3, <1>4

----------------------------------------------------------------------------
LEMMA AskInv ==
  ASSUME IInv, Ask
  PROVE  IInv'
<1>1. requests' \in 0..MaxRequests
  BY BoundsAssumption DEF Ask, IInv, TypeOK
<1>2. ASSUME NEW p \in Request, NEW u \in User,
             Resend(p, u) \/ VerifyEmailCode(p, u) \/ DeleteAccount(p, u)
      PROVE  IInv'
  BY <1>1, <1>2, AtUserInv, DeleteAccountInv
<1>3. ASSUME NEW p \in Request, NEW b \in BOOLEAN,
             \/ \E e \in Email : Register(p, e, b)
             \/ \E x \in Uid : RegisterSocial(p, x, b)
      PROVE  IInv'
  BY <1>1, <1>3, RegisterInv, RegisterSocialInv
<1>4. ASSUME NEW u \in User,
             \/ DeleteUser(u)
             \/ \E e \in Email, b \in BOOLEAN : UpdateUser(u, e, b)
             \/ \E x \in Uid, n \in {0, codes} : Relink(u, x, n)
      PROVE  IInv'
  <2>1. codes \in Nat
    BY DEF IInv, TypeOK
  <2> QED
    BY <1>1, <1>4, <2>1, DeleteUserInv, UpdateUserInv, RelinkInv
<1>5. ASSUME NEW x \in Uid, NEW e \in Email, SignInSocial(x, e)
      PROVE  IInv'
  BY <1>1, <1>5, SignInSocialInv
<1> QED
  BY <1>2, <1>3, <1>4, <1>5 DEF Ask

LEMMA ContinueInv ==
  ASSUME IInv, NEW p \in Request, Continue(p)
  PROVE  IInv'
BY CreateFirebaseUserInv, InsertUserInv, SetClaimsInv, AccountGoneInv, StoreCodeInv,
   QueueCodeInv, MarkVerifiedInv DEF Continue

LEMMA StepInv == IInv /\ [Next]_vars => IInv'
<1> SUFFICES ASSUME IInv, [Next]_vars PROVE IInv'
  OBVIOUS
<1>1. CASE Next
  BY <1>1, AskInv, ContinueInv, FailInv DEF Next
<1>2. CASE UNCHANGED vars
  <2>1. TypeOK' /\ HandlersInShape' /\ RowsInShape' /\ HeldExist'
    BY <1>2 DEF vars, stores, IInv, TypeOK, HandlersInShape, RowsInShape, HeldExist
  <2>2. \A y : Owners(y)' = Owners(y) /\ AtAccount(y)' = AtAccount(y) /\ AtUser(y)' = AtUser(y)
    BY <1>2 DEF vars, stores, Owners, HasUid, Live, AtAccount, AtUser
  <2>3. ASSUME NEW x \in Uid PROVE AccountOK(x)'
    BY <1>2, <2>2, AccountFrame DEF vars, stores, IInv
  <2>4. ASSUME NEW u \in User PROVE UserOK(u)'
    BY <1>2, <2>2, UserFrame DEF vars, stores, IInv, Live
  <2> QED
    BY <2>1, <2>3, <2>4 DEF IInv
<1> QED
  BY <1>1, <1>2

\* The inductive invariant holds in every state.
THEOREM Invariance == Spec => []IInv
<1> QED
  BY InitInv, StepInv, PTL DEF Spec

\* Type correctness, for every value of the constants: the rows of both stores and the
\* handlers are well-formed.
THEOREM TypeCorrect == Spec => []TypeOK
<1>1. IInv => TypeOK
  BY DEF IInv
<1> QED
  BY <1>1, Invariance, PTL

\* register, deleteAccount: once nobody is at work on an account, PostgreSQL and Firebase
\* agree about it, unless a handler failed on it or two met.
THEOREM StoresCorrect == Spec => []StoresAgree
<1>1. IInv => StoresAgree
  <2> SUFFICES ASSUME IInv PROVE StoresAgree
    OBVIOUS
  <2>1. ASSUME NEW u \in User, NEW x, x = user[u].uid,
               Live(u), ~Held(u), ~Held(x), {u, x} \cap disturbed = {}
        PROVE  InFirebase(x) /\ firebase[x].claims = u
    <3>1. x \in Uid /\ u \in Owners(x)
      BY <2>1 DEF IInv, RowsInShape, Owners, HasUid, Live
    <3>2. AtAccount(x) = {}
      BY <2>1, <3>1, NoneAssumption DEF Held, AtAccount
    <3> QED
      BY <2>1, <3>1, <3>2 DEF IInv, AccountOK
  <2>2. ASSUME NEW x \in Uid, InFirebase(x), ~firebase[x].social, ~Held(x), x \notin disturbed
        PROVE  \E u \in User : HasUid(u, x)
    <3>1. AtAccount(x) = {}
      BY <2>2, NoneAssumption DEF Held, AtAccount
    <3> QED
      BY <2>2, <3>1 DEF IInv, AccountOK, Owners
  <2> QED
    BY <2>1, <2>2 DEF StoresAgree
<1> QED
  BY <1>1, Invariance, PTL

\* sendVerificationEmail, resendVerificationEmail: until it is used the code of the last
\* email is the one verifyEmailCode compares with, unless two handlers met on the user, one
\* failed, or the code was written by hand.
THEOREM CodeCorrect == Spec => []CodeWorks
<1>1. IInv => CodeWorks
  <2> SUFFICES ASSUME IInv, NEW u \in User, Live(u), ~Held(u), u \notin disturbed
               PROVE  mailed[u] = user[u].code
    BY DEF CodeWorks
  <2>1. AtUser(u) = {}
    BY NoneAssumption DEF Held, AtUser
  <2> QED
    BY <2>1 DEF IInv, UserOK
<1> QED
  BY <1>1, Invariance, PTL

----------------------------------------------------------------------------
\* EmailQueue.

Calm == Message \ contested

\* An id that was not given yet is in no handler's hands.
NewIsNew ==
  \A m \in Message : queue[m].status = "NONE" => delivered[m] = 0 /\ ~Taken(m)

\* Only a handler in flight holds messages.
IdleIsEmpty == \A p \in Process : task[p].step = "idle" => task[p].batch = {}

\* A calm message is in the hands of one handler at most.
Isolation ==
  \A m \in Calm : \A p, q \in Process :
    m \in task[p].batch /\ m \in task[q].batch => p = q

\* Between two handlers, a message was delivered if and only if it is SENT; a deleted one
\* may have been.
Settled(m) ==
  /\ queue[m].status \in {"PENDING", "FAILED"} => delivered[m] = 0
  /\ queue[m].status = "SENT" => delivered[m] = 1
  /\ delivered[m] <= 1

\* p has sent message m and not stored it yet.
JustSent(p, m) == task[p].step = "markSent" /\ IsFirst(m, task[p].batch)

\* What handler p read of calm message m still holds.
Fresh(p, m) ==
  LET s == task[p].step IN
  /\ s \in Sending => queue[m].status = "PENDING"
  /\ s \in Sending => delivered[m] = IF JustSent(p, m) THEN 1 ELSE 0
  /\ s = "markException" => ~IsFirst(m, task[p].batch)
  /\ s = "reopen" => queue[m].status = "FAILED"
  /\ s \in {"reopen", "erase"} => Settled(m)

HandlersAreFresh ==
  \A p \in Process : \A m \in Calm : m \in task[p].batch => Fresh(p, m)

RestIsSettled == \A m \in Calm : ~Taken(m) => Settled(m)

\* A SENT message was sent, calm or not.
SentIsSent ==
  /\ \A m \in Message : queue[m].status = "SENT" => delivered[m] > 0
  /\ \A p \in Process, m \in Message : JustSent(p, m) => delivered[m] > 0

MailInv ==
  /\ MailTypeOK
  /\ NewIsNew
  /\ IdleIsEmpty
  /\ Isolation
  /\ HandlersAreFresh
  /\ RestIsSettled
  /\ SentIsSent

----------------------------------------------------------------------------
LEMMA MailInitInv == MailInit => MailInv
BY SizeAssumption, MailBoundsAssumption
   DEF MailInit, MailInv, MailTypeOK, NewIsNew, IdleIsEmpty, Isolation, HandlersAreFresh, RestIsSettled,
       SentIsSent, Calm, Taken, Settled, JustSent, IsFirst, NoTask, NoRow, Row, Task, Sending,
       Message

\* The first message of a set is one.
LEMMA FirstIsOne ==
  ASSUME NEW S \in SUBSET Message, NEW m \in S, NEW n \in S, IsFirst(m, S), IsFirst(n, S)
  PROVE  m = n
BY DEF IsFirst, Message

\* What the helpers of the actions do.
Tables == queue \in [Message -> Row] /\ task \in [Process -> Task]

LEMMA SetStatusFacts ==
  ASSUME Tables, NEW m \in Message,
         NEW s \in {"NONE", "PENDING", "SENT", "FAILED", "GONE"}, SetStatus(m, s)
  PROVE  /\ queue' \in [Message -> Row]
         /\ queue'[m].status = s
         /\ \A n \in Message \ {m} : queue'[n] = queue[n]
<1> DEFINE row == [queue[m] EXCEPT !.status = s]
<1>1. row \in Row /\ row.status = s
  BY DEF Tables, Row
<1>2. queue' = [queue EXCEPT ![m] = row]
  BY DEF SetStatus
<1> HIDE DEF row
<1> QED
  BY <1>1, <1>2 DEF Tables

LEMMA GotoFacts ==
  ASSUME Tables, NEW p \in Process, NEW s \in Sending, Proceed(p, s)
  PROVE  /\ task' \in [Process -> Task]
         /\ task'[p].step = s /\ task'[p].batch = task[p].batch
         /\ \A q \in Process \ {p} : task'[q] = task[q]
<1> DEFINE h == [task[p] EXCEPT !.step = s]
<1>1. h \in Task /\ h.step = s /\ h.batch = task[p].batch
  BY DEF Tables, Task, Sending
<1>2. task' = [task EXCEPT ![p] = h]
  BY DEF Proceed
<1> HIDE DEF h
<1> QED
  BY <1>1, <1>2 DEF Tables

LEMMA DoneFacts ==
  ASSUME Tables, NEW p \in Process, Finish(p)
  PROVE  /\ task' \in [Process -> Task]
         /\ task'[p].step = "idle" /\ task'[p].batch = {}
         /\ \A q \in Process \ {p} : task'[q] = task[q]
<1>1. NoTask \in Task /\ NoTask.step = "idle" /\ NoTask.batch = {}
  BY DEF NoTask, Task
<1> QED
  BY <1>1 DEF Tables, Finish

LEMMA NextInBatchFacts ==
  ASSUME Tables, NEW p \in Process, NEW m \in Message, NextInBatch(p, m)
  PROVE  /\ task' \in [Process -> Task]
         /\ task'[p].step \in {"idle", "send"}
         /\ task'[p].batch = task[p].batch \ {m}
         /\ task'[p].step = "idle" => task'[p].batch = {}
         /\ \A q \in Process \ {p} : task'[q] = task[q]
<1> DEFINE rest == task[p].batch \ {m}
<1> DEFINE h == IF rest = {} THEN NoTask ELSE [step |-> "send", batch |-> rest]
<1>1. /\ h \in Task /\ h.step \in {"idle", "send"} /\ h.batch = rest
      /\ h.step = "idle" => rest = {}
  BY DEF Tables, Task, Sending, NoTask
<1>2. task' = [task EXCEPT ![p] = h]
  BY DEF NextInBatch
<1> HIDE DEF h
<1> QED
  BY <1>1, <1>2 DEF Tables

LEMMA StartFacts ==
  ASSUME Tables, NEW p \in Process, NEW s \in {"send", "reopen", "erase"},
         NEW batch \in SUBSET Message, TakeUp(p, s, batch)
  PROVE  /\ task' \in [Process -> Task]
         /\ task[p].step = "idle"
         /\ task'[p].step = s /\ task'[p].batch = batch
         /\ \A q \in Process \ {p} : task'[q] = task[q]
         /\ contested' = contested \cup {m \in batch : Taken(m)}
         /\ UNCHANGED <<queue, delivered, mailFaults>>
<1> DEFINE h == [step |-> s, batch |-> batch]
<1>1. h \in Task /\ h.step = s /\ h.batch = batch
  BY DEF Task, Sending
<1>2. task' = [task EXCEPT ![p] = h]
  BY DEF TakeUp
<1> HIDE DEF h
<1> QED
  BY <1>1, <1>2 DEF Tables, TakeUp

----------------------------------------------------------------------------
LEMMA TypeStep == MailTypeOK /\ [MailNext]_mailVars => MailTypeOK'
<1> SUFFICES ASSUME MailTypeOK, [MailNext]_mailVars PROVE MailTypeOK'
  OBVIOUS
<1> USE DEF MailTypeOK, Tables, history
<1>1. ASSUME NEW m \in Message, NEW due \in BOOLEAN, QueueEmail(m, due) PROVE MailTypeOK'
  BY <1>1 DEF QueueEmail, Row
<1>2. ASSUME NEW m \in Message, FallDue(m) PROVE MailTypeOK'
  BY <1>2 DEF FallDue, Row
<1>3. ASSUME NEW p \in Run, ProcessPending(p) PROVE MailTypeOK'
  BY <1>3, StartFacts DEF ProcessPending, Pending, Process, IsOldest
<1>4. ASSUME NEW p \in Command, Begin(p) PROVE MailTypeOK'
  BY <1>4, MailBoundsAssumption, StartFacts DEF Begin, RetryMessage, DeleteMessage, Process
<1>5. ASSUME NEW old \in SUBSET Message, CleanOldMessages(old) PROVE MailTypeOK'
  BY <1>5 DEF CleanOldMessages, Row
<1>6. ASSUME NEW p \in Process, NEW m \in Message, SendEmail(p, m) PROVE MailTypeOK'
  BY <1>6, GotoFacts DEF SendEmail, Sending
<1>7. ASSUME NEW p \in Process, NEW m \in Message, Mark(p, m) \/ MarkException(p, m)
      PROVE  MailTypeOK'
  BY <1>7, GotoFacts, DoneFacts, SetStatusFacts, NextInBatchFacts
     DEF Mark, MarkException, Sending
<1>8. ASSUME NEW p \in Process, NEW m \in Message, Reopen(p, m) \/ Erase(p, m)
      PROVE  MailTypeOK'
  BY <1>8, DoneFacts, SetStatusFacts DEF Reopen, Erase
<1>9. ASSUME NEW p \in Process, NEW m \in Message, MailFails(p, m) PROVE MailTypeOK'
  <2>1. task' \in [Process -> Task]
    BY <1>9, GotoFacts, DoneFacts DEF MailFails, Sending
  <2> QED
    BY <2>1, <1>9, MailBoundsAssumption DEF MailFails
<1>10. CASE UNCHANGED mailVars
  BY <1>10 DEF mailVars
<1> QED
  BY <1>1, <1>2, <1>3, <1>4, <1>5, <1>6, <1>7, <1>8, <1>9, <1>10 DEF MailNext, WorkOn

----------------------------------------------------------------------------
\* Every action keeps the inductive invariant.
LEMMA QueueEmailInv ==
  ASSUME MailInv, NEW m \in Message, NEW due \in BOOLEAN, QueueEmail(m, due)
  PROVE  MailInv'
<1> USE DEF MailInv, QueueEmail, MailTypeOK, Calm, history
<1>1. /\ queue[m].status = "NONE" /\ queue'[m].status = "PENDING"
      /\ \A n \in Message \ {m} : queue'[n] = queue[n]
  BY DEF IsFirst
<1>2. MailTypeOK'
  BY TypeStep DEF MailNext
<1>3. NewIsNew' /\ IdleIsEmpty' /\ Isolation' /\ SentIsSent'
  BY <1>1 DEF NewIsNew, IdleIsEmpty, Isolation, SentIsSent, Taken, JustSent
<1>4. HandlersAreFresh' /\ RestIsSettled'
  BY <1>1 DEF NewIsNew, HandlersAreFresh, RestIsSettled, Fresh, Settled, Taken, JustSent
<1> QED
  BY <1>2, <1>3, <1>4

LEMMA FallDueInv ==
  ASSUME MailInv, NEW m \in Message, FallDue(m)
  PROVE  MailInv'
<1> USE DEF MailInv, FallDue, MailTypeOK, Calm, history
<1>1. \A n \in Message : queue'[n].status = queue[n].status
  BY DEF Row
<1>2. MailTypeOK'
  BY TypeStep DEF MailNext
<1> QED
  BY <1>1, <1>2 DEF NewIsNew, IdleIsEmpty, Isolation, SentIsSent, HandlersAreFresh,
     RestIsSettled, Fresh, Settled, Taken, JustSent

LEMMA CleanInv ==
  ASSUME MailInv, NEW old \in SUBSET Message, CleanOldMessages(old)
  PROVE  MailInv'
<1> USE DEF MailInv, CleanOldMessages, MailTypeOK, Calm, history
<1>1. \A n \in Message : \/ queue'[n].status = queue[n].status
                         \/ queue[n].status = "SENT" /\ queue'[n].status = "GONE"
  BY DEF Row
<1>2. MailTypeOK'
  BY TypeStep DEF MailNext
<1>3. NewIsNew' /\ IdleIsEmpty' /\ Isolation' /\ SentIsSent'
  BY <1>1 DEF NewIsNew, IdleIsEmpty, Isolation, SentIsSent, Taken, JustSent
<1>4. \A n \in Calm : Settled(n) => Settled(n)'
  BY <1>1 DEF Settled
<1>5. HandlersAreFresh' /\ RestIsSettled'
  BY <1>1, <1>4 DEF HandlersAreFresh, RestIsSettled, Fresh, Taken, JustSent
<1> QED
  BY <1>2, <1>3, <1>5

\* A handler starts on messages none of which is new: on the calm ones it is alone.
LEMMA StartInv ==
  ASSUME MailInv, MailTypeOK', NEW p \in Process, NEW s \in {"send", "reopen", "erase"},
         NEW batch \in SUBSET Message, TakeUp(p, s, batch),
         \A m \in batch : /\ queue[m].status # "NONE"
                          /\ s = "send" => queue[m].status = "PENDING"
                          /\ s = "reopen" => queue[m].status = "FAILED"
  PROVE  MailInv'
<1> USE DEF MailInv, MailTypeOK, Tables, Calm
<1>1. /\ task[p].step = "idle" /\ task[p].batch = {}
      /\ task'[p].step = s /\ task'[p].batch = batch
      /\ \A q \in Process \ {p} : task'[q] = task[q]
      /\ contested' = contested \cup {m \in batch : Taken(m)}
      /\ UNCHANGED <<queue, delivered>>
  BY StartFacts DEF IdleIsEmpty
<1>2. \A m \in Calm' : m \in Calm /\ (m \in batch => ~Taken(m))
  BY <1>1
<1>3. NewIsNew' /\ IdleIsEmpty' /\ SentIsSent'
  BY <1>1 DEF NewIsNew, IdleIsEmpty, SentIsSent, Taken, JustSent
<1>4. Isolation'
  BY <1>1, <1>2 DEF Isolation, Taken
<1>5. RestIsSettled'
  BY <1>1, <1>2 DEF RestIsSettled, Settled, Taken
<1>6. HandlersAreFresh'
  <2> SUFFICES ASSUME NEW q \in Process, NEW m \in Calm', m \in task'[q].batch
               PROVE  Fresh(q, m)'
    BY DEF HandlersAreFresh
  <2>1. CASE q = p
    BY <2>1, <1>1, <1>2 DEF RestIsSettled, Settled, Fresh, JustSent, Sending
  <2>2. CASE q # p
    BY <2>2, <1>1, <1>2 DEF HandlersAreFresh, Settled, Fresh, JustSent
  <2> QED
    BY <2>1, <2>2
<1> QED
  BY <1>3, <1>4, <1>5, <1>6

LEMMA ProcessPendingInv ==
  ASSUME MailInv, NEW p \in Run, ProcessPending(p)
  PROVE  MailInv'
<1>1. MailTypeOK'
  BY TypeStep DEF MailInv, MailNext
<1>2. PICK batch \in SUBSET Pending : TakeUp(p, "send", batch)
  BY DEF ProcessPending
<1> QED
  BY <1>1, <1>2, StartInv DEF Pending, Process

LEMMA BeginInv ==
  ASSUME MailInv, NEW p \in Command, Begin(p)
  PROVE  MailInv'
<1>1. MailTypeOK'
  BY TypeStep DEF MailInv, MailNext
<1>2. PICK m \in Message : RetryMessage(p, m) \/ DeleteMessage(p, m)
  BY DEF Begin
<1> QED
  BY <1>1, <1>2, StartInv DEF RetryMessage, DeleteMessage, Process

LEMMA SendEmailInv ==
  ASSUME MailInv, NEW p \in Process, NEW m \in Message, SendEmail(p, m)
  PROVE  MailInv'
<1> USE DEF MailInv, MailTypeOK, Tables, Calm, history
<1>1. /\ task[p].step = "send" /\ IsFirst(m, task[p].batch) /\ m \in task[p].batch
      /\ task'[p].batch = task[p].batch
      /\ \A q \in Process \ {p} : task'[q] = task[q]
      /\ UNCHANGED <<queue, contested>>
      /\ \A n \in Message \ {m} : delivered'[n] = delivered[n]
      /\ \/ task'[p].step = "markSent" /\ delivered'[m] = delivered[m] + 1
         \/ task'[p].step = "markFailed" /\ UNCHANGED delivered
  BY GotoFacts DEF SendEmail, IsFirst, Sending
<1>2. MailTypeOK'
  BY TypeStep DEF MailNext, WorkOn
<1>3. \A q \in Process : task'[q].batch = task[q].batch
  BY <1>1
<1>4. NewIsNew' /\ IdleIsEmpty' /\ Isolation'
  BY <1>1, <1>3 DEF NewIsNew, IdleIsEmpty, Isolation, Taken
<1>5. SentIsSent'
  <2>1. \A n \in Message : delivered'[n] >= delivered[n]
    BY <1>1
  <2>2. \A q \in Process, n \in Message : JustSent(q, n)' => delivered'[n] > 0
    BY <1>1, <1>3, <2>1, FirstIsOne DEF SentIsSent, JustSent, Task, IsFirst
  <2> QED
    BY <1>1, <2>1, <2>2 DEF SentIsSent
<1>6. RestIsSettled'
  BY <1>1, <1>3 DEF RestIsSettled, Settled, Taken
<1>7. HandlersAreFresh'
  <2> SUFFICES ASSUME NEW q \in Process, NEW n \in Calm, n \in task[q].batch
               PROVE  Fresh(q, n)'
    BY <1>1, <1>3 DEF HandlersAreFresh
  <2>1. Fresh(q, n)
    BY DEF HandlersAreFresh
  <2>2. CASE q = p /\ n = m
    BY <2>1, <2>2, <1>1, <1>3 DEF Fresh, JustSent, Sending
  <2>3. CASE q = p /\ n # m
    <3>1. ~IsFirst(n, task[p].batch)
      BY <2>3, <1>1, FirstIsOne DEF Task
    <3> QED
      BY <2>1, <2>3, <3>1, <1>1, <1>3 DEF Fresh, JustSent, Sending
  <2>4. CASE q # p
    <3>1. n # m
      BY <2>4, <1>1 DEF Isolation
    <3> QED
      BY <2>1, <2>4, <3>1, <1>1, <1>3 DEF Fresh, JustSent, Settled
  <2> QED
    BY <2>2, <2>3, <2>4
<1> QED
  BY <1>2, <1>4, <1>5, <1>6, <1>7

\* The end of what p does with message m: p lets go of m, or of its whole batch.
LetGo(p, m) ==
  /\ task[p].step # "idle"
  /\ m \in task[p].batch
  /\ task[p].step \in Sending => IsFirst(m, task[p].batch)
  /\ \/ task'[p].step = "idle" /\ task'[p].batch = {}
     \/ /\ task[p].step \in Sending
        /\ task'[p].step = "send" /\ task'[p].batch = task[p].batch \ {m}
  /\ \A q \in Process \ {p} : task'[q] = task[q]
  /\ \A n \in Message \ {m} : queue'[n] = queue[n]
  /\ queue'[m].status # "NONE"
  /\ queue'[m].status = "SENT" => delivered[m] > 0
  /\ delivered' = delivered
  /\ contested \subseteq contested'
  /\ m \in Message \ contested' => Settled(m)'

LEMMA LetGoInv ==
  ASSUME MailInv, MailTypeOK', NEW p \in Process, NEW m \in Message, LetGo(p, m)
  PROVE  MailInv'
<1> USE DEF MailInv, MailTypeOK, Tables, Calm, LetGo
<1>1. /\ \A q \in Process : task'[q].batch \subseteq task[q].batch
      /\ m \notin task'[p].batch
      /\ task[p].batch \subseteq Message
  BY DEF Task
<1>2. NewIsNew'
  BY <1>1 DEF NewIsNew, Taken
<1>3. IdleIsEmpty' /\ Isolation'
  BY <1>1 DEF IdleIsEmpty, Isolation
<1>4. SentIsSent'
  BY <1>1 DEF SentIsSent, JustSent
<1>5. \A n \in Message \ (contested \cup {m}) : n \in task[p].batch =>
        /\ Settled(n)
        /\ task[p].step \in Sending => queue[n].status = "PENDING" /\ delivered[n] = 0
  <2> SUFFICES ASSUME NEW n \in Message \ (contested \cup {m}), n \in task[p].batch
               PROVE  /\ Settled(n)
                      /\ task[p].step \in Sending =>
                           queue[n].status = "PENDING" /\ delivered[n] = 0
    OBVIOUS
  <2>1. Fresh(p, n)
    BY DEF HandlersAreFresh
  <2>2. task[p].step \in Sending => ~IsFirst(n, task[p].batch)
    BY <1>1, FirstIsOne
  <2>3. task[p].step \in Sending \cup {"reopen", "erase"}
    BY DEF Task
  <2> QED
    BY <2>1, <2>2, <2>3 DEF Fresh, JustSent, Settled, Sending
<1>6. RestIsSettled'
  <2> SUFFICES ASSUME NEW n \in Calm', ~Taken(n)' PROVE Settled(n)'
    BY DEF RestIsSettled
  <2>1. CASE n = m
    BY <2>1
  <2>2. CASE n # m /\ n \in task[p].batch
    BY <2>2, <1>5 DEF Settled
  <2>3. CASE n # m /\ n \notin task[p].batch
    BY <2>3 DEF RestIsSettled, Taken, Settled
  <2> QED
    BY <2>1, <2>2, <2>3
<1>7. HandlersAreFresh'
  <2> SUFFICES ASSUME NEW q \in Process, NEW n \in Calm', n \in task'[q].batch
               PROVE  Fresh(q, n)'
    BY DEF HandlersAreFresh
  <2>1. CASE q = p
    <3>1. n # m /\ n \in task[p].batch /\ task'[p].step = "send" /\ task[p].step \in Sending
      BY <2>1, <1>1
    <3> QED
      BY <2>1, <3>1, <1>5 DEF Fresh, JustSent, Sending
  <2>2. CASE q # p
    <3>1. n # m
      BY <2>2 DEF Isolation
    <3> QED
      BY <2>2, <3>1 DEF HandlersAreFresh, Fresh, JustSent, Settled
  <2> QED
    BY <2>1, <2>2
<1> QED
  BY <1>2, <1>3, <1>4, <1>6, <1>7

\* A step on the first message of a batch that is not calm, or not any more.
Stumble(p, m) ==
  /\ task[p].step \in Sending
  /\ IsFirst(m, task[p].batch)
  /\ task'[p].step \in {"markFailed", "markException"}
  /\ task'[p].batch = task[p].batch
  /\ \A q \in Process \ {p} : task'[q] = task[q]
  /\ queue' = queue
  /\ delivered'[m] >= delivered[m]
  /\ \A n \in Message \ {m} : delivered'[n] = delivered[n]
  /\ contested \subseteq contested' /\ m \in contested'

LEMMA StumbleInv ==
  ASSUME MailInv, MailTypeOK', NEW p \in Process, NEW m \in Message, Stumble(p, m)
  PROVE  MailInv'
<1> USE DEF MailInv, MailTypeOK, Tables, Calm, Stumble
<1>1. /\ \A q \in Process : task'[q].batch = task[q].batch
      /\ m \in task[p].batch
      /\ \A n \in Message : delivered'[n] >= delivered[n]
      /\ \A n \in Calm' : n \in Calm /\ n # m
  BY DEF IsFirst
<1>2. NewIsNew' /\ IdleIsEmpty' /\ Isolation'
  BY <1>1 DEF NewIsNew, IdleIsEmpty, Isolation, Taken, Sending
<1>3. SentIsSent'
  BY <1>1 DEF SentIsSent, JustSent
<1>4. RestIsSettled'
  BY <1>1 DEF RestIsSettled, Settled, Taken
<1>5. HandlersAreFresh'
  <2> SUFFICES ASSUME NEW q \in Process, NEW n \in Calm', n \in task[q].batch
               PROVE  Fresh(q, n)'
    BY <1>1 DEF HandlersAreFresh
  <2>1. Fresh(q, n) /\ n # m
    BY <1>1 DEF HandlersAreFresh
  <2>2. CASE q = p
    <3>1. ~IsFirst(n, task[p].batch)
      BY <2>1, <2>2, <1>1, FirstIsOne DEF Task
    <3> QED
      BY <2>1, <2>2, <3>1, <1>1 DEF Fresh, JustSent, Sending
  <2>3. CASE q # p
    BY <2>1, <2>3, <1>1 DEF Fresh, JustSent, Settled
  <2> QED
    BY <2>2, <2>3
<1> QED
  BY <1>2, <1>3, <1>4, <1>5

LEMMA MarkInv ==
  ASSUME MailInv, NEW p \in Process, NEW m \in Message, Mark(p, m)
  PROVE  MailInv'
<1> USE DEF MailInv, MailTypeOK, Tables, history
<1>1. MailTypeOK'
  BY TypeStep DEF MailNext, WorkOn
<1>2. /\ m \in task[p].batch /\ task[p].step \in Sending /\ queue[m].status # "NONE"
      /\ m \in Calm => Fresh(p, m)
      /\ JustSent(p, m) => delivered[m] > 0
  BY DEF Mark, IsFirst, Sending, NewIsNew, Taken, HandlersAreFresh, SentIsSent
<1>3. CASE queue[m].status = "GONE"
  <2>1. m \in contested
    BY <1>2, <1>3 DEF Fresh, Calm
  <2>2. Stumble(p, m)
    BY <2>1, <1>2, <1>3, GotoFacts DEF Mark, Stumble, Sending
  <2> QED
    BY <1>1, <2>2, StumbleInv
<1>4. CASE queue[m].status # "GONE"
  <2>1. /\ queue'[m].status = IF task[p].step = "markSent" THEN "SENT" ELSE "FAILED"
        /\ \A n \in Message \ {m} : queue'[n] = queue[n]
        /\ NextInBatch(p, m) /\ UNCHANGED <<delivered, contested>>
    BY <1>4, SetStatusFacts DEF Mark
  <2>2. m \in Calm => Settled(m)'
    BY <1>2, <2>1 DEF Fresh, Settled, JustSent, Mark
  <2>3. LetGo(p, m)
    <3>1. /\ IsFirst(m, task[p].batch)
          /\ queue'[m].status # "NONE"
          /\ queue'[m].status = "SENT" => delivered[m] > 0
      BY <1>2, <2>1 DEF Mark, JustSent
    <3>2. \/ task'[p].step = "idle" /\ task'[p].batch = {}
          \/ task'[p].step = "send" /\ task'[p].batch = task[p].batch \ {m}
      BY <2>1, NextInBatchFacts
    <3>3. \A q \in Process \ {p} : task'[q] = task[q]
      BY <2>1, NextInBatchFacts
    <3> QED
      BY <1>2, <2>1, <2>2, <3>1, <3>2, <3>3 DEF LetGo, Calm, Sending
  <2> QED
    BY <1>1, <2>3, LetGoInv
<1> QED
  BY <1>3, <1>4

LEMMA MarkExceptionInv ==
  ASSUME MailInv, NEW p \in Process, NEW m \in Message, MarkException(p, m)
  PROVE  MailInv'
<1> USE DEF MailInv, MailTypeOK, Tables, history
<1>1. MailTypeOK'
  BY TypeStep DEF MailNext, WorkOn
<1>2. m \in contested /\ m \in task[p].batch /\ queue[m].status # "NONE"
  BY DEF MarkException, HandlersAreFresh, Fresh, IsFirst, Calm, NewIsNew, Taken
<1>3. /\ \/ task'[p].step = "idle" /\ task'[p].batch = {}
         \/ task'[p].step = "send" /\ task'[p].batch = task[p].batch \ {m}
      /\ \A q \in Process \ {p} : task'[q] = task[q]
  BY DoneFacts, NextInBatchFacts DEF MarkException
<1>4. /\ queue'[m].status \in {"GONE", "FAILED"}
      /\ \A n \in Message \ {m} : queue'[n] = queue[n]
  BY SetStatusFacts DEF MarkException
<1>5. LetGo(p, m)
  BY <1>2, <1>3, <1>4 DEF LetGo, MarkException, Sending
<1> QED
  BY <1>1, <1>5, LetGoInv

LEMMA AnswerInv ==
  ASSUME MailInv, NEW p \in Process, NEW m \in Message, Reopen(p, m) \/ Erase(p, m)
  PROVE  MailInv'
<1> USE DEF MailInv, MailTypeOK, Tables, history
<1>1. MailTypeOK'
  BY TypeStep DEF MailNext, WorkOn
<1>2. /\ m \in task[p].batch /\ task[p].step \in {"reopen", "erase"}
      /\ queue[m].status # "NONE" /\ (m \in Calm => Fresh(p, m))
  BY DEF Reopen, Erase, NewIsNew, Taken, HandlersAreFresh
<1>3. /\ task'[p].step = "idle" /\ task'[p].batch = {}
      /\ \A q \in Process \ {p} : task'[q] = task[q]
  BY DoneFacts DEF Reopen, Erase
<1>4. /\ \/ queue'[m].status = "PENDING" /\ task[p].step = "reopen"
         \/ queue'[m].status = "GONE"
      /\ \A n \in Message \ {m} : queue'[n] = queue[n]
      /\ UNCHANGED <<delivered, contested>>
  BY SetStatusFacts DEF Reopen, Erase
<1>5. m \in Calm => Settled(m)'
  BY <1>2, <1>4 DEF Fresh, Settled
<1>6. LetGo(p, m)
  BY <1>2, <1>3, <1>4, <1>5 DEF LetGo, Sending, Calm
<1> QED
  BY <1>1, <1>6, LetGoInv

LEMMA MailFailsInv ==
  ASSUME MailInv, NEW p \in Process, NEW m \in Message, MailFails(p, m)
  PROVE  MailInv'
<1> USE DEF MailInv, MailTypeOK, Tables
<1>1. MailTypeOK'
  BY TypeStep DEF MailNext
<1>2. /\ m \in task[p].batch /\ IsFirst(m, task[p].batch) /\ task[p].step # "idle"
      /\ queue' = queue /\ contested' = contested \cup {m} /\ queue[m].status # "NONE"
      /\ queue[m].status = "SENT" => delivered[m] > 0
  BY DEF MailFails, IsFirst, NewIsNew, Taken, SentIsSent
<1>3. CASE Finish(p) /\ UNCHANGED delivered
  BY <1>1, <1>2, <1>3, DoneFacts, LetGoInv DEF LetGo
<1>4. CASE /\ task[p].step \in {"markSent", "markFailed"}
           /\ Proceed(p, "markException") /\ UNCHANGED delivered
  <2>1. Stumble(p, m)
    BY <1>2, <1>4, GotoFacts DEF Stumble, Sending
  <2> QED
    BY <1>1, <2>1, StumbleInv
<1>5. CASE /\ task[p].step = "send" /\ Proceed(p, "markFailed")
           /\ delivered' = [delivered EXCEPT ![m] = @ + 1]
  <2>1. Stumble(p, m)
    BY <1>2, <1>5, GotoFacts DEF Stumble, Sending
  <2> QED
    BY <1>1, <2>1, StumbleInv
<1> QED
  BY <1>3, <1>4, <1>5 DEF MailFails

----------------------------------------------------------------------------
THEOREM Inductive == MailInv /\ [MailNext]_mailVars => MailInv'
<1> SUFFICES ASSUME MailInv, [MailNext]_mailVars PROVE MailInv'
  OBVIOUS
<1>1. CASE MailNext
  BY <1>1, QueueEmailInv, FallDueInv, ProcessPendingInv, BeginInv, CleanInv, SendEmailInv,
     MarkInv, MarkExceptionInv, AnswerInv, MailFailsInv DEF MailNext, WorkOn
<1>2. CASE UNCHANGED mailVars
  BY <1>2 DEF mailVars, MailInv, MailTypeOK, NewIsNew, IdleIsEmpty, Isolation, HandlersAreFresh,
     RestIsSettled, SentIsSent, Fresh, Settled, JustSent, Taken, Calm
<1> QED
  BY <1>1, <1>2

THEOREM MailInvariance == MailSpec => []MailInv
BY MailInitInv, Inductive, PTL DEF MailSpec

\* Every row and every handler is of its type.
THEOREM MailTypeCorrect == MailSpec => []MailTypeOK
<1>1. MailInv => MailTypeOK
  BY DEF MailInv
<1> QED
  BY <1>1, MailInvariance, PTL

\* The status of a message that no two handlers met on says whether it was delivered, and a
\* SENT message was sent at least once in any case.
THEOREM StatusCorrect == MailSpec => []StatusIsTrue
<1>1. MailInv => StatusIsTrue
  BY DEF MailInv, RestIsSettled, SentIsSent, StatusIsTrue, Settled, Calm
<1> QED
  BY <1>1, MailInvariance, PTL

----------------------------------------------------------------------------
\* A calm message was delivered at most once, and if it is SENT, once.
LEMMA CalmFate ==
  ASSUME MailInv, NEW m \in Message \ contested
  PROVE  /\ delivered[m] \in {0, 1}
         /\ queue[m].status = "SENT" => delivered[m] = 1
<1>1. CASE ~Taken(m)
  BY <1>1 DEF MailInv, MailTypeOK, RestIsSettled, Settled, Calm
<1>2. CASE Taken(m)
  <2>1. PICK p \in Process : m \in task[p].batch
    BY <1>2 DEF Taken
  <2>2. Fresh(p, m) /\ task[p].step \in Sending \cup {"reopen", "erase"}
    BY <2>1 DEF MailInv, MailTypeOK, Task, HandlersAreFresh, Calm, IdleIsEmpty
  <2> QED
    BY <2>2 DEF Fresh, Settled, MailInv, MailTypeOK
<1> QED
  BY <1>1, <1>2

\* The messages of S become contested, and the others keep their fate.
LEMMA ContestStep ==
  ASSUME NEW S \in SUBSET Message, contested' = contested \cup S,
         \A n \in Message \ (contested \cup S) : queue'[n].status = queue[n].status
                                                 /\ delivered'[n] = delivered[n]
  PROVE  Promise!Next
<1>1. \A n \in Message : FateOf(n)' = IF n \in S THEN "contested" ELSE FateOf(n)
  BY DEF FateOf
<1>2. Promise!Contest(S)
  BY <1>1 DEF Promise!Contest, Fates
<1> QED
  BY <1>2 DEF Promise!Next

\* One message changes, and if it is calm its fate does as Outbox allows.
LEMMA OneStep ==
  ASSUME contested' = contested, NEW m \in Message,
         \A n \in Message \ {m} : queue'[n].status = queue[n].status
                                  /\ delivered'[n] = delivered[n],
         m \notin contested =>
           \/ FateOf(m)' = FateOf(m)
           \/ FateOf(m) = "none" /\ FateOf(m)' = "waiting"
           \/ FateOf(m) = "waiting" /\ FateOf(m)' \in {"delivered", "refused", "dropped"}
           \/ FateOf(m) = "refused" /\ FateOf(m)' \in {"waiting", "dropped"}
  PROVE  Promise!Next \/ UNCHANGED Fates
<1>1. \A n \in Message \ {m} : FateOf(n)' = FateOf(n)
  BY DEF FateOf
<1>2. CASE FateOf(m)' = FateOf(m)
  BY <1>1, <1>2 DEF Fates
<1>3. CASE FateOf(m)' # FateOf(m)
  <2>1. m \notin contested
    BY <1>3 DEF FateOf
  <2>2. \/ Promise!Queue(m) \/ Promise!Deliver(m) \/ Promise!Refuse(m)
        \/ Promise!Retry(m) \/ Promise!Drop(m)
    BY <1>1, <1>3, <2>1 DEF Promise!Queue, Promise!Deliver, Promise!Refuse, Promise!Retry,
       Promise!Drop, Promise!Becomes, Fates
  <2> QED
    BY <2>2 DEF Promise!Next
<1> QED
  BY <1>2, <1>3

LEMMA RefinesStep ==
  ASSUME MailInv, MailInv', [MailNext]_mailVars
  PROVE  Promise!Next \/ UNCHANGED Fates
<1> DEFINE Same == UNCHANGED Fates
<1> USE DEF MailInv, MailTypeOK, Tables, history
<1>1. ASSUME NEW m \in Message, NEW due \in BOOLEAN, QueueEmail(m, due)
      PROVE  Promise!Next \/ Same
  <2>1. /\ queue[m].status = "NONE" /\ queue'[m].status = "PENDING"
        /\ \A n \in Message \ {m} : queue'[n] = queue[n]
        /\ delivered[m] = 0
    BY <1>1 DEF QueueEmail, IsFirst, NewIsNew
  <2> QED
    BY <1>1, <2>1, OneStep DEF QueueEmail, FateOf
<1>2. ASSUME NEW m \in Message, FallDue(m) PROVE Promise!Next \/ Same
  <2>1. \A n \in Message : queue'[n].status = queue[n].status
    BY <1>2 DEF FallDue, Row
  <2> QED
    BY <1>2, <2>1 DEF FallDue, FateOf, Fates
<1>3. ASSUME NEW p \in Process, NEW s \in {"send", "reopen", "erase"},
             NEW batch \in SUBSET Message, TakeUp(p, s, batch)
      PROVE  Promise!Next \/ Same
  BY <1>3, ContestStep, {m \in batch : Taken(m)} \in SUBSET Message DEF TakeUp
<1>4. ASSUME NEW p \in Run, ProcessPending(p) PROVE Promise!Next \/ Same
  BY <1>3, <1>4 DEF ProcessPending, Pending, Process
<1>5. ASSUME NEW p \in Command, Begin(p) PROVE Promise!Next \/ Same
  BY <1>3, <1>5 DEF Begin, RetryMessage, DeleteMessage, Process
<1>6. ASSUME NEW old \in SUBSET Message, CleanOldMessages(old) PROVE Promise!Next \/ Same
  <2>1. \A n \in Message : \/ queue'[n].status = queue[n].status
                           \/ queue[n].status = "SENT" /\ queue'[n].status = "GONE"
    BY <1>6 DEF CleanOldMessages, Row
  <2>2. UNCHANGED <<delivered, contested>>
    BY <1>6 DEF CleanOldMessages
  <2>3. \A n \in Message : FateOf(n)' = FateOf(n)
    BY <2>1, <2>2, CalmFate DEF FateOf
  <2> QED
    BY <2>3 DEF Fates
<1>7. ASSUME NEW p \in Process, NEW m \in Message, SendEmail(p, m)
      PROVE  Promise!Next \/ Same
  <2>1. m \notin contested => queue[m].status = "PENDING" /\ delivered[m] = 0
    BY <1>7 DEF SendEmail, IsFirst, HandlersAreFresh, Calm, Fresh, JustSent, Sending
  <2> QED
    BY <1>7, <2>1, OneStep DEF SendEmail, FateOf
<1>8. ASSUME NEW p \in Process, NEW m \in Message, Mark(p, m) \/ MarkException(p, m)
      PROVE  Promise!Next \/ Same
  <2>1. m \notin contested =>
          /\ queue[m].status = "PENDING"
          /\ task[p].step # "markException"
          /\ delivered[m] = IF task[p].step = "markSent" THEN 1 ELSE 0
    BY <1>8 DEF Mark, MarkException, IsFirst, HandlersAreFresh, Calm, Fresh, JustSent, Sending
  <2>2. /\ \A n \in Message \ {m} : queue'[n] = queue[n]
        /\ UNCHANGED <<delivered, contested>>
    BY <1>8, SetStatusFacts DEF Mark, MarkException
  <2>3. m \notin contested =>
          queue'[m].status = IF task[p].step = "markSent" THEN "SENT" ELSE "FAILED"
    BY <1>8, <2>1, SetStatusFacts DEF Mark, MarkException
  <2> QED
    BY <2>1, <2>2, <2>3, OneStep DEF FateOf
<1>9. ASSUME NEW p \in Process, NEW m \in Message, Reopen(p, m) \/ Erase(p, m)
      PROVE  Promise!Next \/ Same
  <2>1. m \notin contested => Fresh(p, m)
    BY <1>9 DEF Reopen, Erase, HandlersAreFresh, Calm
  <2>2. /\ \A n \in Message \ {m} : queue'[n] = queue[n]
        /\ UNCHANGED <<delivered, contested>>
    BY <1>9, SetStatusFacts DEF Reopen, Erase
  <2>3. m \notin contested =>
          /\ Settled(m) /\ queue[m].status # "NONE"
          /\ \/ queue[m].status = "FAILED" /\ queue'[m].status = "PENDING"
             \/ queue'[m].status = "GONE"
    BY <1>9, <2>1, SetStatusFacts DEF Reopen, Erase, Fresh, NewIsNew, Taken
  <2>4. m \notin contested => delivered[m] \in {0, 1} /\ queue[m].status \in
                                {"PENDING", "SENT", "FAILED", "GONE"}
    BY <2>3, CalmFate DEF Row
  <2> QED
    BY <2>2, <2>3, <2>4, OneStep DEF FateOf, Settled
<1>10. ASSUME NEW p \in Process, NEW m \in Message, MailFails(p, m)
       PROVE  Promise!Next \/ Same
  BY <1>10, ContestStep, {m} \in SUBSET Message DEF MailFails
<1>11. CASE UNCHANGED mailVars
  BY <1>11 DEF mailVars, FateOf, Fates
<1> QED
  BY <1>1, <1>2, <1>4, <1>5, <1>6, <1>7, <1>8, <1>9, <1>10, <1>11 DEF MailNext, WorkOn

\* Whatever handlers meet and fail, the queue keeps the promise of Outbox: each message is
\* delivered at most once, never after it was dropped, and tried again only if it was not
\* delivered, until it is contested.
THEOREM PromiseKept == MailSpec => KeepsPromise
<1>1. MailInit => Promise!Init
  BY DEF MailInit, Promise!Init, FateOf, Fates, NoRow
<1>2. MailInv /\ MailInv' /\ [MailNext]_mailVars => [Promise!Next]_Fates
  BY RefinesStep
<1> QED
  BY <1>1, <1>2, MailInvariance, PTL DEF MailSpec, KeepsPromise, Promise!Spec

==============================================================================
