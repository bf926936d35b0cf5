------------------------------ MODULE Accounts ------------------------------
(***************************************************************************)
(* Users live in two stores, PostgreSQL and Firebase, that no transaction  *)
(* spans: registration writes first one and then the other and undoes the  *)
(* first when something fails.  Deletion goes the other way round.  After  *)
(* the answer a promise nobody awaits mails the code that verifies the     *)
(* email.  The telephone, the preferences and the transfers registration   *)
(* takes over (TicketTransfer) are left out; tokens outlive accounts.      *)
(***************************************************************************)
EXTENDS Naturals

CONSTANTS
  User,       \* ids of User
  Uid,        \* ids of Firebase accounts
  Email,
  Request,    \* slots for handlers in flight
  None,
  MaxFaults,  \* bound on failures
  MaxRequests \* bound on requests

ASSUME NoneAssumption == None \notin User \cup Uid \cup Email
ASSUME BoundsAssumption == MaxFaults \in Nat /\ MaxRequests \in Nat

VARIABLES
  user,      \* the User table
  firebase,  \* the accounts of Firebase
  proc,      \* what every handler in flight has read and where it is
  mailed,    \* history: the code in the last email to a user, 0 for none or once it was used
  disturbed, \* history: users and accounts on which two handlers met, that lost a half, or
             \* that were joined or given a code by hand
  codes,     \* history: number of codes drawn so far
  faults,    \* history: number of failures so far
  requests   \* history: number of requests so far

stores == <<user, firebase>>
vars == <<stores, proc, mailed, disturbed, codes, faults, requests>>

----------------------------------------------------------------------------
\* code is email_verification_code, 0 for none; the code's five minutes are left out, as
\* it can always fail to be entered.
UserRow == [status: {"none", "live", "gone"}, email: Email \cup {None}, uid: Uid \cup {None},
            code: Nat, verified: BOOLEAN]

NoUser == [status |-> "none", email |-> None, uid |-> None, code |-> 0, verified |-> FALSE]

\* claims names the user in the tokens of the account.
Account == [status: {"none", "live", "gone"}, email: Email \cup {None},
            claims: User \cup {None}, social: BOOLEAN]

NoAccount == [status |-> "none", email |-> None, claims |-> None, social |-> FALSE]

\* step is the next call of the handler.
Step == {"idle", "firebase", "insert", "claims", "rollback", "code", "mail", "verify", "drop"}

Handler == [step: Step, user: User \cup {None}, uid: Uid \cup {None},
            email: Email \cup {None}, code: Nat, byAdmin: BOOLEAN]

Idle == [step |-> "idle", user |-> None, uid |-> None, email |-> None, code |-> 0,
         byAdmin |-> FALSE]

Live(u) == user[u].status = "live"
HasEmail(u, e) == Live(u) /\ user[u].email = e
HasUid(u, x) == Live(u) /\ user[u].uid = x
InFirebase(x) == firebase[x].status = "live"
EmailInFirebase(e) == \E x \in Uid : InFirebase(x) /\ firebase[x].email = e

Held(x) == x # None /\ \E p \in Request : x \in {proc[p].user, proc[p].uid}
Meets(S) == {x \in S : Held(x)}

Init ==
  /\ user = [u \in User |-> NoUser]
  /\ firebase = [x \in Uid |-> NoAccount]
  /\ proc = [p \in Request |-> Idle]
  /\ mailed = [u \in User |-> 0]
  /\ disturbed = {}
  /\ codes = 0
  /\ faults = 0
  /\ requests = 0

Goto(p, step) == proc' = [proc EXCEPT ![p].step = step]
Done(p) == proc' = [proc EXCEPT ![p] = Idle]
Start(p, h) == proc[p].step = "idle" /\ proc' = [proc EXCEPT ![p] = h]

----------------------------------------------------------------------------
\* Somebody signs in with Google or Apple for the first time: the client makes the
\* account, one for an email, and the backend hears of it later.
SignInSocial(x, e) ==
  /\ firebase[x] = NoAccount
  /\ ~EmailInFirebase(e)
  /\ firebase' = [firebase EXCEPT ![x] = [NoAccount EXCEPT !.status = "live", !.email = e,
                                                           !.social = TRUE]]
  /\ UNCHANGED <<user, proc, mailed, disturbed, codes, faults>>

\* register, with email and password, by the user or by an administrator.
Register(p, e, byAdmin) ==
  /\ \A u \in User : ~HasEmail(u, e)
  /\ Start(p, [Idle EXCEPT !.step = "firebase", !.email = e, !.byAdmin = byAdmin])
  /\ UNCHANGED <<stores, mailed, disturbed, codes, faults>>

\* createUser refuses an email that has an account; nothing is undone then, as there is no
\* uid yet.
\* Variant: the account of the email is taken over.
CreateOrGetFirebaseUser(p) ==
  /\ proc[p].step = "firebase"
  /\ \E x \in Uid :
       /\ IF EmailInFirebase(proc[p].email)
          THEN InFirebase(x) /\ firebase[x].email = proc[p].email
          ELSE firebase[x] = NoAccount
       /\ firebase' = [firebase EXCEPT ![x] = [@ EXCEPT !.status = "live",
                                                        !.email = proc[p].email]]
       /\ proc' = [proc EXCEPT ![p] = [@ EXCEPT !.step = "insert", !.uid = x]]
  /\ UNCHANGED <<user, mailed, disturbed, codes, faults, requests>>

CreateFirebaseUser(p) ==
  /\ proc[p].step = "firebase"
  /\ IF EmailInFirebase(proc[p].email) THEN Done(p) /\ UNCHANGED firebase
     ELSE \E x \in Uid :
            /\ firebase[x] = NoAccount
            /\ firebase' = [firebase EXCEPT ![x] =
                 [NoAccount EXCEPT !.status = "live", !.email = proc[p].email]]
            /\ proc' = [proc EXCEPT ![p] = [@ EXCEPT !.step = "insert", !.uid = x]]
  /\ UNCHANGED <<user, mailed, disturbed, codes, faults, requests>>

\* register, with a token: an account that has a user already is refused, and an error
\* undoes it, although this registration did not make it.
RegisterSocial(p, x, byAdmin) ==
  LET known == \E u \in User : HasUid(u, x) IN
  /\ firebase[x].status # "none"
  /\ Start(p, [Idle EXCEPT !.step = IF known THEN "rollback" ELSE "insert", !.uid = x,
                           !.email = firebase[x].email, !.byAdmin = byAdmin])
  /\ disturbed' = disturbed \cup Meets({x}) \cup (IF known \/ ~InFirebase(x) THEN {x} ELSE {})
  /\ UNCHANGED <<stores, mailed, codes, faults>>

\* Email and firebase_uid are unique in the table.
InsertUser(p) ==
  LET h == proc[p] IN
  /\ h.step = "insert"
  /\ IF \E u \in User : HasEmail(u, h.email) \/ HasUid(u, h.uid)
     THEN Goto(p, "rollback") /\ UNCHANGED user
     ELSE \E u \in User :
            /\ user[u] = NoUser
            /\ user' = [user EXCEPT ![u] = [NoUser EXCEPT !.status = "live",
                                              !.email = h.email, !.uid = h.uid]]
            /\ proc' = [proc EXCEPT ![p] = [h EXCEPT !.step = "claims", !.user = u]]
  /\ UNCHANGED <<firebase, mailed, disturbed, codes, faults, requests>>

\* Fails when the account is gone.  Then the answer is sent and the email follows; the
\* invitation of an administrator carries no code.
\* Variant: nothing follows.
SetClaimsOnly(p) ==
  LET h == proc[p] IN
  /\ h.step = "claims"
  /\ IF InFirebase(h.uid)
     THEN firebase' = [firebase EXCEPT ![h.uid].claims = h.user] /\ Done(p)
     ELSE UNCHANGED firebase /\ Goto(p, "rollback")
  /\ UNCHANGED <<user, mailed, disturbed, codes, faults, requests>>

SetClaims(p) ==
  LET h == proc[p] IN
  /\ h.step = "claims"
  /\ IF InFirebase(h.uid)
     THEN /\ firebase' = [firebase EXCEPT ![h.uid].claims = h.user]
          /\ IF h.byAdmin THEN Done(p) ELSE Goto(p, "code")
     ELSE UNCHANGED firebase /\ Goto(p, "rollback")
  /\ UNCHANGED <<user, mailed, disturbed, codes, faults, requests>>

\* deleteUser; that the account is gone already is fine.
Rollback(p) ==
  /\ proc[p].step = "rollback"
  /\ firebase' = [firebase EXCEPT ![proc[p].uid].status = "gone"]
  /\ Done(p)
  /\ UNCHANGED <<user, mailed, disturbed, codes, faults, requests>>

----------------------------------------------------------------------------
\* resendVerificationEmail; the steps after it are those of a registration.
Resend(p, u) ==
  /\ Live(u)
  /\ ~user[u].verified
  /\ Start(p, [Idle EXCEPT !.step = "code", !.user = u])
  /\ disturbed' = disturbed \cup Meets({u})
  /\ UNCHANGED <<stores, mailed, codes, faults>>

\* A new code over the last one; an update of a deleted user fails.
\* Variant: a code that is there already stays.
StoreCodeOnce(p) ==
  LET u == proc[p].user IN
  /\ proc[p].step = "code"
  /\ IF Live(u)
     THEN /\ codes' = codes + 1
          /\ user' = [user EXCEPT ![u].code = IF @ = 0 THEN codes + 1 ELSE @]
          /\ proc' = [proc EXCEPT ![p] = [@ EXCEPT !.step = "mail", !.code = codes + 1]]
     ELSE Done(p) /\ UNCHANGED <<user, codes>>
  /\ UNCHANGED <<firebase, mailed, disturbed, faults, requests>>

StoreCode(p) ==
  LET u == proc[p].user IN
  /\ proc[p].step = "code"
  /\ IF Live(u)
     THEN /\ codes' = codes + 1
          /\ user' = [user EXCEPT ![u].code = codes + 1]
          /\ proc' = [proc EXCEPT ![p] = [@ EXCEPT !.step = "mail", !.code = codes + 1]]
     ELSE Done(p) /\ UNCHANGED <<user, codes>>
  /\ UNCHANGED <<firebase, mailed, disturbed, faults, requests>>

QueueCode(p) ==
  LET h == proc[p] IN
  /\ h.step = "mail"
  /\ mailed' = IF Live(h.user) THEN [mailed EXCEPT ![h.user] = h.code] ELSE mailed
  /\ Done(p)
  /\ UNCHANGED <<stores, disturbed, codes, faults, requests>>

\* verifyEmailCode, with the code of the row.
VerifyEmailCode(p, u) ==
  /\ Live(u)
  /\ ~user[u].verified
  /\ user[u].code # 0
  /\ Start(p, [Idle EXCEPT !.step = "verify", !.user = u])
  /\ disturbed' = disturbed \cup Meets({u})
  /\ UNCHANGED <<stores, mailed, codes, faults>>

MarkVerified(p) ==
  LET u == proc[p].user IN
  /\ proc[p].step = "verify"
  /\ IF Live(u) THEN /\ user' = [user EXCEPT ![u].verified = TRUE, ![u].code = 0]
                     /\ mailed' = [mailed EXCEPT ![u] = 0]
                ELSE UNCHANGED <<user, mailed>>
  /\ Done(p)
  /\ UNCHANGED <<firebase, disturbed, codes, faults, requests>>

----------------------------------------------------------------------------
\* deleteAccount: the user, unless a row refers to him, and then the account.
DeleteAccount(p, u) ==
  /\ Live(u)
  /\ user' = [user EXCEPT ![u].status = "gone"]
  /\ Start(p, [Idle EXCEPT !.step = "drop", !.user = u, !.uid = user[u].uid])
  /\ disturbed' = disturbed \cup Meets({u, user[u].uid})
  /\ UNCHANGED <<firebase, mailed, codes, faults>>

DropAccount(p) ==
  /\ proc[p].step = "drop"
  /\ firebase' = [firebase EXCEPT ![proc[p].uid].status = "gone"]
  /\ Done(p)
  /\ UNCHANGED <<user, mailed, disturbed, codes, faults, requests>>

\* PAYPAC deletes a user: his account stays.
DeleteUser(u) ==
  /\ Live(u)
  /\ user' = [user EXCEPT ![u].status = "gone"]
  /\ disturbed' = disturbed \cup {u, user[u].uid}
  /\ UNCHANGED <<firebase, proc, mailed, codes, faults>>

\* updateUser writes what the body has, to the row only: the email, verified_user, and
\* the account or the code as well.
UpdateUser(u, e, verified) ==
  /\ Live(u)
  /\ \A v \in User \ {u} : ~HasEmail(v, e)
  /\ user' = [user EXCEPT ![u].email = e, ![u].verified = verified]
  /\ UNCHANGED <<firebase, proc, mailed, disturbed, codes, faults>>

Relink(u, x, n) ==
  /\ Live(u)
  /\ firebase[x].status # "none"
  /\ \A v \in User \ {u} : ~HasUid(v, x)
  /\ user' = [user EXCEPT ![u].uid = x, ![u].code = n]
  /\ disturbed' = disturbed \cup {u, user[u].uid, x}
  /\ UNCHANGED <<firebase, proc, mailed, codes, faults>>

----------------------------------------------------------------------------
\* A call fails, which a registration undoes once it has the uid, or the process stops,
\* which nothing undoes.
Fail(p) ==
  LET h == proc[p] IN
  /\ h.step # "idle"
  /\ faults < MaxFaults
  /\ faults' = faults + 1
  /\ disturbed' = disturbed \cup ({h.user, h.uid} \ {None})
  /\ \/ Done(p)
     \/ h.step \in {"insert", "claims"} /\ Goto(p, "rollback")
  /\ UNCHANGED <<stores, mailed, codes, requests>>

Ask ==
  /\ requests < MaxRequests
  /\ requests' = requests + 1
  /\ \/ \E x \in Uid, e \in Email : SignInSocial(x, e)
     \/ \E u \in User :
          \/ DeleteUser(u)
          \/ \E e \in Email, verified \in BOOLEAN : UpdateUser(u, e, verified)
          \/ \E x \in Uid, n \in {0, codes} : Relink(u, x, n)
     \/ \E p \in Request :
          \/ \E u \in User : Resend(p, u) \/ VerifyEmailCode(p, u) \/ DeleteAccount(p, u)
          \/ \E byAdmin \in BOOLEAN :
               \/ \E e \in Email : Register(p, e, byAdmin)
               \/ \E x \in Uid : RegisterSocial(p, x, byAdmin)

Continue(p) ==
  \/ CreateFirebaseUser(p) \/ InsertUser(p) \/ SetClaims(p) \/ Rollback(p)
  \/ StoreCode(p) \/ QueueCode(p) \/ MarkVerified(p) \/ DropAccount(p)

Next == Ask \/ \E p \in Request : Continue(p) \/ Fail(p)

Spec == Init /\ [][Next]_vars

\* A promise is never abandoned, and a call ends in an answer or an error.
FairSpec == Spec /\ \A p \in Request : WF_vars(Continue(p))

----------------------------------------------------------------------------
TypeOK ==
  /\ user \in [User -> UserRow]
  /\ firebase \in [Uid -> Account]
  /\ proc \in [Request -> Handler]
  /\ mailed \in [User -> Nat]
  /\ disturbed \subseteq User \cup Uid
  /\ codes \in Nat
  /\ faults \in 0..MaxFaults
  /\ requests \in 0..MaxRequests

\* The two stores agree when nobody is at work on them: a user can sign in with an account
\* whose claims name him, and an account made for a password has its user, so that its
\* email is not lost.  An account is excepted when a handler failed on it, two met on it,
\* PAYPAC deleted its user, or it was registered again: then the rollback takes it
\* away from the user who has it; or a request's body joined a user to it.
StoresAgree ==
  /\ \A u \in User : LET x == user[u].uid IN
       Live(u) /\ ~Held(u) /\ ~Held(x) /\ {u, x} \cap disturbed = {}
         => InFirebase(x) /\ firebase[x].claims = u
  /\ \A x \in Uid :
       InFirebase(x) /\ ~firebase[x].social /\ ~Held(x) /\ x \notin disturbed
         => \E u \in User : HasUid(u, x)

\* The code in the last email a user got, until he uses it, is the one that verifies him,
\* whether it was the registration or a repetition that mailed it, and whatever an update
\* makes of his email and of verified_user meanwhile, unless two of these overlapped or the
\* update wrote the code itself; once it was used no code does.
CodeWorks ==
  \A u \in User : Live(u) /\ ~Held(u) /\ u \notin disturbed => user[u].code = mailed[u]

\* Whoever registers by himself gets a code, although nobody waits for what registration
\* does after its answer, unless a handler fails, or he or his account is deleted meanwhile.
CodeIsMailed ==
  \A u \in User :
    (\E p \in Request : proc[p].step = "claims" /\ proc[p].user = u /\ ~proc[p].byAdmin)
      ~> mailed[u] # 0 \/ faults > 0 \/ ~Live(u) \/ user[u].uid \in disturbed
=============================================================================
