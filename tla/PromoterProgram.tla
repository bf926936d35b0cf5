--------------------------- MODULE PromoterProgram ---------------------------
(***************************************************************************)
(* The promoter programme: a user applies, PAYPAC reviews, a promoter gets *)
(* a code that PAYPAC can switch or delete, and the commissions of sales   *)
(* (inserted by Checkout) are paid out and refunded.  Every handler reads  *)
(* its rows, decides, and writes in a later statement.  createBalance and  *)
(* the cut-off date are left out: nobody calls the one or reads the other. *)
(***************************************************************************)
EXTENDS Integers

CONSTANTS
  Promoter,    \* users who are or may become promoters
  Application, \* ids of PromoterRequest
  Code,        \* texts of promoter codes
  Balance,     \* ids of EventBalancePromoters
  Invoice,     \* ids of Invoice
  Request,     \* slots for handlers in flight
  None,
  MaxFaults,   \* bound on failures
  MaxRequests  \* bound on requests

ASSUME PromoterNoneAssumption ==
  None \notin Promoter \cup Application \cup Code \cup Balance \cup Invoice
ASSUME PromoterBoundsAssumption == MaxFaults \in Nat /\ MaxRequests \in Nat

VARIABLES
  role,         \* User.role
  application,  \* the PromoterRequest table
  appointed,    \* history: users whose role was written by hand
  code,         \* the PromoterCode table
  promoterCode, \* Invoice.promoter_code_id, a foreign key
  balance,      \* the EventBalancePromoters table
  desk,         \* what every handler in flight has read and where it is
  payouts,      \* history: how many handlers reported a balance as paid
  crossed,      \* history: the rows on which two handlers met
  faults,       \* history: number of failures so far
  requests      \* history: number of requests so far

people == <<role, application, appointed>>
money == <<balance, payouts>>
promoterVars == <<people, code, promoterCode, money, desk, crossed>>

----------------------------------------------------------------------------
NoApplication == [user |-> None, status |-> "none"]
NoCode == [owner |-> None, status |-> "none"]

\* invoice is None for a refund; PENDING is 0 and PAID 1 in the code.
NoBalance == [status |-> "none", owner |-> None, amount |-> 0, invoice |-> None]

\* What a handler works on is one row, or the set of balances of a list.
Row == ({"user", "owner"} \X Promoter) \cup ({"application"} \X Application)
       \cup ({"code"} \X Code) \cup ({"balance"} \X Balance)

Clerk == [step: {"idle", "apply", "approve", "reject", "create", "toggle", "delete", "pay",
                 "refund"},
          rows: SUBSET Row, user: Promoter \cup {None}, code: Code \cup {None},
          status: {"none", "active", "inactive"}]

Idle == [step |-> "idle", rows |-> {}, user |-> None, code |-> None, status |-> "none"]

ApplicationsOf(u, status) ==
  {a \in Application : application[a] = [user |-> u, status |-> status]}

AtMostOne(S) == \A x, y \in S : x = y

CodesOf(u) == {c \in Code : code[c].owner = u}
Exists(c) == code[c].owner # None

----------------------------------------------------------------------------
\* A user has the role by an approved application, or was registered with it, as register
\* stores the role it is given; promoters may have a code, and then one balance of a sale
\* from before.
PromoterInit ==
  /\ application \in [Application -> {NoApplication}
                        \cup [user: Promoter, status: {"PENDING", "APPROVED"}]]
  /\ \A u \in Promoter : AtMostOne(ApplicationsOf(u, "PENDING")
                                   \cup ApplicationsOf(u, "APPROVED"))
  /\ role \in [Promoter -> {"CUSTOMER", "PROMOTER"}]
  /\ \A u \in Promoter : ApplicationsOf(u, "APPROVED") # {} => role[u] = "PROMOTER"
  /\ appointed = {u \in Promoter : role[u] = "PROMOTER" /\ ApplicationsOf(u, "APPROVED") = {}}
  /\ code \in [Code -> {NoCode} \cup [owner: Promoter, status: {"active"}]]
  /\ \A u \in Promoter :
       AtMostOne(CodesOf(u)) /\ (CodesOf(u) # {} => role[u] = "PROMOTER")
  /\ promoterCode = [i \in Invoice |-> None]
  /\ balance \in [Balance -> {NoBalance} \cup [status: {"PENDING"}, owner: Promoter,
                                               amount: {1}, invoice: {None}]]
  /\ AtMostOne({b \in Balance : balance[b] # NoBalance})
  /\ \A b \in Balance : balance[b] # NoBalance => CodesOf(balance[b].owner) # {}
  /\ desk = [p \in Request |-> Idle]
  /\ payouts = [b \in Balance |-> 0]
  /\ crossed = {}

\* Handler p read the rows of h and goes on as h.
Start(p, h) ==
  /\ desk[p].step = "idle"
  /\ desk' = [desk EXCEPT ![p] = h]
  /\ crossed' = crossed \cup (h.rows \cap UNION {desk[q].rows : q \in Request})
  /\ UNCHANGED <<people, code, promoterCode, money, faults>>

Done(p) == desk' = [desk EXCEPT ![p] = Idle]

----------------------------------------------------------------------------
\* apply: no promoter applies, and nobody with a pending application.
Apply(p, u) ==
  /\ role[u] # "PROMOTER"
  /\ ApplicationsOf(u, "PENDING") = {}
  /\ Start(p, [Idle EXCEPT !.step = "apply", !.user = u, !.rows = {<<"user", u>>}])

InsertApplication(p) ==
  /\ desk[p].step = "apply"
  /\ \E a \in Application :
       /\ application[a] = NoApplication
       /\ application' = [application EXCEPT ![a] = [user |-> desk[p].user,
                                                     status |-> "PENDING"]]
  /\ Done(p)
  /\ UNCHANGED <<role, appointed, code, promoterCode, money, crossed, faults, requests>>

\* approve and reject: only a pending application is reviewed.
\* Variant: the status is not looked at.
ReviewAgain(p, a, verdict) ==
  /\ application[a].status # "none"
  /\ Start(p, [Idle EXCEPT !.step = verdict, !.user = application[a].user,
                           !.rows = {<<"application", a>>}])

Review(p, a, verdict) ==
  /\ application[a].status = "PENDING"
  /\ Start(p, [Idle EXCEPT !.step = verdict, !.user = application[a].user,
                           !.rows = {<<"application", a>>}])

\* The role and the status in one transaction.
WriteApproval(p, a) ==
  /\ desk[p].step = "approve"
  /\ desk[p].rows = {<<"application", a>>}
  /\ role' = [role EXCEPT ![desk[p].user] = "PROMOTER"]
  /\ application' = [application EXCEPT ![a].status = "APPROVED"]
  /\ Done(p)
  /\ UNCHANGED <<appointed, code, promoterCode, money, crossed, faults, requests>>

\* A rejection leaves the role as it is.
WriteRejection(p, a) ==
  /\ desk[p].step = "reject"
  /\ desk[p].rows = {<<"application", a>>}
  /\ application' = [application EXCEPT ![a].status = "REJECTED"]
  /\ Done(p)
  /\ UNCHANGED <<role, appointed, code, promoterCode, money, crossed, faults, requests>>

\* PAYPAC updates a user with the role in the body: no application is read or written.
UpdateUser(u, r) ==
  /\ role' = [role EXCEPT ![u] = r]
  /\ appointed' = appointed \cup {u}
  /\ UNCHANGED <<application, code, promoterCode, money, desk, crossed, faults>>

----------------------------------------------------------------------------
\* createCode, by the promoter or by PAYPAC (for anybody): one code per promoter, and the
\* text not in use.  A row is known by its text; deleted rows do not come back.
CreateCode(p, u, c) ==
  /\ CodesOf(u) = {}
  /\ code[c] = NoCode
  /\ Start(p, [Idle EXCEPT !.step = "create", !.user = u, !.code = c,
                           !.rows = {<<"owner", u>>}])

\* The text is unique in the table: the second insert of one fails.
InsertCode(p) ==
  LET h == desk[p] IN
  /\ h.step = "create"
  /\ code' = IF code[h.code] = NoCode
             THEN [code EXCEPT ![h.code] = [owner |-> h.user, status |-> "active"]]
             ELSE code
  /\ Done(p)
  /\ UNCHANGED <<people, promoterCode, money, crossed, faults, requests>>

\* toggleActive and deleteCode.
TouchCode(p, c, step) ==
  /\ Exists(c)
  /\ Start(p, [Idle EXCEPT !.step = step, !.code = c, !.rows = {<<"code", c>>},
                           !.status = code[c].status])

\* The opposite of what was read; an update of a deleted row fails.
WriteToggle(p) ==
  LET h == desk[p] IN
  /\ h.step = "toggle"
  /\ code' = IF Exists(h.code)
             THEN [code EXCEPT ![h.code].status = IF h.status = "active" THEN "inactive"
                                                                         ELSE "active"]
             ELSE code
  /\ Done(p)
  /\ UNCHANGED <<people, promoterCode, money, crossed, faults, requests>>

\* The foreign key of Invoice refuses to lose a code an invoice names.
WriteDelete(p) ==
  LET h == desk[p] IN
  /\ h.step = "delete"
  /\ code' = IF \E i \in Invoice : promoterCode[i] = h.code THEN code
             ELSE [code EXCEPT ![h.code] = [owner |-> None, status |-> "deleted"]]
  /\ Done(p)
  /\ UNCHANGED <<people, promoterCode, money, crossed, faults, requests>>

----------------------------------------------------------------------------
\* markAsPaid: only a pending balance.
\* Variant: the status is not looked at.
MarkAsPaidAgain(p, b) ==
  /\ balance[b].status # "none"
  /\ Start(p, [Idle EXCEPT !.step = "pay", !.rows = {<<"balance", b>>}])

MarkAsPaid(p, b) ==
  /\ balance[b].status = "PENDING"
  /\ Start(p, [Idle EXCEPT !.step = "pay", !.rows = {<<"balance", b>>}])

\* bulkMarkAsPaid: the balances of the list exist; their status is not looked at.  Those
\* paid already count as met by two handlers.
BulkMarkAsPaid(p, B) ==
  /\ B # {}
  /\ \A b \in B : balance[b].status # "none"
  /\ desk[p].step = "idle"
  /\ desk' = [desk EXCEPT ![p] = [Idle EXCEPT !.step = "pay", !.rows = {"balance"} \X B]]
  /\ crossed' = crossed \cup ({"balance"} \X {b \in B : balance[b].status = "PAID"})
                        \cup (({"balance"} \X B) \cap UNION {desk[q].rows : q \in Request})
  /\ UNCHANGED <<people, code, promoterCode, money, faults>>

\* One update of the row, or of all the rows of the list.
WritePaid(p) ==
  LET B == {b \in Balance : <<"balance", b>> \in desk[p].rows} IN
  /\ desk[p].step = "pay"
  /\ balance' = [b \in Balance |-> IF b \in B THEN [balance[b] EXCEPT !.status = "PAID"]
                                              ELSE balance[b]]
  /\ payouts' = [b \in Balance |-> IF b \in B THEN payouts[b] + 1 ELSE payouts[b]]
  /\ Done(p)
  /\ UNCHANGED <<people, code, promoterCode, crossed, faults, requests>>

\* createRefundBalance: any balance, any number of times.
CreateRefundBalance(p, b) ==
  /\ balance[b].status # "none"
  /\ Start(p, [Idle EXCEPT !.step = "refund", !.rows = {<<"balance", b>>}])

InsertRefund(p, b) ==
  /\ desk[p].step = "refund"
  /\ desk[p].rows = {<<"balance", b>>}
  /\ \E r \in Balance :
       /\ balance[r] = NoBalance
       /\ balance' = [balance EXCEPT ![r] =
                        [status |-> "PENDING", owner |-> balance[b].owner,
                         amount |-> -balance[b].amount, invoice |-> None]]
  /\ Done(p)
  /\ UNCHANGED <<people, code, promoterCode, payouts, crossed, faults, requests>>

----------------------------------------------------------------------------
\* An operation someone asks for; the handlers below it go on by themselves.
AskPromoterDesk ==
  /\ requests < MaxRequests
  /\ requests' = requests + 1
  /\ \/ \E p \in Request :
          \/ \E u \in Promoter : Apply(p, u) \/ \E c \in Code : CreateCode(p, u, c)
          \/ \E a \in Application, verdict \in {"approve", "reject"} : Review(p, a, verdict)
          \/ \E c \in Code, step \in {"toggle", "delete"} : TouchCode(p, c, step)
          \/ \E b \in Balance : MarkAsPaid(p, b) \/ CreateRefundBalance(p, b)
          \/ \E B \in SUBSET Balance : BulkMarkAsPaid(p, B)
     \/ \E u \in Promoter, r \in {"CUSTOMER", "PROMOTER"} : UpdateUser(u, r)

PromoterStep(p) ==
  \/ InsertApplication(p) \/ InsertCode(p) \/ WriteToggle(p) \/ WriteDelete(p) \/ WritePaid(p)
  \/ \E a \in Application : WriteApproval(p, a) \/ WriteRejection(p, a)
  \/ \E b \in Balance : InsertRefund(p, b)

\* The process stops, or the database refuses the write: nothing is written.
FailPromoter(p) ==
  /\ faults < MaxFaults
  /\ desk[p].step # "idle"
  /\ faults' = faults + 1
  /\ Done(p)
  /\ UNCHANGED <<people, code, promoterCode, money, crossed, requests>>

PromoterNext ==
  \/ AskPromoterDesk
  \/ \E p \in Request : PromoterStep(p) \/ FailPromoter(p)

----------------------------------------------------------------------------
PromoterTypeOK ==
  /\ role \in [Promoter -> {"CUSTOMER", "PROMOTER"}]
  /\ application \in [Application -> [user: Promoter \cup {None},
                                      status: {"none", "PENDING", "APPROVED", "REJECTED"}]]
  /\ appointed \subseteq Promoter
  /\ code \in [Code -> [owner: Promoter \cup {None},
                        status: {"none", "active", "inactive", "deleted"}]]
  /\ promoterCode \in [Invoice -> Code \cup {None}]
  /\ balance \in [Balance -> [status: {"none", "PENDING", "PAID"}, owner: Promoter \cup {None},
                              amount: Int, invoice: Invoice \cup {None}]]
  /\ desk \in [Request -> Clerk]
  /\ payouts \in [Balance -> Nat]
  /\ crossed \subseteq Row
  /\ faults \in 0..MaxFaults
  /\ requests \in 0..MaxRequests

\* The role tells the outcome of the review: promoters are the users with an approved
\* application, unless two reviewers answered the same application at once (approve
\* and reject look at the status, and write it in a later statement without looking), or
\* the role was written by hand, at registration or by PAYPAC's update of the user.
RoleIsEarned ==
  \A u \in Promoter :
    \/ role[u] = "PROMOTER" <=> ApplicationsOf(u, "APPROVED") # {}
    \/ \E a \in Application : application[a].user = u /\ <<"application", a>> \in crossed
    \/ u \in appointed

\* Applications and codes do not pile up: a user has one application to be reviewed and
\* a promoter one code, unless two of his requests overlapped (neither table has a
\* constraint that says so).
OneAtATime ==
  \A u \in Promoter :
    /\ AtMostOne(ApplicationsOf(u, "PENDING")) \/ <<"user", u>> \in crossed
    /\ AtMostOne(CodesOf(u)) \/ <<"owner", u>> \in crossed

\* What PAYPAC's desk promises to whoever asks for one thing at a time.
ProgrammeHolds == RoleIsEarned /\ OneAtATime

\* A commission is handed out once: a balance is reported as paid by one request only,
\* and only then it is PAID, as long as no two requests work on it at once and no
\* list of bulkMarkAsPaid, which does not look at the status, names it again.
PaidOutOnce ==
  \A b \in Balance : <<"balance", b>> \in crossed
                     \/ payouts[b] = (IF balance[b].status = "PAID" THEN 1 ELSE 0)
=============================================================================
