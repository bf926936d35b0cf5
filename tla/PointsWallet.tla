---------------------------- MODULE PointsWallet ----------------------------
(***************************************************************************)
(* The points of the users: UserPointsBalance holds what each one has and  *)
(* PointsTransaction one row for every change, with the balance before and *)
(* after it.  A redemption and an award insert the row and then update the *)
(* balance; a transfer does all its writes in one interactive transaction, *)
(* at READ COMMITTED, and so decides on what it read before it holds any   *)
(* row lock.  The rows it updates stay locked until it commits.            *)
(***************************************************************************)
EXTENDS Integers

CONSTANTS
  User,       \* customers
  Amount,     \* how many points one operation may concern
  Opening,    \* the balances a user may start with
  Request,    \* slots for handlers in flight
  NoUser, NoRequest,
  MaxFaults,  \* bound on failed handlers
  MaxRequests \* bound on the operations

ASSUME AmountAssumption == Amount \subseteq Nat \ {0} /\ Opening \subseteq Nat
ASSUME NoneAssumption == NoUser \notin User /\ NoRequest \notin Request
ASSUME BoundsAssumption == MaxFaults \in Nat /\ MaxRequests \in Nat

VARIABLES
  open,       \* the users who have a UserPointsBalance row
  balance,    \* its current_balance, 0 without a row
  statement,  \* the PointsTransaction rows of every user, summed up
  lock,       \* the open transaction that has written the row of a user
  proc,       \* what every handler in flight has read and where it is
  contested,  \* history: users two of whose spendings met
  disturbed,  \* history: users on whom any two handlers met
  cut,        \* history: users whose handler failed between row and balance
  faults,     \* history: number of faults so far
  requests    \* history: number of operations so far

vars == <<open, balance, statement, lock, proc, contested, disturbed, cut, faults, requests>>
tables == <<open, balance, statement, lock>>
history == <<contested, disturbed, cut, faults, requests>>

----------------------------------------------------------------------------
\* sum is the total of points_amount, last the newest balance_after, and chained says
\* that every row's balance_before was the balance_after of the row before it.
Statement == [sum: Int, last: Int, chained: BOOLEAN]

Blank(n) == [sum |-> n, last |-> n, chained |-> TRUE]

\* s with one more row: n points, on top of a balance of before.
WithRow(s, n, before) ==
  [sum |-> s.sum + n, last |-> before + n, chained |-> s.chained /\ s.last = before]

\* who is the user whose row getBalance looks for, from spends, to receives; before and
\* beforeTo are their balances as they were read.
Handler == [step: {"idle", "create", "book", "apply", "recipient", "enrol", "debit", "credit"},
            who: User \cup {NoUser}, from: User \cup {NoUser}, to: User \cup {NoUser},
            n: Amount \cup {0}, before: Int, beforeTo: Int]

Idle == [step |-> "idle", who |-> NoUser, from |-> NoUser, to |-> NoUser, n |-> 0,
         before |-> 0, beforeTo |-> 0]

Touches(h) == {h.from, h.to} \ {NoUser}

Free(u) == lock[u] = NoRequest

\* A transaction is rolled back, or over: its locks are released.
Released(p) == [u \in User |-> IF lock[u] = p THEN NoRequest ELSE lock[u]]

----------------------------------------------------------------------------
Init ==
  /\ open \in SUBSET User
  /\ balance \in [User -> Opening \cup {0}]
  /\ \A u \in User : u \notin open => balance[u] = 0
  /\ statement = [u \in User |-> Blank(balance[u])]
  /\ lock = [u \in User |-> NoRequest]
  /\ proc = [p \in Request |-> Idle]
  /\ contested = {}
  /\ disturbed = {}
  /\ cut = {}
  /\ faults = 0
  /\ requests = 0

\* Handler p read what it needs and goes on as h.
Start(p, h) ==
  /\ proc[p].step = "idle"
  /\ proc' = [proc EXCEPT ![p] = h]
  /\ disturbed' = disturbed \cup {u \in User : /\ u \in Touches(h)
                                               /\ \E q \in Request : u \in Touches(proc[q])}
  /\ contested' = contested \cup {u \in User : /\ u = h.from
                                               /\ \E q \in Request : u = proc[q].from}
  /\ UNCHANGED <<tables, cut, faults>>

Goto(p, s) == proc' = [proc EXCEPT ![p].step = s]
Done(p)    == proc' = [proc EXCEPT ![p] = Idle]

----------------------------------------------------------------------------
\* getBalance on its own (GET /points/balance): a missing row is created.
GetBalance(p, u) ==
  /\ u \notin open
  /\ Start(p, [Idle EXCEPT !.step = "create", !.who = u])

\* Variant: the balance is not looked at.
RedeemPointsUnchecked(p, u, n) ==
  /\ u \in open
  /\ Start(p, [Idle EXCEPT !.step = "book", !.who = u, !.from = u, !.n = n,
                           !.before = balance[u]])

\* redeemPointsForPurchase; without a row getBalance makes one with nothing in it, and
\* the redemption ends there.
RedeemPoints(p, u, n) ==
  /\ u \in open
  /\ balance[u] >= n
  /\ Start(p, [Idle EXCEPT !.step = "book", !.who = u, !.from = u, !.n = n,
                           !.before = balance[u]])

\* awardPointsForPurchase.
AwardPoints(p, u, n) ==
  LET h == [Idle EXCEPT !.who = u, !.to = u, !.n = n, !.before = balance[u]] IN
  Start(p, [h EXCEPT !.step = IF u \in open THEN "book" ELSE "create"])

\* The second half of getBalance.  Two handlers that both found no row both insert
\* one: user_id is unique, the second waits for the first to commit and then fails.
CreateAccount(p) ==
  LET h == proc[p] IN
  /\ h.step = "create"
  /\ Free(h.who)
  /\ IF h.who \in open \/ h.to = NoUser THEN Done(p) ELSE Goto(p, "book")
  /\ open' = open \cup {h.who}
  /\ UNCHANGED <<balance, statement, lock, history>>

\* Variant: the row is inserted with the sign of an award.
InsertRowUnsigned(p) ==
  LET h == proc[p] IN
  /\ h.step = "book"
  /\ statement' = [statement EXCEPT ![h.who] = WithRow(@, h.n, h.before)]
  /\ Goto(p, "apply")
  /\ UNCHANGED <<open, balance, lock, history>>

InsertRow(p) ==
  LET h == proc[p] IN
  /\ h.step = "book"
  /\ statement' = [statement EXCEPT
                     ![h.who] = WithRow(@, IF h.from = NoUser THEN h.n ELSE -h.n, h.before)]
  /\ Goto(p, "apply")
  /\ UNCHANGED <<open, balance, lock, history>>

\* An atomic increment or decrement, which waits for the row.
UpdateBalance(p) ==
  LET h == proc[p] IN
  /\ h.step = "apply"
  /\ Free(h.who)
  /\ balance' = [balance EXCEPT ![h.who] = IF h.from = NoUser THEN @ + h.n ELSE @ - h.n]
  /\ Done(p)
  /\ UNCHANGED <<open, statement, lock, history>>

----------------------------------------------------------------------------
\* transferPoints: the sender's row is read and checked, then the recipient's is read.
TransferPoints(p, u, v, n) ==
  /\ u # v
  /\ u \in open
  /\ balance[u] >= n
  /\ Start(p, [Idle EXCEPT !.step = "recipient", !.from = u, !.to = v, !.n = n,
                           !.before = balance[u]])

FindRecipient(p) ==
  LET h == proc[p] IN
  /\ h.step = "recipient"
  /\ proc' = [proc EXCEPT ![p].step = IF h.to \in open THEN "debit" ELSE "enrol",
                          ![p].beforeTo = balance[h.to]]
  /\ UNCHANGED <<tables, history>>

\* Variant: the transaction that lost the race is not rolled back.
CreateRecipientKeepsLock(p) ==
  LET h == proc[p] IN
  /\ h.step = "enrol"
  /\ Free(h.to)
  /\ lock' = [lock EXCEPT ![h.to] = p]
  /\ IF h.to \in open THEN Done(p) ELSE Goto(p, "debit")
  /\ UNCHANGED <<open, balance, statement, history>>

\* The recipient's row is created inside the transaction: nobody else sees it yet, and
\* somebody else may have committed one since.
CreateRecipient(p) ==
  LET h == proc[p] IN
  /\ h.step = "enrol"
  /\ Free(h.to)
  /\ IF h.to \in open
     THEN Done(p) /\ UNCHANGED lock
     ELSE Goto(p, "debit") /\ lock' = [lock EXCEPT ![h.to] = p]
  /\ UNCHANGED <<open, balance, statement, history>>

\* The two ledger rows, linked to each other, and the update of the sender's balance.
DebitSender(p) ==
  LET h == proc[p] IN
  /\ h.step = "debit"
  /\ Free(h.from)
  /\ lock' = [lock EXCEPT ![h.from] = p]
  /\ Goto(p, "credit")
  /\ UNCHANGED <<open, balance, statement, history>>

\* The update of the recipient's balance, and the commit, which makes all the writes
\* of the transaction seen.
CreditRecipient(p) ==
  LET h == proc[p] IN
  /\ h.step = "credit"
  /\ lock[h.to] \in {NoRequest, p}
  /\ open' = open \cup {h.to}
  /\ balance' = [balance EXCEPT ![h.from] = @ - h.n, ![h.to] = @ + h.n]
  /\ statement' = [statement EXCEPT ![h.from] = WithRow(@, -h.n, h.before),
                                    ![h.to] = WithRow(@, h.n, h.beforeTo)]
  /\ lock' = Released(p)
  /\ Done(p)
  /\ UNCHANGED history

----------------------------------------------------------------------------
\* The user whose row handler p has to lock next.
Wants(p) ==
  CASE proc[p].step \in {"create", "apply"} -> proc[p].who
    [] proc[p].step = "debit"               -> proc[p].from
    [] proc[p].step \in {"enrol", "credit"} -> proc[p].to
    [] OTHER                                -> NoUser

WaitsFor(p, q) == q # p /\ Wants(p) # NoUser /\ lock[Wants(p)] = q

\* external: PostgreSQL rolls back one of the transactions that wait for each other in a
\* circle; one that only waits for a member of the circle is left alone.
BreakDeadlock(p) ==
  /\ \E S \in SUBSET Request :
       /\ p \in S
       /\ \A q \in S : (\E r \in S : WaitsFor(q, r)) /\ (\E r \in S : WaitsFor(r, q))
  /\ Done(p)
  /\ lock' = Released(p)
  /\ UNCHANGED <<open, balance, statement, history>>

\* Faults, at most MaxFaults of them: an error, the five seconds Prisma gives a
\* transaction, a restart.  A transaction is rolled back; the row of a redemption or
\* an award stays, without its balance.
Fail(p) ==
  /\ proc[p].step # "idle"
  /\ faults < MaxFaults
  /\ faults' = faults + 1
  /\ cut' = IF proc[p].step = "apply" THEN cut \cup {proc[p].who} ELSE cut
  /\ Done(p)
  /\ lock' = Released(p)
  /\ UNCHANGED <<open, balance, statement, contested, disturbed, requests>>

Begin(p) ==
  /\ requests < MaxRequests
  /\ requests' = requests + 1
  /\ \E u \in User :
       \/ GetBalance(p, u)
       \/ \E n \in Amount : RedeemPoints(p, u, n) \/ AwardPoints(p, u, n)
       \/ \E v \in User, n \in Amount : TransferPoints(p, u, v, n)

Continue(p) ==
  \/ CreateAccount(p) \/ InsertRow(p) \/ UpdateBalance(p)
  \/ FindRecipient(p) \/ CreateRecipient(p) \/ DebitSender(p) \/ CreditRecipient(p)

Next == \E p \in Request : Begin(p) \/ Continue(p) \/ BreakDeadlock(p) \/ Fail(p)

Spec == Init /\ [][Next]_vars

\* A handler in flight goes on once no lock is in its way (operations are bounded, so
\* that weak fairness will do), and the database looks for deadlocks.
FairSpec ==
  /\ Spec
  /\ \A p \in Request : WF_vars(Continue(p))
  /\ WF_vars(\E p \in Request : BreakDeadlock(p))

----------------------------------------------------------------------------
TypeOK ==
  /\ open \subseteq User
  /\ balance \in [User -> Int]
  /\ statement \in [User -> Statement]
  /\ lock \in [User -> Request \cup {NoRequest}]
  /\ proc \in [Request -> Handler]
  /\ disturbed \subseteq User /\ contested \subseteq User /\ cut \subseteq User
  /\ faults \in 0..MaxFaults
  /\ requests \in 0..MaxRequests

\* The rows of a user add up to his balance whenever no handler is between the two
\* writes, however his operations interleave, unless one failed just there.
BalanceMatchesLedger ==
  \A u \in User \ cut :
    (\A p \in Request : proc[p].step = "apply" => proc[p].who # u)
      => balance[u] = statement[u].sum

\* The history a user is shown is a chain that ends at his balance: each row starts from
\* the balance the one before it left.  That takes handlers that do not meet on him,
\* since every one writes down the balance it read before.
HistoryIsChained ==
  \A u \in User \ (cut \cup disturbed) :
    /\ statement[u].chained
    /\ (\A p \in Request : proc[p].step = "apply" => proc[p].who # u)
         => statement[u].last = balance[u]

\* What support relies on when it reads a user's statement.
LedgerIsTrue == BalanceMatchesLedger /\ HistoryIsChained

\* Every operation comes to an end: two users who send each other points at once wait
\* for each other, and one of the two is refused.
OperationsEnd == \A p \in Request : proc[p].step # "idle" ~> proc[p].step = "idle"

Promise == INSTANCE Bank

\* For the balances the handlers do what Bank promises: points move all at once, and
\* a user whose spendings do not meet never spends what he does not have.
KeepsPromise == Promise!Spec

=============================================================================
