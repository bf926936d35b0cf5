------------------------- MODULE PointsWallet_proofs -------------------------
(***************************************************************************)
(* Proofs about PointsWallet: the statements of the users are true, and    *)
(* the handlers keep the promise of Bank.  What a statement is ahead of    *)
(* its balance is the sum of the rows that handlers have inserted and not  *)
(* applied yet, of any number of handlers; the sum is given by the order   *)
(* in which they can be counted, so that adding one or taking one out      *)
(* needs no induction.                                                     *)
(***************************************************************************)
EXTENDS PointsWallet, TLAPS

\* order lists every element of S once, before place n, and total holds the partial sums
\* of F.
Counts(order, total, n, F, S) ==
  /\ \A i \in Nat : i < n => order[i] \in S
  /\ \A i, j \in Nat : i < n /\ j < n /\ order[i] = order[j] => i = j
  /\ \A x \in S : \E i \in Nat : i < n /\ order[i] = x
  /\ \A i \in Nat : i <= n => total[i] \in Int
  /\ total[0] = 0
  /\ \A i \in Nat : i < n => total[i + 1] = total[i] + F[order[i]]

\* S is finite, and F adds up to s on it.
AddsUp(s, F, S) ==
  \E n \in Nat : \E order, total : Counts(order, total, n, F, S) /\ total[n] = s

LEMMA AddsUpNothing ==
  ASSUME NEW F, NEW s
  PROVE  AddsUp(s, F, {}) <=> s = 0
<1>1. ASSUME s = 0 PROVE AddsUp(s, F, {})
  <2> DEFINE none == [i \in Nat |-> 0]
  <2>1. \A i \in Nat : none[i] = 0 /\ ~(i < 0)
    OBVIOUS
  <2> HIDE DEF none
  <2>2. Counts(none, none, 0, F, {}) /\ none[0] = s
    BY <1>1, <2>1 DEF Counts
  <2> QED
    BY <2>2 DEF AddsUp
<1>2. ASSUME AddsUp(s, F, {}) PROVE s = 0
  <2>1. PICK n, order, total : n \in Nat /\ Counts(order, total, n, F, {}) /\ total[n] = s
    BY <1>2 DEF AddsUp
  <2>2. ~(0 < n)
    BY <2>1 DEF Counts
  <2> QED
    BY <2>1, <2>2 DEF Counts
<1> QED
  BY <1>1, <1>2

\* Only the values of F on S matter.
LEMMA AddsUpSame ==
  ASSUME NEW s, NEW F, NEW G, NEW S, AddsUp(s, F, S), \A x \in S : G[x] = F[x]
  PROVE  AddsUp(s, G, S)
<1>1. PICK n, order, total : n \in Nat /\ Counts(order, total, n, F, S) /\ total[n] = s
  BY DEF AddsUp
<1>2. Counts(order, total, n, G, S)
  BY <1>1 DEF Counts
<1> QED
  BY <1>1, <1>2 DEF AddsUp

\* A new element is counted last.
LEMMA AddsUpMore ==
  ASSUME NEW s, NEW F, NEW S, AddsUp(s, F, S), NEW x, x \notin S, F[x] \in Int
  PROVE  AddsUp(s + F[x], F, S \cup {x})
<1>1. PICK n, order, total : n \in Nat /\ Counts(order, total, n, F, S) /\ total[n] = s
  BY DEF AddsUp
<1> DEFINE order2 == [i \in Nat |-> IF i = n THEN x ELSE order[i]]
<1> DEFINE total2 == [i \in Nat |-> IF i = n + 1 THEN s + F[x] ELSE total[i]]
<1>2. /\ \A i \in Nat : order2[i] = IF i = n THEN x ELSE order[i]
      /\ \A i \in Nat : total2[i] = IF i = n + 1 THEN s + F[x] ELSE total[i]
  OBVIOUS
<1> HIDE DEF order2, total2
<1>3. \A i \in Nat : i < n + 1 => order2[i] \in S \cup {x}
  BY <1>1, <1>2 DEF Counts
<1>4. \A i, j \in Nat : i < n + 1 /\ j < n + 1 /\ order2[i] = order2[j] => i = j
  BY <1>1, <1>2 DEF Counts
<1>5. \A y \in S \cup {x} : \E i \in Nat : i < n + 1 /\ order2[i] = y
  BY <1>1, <1>2 DEF Counts
<1>6. \A i \in Nat : i <= n + 1 => total2[i] \in Int
  BY <1>1, <1>2 DEF Counts
<1>7. total2[0] = 0 /\ total2[n + 1] = s + F[x]
  BY <1>1, <1>2 DEF Counts
<1>8. \A i \in Nat : i < n + 1 => total2[i + 1] = total2[i] + F[order2[i]]
  BY <1>1, <1>2 DEF Counts
<1>9. Counts(order2, total2, n + 1, F, S \cup {x})
  BY <1>3, <1>4, <1>5, <1>6, <1>7, <1>8 DEF Counts
<1>10. n + 1 \in Nat
  BY <1>1
<1> QED
  BY <1>7, <1>9, <1>10 DEF AddsUp

\* An element that is taken out leaves a gap, and those after it move up.
LEMMA AddsUpLess ==
  ASSUME NEW s, NEW F, NEW S, AddsUp(s, F, S), NEW x \in S, \A y \in S : F[y] \in Int
  PROVE  AddsUp(s - F[x], F, S \ {x})
<1>1. PICK n, order, total : n \in Nat /\ Counts(order, total, n, F, S) /\ total[n] = s
  BY DEF AddsUp
<1>2. PICK k \in Nat : k < n /\ order[k] = x
  BY <1>1 DEF Counts
<1>3. PICK m \in Nat : n = m + 1
  <2>1. n - 1 \in Nat /\ n = (n - 1) + 1
    BY <1>1, <1>2
  <2> QED
    BY <2>1
<1> DEFINE order2 == [i \in Nat |-> IF i < k THEN order[i] ELSE order[i + 1]]
<1> DEFINE total2 == [i \in Nat |-> IF i <= k THEN total[i] ELSE total[i + 1] - F[x]]
<1>4. /\ \A i \in Nat : order2[i] = IF i < k THEN order[i] ELSE order[i + 1]
      /\ \A i \in Nat : total2[i] = IF i <= k THEN total[i] ELSE total[i + 1] - F[x]
  OBVIOUS
<1> HIDE DEF order2, total2
<1>5. \A i \in Nat : i < m => order2[i] \in S \ {x}
  BY <1>1, <1>2, <1>3, <1>4 DEF Counts
<1>6. \A i, j \in Nat : i < m /\ j < m /\ order2[i] = order2[j] => i = j
  BY <1>1, <1>2, <1>3, <1>4 DEF Counts
<1>7. \A y \in S \ {x} : \E i \in Nat : i < m /\ order2[i] = y
  <2> SUFFICES ASSUME NEW y \in S \ {x} PROVE \E i \in Nat : i < m /\ order2[i] = y
    OBVIOUS
  <2>1. PICK j \in Nat : j < n /\ order[j] = y
    BY <1>1 DEF Counts
  <2>2. CASE j < k
    BY <1>2, <1>3, <1>4, <2>1, <2>2
  <2>3. CASE j > k
    <3>1. j - 1 \in Nat /\ j - 1 < m /\ ~(j - 1 < k) /\ (j - 1) + 1 = j
      BY <1>3, <2>1, <2>3
    <3> QED
      BY <1>4, <2>1, <3>1
  <2> QED
    BY <1>2, <2>1, <2>2, <2>3
<1>8. \A i \in Nat : i <= m => total2[i] \in Int
  BY <1>1, <1>3, <1>4 DEF Counts
<1>9. total2[0] = 0
  BY <1>1, <1>4 DEF Counts
<1>10. total[k + 1] = total[k] + F[x] /\ total[k] \in Int
  BY <1>1, <1>2 DEF Counts
<1>11. total2[m] = s - F[x]
  <2>1. total[m + 1] = s /\ s \in Int
    BY <1>1, <1>3 DEF Counts
  <2>2. CASE m <= k
    <3>1. m = k
      BY <1>2, <1>3, <2>2
    <3> QED
      BY <1>4, <1>10, <2>1, <3>1
  <2>3. CASE ~(m <= k)
    BY <1>4, <2>1, <2>3
  <2> QED
    BY <2>2, <2>3
<1>12. ASSUME NEW i \in Nat, i < m PROVE total2[i + 1] = total2[i] + F[order2[i]]
  <2>1. i + 1 \in Nat /\ i + 1 < n /\ (i + 1) + 1 = i + 2 /\ i + 2 \in Nat /\ i + 2 <= n
    BY <1>3, <1>12
  <2>2. /\ total[i + 1] = total[i] + F[order[i]]
        /\ total[i + 2] = total[i + 1] + F[order[i + 1]]
        /\ total[i] \in Int /\ total[i + 1] \in Int /\ total[i + 2] \in Int
        /\ F[order[i]] \in Int /\ F[order[i + 1]] \in Int
    BY <1>1, <2>1 DEF Counts
  <2>3. CASE i < k
    BY <1>4, <2>2, <2>3
  <2>4. CASE i = k
    <3>1. total2[i + 1] = total[i + 2] - F[x] /\ total2[i] = total[i] /\ F[x] = F[order[i]]
      BY <1>2, <1>4, <2>1, <2>4
    <3>2. order2[i] = order[i + 1]
      BY <1>4, <2>4
    <3> QED
      BY <2>2, <3>1, <3>2
  <2>5. CASE i > k
    <3>1. /\ total2[i + 1] = total[i + 2] - F[x] /\ total2[i] = total[i + 1] - F[x]
          /\ order2[i] = order[i + 1] /\ F[x] \in Int
      BY <1>4, <2>1, <2>5
    <3> QED
      BY <2>2, <3>1
  <2> QED
    BY <2>3, <2>4, <2>5
<1>13. Counts(order2, total2, m, F, S \ {x})
  BY <1>5, <1>6, <1>7, <1>8, <1>9, <1>12 DEF Counts
<1> QED
  BY <1>11, <1>13 DEF AddsUp

----------------------------------------------------------------------------
\* The inductive invariant.

Transferring == {"recipient", "enrol", "debit", "credit"}

\* What a handler is about at each step.
Shape(h) ==
  /\ h.step = "idle" => h = Idle
  /\ h.step = "create" =>
       /\ h.who \in User /\ h.from = NoUser /\ h.to \in {NoUser, h.who}
       /\ h.to # NoUser => h.n \in Amount
  /\ h.step \in {"book", "apply"} =>
       /\ h.who \in User /\ h.n \in Amount
       /\ {h.from, h.to} = {h.who, NoUser}
  /\ h.step \in Transferring =>
       h.from \in User /\ h.to \in User /\ h.from # h.to /\ h.n \in Amount

HandlersInShape == \A p \in Request : Shape(proc[p])

\* What handler p adds to the balance of the user whose row it inserts.
Delta == [p \in Request |-> IF proc[p].from = NoUser THEN proc[p].n ELSE -proc[p].n]

\* The handlers between the row of u and his balance.
Pending(u) == {p \in Request : proc[p].step = "apply" /\ proc[p].who = u}

\* The statement of a user is ahead of his balance by the rows still pending.
Accounted ==
  \A u \in User \ cut : AddsUp(statement[u].sum - balance[u], Delta, Pending(u))

\* A user no two handlers met on is in the hands of one at most.
Isolation ==
  \A u \in User \ disturbed : \A p, q \in Request :
    u \in Touches(proc[p]) /\ u \in Touches(proc[q]) => p = q

Calm == User \ (cut \cup disturbed)

\* What handler p has read of user u still holds, and u's newest row ends at his balance,
\* but for what p has still to apply.
Fresh(p, u) ==
  LET h == proc[p] IN
  /\ h.step = "apply" => statement[u].last = balance[u] + Delta[p]
  /\ h.step # "apply" => statement[u].last = balance[u]
  /\ h.step \in {"create", "book"} \/ (h.step \in Transferring /\ u = h.from)
       => h.before = balance[u]
  /\ h.step \in Transferring \ {"recipient"} /\ u = h.to => h.beforeTo = balance[u]

HandlersAreFresh ==
  \A u \in Calm, p \in Request : u \in Touches(proc[p]) => Fresh(p, u)

RestIsChained ==
  /\ \A u \in Calm : statement[u].chained
  /\ \A u \in Calm : (\A p \in Request : u \notin Touches(proc[p]))
                       => statement[u].last = balance[u]

\* A user who is not contested has one handler at most that spends his points, and he has
\* them still.
SpendersAreCovered ==
  \A u \in User \ contested : \A p, q \in Request :
    proc[p].from = u =>
      /\ proc[q].from = u => p = q
      /\ balance[u] >= proc[p].n

\* Only a transfer that has written holds a row, and it has not ended.
LocksAreHeld ==
  \A u \in User : lock[u] # NoRequest => proc[lock[u]].step \in {"debit", "credit"}

IInv ==
  /\ TypeOK
  /\ HandlersInShape
  /\ LocksAreHeld
  /\ Accounted
  /\ Isolation
  /\ HandlersAreFresh
  /\ RestIsChained
  /\ SpendersAreCovered

----------------------------------------------------------------------------
LEMMA InitInv == Init => IInv
<1> SUFFICES ASSUME Init PROVE IInv
  OBVIOUS
<1> USE DEF Init
<1>1. /\ proc = [p \in Request |-> Idle]
      /\ \A u \in User : balance[u] \in Nat
      /\ balance \in [User -> Int]
  <2>1. Opening \cup {0} \subseteq Nat /\ Nat \subseteq Int
    BY AmountAssumption
  <2> QED
    BY <2>1
<1>2. Idle \in Handler /\ Shape(Idle) /\ Touches(Idle) = {} /\ Idle.from = NoUser
      /\ Idle.step = "idle"
  BY AmountAssumption DEF Idle, Handler, Shape, Touches, Transferring
<1>3. TypeOK
  BY <1>1, <1>2, BoundsAssumption DEF TypeOK, Blank, Statement
<1>4. HandlersInShape /\ LocksAreHeld /\ Isolation /\ HandlersAreFresh
  BY <1>1, <1>2 DEF HandlersInShape, LocksAreHeld, Isolation, HandlersAreFresh
<1>5. RestIsChained
  BY DEF RestIsChained, Blank, Calm
<1>6. SpendersAreCovered
  BY <1>1, <1>2, NoneAssumption DEF SpendersAreCovered
<1>7. Accounted
  <2>1. ASSUME NEW u \in User PROVE statement[u].sum - balance[u] = 0
    <3>1. statement[u].sum = balance[u] /\ balance[u] \in Nat
      BY <1>1 DEF Blank
    <3> QED
      BY <3>1
  <2>2. \A u \in User : Pending(u) = {}
    BY <1>1, <1>2 DEF Pending
  <2> QED
    BY <2>1, <2>2, AddsUpNothing DEF Accounted
<1> QED
  BY <1>3, <1>4, <1>5, <1>6, <1>7 DEF IInv

----------------------------------------------------------------------------
\* What the helpers of the actions do, and what a handler's shape says of it.

LEMMA ShapeFacts ==
  ASSUME NEW h, Shape(h)
  PROVE  /\ h.step = "idle" => Touches(h) = {} /\ h.from = NoUser
         /\ h.step = "create" => Touches(h) \subseteq {h.who} /\ h.from = NoUser
         /\ h.step \in {"book", "apply"} =>
              /\ Touches(h) = {h.who}
              /\ \/ h.from = h.who /\ h.to = NoUser
                 \/ h.from = NoUser /\ h.to = h.who
         /\ h.step \in Transferring => Touches(h) = {h.from, h.to} /\ h.from # h.to
BY NoneAssumption DEF Shape, Touches, Idle

LEMMA GotoFacts ==
  ASSUME TypeOK, NEW p \in Request,
         NEW s \in {"book", "apply", "recipient", "enrol", "debit", "credit"}, Goto(p, s)
  PROVE  \E h \in Handler :
           /\ proc' = [proc EXCEPT ![p] = h]
           /\ h.step = s /\ h.who = proc[p].who /\ h.from = proc[p].from
           /\ h.to = proc[p].to /\ h.n = proc[p].n /\ h.before = proc[p].before
           /\ h.beforeTo = proc[p].beforeTo
<1> DEFINE h == [proc[p] EXCEPT !.step = s]
<1>1. proc[p] \in Handler
  BY DEF TypeOK
<1>2. /\ h \in Handler
      /\ h.step = s /\ h.who = proc[p].who /\ h.from = proc[p].from
      /\ h.to = proc[p].to /\ h.n = proc[p].n /\ h.before = proc[p].before
      /\ h.beforeTo = proc[p].beforeTo
  BY <1>1 DEF Handler
<1>3. proc' = [proc EXCEPT ![p] = h]
  BY DEF Goto
<1> HIDE DEF h
<1> QED
  BY <1>2, <1>3

LEMMA IdleFacts ==
  /\ Idle \in Handler /\ Shape(Idle) /\ Idle.step = "idle"
  /\ Idle.who = NoUser /\ Idle.from = NoUser /\ Idle.to = NoUser /\ Idle.n = 0
  /\ Idle.before = 0
BY DEF Idle, Handler, Shape, Transferring

\* A row keeps a statement of its type, and counts.
LEMMA WithRowFacts ==
  ASSUME NEW s \in Statement, NEW n \in Int, NEW before \in Int
  PROVE  /\ WithRow(s, n, before) \in Statement
         /\ WithRow(s, n, before).sum = s.sum + n
         /\ WithRow(s, n, before).last = before + n
         /\ s.last = before => WithRow(s, n, before).chained = s.chained
BY DEF WithRow, Statement

LEMMA HandlerInt ==
  ASSUME NEW h \in Handler
  PROVE  h.n \in Nat /\ h.n \in Int
<1>1. Amount \cup {0} \subseteq Nat
  BY AmountAssumption
<1>2. h.n \in Amount \cup {0}
  BY DEF Handler
<1> QED
  BY <1>1, <1>2

\* Handler p goes on as h.
LEMMA MoveFacts ==
  ASSUME TypeOK, HandlersInShape, NEW p \in Request, NEW h \in Handler, Shape(h),
         proc' = [proc EXCEPT ![p] = h]
  PROVE  /\ proc' \in [Request -> Handler] /\ HandlersInShape'
         /\ proc'[p] = h /\ \A q \in Request \ {p} : proc'[q] = proc[q]
         /\ \A q \in Request \ {p} : Delta'[q] = Delta[q]
         /\ Delta'[p] = IF h.from = NoUser THEN h.n ELSE -h.n
         /\ Delta' \in [Request -> Int]
<1>1. /\ proc' \in [Request -> Handler]
      /\ proc'[p] = h /\ \A q \in Request \ {p} : proc'[q] = proc[q]
  BY DEF TypeOK
<1>2. HandlersInShape'
  BY <1>1 DEF HandlersInShape
<1>3. \A q \in Request : Delta'[q] = IF proc'[q].from = NoUser THEN proc'[q].n ELSE -proc'[q].n
  BY DEF Delta
<1>4. \A q \in Request : Delta[q] = IF proc[q].from = NoUser THEN proc[q].n ELSE -proc[q].n
  BY DEF Delta
<1>5. \A q \in Request : proc'[q].n \in Int
  BY <1>1, HandlerInt
<1>6. Delta' \in [Request -> Int]
  BY <1>5 DEF Delta
<1> QED
  BY <1>1, <1>2, <1>3, <1>4, <1>6

LEMMA DeltaType == TypeOK => Delta \in [Request -> Int]
<1> SUFFICES ASSUME TypeOK PROVE Delta \in [Request -> Int]
  OBVIOUS
<1>1. \A q \in Request : proc[q].n \in Int
  BY HandlerInt DEF TypeOK
<1> QED
  BY <1>1 DEF Delta

\* The variables that only the type invariant speaks of.
OthersTyped ==
  /\ open \subseteq User
  /\ lock \in [User -> Request \cup {NoRequest}]
  /\ cut \subseteq User
  /\ faults \in 0..MaxFaults
  /\ requests \in 0..MaxRequests

LEMMA ReleasedType ==
  ASSUME TypeOK, NEW p \in Request
  PROVE  Released(p) \in [User -> Request \cup {NoRequest}]
BY DEF Released, TypeOK

----------------------------------------------------------------------------
\* A handler starts as h, on what it has just read.
Starts(h) ==
  /\ h \in Handler /\ Shape(h)
  /\ h.step \in {"create", "book", "recipient"}
  /\ h.from \in User => balance[h.from] >= h.n
  /\ h.step \in {"create", "book"} => h.before = balance[h.who] \/ Touches(h) = {}
  /\ h.step = "recipient" => h.before = balance[h.from]

\* A handler with these fields.
As(h, step, who, from, to, n, before) ==
  /\ h \in Handler
  /\ h.step = step /\ h.who = who /\ h.from = from /\ h.to = to /\ h.n = n
  /\ h.before = before

LEMMA BeginStarts ==
  ASSUME TypeOK, NEW p \in Request, Begin(p)
  PROVE  \E h : Start(p, h) /\ Starts(h)
<1>1. PICK u \in User :
        \/ GetBalance(p, u)
        \/ \E n \in Amount : RedeemPoints(p, u, n) \/ AwardPoints(p, u, n)
        \/ \E v \in User, n \in Amount : TransferPoints(p, u, v, n)
  BY DEF Begin
<1>2. \A w \in User : balance[w] \in Int
  BY DEF TypeOK
<1>3. CASE GetBalance(p, u)
  <2> DEFINE h == [Idle EXCEPT !.step = "create", !.who = u]
  <2>1. As(h, "create", u, NoUser, NoUser, 0, 0)
    BY <1>2, IdleFacts DEF As, Handler
  <2>2. Start(p, h)
    BY <1>3 DEF GetBalance
  <2> HIDE DEF h
  <2>3. Starts(h)
    BY <2>1, NoneAssumption DEF As, Starts, Shape, Touches, Transferring
  <2> QED
    BY <2>2, <2>3
<1>4. ASSUME NEW n \in Amount, RedeemPoints(p, u, n) PROVE \E h : Start(p, h) /\ Starts(h)
  <2> DEFINE h == [Idle EXCEPT !.step = "book", !.who = u, !.from = u, !.n = n,
                               !.before = balance[u]]
  <2>1. As(h, "book", u, u, NoUser, n, balance[u])
    BY <1>2, IdleFacts DEF As, Handler
  <2>2. Start(p, h) /\ balance[u] >= n
    BY <1>4 DEF RedeemPoints
  <2> HIDE DEF h
  <2>3. Starts(h)
    BY <2>1, <2>2, NoneAssumption DEF As, Starts, Shape, Transferring
  <2> QED
    BY <2>2, <2>3
<1>5. ASSUME NEW n \in Amount, AwardPoints(p, u, n) PROVE \E h : Start(p, h) /\ Starts(h)
  <2> DEFINE g == [Idle EXCEPT !.who = u, !.to = u, !.n = n, !.before = balance[u]]
  <2>1. As(g, "idle", u, NoUser, u, n, balance[u])
    BY <1>2, IdleFacts DEF As, Handler
  <2> DEFINE h == [g EXCEPT !.step = IF u \in open THEN "book" ELSE "create"]
  <2>2. Start(p, h)
    BY <1>5 DEF AwardPoints
  <2> HIDE DEF g
  <2>3. As(h, h.step, u, NoUser, u, n, balance[u]) /\ h.step \in {"book", "create"}
    BY <2>1 DEF As, Handler
  <2> HIDE DEF h
  <2>4. Starts(h)
    BY <2>3, NoneAssumption DEF As, Starts, Shape, Transferring
  <2> QED
    BY <2>2, <2>4
<1>6. ASSUME NEW v \in User, NEW n \in Amount, TransferPoints(p, u, v, n)
      PROVE  \E h : Start(p, h) /\ Starts(h)
  <2> DEFINE h == [Idle EXCEPT !.step = "recipient", !.from = u, !.to = v, !.n = n,
                               !.before = balance[u]]
  <2>1. As(h, "recipient", NoUser, u, v, n, balance[u])
    BY <1>2, IdleFacts DEF As, Handler
  <2>2. Start(p, h) /\ balance[u] >= n /\ u # v
    BY <1>6 DEF TransferPoints
  <2> HIDE DEF h
  <2>3. Starts(h)
    BY <2>1, <2>2 DEF As, Starts, Shape, Transferring
  <2> QED
    BY <2>2, <2>3
<1> QED
  BY <1>1, <1>3, <1>4, <1>5, <1>6

\* On a user nobody else is working on, the handler is alone; on the others he is, from
\* then on, disturbed, and contested if two spend his points.
LEMMA BeginInv ==
  ASSUME IInv, NEW p \in Request, Begin(p)
  PROVE  IInv'
<1> USE DEF IInv
<1>1. PICK h : Start(p, h) /\ Starts(h)
  BY BeginStarts
<1>2. /\ proc[p] = Idle /\ h \in Handler /\ Shape(h)
      /\ proc' = [proc EXCEPT ![p] = h]
      /\ UNCHANGED <<open, balance, statement, lock, cut, faults>>
  BY <1>1 DEF Start, Starts, tables, HandlersInShape, Shape
<1>3. /\ proc' \in [Request -> Handler] /\ HandlersInShape'
      /\ proc'[p] = h /\ \A q \in Request \ {p} : proc'[q] = proc[q]
      /\ \A q \in Request \ {p} : Delta'[q] = Delta[q]
  BY <1>2, MoveFacts
<1>4. Touches(proc[p]) = {} /\ proc[p].from = NoUser /\ proc[p].step = "idle"
  BY <1>2, ShapeFacts, IdleFacts
<1>5. TypeOK'
  <2>1. requests' \in 0..MaxRequests
    BY BoundsAssumption DEF Begin, TypeOK
  <2> QED
    BY <1>1, <1>2, <1>3, <2>1 DEF Start, TypeOK
<1>6. \A u \in User \ disturbed' : /\ u \in User \ disturbed
                                   /\ u \in Touches(h) => \A q \in Request : u \notin Touches(proc[q])
  BY <1>1 DEF Start
<1>7. Accounted'
  <2>1. h.step # "apply"
    BY <1>1 DEF Starts
  <2>2. \A u \in User : Pending(u)' = Pending(u)
    BY <1>3, <1>4, <2>1 DEF Pending
  <2>3. \A u \in User : \A q \in Pending(u) : Delta'[q] = Delta[q]
    BY <1>3, <1>4 DEF Pending
  <2> QED
    BY <1>2, <2>2, <2>3, AddsUpSame DEF Accounted
<1>8. Isolation'
  BY <1>3, <1>6 DEF Isolation
<1>9. HandlersAreFresh' /\ RestIsChained'
  <2>1. \A u \in Calm' : u \in Calm /\ (u \in Touches(h) => \A q \in Request : u \notin Touches(proc[q]))
    BY <1>2, <1>6 DEF Calm
  <2>2. RestIsChained'
    BY <1>2, <1>3, <1>4, <2>1 DEF RestIsChained
  <2>3. ASSUME NEW u \in Calm', NEW q \in Request, u \in Touches(proc'[q])
        PROVE  Fresh(q, u)'
    <3>1. CASE q = p
      <4>1. statement[u].last = balance[u]
        BY <1>3, <2>1, <2>3, <3>1 DEF RestIsChained
      <4> QED
        BY <1>1, <1>2, <1>3, <2>3, <3>1, <4>1, ShapeFacts DEF Fresh, Starts, Transferring
    <3>2. CASE q # p
      <4>1. Fresh(q, u)
        BY <1>3, <2>1, <2>3, <3>2 DEF HandlersAreFresh
      <4> QED
        BY <1>2, <1>3, <3>2, <4>1 DEF Fresh
    <3> QED
      BY <3>1, <3>2
  <2> QED
    BY <2>2, <2>3 DEF HandlersAreFresh
<1>10. SpendersAreCovered'
  <2>1. \A u \in User \ contested' :
          /\ u \in User \ contested
          /\ u = h.from => (\A q \in Request : u # proc[q].from) /\ balance[u] >= h.n
    BY <1>1 DEF Start, Starts
  <2> QED
    BY <1>2, <1>3, <2>1 DEF SpendersAreCovered
<1>11. LocksAreHeld'
  <2>1. \A u \in User : lock'[u] # NoRequest => lock[u] \in Request \ {p}
    BY <1>2, <1>4 DEF LocksAreHeld, TypeOK
  <2> QED
    BY <1>2, <1>3, <2>1 DEF LocksAreHeld
<1> QED
  BY <1>3, <1>5, <1>7, <1>8, <1>9, <1>10, <1>11

----------------------------------------------------------------------------
\* Handler p goes on as h, or ends, and writes neither balance nor statement; between a row
\* and its balance it can only fail.
Quiet(p, h) ==
  /\ h \in Handler /\ Shape(h)
  /\ proc' = [proc EXCEPT ![p] = h]
  /\ UNCHANGED <<balance, statement, contested, disturbed>>
  /\ cut \subseteq cut'
  /\ proc[p].step = "apply" => proc[p].who \in cut'
  /\ h.step # "apply"
  /\ Touches(h) \subseteq Touches(proc[p])
  /\ h.from # NoUser => h.from = proc[p].from /\ h.n = proc[p].n

\* What h has read still holds.
StaysFresh(p, h) ==
  \A u \in User : u \in Touches(h) /\ Fresh(p, u) => Fresh(p, u)'

\* Its locks are those of a transfer that has written, and it takes nobody else's.
KeepsLocks(p, h) ==
  \A u \in User : /\ lock'[u] = p => h.step \in {"debit", "credit"}
                  /\ lock'[u] # p => lock'[u] \in {lock[u], NoRequest}

LEMMA QuietInv ==
  ASSUME IInv, NEW p \in Request, NEW h, Quiet(p, h), StaysFresh(p, h), KeepsLocks(p, h),
         OthersTyped'
  PROVE  IInv'
<1> USE DEF IInv, Quiet
<1>1. /\ proc' \in [Request -> Handler] /\ HandlersInShape'
      /\ proc'[p] = h /\ \A q \in Request \ {p} : proc'[q] = proc[q]
      /\ \A q \in Request \ {p} : Delta'[q] = Delta[q]
  BY MoveFacts
<1>2. TypeOK'
  BY <1>1 DEF TypeOK, OthersTyped
<1>3. LocksAreHeld'
  BY <1>1 DEF LocksAreHeld, KeepsLocks
<1>4. Accounted'
  <2>1. \A u \in User \ cut' : Pending(u)' = Pending(u) /\ p \notin Pending(u)
    BY <1>1 DEF Pending
  <2>2. \A u \in User \ cut' : \A q \in Pending(u) : Delta'[q] = Delta[q]
    BY <1>1, <2>1 DEF Pending
  <2> QED
    BY <2>1, <2>2, AddsUpSame DEF Accounted
<1>5. Isolation'
  BY <1>1 DEF Isolation
<1>6. \A u \in Calm' : u \in Calm
  BY DEF Calm
<1>7. HandlersAreFresh'
  <2> SUFFICES ASSUME NEW u \in Calm', NEW q \in Request, u \in Touches(proc'[q])
               PROVE  Fresh(q, u)'
    BY DEF HandlersAreFresh
  <2>1. Fresh(q, u)
    BY <1>1, <1>6 DEF HandlersAreFresh
  <2>2. CASE q = p
    BY <1>1, <1>6, <2>1, <2>2 DEF StaysFresh, Calm
  <2>3. CASE q # p
    BY <1>1, <2>1, <2>3 DEF Fresh
  <2> QED
    BY <2>2, <2>3
<1>8. RestIsChained'
  <2> SUFFICES ASSUME NEW u \in Calm', \A q \in Request : u \notin Touches(proc'[q])
               PROVE  statement[u].last = balance[u]
    BY <1>6 DEF RestIsChained
  <2>1. CASE u \in Touches(proc[p])
    <3>1. Fresh(p, u)
      BY <1>6, <2>1 DEF HandlersAreFresh
    <3>2. proc[p].step = "apply" => u = proc[p].who
      BY <2>1, ShapeFacts DEF HandlersInShape
    <3> QED
      BY <3>1, <3>2 DEF Fresh, Calm
  <2>2. CASE u \notin Touches(proc[p])
    BY <1>1, <1>6, <2>2 DEF RestIsChained
  <2> QED
    BY <2>1, <2>2
<1>9. SpendersAreCovered'
  BY <1>1, NoneAssumption DEF SpendersAreCovered
<1> QED
  BY <1>1, <1>2, <1>3, <1>4, <1>5, <1>7, <1>8, <1>9

\* A handler ends without a write, and lets go of its locks.
LEMMA EndsInv ==
  ASSUME IInv, NEW p \in Request, Done(p), UNCHANGED <<balance, statement, contested, disturbed>>,
         OthersTyped', \A u \in User : lock'[u] # p /\ lock'[u] \in {lock[u], NoRequest},
         cut \subseteq cut', proc[p].step = "apply" => proc[p].who \in cut'
  PROVE  IInv'
<1>1. Touches(Idle) = {} /\ Idle.from = NoUser
  BY IdleFacts, ShapeFacts
<1>2. Quiet(p, Idle) /\ StaysFresh(p, Idle) /\ KeepsLocks(p, Idle)
  BY <1>1, IdleFacts DEF Quiet, StaysFresh, KeepsLocks, Done
<1> QED
  BY <1>2, QuietInv

LEMMA CreateAccountInv ==
  ASSUME IInv, NEW p \in Request, CreateAccount(p)
  PROVE  IInv'
<1> USE DEF CreateAccount
<1>1. /\ Shape(proc[p]) /\ proc[p].step = "create" /\ proc[p].who \in User
      /\ \A u \in User : lock[u] # p
  BY NoneAssumption DEF IInv, HandlersInShape, Shape, LocksAreHeld
<1>2. OthersTyped'
  BY <1>1 DEF IInv, TypeOK, OthersTyped, history
<1>3. CASE Done(p)
  BY <1>1, <1>2, <1>3, EndsInv DEF history
<1>4. CASE proc[p].to # NoUser /\ Goto(p, "book")
  <2>1. PICK h \in Handler :
          /\ proc' = [proc EXCEPT ![p] = h]
          /\ h.step = "book" /\ h.who = proc[p].who /\ h.from = proc[p].from
          /\ h.to = proc[p].to /\ h.n = proc[p].n /\ h.before = proc[p].before
          /\ h.beforeTo = proc[p].beforeTo
    BY <1>4, GotoFacts DEF IInv
  <2>2. Shape(h) /\ Touches(h) = Touches(proc[p])
    BY <1>1, <1>4, <2>1 DEF Shape, Touches, Transferring
  <2>3. Quiet(p, h) /\ KeepsLocks(p, h)
    BY <1>1, <2>1, <2>2 DEF Quiet, KeepsLocks, history
  <2>4. proc'[p] = h
    BY <2>1 DEF IInv, TypeOK
  <2>5. StaysFresh(p, h)
    BY <1>1, <2>1, <2>3, <2>4 DEF StaysFresh, Fresh, Quiet, Transferring
  <2> QED
    BY <1>2, <2>3, <2>5, QuietInv
<1> QED
  BY <1>3, <1>4

LEMMA FindRecipientInv ==
  ASSUME IInv, NEW p \in Request, FindRecipient(p)
  PROVE  IInv'
<1> USE DEF FindRecipient
<1>1. /\ Shape(proc[p]) /\ proc[p].step = "recipient" /\ proc[p] \in Handler
      /\ proc[p].from \in User /\ proc[p].to \in User /\ proc[p].from # proc[p].to
      /\ proc[p].n \in Amount
      /\ \A u \in User : lock[u] # p
  BY NoneAssumption DEF IInv, HandlersInShape, Shape, LocksAreHeld, TypeOK, Transferring
<1>2. OthersTyped'
  BY <1>1 DEF IInv, TypeOK, OthersTyped, history, tables
<1>3. balance[proc[p].to] \in Int
  BY <1>1 DEF IInv, TypeOK
<1> DEFINE h == [proc[p] EXCEPT !.step = IF proc[p].to \in open THEN "debit" ELSE "enrol",
                                !.beforeTo = balance[proc[p].to]]
<1>4. /\ h \in Handler
      /\ h.step \in {"debit", "enrol"} /\ h.from = proc[p].from
      /\ h.to = proc[p].to /\ h.n = proc[p].n /\ h.before = proc[p].before
      /\ h.beforeTo = balance[proc[p].to]
  BY <1>1, <1>3 DEF Handler
<1>5. proc' = [proc EXCEPT ![p] = h]
  BY DEF IInv, TypeOK
<1> HIDE DEF h
<1>6. Shape(h) /\ Touches(h) = Touches(proc[p])
  BY <1>1, <1>4 DEF Shape, Touches, Transferring
<1>7. Quiet(p, h) /\ KeepsLocks(p, h)
  BY <1>1, <1>4, <1>5, <1>6 DEF Quiet, KeepsLocks, history, tables
<1>8. proc'[p] = h
  BY <1>5 DEF IInv, TypeOK
<1>9. StaysFresh(p, h)
  BY <1>1, <1>4, <1>7, <1>8 DEF StaysFresh, Fresh, Quiet, Transferring
<1> QED
  BY <1>2, <1>7, <1>9, QuietInv

\* A transfer goes on to its next step with nothing new read.
LEMMA AdvanceInv ==
  ASSUME IInv, NEW p \in Request, NEW s \in {"debit", "credit"}, Goto(p, s),
         proc[p].step \in Transferring \ {"recipient"},
         UNCHANGED <<balance, statement, contested, disturbed, cut>>, OthersTyped',
         \A u \in User : lock'[u] # p => lock'[u] \in {lock[u], NoRequest}
  PROVE  IInv'
<1>1. PICK h \in Handler :
        /\ proc' = [proc EXCEPT ![p] = h]
        /\ h.step = s /\ h.who = proc[p].who /\ h.from = proc[p].from
        /\ h.to = proc[p].to /\ h.n = proc[p].n /\ h.before = proc[p].before
        /\ h.beforeTo = proc[p].beforeTo
  BY GotoFacts DEF IInv
<1>2. Shape(proc[p])
  BY DEF IInv, HandlersInShape
<1>3. Shape(h) /\ Touches(h) = Touches(proc[p])
  BY <1>1, <1>2 DEF Shape, Touches, Transferring
<1>4. Quiet(p, h) /\ KeepsLocks(p, h)
  BY <1>1, <1>3 DEF Quiet, KeepsLocks, Transferring
<1>5. proc'[p] = h
  BY <1>1 DEF IInv, TypeOK
<1>6. StaysFresh(p, h)
  BY <1>1, <1>4, <1>5 DEF StaysFresh, Fresh, Quiet, Transferring
<1> QED
  BY <1>4, <1>6, QuietInv

LEMMA CreateRecipientInv ==
  ASSUME IInv, NEW p \in Request, CreateRecipient(p)
  PROVE  IInv'
<1> USE DEF CreateRecipient
<1>1. /\ proc[p].step = "enrol" /\ proc[p].to \in User
      /\ \A u \in User : lock[u] # p
  BY NoneAssumption DEF IInv, HandlersInShape, Shape, LocksAreHeld, Transferring
<1>2. OthersTyped'
  BY <1>1 DEF IInv, TypeOK, OthersTyped, history
<1>3. CASE Done(p) /\ UNCHANGED lock
  BY <1>1, <1>2, <1>3, EndsInv DEF history
<1>4. CASE Goto(p, "debit") /\ lock' = [lock EXCEPT ![proc[p].to] = p]
  <2>1. \A u \in User : lock'[u] # p => lock'[u] \in {lock[u], NoRequest}
    BY <1>4 DEF IInv, TypeOK
  <2> QED
    BY <1>1, <1>2, <1>4, <2>1, AdvanceInv DEF history, Transferring
<1> QED
  BY <1>3, <1>4

LEMMA DebitSenderInv ==
  ASSUME IInv, NEW p \in Request, DebitSender(p)
  PROVE  IInv'
<1> USE DEF DebitSender
<1>1. \A u \in User : lock'[u] # p => lock'[u] \in {lock[u], NoRequest}
  BY DEF IInv, TypeOK
<1>2. OthersTyped'
  BY DEF IInv, TypeOK, OthersTyped, history
<1> QED
  BY <1>1, <1>2, AdvanceInv DEF history, Transferring

\* Whoever is waited for holds a row, so that a deadlock ends transfers only.
LEMMA BreakDeadlockInv ==
  ASSUME IInv, NEW p \in Request, BreakDeadlock(p)
  PROVE  IInv'
<1> USE DEF BreakDeadlock
<1>1. PICK q \in Request : WaitsFor(q, p)
  OBVIOUS
<1>2. Wants(q) \in User /\ lock[Wants(q)] = p
  <2>1. {proc[q].who, proc[q].from, proc[q].to} \subseteq User \cup {NoUser}
    BY SMTT(20) DEF IInv, TypeOK, Handler
  <2>2. Wants(q) \in {proc[q].who, proc[q].from, proc[q].to, NoUser}
    BY DEF Wants
  <2> QED
    BY <1>1, <2>1, <2>2 DEF WaitsFor
<1>3. proc[p].step \in {"debit", "credit"}
  BY <1>2, NoneAssumption DEF IInv, LocksAreHeld
<1>4. \A u \in User : lock'[u] # p /\ lock'[u] \in {lock[u], NoRequest}
  BY NoneAssumption DEF Released
<1>5. OthersTyped'
  BY ReleasedType DEF IInv, TypeOK, OthersTyped, history
<1> QED
  BY <1>3, <1>4, <1>5, EndsInv DEF history

LEMMA FailInv ==
  ASSUME IInv, NEW p \in Request, Fail(p)
  PROVE  IInv'
<1> USE DEF Fail
<1>1. \A u \in User : lock'[u] # p /\ lock'[u] \in {lock[u], NoRequest}
  BY NoneAssumption DEF Released
<1>2. /\ cut \subseteq cut'
      /\ proc[p].step = "apply" => proc[p].who \in cut'
  OBVIOUS
<1>3. proc[p].step = "apply" => proc[p].who \in User
  BY DEF IInv, HandlersInShape, Shape
<1>4. faults' \in 0..MaxFaults
  BY BoundsAssumption DEF IInv, TypeOK
<1>5. OthersTyped'
  BY <1>3, <1>4, ReleasedType DEF IInv, TypeOK, OthersTyped
<1> QED
  BY <1>1, <1>2, <1>5, EndsInv

----------------------------------------------------------------------------
\* The row is inserted: the statement is ahead by one pending handler more.
LEMMA InsertRowInv ==
  ASSUME IInv, NEW p \in Request, InsertRow(p)
  PROVE  IInv'
<1> USE DEF IInv, InsertRow
<1> DEFINE u == proc[p].who
<1>1. /\ Shape(proc[p]) /\ proc[p] \in Handler /\ proc[p].step = "book"
      /\ u \in User /\ proc[p].n \in Amount /\ Touches(proc[p]) = {u}
      /\ \A w \in User : lock[w] # p
  <2>1. Shape(proc[p]) /\ proc[p] \in Handler /\ proc[p].step = "book"
    BY DEF HandlersInShape, TypeOK
  <2>2. u \in User /\ proc[p].n \in Amount /\ Touches(proc[p]) = {u}
    BY <2>1, ShapeFacts DEF Shape
  <2>3. \A w \in User : lock[w] # p
    BY <2>1, NoneAssumption DEF LocksAreHeld
  <2> QED
    BY <2>1, <2>2, <2>3
<1>2. PICK h \in Handler :
        /\ proc' = [proc EXCEPT ![p] = h]
        /\ h.step = "apply" /\ h.who = proc[p].who /\ h.from = proc[p].from
        /\ h.to = proc[p].to /\ h.n = proc[p].n /\ h.before = proc[p].before
        /\ h.beforeTo = proc[p].beforeTo
  BY GotoFacts
<1>3. Shape(h) /\ Touches(h) = {u}
  BY <1>1, <1>2 DEF Shape, Touches, Transferring
<1>4. /\ proc' \in [Request -> Handler] /\ HandlersInShape'
      /\ proc'[p] = h /\ \A q \in Request \ {p} : proc'[q] = proc[q]
      /\ \A q \in Request \ {p} : Delta'[q] = Delta[q]
      /\ Delta'[p] = IF h.from = NoUser THEN h.n ELSE -h.n
      /\ Delta' \in [Request -> Int]
  BY <1>2, <1>3, MoveFacts
<1>5. Delta'[p] = Delta[p] /\ Delta[p] \in Int
      /\ Delta[p] = IF proc[p].from = NoUser THEN proc[p].n ELSE -proc[p].n
  BY <1>2, <1>4 DEF Delta
<1>6. /\ statement[u] \in Statement /\ proc[p].before \in Int
      /\ statement' = [statement EXCEPT ![u] = WithRow(statement[u], Delta[p], proc[p].before)]
  BY <1>1, <1>5 DEF TypeOK, Handler
<1>7. /\ WithRow(statement[u], Delta[p], proc[p].before) \in Statement
      /\ WithRow(statement[u], Delta[p], proc[p].before).sum = statement[u].sum + Delta[p]
      /\ WithRow(statement[u], Delta[p], proc[p].before).last = proc[p].before + Delta[p]
      /\ statement[u].last = proc[p].before
           => WithRow(statement[u], Delta[p], proc[p].before).chained = statement[u].chained
  BY <1>5, <1>6, WithRowFacts
<1>8. /\ statement' \in [User -> Statement]
      /\ statement'[u] = WithRow(statement[u], Delta[p], proc[p].before)
      /\ \A w \in User \ {u} : statement'[w] = statement[w]
      /\ UNCHANGED <<open, balance, lock, contested, disturbed, cut, faults, requests>>
  BY <1>1, <1>6, <1>7 DEF TypeOK, history
<1> HIDE DEF u
<1>9. TypeOK'
  BY <1>4, <1>8 DEF TypeOK
<1>10. LocksAreHeld'
  <2>1. \A w \in User : lock[w] # NoRequest => lock[w] \in Request \ {p}
    BY <1>1 DEF TypeOK
  <2> QED
    BY <1>4, <1>8, <2>1 DEF LocksAreHeld
<1>11. Accounted'
  <2> SUFFICES ASSUME NEW w \in User \ cut
               PROVE  AddsUp(statement'[w].sum - balance[w], Delta', Pending(w)')
    BY <1>8 DEF Accounted
  <2>1. AddsUp(statement[w].sum - balance[w], Delta, Pending(w))
    BY DEF Accounted
  <2>2. \A q \in Pending(w) : Delta'[q] = Delta[q]
    BY <1>4, <1>5 DEF Pending
  <2>3. AddsUp(statement[w].sum - balance[w], Delta', Pending(w))
    BY <2>1, <2>2, AddsUpSame
  <2>4. CASE w = u
    <3>1. Pending(w)' = Pending(w) \cup {p} /\ p \notin Pending(w)
      BY <1>1, <1>2, <1>4, <2>4 DEF Pending, u
    <3>2. AddsUp((statement[w].sum - balance[w]) + Delta'[p], Delta', Pending(w) \cup {p})
      BY <1>5, <2>3, <3>1, AddsUpMore
    <3>3. statement[w].sum \in Int /\ balance[w] \in Int
      BY DEF TypeOK, Statement
    <3>4. statement'[w].sum - balance[w] = (statement[w].sum - balance[w]) + Delta'[p]
      BY <1>5, <1>7, <1>8, <2>4, <3>3
    <3> QED
      BY <3>1, <3>2, <3>4
  <2>5. CASE w # u
    <3>1. Pending(w)' = Pending(w)
      BY <1>1, <1>2, <1>4, <2>5 DEF Pending, u
    <3> QED
      BY <1>8, <2>3, <2>5, <3>1
  <2> QED
    BY <2>4, <2>5
<1>12. Isolation'
  BY <1>1, <1>3, <1>4, <1>8 DEF Isolation
<1>13. Calm' = Calm /\ (u \in Calm => Fresh(p, u))
  BY <1>1, <1>8 DEF Calm, HandlersAreFresh
<1>14. u \in Calm => \A q \in Request \ {p} : u \notin Touches(proc[q])
  BY <1>1 DEF Calm, Isolation
<1>15. HandlersAreFresh'
  <2> SUFFICES ASSUME NEW w \in Calm, NEW q \in Request, w \in Touches(proc'[q])
               PROVE  Fresh(q, w)'
    BY <1>13 DEF HandlersAreFresh
  <2>1. CASE q = p
    <3>1. w = u
      BY <1>3, <1>4, <2>1
    <3> QED
      BY <1>1, <1>2, <1>4, <1>5, <1>7, <1>8, <1>13, <2>1, <3>1 DEF Fresh, Transferring
  <2>2. CASE q # p
    <3>1. w # u /\ Fresh(q, w)
      BY <1>4, <1>14, <2>2 DEF HandlersAreFresh
    <3> QED
      BY <1>4, <1>8, <2>2, <3>1 DEF Fresh, Calm
  <2> QED
    BY <2>1, <2>2
<1>16. RestIsChained'
  <2>1. u \in Calm => statement'[u].chained
    BY <1>1, <1>7, <1>8, <1>13 DEF RestIsChained, Fresh
  <2>2. \A w \in Calm : (\A q \in Request : w \notin Touches(proc'[q])) => w # u
    BY <1>3, <1>4
  <2> QED
    BY <1>1, <1>3, <1>4, <1>8, <1>13, <2>1, <2>2 DEF RestIsChained, Calm
<1>17. SpendersAreCovered'
  BY <1>2, <1>4, <1>8 DEF SpendersAreCovered
<1> QED
  BY <1>4, <1>9, <1>10, <1>11, <1>12, <1>15, <1>16, <1>17

----------------------------------------------------------------------------
\* Handler p is done with the users it touched.
LEMMA DoneFacts ==
  ASSUME IInv, NEW p \in Request, Done(p)
  PROVE  /\ proc' \in [Request -> Handler] /\ HandlersInShape'
         /\ proc'[p] = Idle /\ \A q \in Request \ {p} : proc'[q] = proc[q]
         /\ \A q \in Request \ {p} : Delta'[q] = Delta[q]
         /\ Touches(proc'[p]) = {} /\ proc'[p].from = NoUser /\ proc'[p].step = "idle"
<1>1. Touches(Idle) = {} /\ Idle.from = NoUser
  BY IdleFacts, ShapeFacts
<1> QED
  BY <1>1, IdleFacts, MoveFacts DEF Done, IInv

\* The balance catches up with the row of p, which is pending no longer.
LEMMA UpdateBalanceInv ==
  ASSUME IInv, NEW p \in Request, UpdateBalance(p)
  PROVE  IInv'
<1> USE DEF IInv, UpdateBalance
<1> DEFINE u == proc[p].who
<1>1. /\ Shape(proc[p]) /\ proc[p] \in Handler /\ proc[p].step = "apply"
      /\ u \in User /\ proc[p].n \in Nat /\ Touches(proc[p]) = {u}
      /\ proc[p].from \in {u, NoUser}
      /\ \A w \in User : lock[w] # p
  <2>1. Shape(proc[p]) /\ proc[p] \in Handler /\ proc[p].step = "apply"
    BY DEF HandlersInShape, TypeOK
  <2>2. u \in User /\ proc[p].n \in Nat /\ Touches(proc[p]) = {u} /\ proc[p].from \in {u, NoUser}
    BY <2>1, ShapeFacts, HandlerInt DEF Shape
  <2>3. \A w \in User : lock[w] # p
    BY <2>1, NoneAssumption DEF LocksAreHeld
  <2> QED
    BY <2>1, <2>2, <2>3
<1>2. /\ proc' \in [Request -> Handler] /\ HandlersInShape'
      /\ \A q \in Request \ {p} : proc'[q] = proc[q]
      /\ \A q \in Request \ {p} : Delta'[q] = Delta[q]
      /\ Touches(proc'[p]) = {} /\ proc'[p].from = NoUser /\ proc'[p].step = "idle"
  BY DoneFacts
<1>3. /\ Delta \in [Request -> Int]
      /\ Delta[p] = IF proc[p].from = NoUser THEN proc[p].n ELSE -proc[p].n
  BY DeltaType DEF Delta
<1>4. /\ balance' \in [User -> Int]
      /\ balance'[u] = balance[u] + Delta[p]
      /\ balance[u] \in Int
      /\ \A w \in User \ {u} : balance'[w] = balance[w]
      /\ UNCHANGED <<open, statement, lock, contested, disturbed, cut, faults, requests>>
  BY <1>1, <1>3 DEF TypeOK, history
<1> HIDE DEF u
<1>5. TypeOK'
  BY <1>2, <1>4 DEF TypeOK
<1>6. LocksAreHeld'
  <2>1. \A w \in User : lock[w] # NoRequest => lock[w] \in Request \ {p}
    BY <1>1 DEF TypeOK
  <2> QED
    BY <1>2, <1>4, <2>1 DEF LocksAreHeld
<1>7. Accounted'
  <2> SUFFICES ASSUME NEW w \in User \ cut
               PROVE  AddsUp(statement[w].sum - balance'[w], Delta', Pending(w)')
    BY <1>4 DEF Accounted
  <2>1. AddsUp(statement[w].sum - balance[w], Delta, Pending(w))
    BY DEF Accounted
  <2>2. Pending(w)' = Pending(w) \ {p}
    BY <1>2 DEF Pending
  <2>3. \A q \in Pending(w) \ {p} : Delta'[q] = Delta[q]
    BY <1>2 DEF Pending
  <2>4. CASE w = u
    <3>1. p \in Pending(w) /\ \A q \in Pending(w) : Delta[q] \in Int
      BY <1>1, <1>3, <2>4 DEF Pending, u
    <3>2. AddsUp((statement[w].sum - balance[w]) - Delta[p], Delta, Pending(w) \ {p})
      BY <2>1, <3>1, AddsUpLess
    <3>3. statement[w].sum \in Int
      BY DEF TypeOK, Statement
    <3>4. statement[w].sum - balance'[w] = (statement[w].sum - balance[w]) - Delta[p]
      BY <1>3, <1>4, <2>4, <3>3
    <3> QED
      BY <2>2, <2>3, <3>2, <3>4, AddsUpSame
  <2>5. CASE w # u
    <3>1. p \notin Pending(w)
      BY <2>5 DEF Pending, u
    <3>2. Pending(w) \ {p} = Pending(w)
      BY <3>1
    <3>3. AddsUp(statement[w].sum - balance[w], Delta', Pending(w))
      BY <2>1, <2>3, <3>2, AddsUpSame
    <3> QED
      BY <1>4, <2>2, <2>5, <3>2, <3>3
  <2> QED
    BY <2>4, <2>5
<1>8. Isolation'
  BY <1>2, <1>4 DEF Isolation
<1>9. Calm' = Calm
  BY <1>4 DEF Calm
<1>10. u \in Calm => /\ \A q \in Request \ {p} : u \notin Touches(proc[q])
                     /\ statement[u].last = balance'[u]
  <2>1. u \in Calm => Fresh(p, u)
    BY <1>1 DEF HandlersAreFresh
  <2> QED
    BY <1>1, <1>4, <2>1 DEF Fresh, Calm, Isolation
<1>11. HandlersAreFresh'
  <2> SUFFICES ASSUME NEW w \in Calm, NEW q \in Request, w \in Touches(proc'[q])
               PROVE  Fresh(q, w)'
    BY <1>9 DEF HandlersAreFresh
  <2>1. q # p /\ w # u /\ Fresh(q, w)
    BY <1>2, <1>10 DEF HandlersAreFresh
  <2> QED
    BY <1>2, <1>4, <2>1 DEF Fresh, Calm
<1>12. RestIsChained'
  BY <1>1, <1>2, <1>4, <1>9, <1>10 DEF RestIsChained, Calm
<1>13. SpendersAreCovered'
  <2> SUFFICES ASSUME NEW w \in User \ contested, NEW q \in Request, proc'[q].from = w
               PROVE  /\ \A r \in Request : proc'[r].from = w => q = r
                      /\ balance'[w] >= proc'[q].n
    BY <1>4 DEF SpendersAreCovered
  <2>1. q # p
    BY <1>2, NoneAssumption
  <2>2. /\ \A r \in Request : proc[r].from = w => q = r
        /\ balance[w] >= proc[q].n
    BY <1>2, <2>1 DEF SpendersAreCovered
  <2>3. \A r \in Request : proc'[r].from = w => q = r
    BY <1>2, <2>2, NoneAssumption
  <2>4. CASE w = u
    <3>1. proc[p].from = NoUser
      BY <1>1, <2>1, <2>2, <2>4
    <3>2. balance'[u] >= balance[u]
      BY <1>1, <1>3, <1>4, <3>1
    <3>3. proc[q].n \in Int /\ balance'[u] \in Int
      BY <1>1, <1>4, HandlerInt DEF TypeOK, u
    <3> QED
      BY <1>2, <1>4, <2>1, <2>2, <2>3, <2>4, <3>2, <3>3
  <2>5. CASE w # u
    BY <1>2, <1>4, <2>1, <2>2, <2>3, <2>5
  <2> QED
    BY <2>4, <2>5
<1> QED
  BY <1>2, <1>5, <1>6, <1>7, <1>8, <1>11, <1>12, <1>13

\* A transfer writes the rows and the balances of both users at once.
LEMMA CreditRecipientInv ==
  ASSUME IInv, NEW p \in Request, CreditRecipient(p)
  PROVE  IInv'
<1> USE DEF IInv, CreditRecipient
<1> DEFINE a == proc[p].from
           b == proc[p].to
           n == proc[p].n
<1>1. /\ proc[p] \in Handler /\ proc[p].step = "credit"
      /\ a \in User /\ b \in User /\ a # b /\ n \in Nat /\ -n \in Int
      /\ Touches(proc[p]) = {a, b}
      /\ proc[p].before \in Int /\ proc[p].beforeTo \in Int
  <2>1. Shape(proc[p]) /\ proc[p] \in Handler /\ proc[p].step = "credit"
    BY DEF HandlersInShape, TypeOK
  <2>2. n \in Nat /\ n \in Int
    BY <2>1, HandlerInt
  <2> QED
    BY <2>1, <2>2, ShapeFacts DEF Shape, Transferring, Handler
<1>2. /\ proc' \in [Request -> Handler] /\ HandlersInShape'
      /\ \A q \in Request \ {p} : proc'[q] = proc[q]
      /\ \A q \in Request \ {p} : Delta'[q] = Delta[q]
      /\ Touches(proc'[p]) = {} /\ proc'[p].from = NoUser /\ proc'[p].step = "idle"
  BY DoneFacts
<1>3. /\ balance' \in [User -> Int]
      /\ balance'[a] = balance[a] - n /\ balance'[b] = balance[b] + n
      /\ balance[a] \in Int /\ balance[b] \in Int
      /\ \A w \in User \ {a, b} : balance'[w] = balance[w]
      /\ UNCHANGED <<contested, disturbed, cut, faults, requests>>
  BY <1>1 DEF TypeOK, history
<1>4. /\ WithRow(statement[a], -n, proc[p].before) \in Statement
      /\ WithRow(statement[a], -n, proc[p].before).sum = statement[a].sum + -n
      /\ WithRow(statement[a], -n, proc[p].before).last = proc[p].before + -n
      /\ statement[a].last = proc[p].before
           => WithRow(statement[a], -n, proc[p].before).chained = statement[a].chained
  BY <1>1, WithRowFacts DEF TypeOK
<1>5. /\ WithRow(statement[b], n, proc[p].beforeTo) \in Statement
      /\ WithRow(statement[b], n, proc[p].beforeTo).sum = statement[b].sum + n
      /\ WithRow(statement[b], n, proc[p].beforeTo).last = proc[p].beforeTo + n
      /\ statement[b].last = proc[p].beforeTo
           => WithRow(statement[b], n, proc[p].beforeTo).chained = statement[b].chained
  BY <1>1, WithRowFacts DEF TypeOK
<1>6. /\ statement' \in [User -> Statement]
      /\ statement'[a] = WithRow(statement[a], -n, proc[p].before)
      /\ statement'[b] = WithRow(statement[b], n, proc[p].beforeTo)
      /\ \A w \in User \ {a, b} : statement'[w] = statement[w]
  BY <1>1, <1>4, <1>5 DEF TypeOK
<1>7. open' \subseteq User /\ lock' = Released(p)
  BY <1>1 DEF TypeOK
<1> HIDE DEF a, b, n
<1>8. TypeOK'
  BY <1>2, <1>3, <1>6, <1>7, ReleasedType, SMTT(20) DEF TypeOK
<1>9. LocksAreHeld'
  <2>1. \A w \in User : lock'[w] # NoRequest => lock'[w] = lock[w] /\ lock[w] \in Request \ {p}
    BY <1>7 DEF Released, TypeOK
  <2> QED
    BY <1>2, <2>1 DEF LocksAreHeld
<1>10. Accounted'
  <2> SUFFICES ASSUME NEW w \in User \ cut
               PROVE  AddsUp(statement'[w].sum - balance'[w], Delta', Pending(w)')
    BY <1>3 DEF Accounted
  <2>1. AddsUp(statement[w].sum - balance[w], Delta, Pending(w))
    BY DEF Accounted
  <2>2. p \notin Pending(w) /\ Pending(w)' = Pending(w)
    BY <1>1, <1>2 DEF Pending
  <2>3. \A q \in Pending(w) : Delta'[q] = Delta[q]
    BY <1>2, <2>2 DEF Pending
  <2>4. statement[w].sum \in Int
    BY DEF TypeOK, Statement
  <2>5. statement'[w].sum - balance'[w] = statement[w].sum - balance[w]
    BY <1>1, <1>3, <1>4, <1>5, <1>6, <2>4, SMTT(20)
  <2> QED
    BY <2>1, <2>2, <2>3, <2>5, AddsUpSame
<1>11. Isolation'
  BY <1>2, <1>3 DEF Isolation
<1>12. Calm' = Calm
  BY <1>3 DEF Calm
<1>13. \A w \in Calm \cap {a, b} :
         /\ \A q \in Request \ {p} : w \notin Touches(proc[q])
         /\ statement'[w].last = balance'[w]
         /\ statement'[w].chained
  <2> SUFFICES ASSUME NEW w \in Calm, w \in {a, b}
               PROVE  /\ \A q \in Request \ {p} : w \notin Touches(proc[q])
                      /\ statement'[w].last = balance'[w]
                      /\ statement'[w].chained
    OBVIOUS
  <2>1. Fresh(p, w) /\ statement[w].chained
    BY <1>1 DEF HandlersAreFresh, RestIsChained
  <2>2. \A q \in Request \ {p} : w \notin Touches(proc[q])
    BY <1>1 DEF Calm, Isolation
  <2>3. CASE w = a
    <3>1. statement[a].last = balance[a] /\ proc[p].before = balance[a]
      BY <1>1, <2>1, <2>3 DEF Fresh, Transferring, a
    <3>2. statement'[a].last = proc[p].before + -n
      BY <1>1, <1>4, <1>6
    <3>3. statement'[a].chained
      BY <1>1, <1>4, <1>6, <2>1, <2>3, <3>1
    <3>4. statement'[a].last = balance'[a]
      BY <1>1, <1>3, <3>1, <3>2
    <3> QED
      BY <2>2, <2>3, <3>3, <3>4
  <2>4. CASE w = b
    <3>1. statement[b].last = balance[b] /\ proc[p].beforeTo = balance[b]
      BY <1>1, <2>1, <2>4 DEF Fresh, Transferring, b
    <3>2. statement'[b].last = proc[p].beforeTo + n
      BY <1>1, <1>5, <1>6
    <3>3. statement'[b].chained
      BY <1>1, <1>5, <1>6, <2>1, <2>4, <3>1
    <3>4. statement'[b].last = balance'[b]
      BY <1>1, <1>3, <3>1, <3>2
    <3> QED
      BY <2>2, <2>4, <3>3, <3>4
  <2> QED
    BY <2>3, <2>4
<1>14. HandlersAreFresh'
  <2> SUFFICES ASSUME NEW w \in Calm, NEW q \in Request, w \in Touches(proc'[q])
               PROVE  Fresh(q, w)'
    BY <1>12 DEF HandlersAreFresh
  <2>1. q # p /\ w \notin {a, b} /\ Fresh(q, w)
    BY <1>2, <1>13 DEF HandlersAreFresh
  <2> QED
    BY <1>2, <1>3, <1>6, <2>1 DEF Fresh, Calm
<1>15. RestIsChained'
  <2> SUFFICES ASSUME NEW w \in Calm
               PROVE  /\ statement'[w].chained
                      /\ (\A q \in Request : w \notin Touches(proc'[q]))
                           => statement'[w].last = balance'[w]
    BY <1>12 DEF RestIsChained
  <2>1. CASE w \in {a, b}
    BY <1>13, <2>1
  <2>2. CASE w \notin {a, b}
    <3>1. w \notin Touches(proc[p]) /\ statement'[w] = statement[w] /\ balance'[w] = balance[w]
      BY <1>1, <1>3, <1>6, <2>2 DEF Calm
    <3> QED
      BY <1>2, <3>1 DEF RestIsChained
  <2> QED
    BY <2>1, <2>2
<1>16. SpendersAreCovered'
  <2> SUFFICES ASSUME NEW w \in User \ contested, NEW q \in Request, proc'[q].from = w
               PROVE  /\ \A r \in Request : proc'[r].from = w => q = r
                      /\ balance'[w] >= proc'[q].n
    BY <1>3 DEF SpendersAreCovered
  <2>1. q # p
    BY <1>2, NoneAssumption
  <2>2. /\ \A r \in Request : proc[r].from = w => q = r
        /\ balance[w] >= proc[q].n
    BY <1>2, <2>1 DEF SpendersAreCovered
  <2>3. \A r \in Request : proc'[r].from = w => q = r
    BY <1>2, <2>2, NoneAssumption
  <2>4. w # a
    BY <2>1, <2>2 DEF a
  <2>5. proc[q].n \in Int
    BY HandlerInt DEF TypeOK
  <2>6. CASE w = b
    BY <1>1, <1>2, <1>3, <2>1, <2>2, <2>3, <2>5, <2>6
  <2>7. CASE w # b
    BY <1>2, <1>3, <2>1, <2>2, <2>3, <2>4, <2>7
  <2> QED
    BY <2>6, <2>7
<1> QED
  BY <1>2, <1>8, <1>9, <1>10, <1>11, <1>14, <1>15, <1>16

----------------------------------------------------------------------------
LEMMA NextInv == IInv /\ [Next]_vars => IInv'
<1> SUFFICES ASSUME IInv, [Next]_vars PROVE IInv'
  OBVIOUS
<1>1. CASE UNCHANGED vars
  <2> USE <1>1 DEF vars
  <2>1. TypeOK' /\ HandlersInShape' /\ LocksAreHeld' /\ Isolation' /\ SpendersAreCovered'
    BY DEF IInv, TypeOK, HandlersInShape, LocksAreHeld, Isolation, SpendersAreCovered
  <2>2. Accounted'
    BY DEF IInv, Accounted, Delta, Pending
  <2>3. HandlersAreFresh' /\ RestIsChained'
    BY DEF IInv, HandlersAreFresh, RestIsChained, Calm, Fresh, Delta
  <2> QED
    BY <2>1, <2>2, <2>3 DEF IInv
<1>2. ASSUME NEW p \in Request, Continue(p) PROVE IInv'
  BY <1>2, CreateAccountInv, InsertRowInv, UpdateBalanceInv, FindRecipientInv,
     CreateRecipientInv, DebitSenderInv, CreditRecipientInv DEF Continue
<1> QED
  BY <1>1, <1>2, BeginInv, BreakDeadlockInv, FailInv DEF Next

THEOREM Invariance == Spec => []IInv
<1>1. Init => IInv
  BY InitInv
<1>2. IInv /\ [Next]_vars => IInv'
  BY NextInv
<1> QED
  BY <1>1, <1>2, PTL DEF Spec

\* Every variable keeps its type.
THEOREM TypeCorrect == Spec => []TypeOK
<1>1. IInv => TypeOK
  BY DEF IInv
<1> QED
  BY <1>1, Invariance, PTL

LEMMA IInvImpliesLedger == IInv => LedgerIsTrue
<1> SUFFICES ASSUME IInv PROVE LedgerIsTrue
  OBVIOUS
<1> USE DEF IInv
<1>1. ASSUME NEW u \in User \ cut, \A p \in Request : proc[p].step = "apply" => proc[p].who # u
      PROVE  balance[u] = statement[u].sum
  <2>1. Pending(u) = {}
    BY <1>1 DEF Pending
  <2>2. statement[u].sum - balance[u] = 0
    BY <2>1, AddsUpNothing DEF Accounted
  <2>3. statement[u].sum \in Int /\ balance[u] \in Int
    BY DEF TypeOK, Statement
  <2> QED
    BY <2>2, <2>3
<1>2. ASSUME NEW u \in Calm, \A p \in Request : proc[p].step = "apply" => proc[p].who # u
      PROVE  statement[u].last = balance[u]
  <2>1. ASSUME NEW p \in Request, u \in Touches(proc[p]) PROVE statement[u].last = balance[u]
    <3>1. Fresh(p, u) /\ Shape(proc[p])
      BY <2>1 DEF HandlersAreFresh, HandlersInShape
    <3>2. proc[p].step # "apply"
      BY <1>2, <2>1, <3>1, ShapeFacts
    <3> QED
      BY <3>1, <3>2 DEF Fresh
  <2> QED
    BY <2>1 DEF RestIsChained
<1>3. \A u \in User \ (cut \cup disturbed) : u \in Calm
  BY DEF Calm
<1>4. HistoryIsChained
  BY <1>2, <1>3 DEF HistoryIsChained, RestIsChained
<1> QED
  BY <1>1, <1>4 DEF LedgerIsTrue, BalanceMatchesLedger

\* For any number of users and handlers, any amounts and any number of faults: the rows of
\* a user add up to his balance, and his statement is a chain that ends at it, wherever
\* the handlers of points.service.ts could keep that up.
THEOREM LedgerCorrect == Spec => []LedgerIsTrue
BY Invariance, IInvImpliesLedger, PTL

----------------------------------------------------------------------------
LEMMA InitRefines == Init => Promise!Init
<1> SUFFICES ASSUME Init PROVE Promise!Init
  OBVIOUS
<1>1. Opening \cup {0} \subseteq Nat
  BY AmountAssumption
<1> QED
  BY <1>1 DEF Init, Promise!Init

\* What a handler does before and between the writes to the balances is no step of Bank, or
\* it makes two spendings of a user meet.
LEMMA BeginRefines ==
  ASSUME IInv, NEW p \in Request, Begin(p)
  PROVE  [Promise!Next]_(Promise!vars)
<1>1. PICK h : Start(p, h) /\ Starts(h)
  BY BeginStarts DEF IInv
<1>2. UNCHANGED balance
  BY <1>1 DEF Start, tables
<1>3. contested' = contested \/ (h.from \in User /\ contested' = contested \cup {h.from})
  BY <1>1 DEF Start
<1> QED
  BY <1>2, <1>3 DEF Promise!vars, Promise!Next, Promise!Contest

LEMMA UpdateBalanceRefines ==
  ASSUME IInv, NEW p \in Request, UpdateBalance(p)
  PROVE  Promise!Next
<1> DEFINE u == proc[p].who
           n == proc[p].n
<1>1. u \in User /\ n \in Amount /\ proc[p].from \in {u, NoUser}
  BY DEF IInv, HandlersInShape, Shape, UpdateBalance
<1>2. UNCHANGED contested
  BY DEF UpdateBalance, history
<1>3. CASE proc[p].from = NoUser
  <2>1. Promise!Award(u, n)
    BY <1>3 DEF UpdateBalance, Promise!Award
  <2> QED
    BY <1>1, <1>2, <2>1 DEF Promise!Next
<1>4. CASE proc[p].from = u
  <2>1. u \in contested \/ balance[u] >= n
    BY <1>1, <1>4 DEF IInv, SpendersAreCovered
  <2>2. Promise!Redeem(u, n)
    BY <1>1, <1>4, <2>1, NoneAssumption DEF UpdateBalance, Promise!Redeem, Promise!MaySpend
  <2> QED
    BY <1>1, <1>2, <2>2 DEF Promise!Next
<1> QED
  BY <1>1, <1>3, <1>4

LEMMA CreditRecipientRefines ==
  ASSUME IInv, NEW p \in Request, CreditRecipient(p)
  PROVE  Promise!Next
<1> DEFINE u == proc[p].from
           v == proc[p].to
           n == proc[p].n
<1>1. u \in User /\ v \in User /\ u # v /\ n \in Amount
  BY DEF IInv, HandlersInShape, Shape, CreditRecipient, Transferring
<1>2. u \in contested \/ balance[u] >= n
  BY <1>1 DEF IInv, SpendersAreCovered
<1>3. Promise!Transfer(u, v, n)
  BY <1>1, <1>2 DEF CreditRecipient, Promise!Transfer, Promise!MaySpend
<1> QED
  BY <1>1, <1>3 DEF Promise!Next, CreditRecipient, history

LEMMA NextRefines == IInv /\ [Next]_vars => [Promise!Next]_(Promise!vars)
<1> SUFFICES ASSUME IInv, [Next]_vars PROVE [Promise!Next]_(Promise!vars)
  OBVIOUS
<1>1. CASE UNCHANGED vars
  BY <1>1 DEF vars, Promise!vars
<1>2. ASSUME NEW p \in Request,
             \/ CreateAccount(p) \/ InsertRow(p) \/ FindRecipient(p) \/ CreateRecipient(p)
             \/ DebitSender(p) \/ BreakDeadlock(p) \/ Fail(p)
      PROVE  UNCHANGED Promise!vars
  BY <1>2 DEF CreateAccount, InsertRow, FindRecipient, CreateRecipient, DebitSender,
     BreakDeadlock, Fail, tables, history, Promise!vars
<1> QED
  BY <1>1, <1>2, BeginRefines, UpdateBalanceRefines, CreditRecipientRefines DEF Next, Continue

\* The handlers implement Bank: a balance only changes by an award, a redemption or a whole
\* transfer, and who spends did have the points unless two of his spendings met.
THEOREM PromiseKept == Spec => KeepsPromise
<1>1. Init => Promise!Init
  BY InitRefines
<1>2. IInv /\ [Next]_vars => [Promise!Next]_(Promise!vars)
  BY NextRefines
<1> QED
  BY <1>1, <1>2, Invariance, PTL DEF Spec, KeepsPromise, Promise!Spec

=============================================================================
