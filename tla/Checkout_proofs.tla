--------------------------- MODULE Checkout_proofs ---------------------------
(***************************************************************************)
(* Proofs about Checkout and PromoterProgram: for any number of buyers,    *)
(* localities, invoices, promoters, codes, handlers and failures, limits   *)
(* run out, the amounts of an invoice add up, a promoter gets what he was  *)
(* promised once, and the programme knows its promoters.  The argument is  *)
(* one of ownership: a row, a locality or a code that no two handlers met  *)
(* on has one handler at most, and what that one read is true until it     *)
(* writes.                                                                 *)
(***************************************************************************)
EXTENDS Checkout, SumTheorems, TLAPS

----------------------------------------------------------------------------
\* Arithmetic of a sale.

\* A percentage is rounded to the nearest: it is off by half a unit at most.
LEMMA PercentRounds ==
  ASSUME NEW x \in Nat, NEW v \in Nat
  PROVE  /\ Percent(x, v) \in Nat
         /\ -99 <= 200 * Percent(x, v) - 2 * (v * x)
         /\ 200 * Percent(x, v) - 2 * (v * x) <= 100
<1> DEFINE y == v * x
           q == (2 * y + 100) \div 200
<1>1. y \in Nat /\ 2 * x * v = 2 * y
  OBVIOUS
<1> HIDE DEF y
<1>2. q \in Nat /\ 200 * q <= 2 * y + 100 /\ 2 * y + 100 < 200 * q + 200
  BY <1>1
<1>3. Percent(x, v) = q
  BY <1>1 DEF Percent
<1> HIDE DEF q
<1>4. -99 <= 200 * q - 2 * y /\ 200 * q - 2 * y <= 100
  BY <1>1, <1>2
<1> QED
  BY <1>2, <1>3, <1>4 DEF y

LEMMA PercentInt ==
  ASSUME NEW x \in Int, NEW v \in Nat
  PROVE  Percent(x, v) \in Int
<1>1. 2 * x * v + 100 \in Int
  OBVIOUS
<1> QED
  BY <1>1 DEF Percent

\* At most a hundred percent is at most the whole.
LEMMA PercentWithin ==
  ASSUME NEW x \in Nat, NEW v \in Nat, v <= 100
  PROVE  Percent(x, v) <= x
<1> DEFINE y == v * x
           q == Percent(x, v)
<1>1. q \in Nat /\ 200 * q - 2 * y <= 100
  BY PercentRounds
<1>2. y \in Nat /\ y <= 100 * x
  OBVIOUS
<1> HIDE DEF y, q
<1>3. q <= x
  BY <1>1, <1>2
<1> QED
  BY <1>3 DEF q

\* More has a percentage as large.
LEMMA PercentGrows ==
  ASSUME NEW x \in Nat, NEW z \in Nat, NEW v \in Nat, x <= z
  PROVE  Percent(x, v) <= Percent(z, v)
<1> DEFINE a == v * x
           b == v * z
           q == Percent(x, v)
           r == Percent(z, v)
<1>1. q \in Nat /\ 200 * q - 2 * a <= 100
  BY PercentRounds
<1>2. r \in Nat /\ -99 <= 200 * r - 2 * b
  BY PercentRounds
<1>3. a \in Nat /\ b \in Nat /\ a <= b
  OBVIOUS
<1> HIDE DEF a, b, q, r
<1>4. q <= r
  BY <1>1, <1>2, <1>3
<1> QED
  BY <1>4 DEF q, r

\* What is left of a price is at most the price; and not less than nothing, but for a
\* percentage beyond a hundred.
LEMMA DiscountWithin ==
  ASSUME NEW x \in Nat, NEW type \in 0..2, NEW v \in Nat
  PROVE  /\ AfterDiscount(x, type, v) \in Int
         /\ AtLeast0(AfterDiscount(x, type, v)) \in 0..x
         /\ type # 1 \/ v <= 100 => AfterDiscount(x, type, v) \in 0..x
<1>1. CASE type = 1
  <2>1. AfterDiscount(x, type, v) = x - Percent(x, v) /\ Percent(x, v) \in Nat
    BY <1>1, PercentRounds DEF AfterDiscount
  <2>2. v <= 100 => Percent(x, v) <= x
    BY PercentWithin
  <2> QED
    BY <1>1, <2>1, <2>2 DEF AtLeast0
<1>2. CASE type = 2
  BY <1>2 DEF AfterDiscount, AtLeast0
<1>3. CASE type = 0
  BY <1>3 DEF AfterDiscount, AtLeast0
<1> QED
  BY <1>1, <1>2, <1>3

LEMMA CommissionInt ==
  ASSUME NEW r \in Rule, NEW base \in Int, NEW qty
  PROVE  CommissionOf(r, base, qty) \in Int
<1>1. r.amount \in Nat
  BY RuleAssumption
<1>2. Percent(base, r.amount) \in Int
  BY <1>1, PercentInt
<1> QED
  BY <1>1, <1>2 DEF CommissionOf

\* The items of a cart or of an invoice.
LEMMA CartFacts ==
  ASSUME NEW c \in Cart
  PROVE  /\ c # <<>> /\ c \in Seq([stage: Stage, locality: Locality, qty: Nat \ {0}])
         /\ IsFiniteSet(DOMAIN c) /\ DOMAIN c = 1..Len(c)
         /\ \A k \in DOMAIN c : /\ c[k].stage \in Stage /\ c[k].locality \in Locality
                                /\ c[k].qty \in Nat /\ c[k].qty # 0
<1> DEFINE item == [stage: Stage, locality: Locality, qty: Nat \ {0}]
<1>1. c # <<>> /\ c \in Seq(item)
  BY CartAssumption
<1> HIDE DEF item
<1>2. DOMAIN c = 1..Len(c) /\ Len(c) \in Nat
  BY <1>1
<1>3. IsFiniteSet(1..Len(c))
  BY <1>2, FS_Interval
<1>4. \A k \in DOMAIN c : c[k] \in item
  BY <1>1, <1>2
<1> USE DEF item
<1>5. \A k \in DOMAIN c : /\ c[k].stage \in Stage /\ c[k].locality \in Locality
                           /\ c[k].qty \in Nat /\ c[k].qty # 0
  BY <1>4
<1> QED
  BY <1>1, <1>2, <1>3, <1>5

LEMMA ItemsFacts ==
  ASSUME NEW s \in Seq(ItemRows)
  PROVE  /\ IsFiniteSet(DOMAIN s) /\ DOMAIN s = 1..Len(s)
         /\ \A k \in DOMAIN s : s[k] \in ItemRows
<1>1. DOMAIN s = 1..Len(s) /\ Len(s) \in Nat
  OBVIOUS
<1>2. IsFiniteSet(1..Len(s))
  BY <1>1, FS_Interval
<1> QED
  BY <1>1, <1>2

\* Counts of tickets are natural numbers.
LEMMA QtyNat ==
  ASSUME NEW s, IsFiniteSet(DOMAIN s), \A k \in DOMAIN s : s[k].qty \in Nat, NEW L
  PROVE  QtyIn(s, L) \in Nat
<1> DEFINE f == [k \in DOMAIN s |-> IF s[k].locality \in L THEN s[k].qty ELSE 0]
<1>1. \A k \in DOMAIN s : f[k] \in Nat
  OBVIOUS
<1>2. DOMAIN f = DOMAIN s /\ QtyIn(s, L) = SumFunctionOnSet(f, DOMAIN f)
  BY DEF QtyIn, SumFunction
<1> HIDE DEF f
<1> QED
  BY <1>1, <1>2, SumNat

LEMMA IssuedNat ==
  ASSUME invoice \in [Invoice -> InvoiceRow], NEW i \in Invoice, NEW L
  PROVE  IssuedIn(i, L) \in Nat
<1> DEFINE s == invoice[i].items
           f == [k \in DOMAIN s |-> IF s[k].issued /\ s[k].locality \in L THEN s[k].qty ELSE 0]
<1>1. s \in Seq(ItemRows)
  BY DEF InvoiceRow
<1>2. IsFiniteSet(DOMAIN s) /\ \A k \in DOMAIN s : s[k] \in ItemRows
  BY <1>1, ItemsFacts
<1>3. \A k \in DOMAIN s : f[k] \in Nat
  BY <1>2 DEF ItemRows
<1>4. /\ DOMAIN f = DOMAIN s
      /\ IssuedIn(i, L) = IF invoice[i].status # "PAID" THEN 0
                          ELSE SumFunctionOnSet(f, DOMAIN f)
  BY DEF IssuedIn, SumFunction
<1> HIDE DEF f, s
<1>5. SumFunctionOnSet(f, DOMAIN s) \in Nat
  BY <1>2, <1>3, SumNat
<1> QED
  BY <1>4, <1>5

LEMMA SoldNat ==
  ASSUME invoice \in [Invoice -> InvoiceRow], NEW L
  PROVE  SoldIn(L) \in Nat
<1> DEFINE f == [i \in Invoice |-> IssuedIn(i, L)]
<1>1. DOMAIN f = Invoice /\ SoldIn(L) = SumFunctionOnSet(f, DOMAIN f)
  BY DEF SoldIn, SumFunction
<1>2. \A i \in Invoice : f[i] \in Nat
  BY IssuedNat
<1> HIDE DEF f
<1> QED
  BY <1>1, <1>2, FiniteAssumption, SumNat

----------------------------------------------------------------------------
(***************************************************************************)
(* PAYPAC's desk: what its handlers hold at each step.                     *)
(***************************************************************************)

\* What a clerk has in his hands at each step.
ClerkShape(h) ==
  /\ h.step = "idle" => h.rows = {}
  /\ h.step = "apply" => h.user \in Promoter /\ h.rows = {<<"user", h.user>>}
  /\ h.step \in {"approve", "reject"} =>
       h.user \in Promoter /\ \E a \in Application : h.rows = {<<"application", a>>}
  /\ h.step = "create" => /\ h.user \in Promoter /\ h.code \in Code
                          /\ h.rows = {<<"owner", h.user>>}
  /\ h.step \in {"toggle", "delete"} => h.code \in Code /\ h.rows = {<<"code", h.code>>}
  /\ h.step = "pay" => h.rows \subseteq {"balance"} \X Balance
  /\ h.step = "refund" => \E b \in Balance : h.rows = {<<"balance", b>>}

ClerksInShape == \A p \in Request : ClerkShape(desk[p])

\* Applications are of users, codes and balances of promoters.
RowsInShape ==
  /\ \A a \in Application : application[a].status # "none" => application[a].user \in Promoter
  /\ \A c \in Code : (code[c].owner = None) <=> (code[c].status \in {"none", "deleted"})
  /\ \A b \in Balance : IF balance[b].status = "none" THEN balance[b] = NoBalance
                        ELSE balance[b].owner # None

\* The types of the desk, and of the sale.
SaleTypeOK ==
  /\ event \in [status: EventStatus, max: Nat]
  /\ stage \in [Stage -> [locality: Locality, price: Nat]]
  /\ locality \in [Locality -> [quota: Nat, sold: Nat]]
  /\ discount \in [type: 0..2, value: Nat, max: Nat, min: Nat, active: BOOLEAN, uses: Nat]
  /\ rule \in Rule
  /\ invoice \in [Invoice -> InvoiceRow]
  /\ till \in [Request -> Till]
  /\ given \in Nat
  /\ contended \subseteq Key

DeskShape == PromoterTypeOK /\ ClerksInShape

LEMMA TypeSplits == TypeOK <=> PromoterTypeOK /\ SaleTypeOK
BY DEF TypeOK, SaleTypeOK

LEMMA NoneIsNone ==
  /\ None \notin Promoter /\ None \notin Application /\ None \notin Code
  /\ None \notin Balance /\ None \notin Invoice
BY PromoterNoneAssumption

\* A clerk turns to something else, and the others stay where they are.
LEMMA ClerkPut ==
  ASSUME DeskShape, NEW p \in Request, NEW h \in Clerk, ClerkShape(h),
         desk' = [desk EXCEPT ![p] = h]
  PROVE  /\ desk' \in [Request -> Clerk] /\ ClerksInShape'
         /\ desk'[p] = h /\ \A q \in Request \ {p} : desk'[q] = desk[q]
<1>1. desk \in [Request -> Clerk]
  BY DEF DeskShape, PromoterTypeOK
<1>2. desk'[p] = h /\ \A q \in Request \ {p} : desk'[q] = desk[q]
  BY <1>1
<1>3. desk' \in [Request -> Clerk]
  BY <1>1
<1>4. ASSUME NEW q \in Request PROVE ClerkShape(desk'[q])
  <2>1. CASE q = p
    BY <1>2, <2>1
  <2>2. CASE q # p
    BY <1>2, <2>2 DEF DeskShape, ClerksInShape
  <2> QED
    BY <2>1, <2>2
<1>5. ClerksInShape'
  BY <1>4 DEF ClerksInShape
<1> QED
  BY <1>2, <1>3, <1>5

LEMMA IdleShape == Idle \in Clerk /\ ClerkShape(Idle) /\ Idle.step = "idle" /\ Idle.rows = {}
BY DEF Idle, Clerk, ClerkShape

\* What a handler starts with.
Begins(p, h) ==
  /\ desk[p].step = "idle" /\ h.step # "idle"
  /\ desk' = [desk EXCEPT ![p] = h]
  /\ crossed' \subseteq Row
  /\ crossed \cup (h.rows \cap UNION {desk[q].rows : q \in Request}) \subseteq crossed'
  /\ UNCHANGED <<people, code, promoterCode, money, faults>>

\* What every kind of handler has read.
Read(h) ==
  \/ /\ h.step = "apply" /\ ApplicationsOf(h.user, "PENDING") = {}
  \/ \E a \in Application :
       /\ h.step \in {"approve", "reject"} /\ h.rows = {<<"application", a>>}
       /\ h.user = application[a].user /\ application[a].status = "PENDING"
  \/ h.step = "create" /\ CodesOf(h.user) = {}
  \/ h.step \in {"toggle", "delete"}
  \/ /\ h.step = "pay"
     /\ \A b \in Balance : <<"balance", b>> \in h.rows =>
          /\ balance[b].status # "none"
          /\ balance[b].status = "PENDING" \/ <<"balance", b>> \in crossed'
  \/ /\ h.step = "refund"
     /\ \A b \in Balance : <<"balance", b>> \in h.rows => balance[b].status # "none"

\* Whatever is asked of the desk, a clerk starts to work on rows he has read, or a role is
\* written by hand.
LEMMA AskStarts ==
  ASSUME DeskShape, RowsInShape, AskPromoterDesk
  PROVE  /\ requests' \in 0..MaxRequests
         /\ \/ \E p \in Request, h \in Clerk : ClerkShape(h) /\ Begins(p, h) /\ Read(h)
            \/ \E u \in Promoter, r \in {"CUSTOMER", "PROMOTER"} : UpdateUser(u, r)
<1>1. requests' \in 0..MaxRequests
  BY PromoterBoundsAssumption DEF AskPromoterDesk, DeskShape, PromoterTypeOK
<1>2. crossed \subseteq Row
  BY DEF DeskShape, PromoterTypeOK
<1>3. ASSUME NEW p \in Request, NEW h \in Clerk, ClerkShape(h), h.rows \subseteq Row,
             h.step # "idle", Start(p, h), Read(h)
      PROVE  \E q \in Request, g \in Clerk : ClerkShape(g) /\ Begins(q, g) /\ Read(g)
  <2>1. Begins(p, h)
    BY <1>2, <1>3 DEF Start, Begins
  <2> QED
    BY <1>3, <2>1
<1> SUFFICES ASSUME ~\E u \in Promoter, r \in {"CUSTOMER", "PROMOTER"} : UpdateUser(u, r)
             PROVE  \E q \in Request, g \in Clerk : ClerkShape(g) /\ Begins(q, g) /\ Read(g)
  BY <1>1
<1>4. PICK p \in Request :
        \/ \E u \in Promoter : Apply(p, u) \/ \E c \in Code : CreateCode(p, u, c)
        \/ \E a \in Application, verdict \in {"approve", "reject"} : Review(p, a, verdict)
        \/ \E c \in Code, step \in {"toggle", "delete"} : TouchCode(p, c, step)
        \/ \E b \in Balance : MarkAsPaid(p, b) \/ CreateRefundBalance(p, b)
        \/ \E B \in SUBSET Balance : BulkMarkAsPaid(p, B)
  BY DEF AskPromoterDesk
<1>5. ASSUME NEW u \in Promoter, Apply(p, u)
      PROVE  \E q \in Request, g \in Clerk : ClerkShape(g) /\ Begins(q, g) /\ Read(g)
  <2> DEFINE h == [Idle EXCEPT !.step = "apply", !.user = u, !.rows = {<<"user", u>>}]
  <2>0. {<<"user", u>>} \subseteq Row
    BY DEF Row
  <2>1. /\ h \in Clerk /\ h.step = "apply" /\ h.user = u /\ h.rows = {<<"user", u>>}
        /\ h.rows \subseteq Row
    BY <2>0 DEF Idle, Clerk
  <2>2. Start(p, h) /\ ApplicationsOf(u, "PENDING") = {}
    BY <1>5 DEF Apply
  <2> HIDE DEF h
  <2>3. ClerkShape(h)
    BY <2>1, <2>2 DEF ClerkShape
  <2>4. Read(h)
    BY <2>1, <2>2 DEF Read
  <2> QED
    BY <1>3, <2>1, <2>2, <2>3, <2>4
<1>6. ASSUME NEW u \in Promoter, NEW c \in Code, CreateCode(p, u, c)
      PROVE  \E q \in Request, g \in Clerk : ClerkShape(g) /\ Begins(q, g) /\ Read(g)
  <2> DEFINE h == [Idle EXCEPT !.step = "create", !.user = u, !.code = c,
                               !.rows = {<<"owner", u>>}]
  <2>0. {<<"owner", u>>} \subseteq Row
    BY DEF Row
  <2>1. /\ h \in Clerk /\ h.step = "create" /\ h.user = u /\ h.code = c
        /\ h.rows = {<<"owner", u>>} /\ h.rows \subseteq Row
    BY <2>0 DEF Idle, Clerk
  <2>2. Start(p, h) /\ CodesOf(u) = {}
    BY <1>6 DEF CreateCode
  <2> HIDE DEF h
  <2>3. ClerkShape(h)
    BY <2>1, <2>2 DEF ClerkShape
  <2>4. Read(h)
    BY <2>1, <2>2 DEF Read
  <2> QED
    BY <1>3, <2>1, <2>2, <2>3, <2>4
<1>7. ASSUME NEW a \in Application, NEW verdict \in {"approve", "reject"},
             Review(p, a, verdict)
      PROVE  \E q \in Request, g \in Clerk : ClerkShape(g) /\ Begins(q, g) /\ Read(g)
  <2> DEFINE h == [Idle EXCEPT !.step = verdict, !.user = application[a].user,
                               !.rows = {<<"application", a>>}]
  <2>1. application[a].user \in Promoter /\ application[a].status = "PENDING" /\ Start(p, h)
    BY <1>7 DEF Review, RowsInShape
  <2>0. {<<"application", a>>} \subseteq Row
    BY DEF Row
  <2>2. /\ h \in Clerk /\ h.step = verdict /\ h.user = application[a].user
        /\ h.rows = {<<"application", a>>} /\ h.rows \subseteq Row
    BY <2>0, <2>1 DEF Idle, Clerk
  <2> HIDE DEF h
  <2>3. ClerkShape(h)
    BY <2>1, <2>2 DEF ClerkShape
  <2>4. Read(h)
    BY <2>1, <2>2 DEF Read
  <2> QED
    BY <1>3, <2>1, <2>2, <2>3, <2>4
<1>8. ASSUME NEW c \in Code, NEW step \in {"toggle", "delete"}, TouchCode(p, c, step)
      PROVE  \E q \in Request, g \in Clerk : ClerkShape(g) /\ Begins(q, g) /\ Read(g)
  <2> DEFINE h == [Idle EXCEPT !.step = step, !.code = c, !.rows = {<<"code", c>>},
                               !.status = code[c].status]
  <2>1. code[c].status \in {"active", "inactive"} /\ Start(p, h)
    BY <1>8 DEF TouchCode, Exists, RowsInShape, DeskShape, PromoterTypeOK
  <2>0. {<<"code", c>>} \subseteq Row
    BY DEF Row
  <2>2. /\ h \in Clerk /\ h.step = step /\ h.code = c
        /\ h.rows = {<<"code", c>>} /\ h.rows \subseteq Row
    BY <2>0, <2>1 DEF Idle, Clerk
  <2> HIDE DEF h
  <2>3. ClerkShape(h)
    BY <2>1, <2>2 DEF ClerkShape
  <2>4. Read(h)
    BY <2>1, <2>2 DEF Read
  <2> QED
    BY <1>3, <2>1, <2>2, <2>3, <2>4
<1>9. ASSUME NEW b \in Balance, MarkAsPaid(p, b)
      PROVE  \E q \in Request, g \in Clerk : ClerkShape(g) /\ Begins(q, g) /\ Read(g)
  <2> DEFINE h == [Idle EXCEPT !.step = "pay", !.rows = {<<"balance", b>>}]
  <2>0. {<<"balance", b>>} \subseteq Row
    BY DEF Row
  <2>1. balance[b].status = "PENDING" /\ Start(p, h)
    BY <1>9 DEF MarkAsPaid
  <2>2. /\ h \in Clerk /\ h.step = "pay" /\ h.rows = {<<"balance", b>>} /\ h.rows \subseteq Row
    BY <2>0 DEF Idle, Clerk
  <2> HIDE DEF h
  <2>3. ClerkShape(h)
    BY <2>1, <2>2 DEF ClerkShape
  <2>4. Read(h)
    BY <2>1, <2>2 DEF Read
  <2> QED
    BY <1>3, <2>1, <2>2, <2>3, <2>4
<1>10. ASSUME NEW b \in Balance, CreateRefundBalance(p, b)
       PROVE  \E q \in Request, g \in Clerk : ClerkShape(g) /\ Begins(q, g) /\ Read(g)
  <2> DEFINE h == [Idle EXCEPT !.step = "refund", !.rows = {<<"balance", b>>}]
  <2>0. {<<"balance", b>>} \subseteq Row
    BY DEF Row
  <2>1. balance[b].status # "none" /\ Start(p, h)
    BY <1>10 DEF CreateRefundBalance
  <2>2. /\ h \in Clerk /\ h.step = "refund" /\ h.rows = {<<"balance", b>>}
        /\ h.rows \subseteq Row
    BY <2>0 DEF Idle, Clerk
  <2> HIDE DEF h
  <2>3. ClerkShape(h)
    BY <2>1, <2>2 DEF ClerkShape
  <2>4. Read(h)
    BY <2>1, <2>2 DEF Read
  <2> QED
    BY <1>3, <2>1, <2>2, <2>3, <2>4
<1>11. ASSUME NEW B \in SUBSET Balance, BulkMarkAsPaid(p, B)
       PROVE  \E q \in Request, g \in Clerk : ClerkShape(g) /\ Begins(q, g) /\ Read(g)
  <2> DEFINE h == [Idle EXCEPT !.step = "pay", !.rows = {"balance"} \X B]
             taken == UNION {desk[q].rows : q \in Request}
  <2>0. {"balance"} \X B \subseteq Row
    BY DEF Row
  <2>1. /\ h \in Clerk /\ h.step = "pay" /\ h.rows = {"balance"} \X B /\ h.rows \subseteq Row
        /\ h.rows \subseteq {"balance"} \X Balance
    BY <2>0 DEF Idle, Clerk
  <2>2. /\ desk[p].step = "idle" /\ desk' = [desk EXCEPT ![p] = h]
        /\ crossed' = crossed \cup ({"balance"} \X {b \in B : balance[b].status = "PAID"})
                        \cup (({"balance"} \X B) \cap taken)
        /\ \A b \in B : balance[b].status # "none"
        /\ UNCHANGED <<people, code, promoterCode, money, faults>>
    BY <1>11 DEF BulkMarkAsPaid
  <2> HIDE DEF h, taken
  <2>3. ClerkShape(h)
    BY <2>1 DEF ClerkShape
  <2>4. crossed' \subseteq Row
    BY <1>2, <2>1, <2>2
  <2>5. ASSUME NEW b \in Balance, <<"balance", b>> \in h.rows
        PROVE  /\ balance[b].status # "none"
               /\ balance[b].status = "PENDING" \/ <<"balance", b>> \in crossed'
    <3>1. b \in B /\ balance[b].status \in {"none", "PENDING", "PAID"}
      BY <2>1, <2>5 DEF DeskShape, PromoterTypeOK
    <3> QED
      BY <2>2, <3>1
  <2>6. Read(h)
    BY <2>1, <2>5 DEF Read
  <2>7. crossed \cup (h.rows \cap taken) \subseteq crossed'
    BY <2>1, <2>2
  <2>8. Begins(p, h)
    BY <2>1, <2>2, <2>4, <2>7 DEF Begins, taken
  <2> QED
    BY <2>1, <2>3, <2>6, <2>8
<1> QED
  BY <1>4, <1>5, <1>6, <1>7, <1>8, <1>9, <1>10, <1>11

\* A row that no two handlers met on is in the hands of one.
Alone(row) == row \notin crossed
Isolation ==
  \A row \in Row : Alone(row) =>
    \A p, q \in Request : row \in desk[p].rows /\ row \in desk[q].rows => p = q

\* What a clerk read, of a row he works on alone where another one could change it.
KnowsUser(h) ==
  h.step = "apply" /\ Alone(<<"user", h.user>>) => ApplicationsOf(h.user, "PENDING") = {}
KnowsApplication(h) ==
  h.step \in {"approve", "reject"} =>
    \A a \in Application : <<"application", a>> \in h.rows =>
      /\ application[a].user = h.user
      /\ Alone(<<"application", a>>) => application[a].status = "PENDING"
KnowsOwner(h) ==
  h.step = "create" /\ Alone(<<"owner", h.user>>) => CodesOf(h.user) = {}
KnowsBalance(h) ==
  h.step \in {"pay", "refund"} =>
    \A b \in Balance : <<"balance", b>> \in h.rows =>
      /\ balance[b].status # "none"
      /\ h.step = "pay" /\ Alone(<<"balance", b>>) => balance[b].status = "PENDING"

ClerkKnows(h) == KnowsUser(h) /\ KnowsApplication(h) /\ KnowsOwner(h) /\ KnowsBalance(h)
ClerksKnow == \A p \in Request : ClerkKnows(desk[p])

DeskInv ==
  /\ PromoterTypeOK
  /\ ClerksInShape
  /\ RowsInShape
  /\ Isolation
  /\ ClerksKnow
  /\ RoleIsEarned
  /\ OneAtATime
  /\ PaidOutOnce

LEMMA DeskInvShape == DeskInv => DeskShape /\ RowsInShape
BY DEF DeskInv, DeskShape

\* ApplicationsOf, of a table t.
Applications == [Application -> [user: Promoter \cup {None},
                                 status: {"none", "PENDING", "APPROVED", "REJECTED"}]]
Filed(t, u, s) == {a \in Application : t[a] = [user |-> u, status |-> s]}

LEMMA FiledIs ==
  ASSUME NEW t \in Applications, NEW u, NEW s
  PROVE  \A a : a \in Filed(t, u, s) <=> a \in Application /\ t[a].user = u /\ t[a].status = s
<1>1. \A a \in Application : t[a] \in [user: Promoter \cup {None},
                                       status: {"none", "PENDING", "APPROVED", "REJECTED"}]
  BY DEF Applications
<1>2. \A a \in Application : t[a] = [user |-> u, status |-> s] <=> t[a].user = u /\ t[a].status = s
  BY <1>1
<1> QED
  BY <1>2 DEF Filed

\* One application is written: the others are filed as before.
LEMMA FiledPut ==
  ASSUME NEW t \in Applications, NEW r \in Applications, NEW a \in Application,
         \A x \in Application \ {a} : r[x] = t[x], NEW u, NEW s
  PROVE  /\ t[a].user # u \/ t[a].status # s =>
              Filed(r, u, s) = IF r[a].user = u /\ r[a].status = s
                               THEN Filed(t, u, s) \cup {a} ELSE Filed(t, u, s)
         /\ r[a].user # u \/ r[a].status # s => Filed(r, u, s) = Filed(t, u, s) \ {a}
<1> DEFINE A == Filed(t, u, s)
           B == Filed(r, u, s)
<1>1. /\ \A x : x \in A <=> x \in Application /\ t[x].user = u /\ t[x].status = s
      /\ \A x : x \in B <=> x \in Application /\ r[x].user = u /\ r[x].status = s
  BY FiledIs
<1> HIDE DEF A, B
<1>2. \A x : x # a => (x \in A <=> x \in B)
  BY <1>1
<1>3. CASE t[a].user # u \/ t[a].status # s
  <2>1. a \notin A
    BY <1>1, <1>3
  <2>2. a \in B <=> r[a].user = u /\ r[a].status = s
    BY <1>1
  <2>3. B = IF r[a].user = u /\ r[a].status = s THEN A \cup {a} ELSE A
    BY <1>2, <2>1, <2>2
  <2>4. r[a].user # u \/ r[a].status # s => B = A \ {a}
    BY <1>2, <2>1, <2>2
  <2> QED
    BY <2>3, <2>4 DEF A, B
<1>4. CASE t[a].user = u /\ t[a].status = s
  <2>1. r[a].user # u \/ r[a].status # s => B = A \ {a}
    BY <1>1, <1>2
  <2> QED
    BY <1>4, <2>1 DEF A, B
<1> QED
  BY <1>3, <1>4

LEMMA ApplicationsFiled ==
  /\ \A u, s : ApplicationsOf(u, s) = Filed(application, u, s)
  /\ PromoterTypeOK => application \in Applications
BY DEF ApplicationsOf, Filed, PromoterTypeOK, Applications

\* Who starts to work meets whoever is at work on his rows.
LEMMA BeginsInv ==
  ASSUME DeskInv, requests' \in 0..MaxRequests, NEW p \in Request, NEW h \in Clerk,
         ClerkShape(h), Begins(p, h), Read(h)
  PROVE  DeskInv'
<1>1. DeskShape /\ RowsInShape
  BY DeskInvShape
<1>2. /\ desk' = [desk EXCEPT ![p] = h] /\ crossed' \subseteq Row
      /\ crossed \cup (h.rows \cap UNION {desk[q].rows : q \in Request}) \subseteq crossed'
      /\ role' = role /\ application' = application /\ appointed' = appointed
      /\ code' = code
      /\ promoterCode' = promoterCode /\ balance' = balance /\ payouts' = payouts
      /\ faults' = faults
  BY DEF Begins, people, money
<1>3. /\ desk' \in [Request -> Clerk] /\ ClerksInShape'
      /\ desk'[p] = h /\ \A q \in Request \ {p} : desk'[q] = desk[q]
  BY <1>1, <1>2, ClerkPut
<1>4. PromoterTypeOK'
  BY <1>2, <1>3 DEF DeskInv, PromoterTypeOK
<1>5. RowsInShape'
  BY <1>1, <1>2 DEF RowsInShape
<1>6. ASSUME NEW row \in Row, Alone(row)', NEW q \in Request, NEW r \in Request,
             row \in desk'[q].rows, row \in desk'[r].rows
      PROVE  q = r
  <2>1. Alone(row) /\ row \notin h.rows \cap UNION {desk[x].rows : x \in Request}
    BY <1>2, <1>6 DEF Alone
  <2>2. CASE q # p /\ r # p
    <3>1. row \in desk[q].rows /\ row \in desk[r].rows
      BY <1>3, <1>6, <2>2
    <3> QED
      BY <2>1, <3>1 DEF DeskInv, Isolation
  <2>3. CASE q = p /\ r # p
    BY <1>3, <1>6, <2>1, <2>3
  <2>4. CASE q # p /\ r = p
    BY <1>3, <1>6, <2>1, <2>4
  <2> QED
    BY <2>2, <2>3, <2>4
<1>7. Isolation'
  BY <1>6 DEF Isolation
<1>8. ASSUME NEW q \in Request PROVE ClerkKnows(desk[q])'
  <2>1. \A row : Alone(row)' => Alone(row)
    BY <1>2 DEF Alone
  <2>2. \A u, s : ApplicationsOf(u, s)' = ApplicationsOf(u, s)
    BY <1>2 DEF ApplicationsOf
  <2>3. \A u : CodesOf(u)' = CodesOf(u)
    BY <1>2 DEF CodesOf
  <2>4. CASE q # p
    <3> DEFINE g == desk[q]
    <3>1. ClerkKnows(g) /\ desk'[q] = g /\ desk[q] = g
      BY <1>3, <2>4 DEF DeskInv, ClerksKnow
    <3>2. KnowsUser(desk[q])'
      BY <2>1, <2>2, <3>1 DEF ClerkKnows, KnowsUser
    <3>3. KnowsApplication(desk[q])'
      BY <1>2, <2>1, <3>1 DEF ClerkKnows, KnowsApplication
    <3>4. KnowsOwner(desk[q])'
      BY <2>1, <2>3, <3>1 DEF ClerkKnows, KnowsOwner
    <3>5. KnowsBalance(desk[q])'
      BY <1>2, <2>1, <3>1 DEF ClerkKnows, KnowsBalance
    <3> QED
      BY <3>2, <3>3, <3>4, <3>5 DEF ClerkKnows
  <2>5. CASE q = p
    <3>1. desk'[q] = h
      BY <1>3, <2>5
    <3>2. KnowsUser(desk[q])'
      BY <2>2, <3>1 DEF Read, KnowsUser
    <3>3. KnowsApplication(desk[q])'
      BY <1>2, <3>1 DEF Read, KnowsApplication
    <3>4. KnowsOwner(desk[q])'
      BY <2>3, <3>1 DEF Read, KnowsOwner
    <3>5. KnowsBalance(desk[q])'
      BY <1>2, <3>1 DEF Read, KnowsBalance, Alone
    <3> QED
      BY <3>2, <3>3, <3>4, <3>5 DEF ClerkKnows
  <2> QED
    BY <2>4, <2>5
<1>9. ClerksKnow'
  BY <1>8 DEF ClerksKnow
<1>10. RoleIsEarned'
  BY <1>2 DEF DeskInv, RoleIsEarned, ApplicationsOf
<1>11. OneAtATime'
  BY <1>2 DEF DeskInv, OneAtATime, ApplicationsOf, CodesOf
<1>12. PaidOutOnce'
  BY <1>2 DEF DeskInv, PaidOutOnce
<1> QED
  BY <1>3, <1>4, <1>5, <1>7, <1>9, <1>10, <1>11, <1>12 DEF DeskInv

\* A clerk who is done lets go of his rows.
LEMMA DoneFacts ==
  ASSUME DeskInv, NEW p \in Request, Done(p), crossed' = crossed
  PROVE  /\ desk' \in [Request -> Clerk] /\ ClerksInShape' /\ Isolation'
         /\ desk'[p] = Idle /\ \A q \in Request \ {p} : desk'[q] = desk[q]
         /\ \A row : Alone(row)' <=> Alone(row)
<1>1. /\ desk' \in [Request -> Clerk] /\ ClerksInShape'
      /\ desk'[p] = Idle /\ \A q \in Request \ {p} : desk'[q] = desk[q]
  BY DeskInvShape, IdleShape, ClerkPut DEF Done
<1>2. \A row : Alone(row)' <=> Alone(row)
  BY DEF Alone
<1>3. ASSUME NEW row \in Row, Alone(row)', NEW q \in Request, NEW r \in Request,
             row \in desk'[q].rows, row \in desk'[r].rows
      PROVE  q = r
  <2>1. q # p /\ r # p
    BY <1>1, <1>3, IdleShape
  <2>2. row \in desk[q].rows /\ row \in desk[r].rows
    BY <1>1, <1>3, <2>1
  <2> QED
    BY <1>2, <1>3, <2>2 DEF DeskInv, Isolation
<1>4. Isolation'
  BY <1>3 DEF Isolation
<1> QED
  BY <1>1, <1>2, <1>4

\* What the others know stays true when nobody else works on the row that is written: the
\* frame of a write of clerk p.
LEMMA OthersKnow ==
  ASSUME DeskInv, NEW p \in Request, Done(p), crossed' = crossed,
         \A q \in Request \ {p} : ClerkKnows(desk[q]) => ClerkKnows(desk[q])'
  PROVE  ClerksKnow'
<1>1. ASSUME NEW q \in Request PROVE ClerkKnows(desk[q])'
  <2>1. CASE q = p
    <3>1. desk'[q].step = "idle"
      BY <2>1, DoneFacts, IdleShape
    <3> QED
      BY <3>1 DEF ClerkKnows, KnowsUser, KnowsApplication, KnowsOwner, KnowsBalance
  <2>2. CASE q # p
    <3>1. desk'[q] = desk[q]
      BY <2>2, DoneFacts
    <3> QED
      BY <2>2, <3>1 DEF DeskInv, ClerksKnow
  <2> QED
    BY <2>1, <2>2
<1> QED
  BY <1>1 DEF ClerksKnow

\* A new application is the user's only one to be reviewed, if he asked once.
LEMMA InsertApplicationInv ==
  ASSUME DeskInv, NEW p \in Request, InsertApplication(p)
  PROVE  DeskInv'
<1> DEFINE u == desk[p].user
<1>1. PICK a \in Application :
        /\ application[a] = NoApplication
        /\ application' = [application EXCEPT ![a] = [user |-> u, status |-> "PENDING"]]
  BY DEF InsertApplication
<1>2. /\ desk[p].step = "apply" /\ Done(p) /\ crossed' = crossed /\ role' = role
      /\ appointed' = appointed
      /\ code' = code /\ promoterCode' = promoterCode /\ balance' = balance
      /\ payouts' = payouts /\ faults' = faults /\ requests' = requests
  BY DEF InsertApplication, money
<1>3. u \in Promoter /\ <<"user", u>> \in desk[p].rows
  BY <1>2 DEF DeskInv, ClerksInShape, ClerkShape
<1>4. KnowsUser(desk[p])
  BY DEF DeskInv, ClerksKnow, ClerkKnows
<1> HIDE DEF u
<1>5. application \in Applications /\ application' \in Applications
  BY <1>1, <1>3 DEF DeskInv, PromoterTypeOK, Applications
<1>6. /\ application[a].user = None /\ application[a].status = "none"
      /\ application'[a].user = u /\ application'[a].status = "PENDING"
      /\ \A x \in Application \ {a} : application'[x] = application[x]
  BY <1>1, <1>5 DEF NoApplication, Applications
<1>7. /\ \A v \in Promoter : v # u =>
           Filed(application', v, "PENDING") = Filed(application, v, "PENDING")
      /\ \A v \in Promoter :
           Filed(application', v, "APPROVED") = Filed(application, v, "APPROVED")
      /\ Filed(application', u, "PENDING") = Filed(application, u, "PENDING") \cup {a}
  BY <1>3, <1>5, <1>6, FiledPut, NoneIsNone
<1>8. PromoterTypeOK' /\ desk'[p] = Idle
  BY <1>2, <1>5, DoneFacts DEF DeskInv, PromoterTypeOK, Applications
<1>9. RowsInShape'
  BY <1>2, <1>3, <1>6 DEF DeskInv, RowsInShape
<1>10. ASSUME NEW q \in Request \ {p}, ClerkKnows(desk[q]) PROVE ClerkKnows(desk[q])'
  <2> DEFINE h == desk[q]
  <2>1. desk'[q] = h /\ desk[q] = h /\ \A row : Alone(row)' <=> Alone(row)
    BY <1>2, DoneFacts
  <2>2. ClerkShape(h)
    BY DEF DeskInv, ClerksInShape
  <2>3. KnowsUser(desk[q])'
    <3> SUFFICES ASSUME h.step = "apply", Alone(<<"user", h.user>>)
                 PROVE  Filed(application', h.user, "PENDING") = {}
      BY <2>1 DEF KnowsUser, ApplicationsOf, Filed
    <3>1. h.user \in Promoter /\ <<"user", h.user>> \in h.rows
      BY <2>2 DEF ClerkShape
    <3>2. h.user # u
      BY <1>3, <3>1 DEF DeskInv, Isolation, Row
    <3>3. Filed(application, h.user, "PENDING") = {}
      BY <1>10 DEF ClerkKnows, KnowsUser, ApplicationsOf, Filed
    <3> QED
      BY <1>7, <3>1, <3>2, <3>3
  <2>4. KnowsApplication(desk[q])'
    <3> SUFFICES ASSUME h.step \in {"approve", "reject"}, NEW x \in Application,
                        <<"application", x>> \in h.rows
                 PROVE  /\ application'[x].user = h.user
                        /\ Alone(<<"application", x>>) => application'[x].status = "PENDING"
      BY <2>1 DEF KnowsApplication
    <3>1. h.user \in Promoter
      BY <2>2 DEF ClerkShape
    <3>2. /\ application[x].user = h.user
          /\ Alone(<<"application", x>>) => application[x].status = "PENDING"
      BY <1>10 DEF ClerkKnows, KnowsApplication
    <3>3. x # a
      BY <1>6, <3>1, <3>2, NoneIsNone
    <3> QED
      BY <1>6, <3>2, <3>3
  <2>5. KnowsOwner(desk[q])'
    BY <1>2, <1>10, <2>1 DEF ClerkKnows, KnowsOwner, CodesOf
  <2>6. KnowsBalance(desk[q])'
    BY <1>2, <1>10, <2>1 DEF ClerkKnows, KnowsBalance
  <2> QED
    BY <2>3, <2>4, <2>5, <2>6 DEF ClerkKnows
<1>11. ClerksKnow'
  BY <1>2, <1>10, OthersKnow
<1>12. RoleIsEarned'
  <2> SUFFICES ASSUME NEW v \in Promoter
               PROVE  \/ role'[v] = "PROMOTER" <=> Filed(application', v, "APPROVED") # {}
                      \/ \E x \in Application : /\ application'[x].user = v
                                                /\ <<"application", x>> \in crossed'
                      \/ v \in appointed'
    BY DEF RoleIsEarned, ApplicationsOf, Filed
  <2>1. \/ role[v] = "PROMOTER" <=> Filed(application, v, "APPROVED") # {}
        \/ \E x \in Application : application[x].user = v /\ <<"application", x>> \in crossed
        \/ v \in appointed
    BY ApplicationsFiled DEF DeskInv, RoleIsEarned
  <2>2. \A x \in Application : application[x].user = v => x # a
    BY <1>6, NoneIsNone
  <2> QED
    BY <1>2, <1>6, <1>7, <2>1, <2>2
<1>13. OneAtATime'
  <2> SUFFICES ASSUME NEW v \in Promoter
               PROVE  /\ AtMostOne(Filed(application', v, "PENDING")) \/ <<"user", v>> \in crossed'
                      /\ AtMostOne(CodesOf(v))' \/ <<"owner", v>> \in crossed'
    BY DEF OneAtATime, ApplicationsOf, Filed, AtMostOne
  <2>1. AtMostOne(CodesOf(v))' \/ <<"owner", v>> \in crossed'
    BY <1>2 DEF DeskInv, OneAtATime, CodesOf, AtMostOne
  <2>2. AtMostOne(Filed(application, v, "PENDING")) \/ <<"user", v>> \in crossed
    BY ApplicationsFiled DEF DeskInv, OneAtATime
  <2>3. CASE v = u /\ Alone(<<"user", u>>)
    <3>1. Filed(application, u, "PENDING") = {}
      BY <1>2, <1>4, <2>3 DEF KnowsUser, u, ApplicationsOf, Filed
    <3>2. Filed(application', u, "PENDING") = {a}
      BY <1>7, <3>1
    <3> QED
      BY <2>1, <2>3, <3>2 DEF AtMostOne
  <2>4. CASE v = u /\ ~Alone(<<"user", u>>)
    BY <1>2, <2>1, <2>4 DEF Alone
  <2>5. CASE v # u
    BY <1>2, <1>7, <2>1, <2>2, <2>5
  <2> QED
    BY <2>3, <2>4, <2>5
<1>14. PaidOutOnce'
  BY <1>2 DEF DeskInv, PaidOutOnce
<1> QED
  BY <1>2, <1>8, <1>9, <1>11, <1>12, <1>13, <1>14, DoneFacts DEF DeskInv

\* A review is written to the application, and an approval to the role: the user's role is
\* told by his applications, or two reviewers met on the one.
Reviews(p, a, s) ==
  /\ desk[p].step \in {"approve", "reject"}
  /\ desk[p].rows = {<<"application", a>>}
  /\ application' = [application EXCEPT ![a].status = s]
  /\ role' = IF s = "APPROVED" THEN [role EXCEPT ![desk[p].user] = "PROMOTER"] ELSE role
  /\ Done(p)
  /\ UNCHANGED <<appointed, code, promoterCode, money, crossed, faults, requests>>

LEMMA ReviewInv ==
  ASSUME DeskInv, NEW p \in Request, NEW a \in Application, NEW s \in {"APPROVED", "REJECTED"},
         Reviews(p, a, s)
  PROVE  DeskInv'
<1> DEFINE u == desk[p].user
           held == Alone(<<"application", a>>)
<1>1. /\ code' = code /\ promoterCode' = promoterCode /\ balance' = balance
      /\ payouts' = payouts /\ crossed' = crossed /\ faults' = faults /\ requests' = requests
      /\ appointed' = appointed /\ Done(p)
  BY DEF Reviews, money
<1>2. ClerkShape(desk[p]) /\ KnowsApplication(desk[p])
  BY DEF DeskInv, ClerksInShape, ClerksKnow, ClerkKnows
<1>3. /\ u \in Promoter /\ application[a].user = u /\ <<"application", a>> \in desk[p].rows
      /\ held => application[a].status = "PENDING"
  BY <1>2 DEF Reviews, ClerkShape, KnowsApplication
<1>4. application \in Applications /\ application' \in Applications
  BY DEF Reviews, DeskInv, PromoterTypeOK, Applications
<1>5. /\ application'[a].user = u /\ application'[a].status = s
      /\ \A x \in Application \ {a} : application'[x] = application[x]
  BY <1>3, <1>4 DEF Reviews, Applications
<1>6. role' \in [Promoter -> {"CUSTOMER", "PROMOTER"}]
      /\ (s = "APPROVED" => role'[u] = "PROMOTER")
      /\ \A v \in Promoter : v # u \/ s # "APPROVED" => role'[v] = role[v]
  BY <1>3 DEF Reviews, DeskInv, PromoterTypeOK
<1> HIDE DEF u, held
<1>7. /\ \A v \in Promoter :
           Filed(application', v, "PENDING") \subseteq Filed(application, v, "PENDING")
      /\ \A v \in Promoter : v # u =>
           Filed(application', v, "APPROVED") = Filed(application, v, "APPROVED")
      /\ s = "APPROVED" => a \in Filed(application', u, "APPROVED")
      /\ s # "APPROVED" /\ held =>
           Filed(application', u, "APPROVED") = Filed(application, u, "APPROVED")
  <2>1. ASSUME NEW v \in Promoter
        PROVE  Filed(application', v, "PENDING") \subseteq Filed(application, v, "PENDING")
    <3>1. "PENDING" # s
      OBVIOUS
    <3>2. Filed(application', v, "PENDING") = Filed(application, v, "PENDING") \ {a}
      BY <1>4, <1>5, <3>1, FiledPut
    <3> QED
      BY <3>2
  <2>2. ASSUME NEW v \in Promoter, v # u
        PROVE  Filed(application', v, "APPROVED") = Filed(application, v, "APPROVED")
    BY <1>3, <1>4, <1>5, <2>2, FiledPut
  <2>3. s = "APPROVED" => a \in Filed(application', u, "APPROVED")
    BY <1>4, <1>5, FiledIs
  <2>4. s # "APPROVED" /\ held =>
          Filed(application', u, "APPROVED") = Filed(application, u, "APPROVED")
    BY <1>3, <1>4, <1>5, FiledPut
  <2> QED
    BY <2>1, <2>2, <2>3, <2>4
<1>8. PromoterTypeOK'
  BY <1>1, <1>4, <1>6, DoneFacts DEF DeskInv, PromoterTypeOK, Applications
<1>9. RowsInShape'
  BY <1>1, <1>3, <1>5 DEF DeskInv, RowsInShape
<1>10. ASSUME NEW q \in Request \ {p}, ClerkKnows(desk[q]) PROVE ClerkKnows(desk[q])'
  <2> DEFINE h == desk[q]
  <2>1. desk'[q] = h /\ desk[q] = h /\ \A row : Alone(row)' <=> Alone(row)
    BY <1>1, DoneFacts
  <2>2. ClerkShape(h)
    BY DEF DeskInv, ClerksInShape
  <2>3. KnowsUser(desk[q])'
    <3> SUFFICES ASSUME h.step = "apply", Alone(<<"user", h.user>>)
                 PROVE  Filed(application', h.user, "PENDING") = {}
      BY <2>1 DEF KnowsUser, ApplicationsOf, Filed
    <3>1. h.user \in Promoter
      BY <2>2 DEF ClerkShape
    <3>2. Filed(application, h.user, "PENDING") = {}
      BY <1>10 DEF ClerkKnows, KnowsUser, ApplicationsOf, Filed
    <3> QED
      BY <1>7, <3>1, <3>2
  <2>4. KnowsApplication(desk[q])'
    <3> SUFFICES ASSUME h.step \in {"approve", "reject"}, NEW x \in Application,
                        <<"application", x>> \in h.rows
                 PROVE  /\ application'[x].user = h.user
                        /\ Alone(<<"application", x>>) => application'[x].status = "PENDING"
      BY <2>1 DEF KnowsApplication
    <3>1. /\ application[x].user = h.user
          /\ Alone(<<"application", x>>) => application[x].status = "PENDING"
      BY <1>10 DEF ClerkKnows, KnowsApplication
    <3>2. CASE x = a
      <4>1. ~Alone(<<"application", x>>)
        BY <1>3, <3>2 DEF DeskInv, Isolation, Row
      <4> QED
        BY <1>3, <1>5, <3>1, <3>2, <4>1
    <3>3. CASE x # a
      BY <1>5, <3>1, <3>3
    <3> QED
      BY <3>2, <3>3
  <2>5. KnowsOwner(desk[q])'
    BY <1>1, <1>10, <2>1 DEF ClerkKnows, KnowsOwner, CodesOf
  <2>6. KnowsBalance(desk[q])'
    BY <1>1, <1>10, <2>1 DEF ClerkKnows, KnowsBalance
  <2> QED
    BY <2>3, <2>4, <2>5, <2>6 DEF ClerkKnows
<1>11. ClerksKnow'
  BY <1>1, <1>10, OthersKnow
<1>12. RoleIsEarned'
  <2> SUFFICES ASSUME NEW v \in Promoter
               PROVE  \/ role'[v] = "PROMOTER" <=> Filed(application', v, "APPROVED") # {}
                      \/ \E x \in Application : /\ application'[x].user = v
                                                /\ <<"application", x>> \in crossed'
                      \/ v \in appointed'
    BY DEF RoleIsEarned, ApplicationsOf, Filed
  <2>1. \/ role[v] = "PROMOTER" <=> Filed(application, v, "APPROVED") # {}
        \/ \E x \in Application : application[x].user = v /\ <<"application", x>> \in crossed
        \/ v \in appointed
    BY ApplicationsFiled DEF DeskInv, RoleIsEarned
  <2>2. \A x \in Application : application'[x].user = application[x].user
    BY <1>3, <1>5
  <2>3. CASE v = u /\ ~held
    BY <1>1, <1>3, <2>2, <2>3 DEF held, Alone
  <2>4. CASE v = u /\ held
    <3>1. CASE s = "APPROVED"
      BY <1>6, <1>7, <2>4, <3>1
    <3>2. CASE s # "APPROVED"
      BY <1>1, <1>6, <1>7, <2>1, <2>2, <2>4, <3>2
    <3> QED
      BY <3>1, <3>2
  <2>5. CASE v # u
    BY <1>1, <1>6, <1>7, <2>1, <2>2, <2>5
  <2> QED
    BY <2>3, <2>4, <2>5
<1>13. OneAtATime'
  <2> SUFFICES ASSUME NEW v \in Promoter
               PROVE  /\ AtMostOne(Filed(application', v, "PENDING")) \/ <<"user", v>> \in crossed'
                      /\ AtMostOne(CodesOf(v))' \/ <<"owner", v>> \in crossed'
    BY DEF OneAtATime, ApplicationsOf, Filed, AtMostOne
  <2>1. AtMostOne(CodesOf(v))' \/ <<"owner", v>> \in crossed'
    BY <1>1 DEF DeskInv, OneAtATime, CodesOf, AtMostOne
  <2>2. AtMostOne(Filed(application, v, "PENDING")) \/ <<"user", v>> \in crossed
    BY ApplicationsFiled DEF DeskInv, OneAtATime
  <2> QED
    BY <1>1, <1>7, <2>1, <2>2 DEF AtMostOne
<1>14. PaidOutOnce'
  BY <1>1 DEF DeskInv, PaidOutOnce
<1> QED
  BY <1>1, <1>8, <1>9, <1>11, <1>12, <1>13, <1>14, DoneFacts DEF DeskInv

LEMMA WriteApprovalInv ==
  ASSUME DeskInv, NEW p \in Request, NEW a \in Application, WriteApproval(p, a)
  PROVE  DeskInv'
BY ReviewInv DEF WriteApproval, Reviews

LEMMA WriteRejectionInv ==
  ASSUME DeskInv, NEW p \in Request, NEW a \in Application, WriteRejection(p, a)
  PROVE  DeskInv'
BY ReviewInv DEF WriteRejection, Reviews

\* CodesOf, of a table t.
Owned(t, u) == {c \in Code : t[c].owner = u}

LEMMA CodesOwned == \A u : CodesOf(u) = Owned(code, u)
BY DEF CodesOf, Owned

\* A write to the table of codes gives a promoter no code, but for one made by the clerk
\* who was asked for it.
LEMMA CodeWriteInv ==
  ASSUME DeskInv, NEW p \in Request, Done(p),
         code' \in [Code -> [owner: Promoter \cup {None},
                             status: {"none", "active", "inactive", "deleted"}]],
         \A c \in Code : (code'[c].owner = None) <=> (code'[c].status \in {"none", "deleted"}),
         \A u \in Promoter :
           \/ Owned(code', u) \subseteq Owned(code, u)
           \/ /\ desk[p].step = "create" /\ u = desk[p].user
              /\ \E c \in Code : Owned(code', u) \subseteq Owned(code, u) \cup {c},
         UNCHANGED <<people, promoterCode, money, crossed, faults, requests>>
  PROVE  DeskInv'
<1>1. /\ role' = role /\ application' = application /\ appointed' = appointed
      /\ promoterCode' = promoterCode
      /\ balance' = balance /\ payouts' = payouts /\ crossed' = crossed
      /\ faults' = faults /\ requests' = requests
  BY DEF money, people
<1>2. PromoterTypeOK'
  BY <1>1, DoneFacts DEF DeskInv, PromoterTypeOK
<1>3. RowsInShape'
  BY <1>1 DEF DeskInv, RowsInShape
<1>4. ClerkShape(desk[p]) /\ KnowsOwner(desk[p])
  BY DEF DeskInv, ClerksInShape, ClerksKnow, ClerkKnows
<1>5. ASSUME NEW q \in Request \ {p}, ClerkKnows(desk[q]) PROVE ClerkKnows(desk[q])'
  <2> DEFINE h == desk[q]
  <2>1. desk'[q] = h /\ desk[q] = h /\ \A row : Alone(row)' <=> Alone(row)
    BY <1>1, DoneFacts
  <2>2. KnowsUser(desk[q])'
    BY <1>1, <1>5, <2>1 DEF ClerkKnows, KnowsUser, ApplicationsOf
  <2>3. KnowsApplication(desk[q])'
    BY <1>1, <1>5, <2>1 DEF ClerkKnows, KnowsApplication
  <2>4. KnowsOwner(desk[q])'
    <3> SUFFICES ASSUME h.step = "create", Alone(<<"owner", h.user>>)
                 PROVE  Owned(code', h.user) = {}
      BY <2>1 DEF KnowsOwner, CodesOf, Owned
    <3>1. h.user \in Promoter /\ <<"owner", h.user>> \in h.rows
      BY DEF DeskInv, ClerksInShape, ClerkShape
    <3>2. ~(desk[p].step = "create" /\ h.user = desk[p].user)
      BY <1>4, <3>1 DEF DeskInv, Isolation, ClerkShape, Row
    <3>3. Owned(code, h.user) = {}
      BY <1>5 DEF ClerkKnows, KnowsOwner, CodesOf, Owned
    <3> QED
      BY <3>1, <3>2, <3>3
  <2>5. KnowsBalance(desk[q])'
    BY <1>1, <1>5, <2>1 DEF ClerkKnows, KnowsBalance
  <2> QED
    BY <2>2, <2>3, <2>4, <2>5 DEF ClerkKnows
<1>6. ClerksKnow'
  BY <1>1, <1>5, OthersKnow
<1>7. RoleIsEarned'
  <2>1. RoleIsEarned
    BY DEF DeskInv
  <2> QED
    BY <1>1, <2>1 DEF RoleIsEarned, ApplicationsOf
<1>8. OneAtATime'
  <2> SUFFICES ASSUME NEW u \in Promoter
               PROVE  /\ AtMostOne(ApplicationsOf(u, "PENDING"))' \/ <<"user", u>> \in crossed'
                      /\ AtMostOne(Owned(code', u)) \/ <<"owner", u>> \in crossed'
    BY DEF OneAtATime, CodesOf, Owned, AtMostOne
  <2>1. AtMostOne(ApplicationsOf(u, "PENDING"))' \/ <<"user", u>> \in crossed'
    BY <1>1 DEF DeskInv, OneAtATime, ApplicationsOf, AtMostOne
  <2>2. AtMostOne(Owned(code, u)) \/ <<"owner", u>> \in crossed
    BY CodesOwned DEF DeskInv, OneAtATime
  <2>3. CASE Owned(code', u) \subseteq Owned(code, u)
    BY <1>1, <2>1, <2>2, <2>3 DEF AtMostOne
  <2>4. CASE desk[p].step = "create" /\ u = desk[p].user
               /\ \E c \in Code : Owned(code', u) \subseteq Owned(code, u) \cup {c}
    <3>1. <<"owner", u>> \in crossed \/ Owned(code, u) = {}
      BY <1>4, <2>4 DEF KnowsOwner, CodesOf, Owned, Alone
    <3> QED
      BY <1>1, <2>1, <2>4, <3>1 DEF AtMostOne
  <2> QED
    BY <2>3, <2>4
<1>9. PaidOutOnce'
  BY <1>1 DEF DeskInv, PaidOutOnce
<1> QED
  BY <1>1, <1>2, <1>3, <1>6, <1>7, <1>8, <1>9, DoneFacts DEF DeskInv

Codes == [Code -> [owner: Promoter \cup {None},
                   status: {"none", "active", "inactive", "deleted"}]]
CodeRows(t) == \A c \in Code : (t[c].owner = None) <=> (t[c].status \in {"none", "deleted"})

LEMMA InsertCodeInv ==
  ASSUME DeskInv, NEW p \in Request, InsertCode(p)
  PROVE  DeskInv'
<1> DEFINE u == desk[p].user
           c == desk[p].code
<1>1. /\ desk[p].step = "create" /\ Done(p)
      /\ code' = IF code[c] = NoCode
                 THEN [code EXCEPT ![c] = [owner |-> u, status |-> "active"]] ELSE code
      /\ UNCHANGED <<people, promoterCode, money, crossed, faults, requests>>
  BY DEF InsertCode
<1>2. u \in Promoter /\ c \in Code
  BY <1>1 DEF DeskInv, ClerksInShape, ClerkShape
<1>3. code \in Codes /\ CodeRows(code)
  BY DEF DeskInv, PromoterTypeOK, RowsInShape, Codes, CodeRows
<1> HIDE DEF u, c
<1>4. code' \in Codes
  BY <1>1, <1>2, <1>3 DEF Codes
<1>5. CodeRows(code')
  BY <1>1, <1>2, <1>3, NoneIsNone DEF Codes, CodeRows
<1>6. ASSUME NEW v \in Promoter
      PROVE  \/ Owned(code', v) \subseteq Owned(code, v)
             \/ v = u /\ \E x \in Code : Owned(code', v) \subseteq Owned(code, v) \cup {x}
  <2>1. \A x \in Code \ {c} : code'[x] = code[x]
    BY <1>1, <1>2, <1>3 DEF Codes
  <2>2. Owned(code', v) \subseteq Owned(code, v) \cup {c}
    BY <2>1 DEF Owned
  <2>3. code'[c] = code[c] \/ code'[c].owner = u
    BY <1>1, <1>2, <1>3 DEF Codes
  <2> QED
    BY <1>2, <2>1, <2>2, <2>3 DEF Owned
<1> QED
  BY <1>1, <1>4, <1>5, <1>6, CodeWriteInv DEF Codes, CodeRows, u

LEMMA WriteToggleInv ==
  ASSUME DeskInv, NEW p \in Request, WriteToggle(p)
  PROVE  DeskInv'
<1> DEFINE c == desk[p].code
           s == IF desk[p].status = "active" THEN "inactive" ELSE "active"
<1>1. /\ desk[p].step = "toggle" /\ Done(p)
      /\ code' = IF Exists(c) THEN [code EXCEPT ![c].status = s] ELSE code
      /\ UNCHANGED <<people, promoterCode, money, crossed, faults, requests>>
  BY DEF WriteToggle
<1>2. c \in Code /\ s \in {"active", "inactive"}
  BY <1>1 DEF DeskInv, ClerksInShape, ClerkShape
<1>3. code \in Codes /\ CodeRows(code)
  BY DEF DeskInv, PromoterTypeOK, RowsInShape, Codes, CodeRows
<1> HIDE DEF c, s
<1>4. code' \in Codes
  BY <1>1, <1>2, <1>3 DEF Codes
<1>5. /\ \A x \in Code : code'[x].owner = code[x].owner
      /\ \A x \in Code \ {c} : code'[x] = code[x]
      /\ Exists(c) => code'[c].status = s
      /\ ~Exists(c) => code'[c] = code[c]
  BY <1>1, <1>2, <1>3 DEF Codes
<1>6. CodeRows(code')
  BY <1>2, <1>3, <1>5 DEF CodeRows, Exists
<1>7. \A v \in Promoter : Owned(code', v) \subseteq Owned(code, v)
  BY <1>5 DEF Owned
<1> QED
  BY <1>1, <1>4, <1>6, <1>7, CodeWriteInv DEF Codes, CodeRows

LEMMA WriteDeleteInv ==
  ASSUME DeskInv, NEW p \in Request, WriteDelete(p)
  PROVE  DeskInv'
<1> DEFINE c == desk[p].code
           gone == [owner |-> None, status |-> "deleted"]
<1>1. /\ desk[p].step = "delete" /\ Done(p)
      /\ code' = code \/ code' = [code EXCEPT ![c] = gone]
      /\ UNCHANGED <<people, promoterCode, money, crossed, faults, requests>>
  BY DEF WriteDelete
<1>2. c \in Code
  BY <1>1 DEF DeskInv, ClerksInShape, ClerkShape
<1>3. code \in Codes /\ CodeRows(code)
  BY DEF DeskInv, PromoterTypeOK, RowsInShape, Codes, CodeRows
<1> HIDE DEF c
<1>4. code' \in Codes
  BY <1>1, <1>2, <1>3 DEF Codes
<1>5. /\ \A x \in Code \ {c} : code'[x] = code[x]
      /\ code'[c] = code[c] \/ code'[c] = gone
  BY <1>1, <1>2, <1>3 DEF Codes
<1>6. CodeRows(code')
  BY <1>2, <1>3, <1>5 DEF CodeRows
<1>7. \A v \in Promoter : Owned(code', v) \subseteq Owned(code, v)
  BY <1>2, <1>5, NoneIsNone DEF Owned
<1> QED
  BY <1>1, <1>4, <1>6, <1>7, CodeWriteInv DEF Codes, CodeRows

\* What a write to the balances leaves alone.
LEMMA BalanceWrite ==
  ASSUME DeskInv, NEW p \in Request, Done(p),
         UNCHANGED <<people, code, promoterCode, crossed, faults, requests>>,
         balance' \in [Balance -> [status: {"none", "PENDING", "PAID"},
                                   owner: Promoter \cup {None}, amount: Int,
                                   invoice: Invoice \cup {None}]],
         payouts' \in [Balance -> Nat],
         \A b \in Balance : IF balance'[b].status = "none" THEN balance'[b] = NoBalance
                            ELSE balance'[b].owner # None,
         \A b \in Balance : balance[b].status # "none" => balance'[b].status # "none",
         \A b \in Balance : \/ <<"balance", b>> \in desk[p].rows \/ balance[b].status # "PENDING"
                            \/ balance'[b].status = balance[b].status,
         PaidOutOnce'
  PROVE  DeskInv'
<1>1. /\ role' = role /\ application' = application /\ appointed' = appointed
      /\ code' = code
      /\ promoterCode' = promoterCode /\ crossed' = crossed
      /\ faults' = faults /\ requests' = requests
  BY DEF people
<1>2. PromoterTypeOK'
  BY <1>1, DoneFacts DEF DeskInv, PromoterTypeOK
<1>3. RowsInShape'
  BY <1>1 DEF DeskInv, RowsInShape
<1>4. ASSUME NEW q \in Request \ {p}, ClerkKnows(desk[q]) PROVE ClerkKnows(desk[q])'
  <2> DEFINE h == desk[q]
  <2>1. desk'[q] = h /\ desk[q] = h /\ \A row : Alone(row)' <=> Alone(row)
    BY <1>1, DoneFacts
  <2>2. KnowsUser(desk[q])'
    BY <1>1, <1>4, <2>1 DEF ClerkKnows, KnowsUser, ApplicationsOf
  <2>3. KnowsApplication(desk[q])'
    BY <1>1, <1>4, <2>1 DEF ClerkKnows, KnowsApplication
  <2>4. KnowsOwner(desk[q])'
    BY <1>1, <1>4, <2>1 DEF ClerkKnows, KnowsOwner, CodesOf
  <2>5. KnowsBalance(desk[q])'
    <3> SUFFICES ASSUME h.step \in {"pay", "refund"}, NEW b \in Balance,
                        <<"balance", b>> \in h.rows
                 PROVE  /\ balance'[b].status # "none"
                        /\ h.step = "pay" /\ Alone(<<"balance", b>>) =>
                             balance'[b].status = "PENDING"
      BY <2>1 DEF KnowsBalance
    <3>1. /\ balance[b].status # "none"
          /\ h.step = "pay" /\ Alone(<<"balance", b>>) => balance[b].status = "PENDING"
      BY <1>4 DEF ClerkKnows, KnowsBalance
    <3>2. Alone(<<"balance", b>>) => <<"balance", b>> \notin desk[p].rows
      BY DEF DeskInv, Isolation, Row
    <3> QED
      BY <3>1, <3>2
  <2> QED
    BY <2>2, <2>3, <2>4, <2>5 DEF ClerkKnows
<1>5. ClerksKnow'
  BY <1>1, <1>4, OthersKnow
<1>6. RoleIsEarned'
  BY <1>1 DEF DeskInv, RoleIsEarned, ApplicationsOf
<1>7. OneAtATime'
  BY <1>1 DEF DeskInv, OneAtATime, ApplicationsOf, CodesOf
<1> QED
  BY <1>1, <1>2, <1>3, <1>5, <1>6, <1>7, DoneFacts DEF DeskInv

Balances == [Balance -> [status: {"none", "PENDING", "PAID"}, owner: Promoter \cup {None},
                         amount: Int, invoice: Invoice \cup {None}]]
BalanceRow(r) == IF r.status = "none" THEN r = NoBalance ELSE r.owner # None

LEMMA BalanceTypes ==
  DeskInv => /\ balance \in Balances /\ payouts \in [Balance -> Nat]
             /\ \A b \in Balance : BalanceRow(balance[b])
BY DEF DeskInv, PromoterTypeOK, RowsInShape, Balances, BalanceRow

\* Each balance of the list is paid out: for the first time, where the clerk worked alone.
LEMMA WritePaidInv ==
  ASSUME DeskInv, NEW p \in Request, WritePaid(p)
  PROVE  DeskInv'
<1> DEFINE B == {b \in Balance : <<"balance", b>> \in desk[p].rows}
<1>1. /\ desk[p].step = "pay" /\ Done(p)
      /\ UNCHANGED <<people, code, promoterCode, crossed, faults, requests>>
      /\ balance' = [b \in Balance |-> IF b \in B THEN [balance[b] EXCEPT !.status = "PAID"]
                                       ELSE balance[b]]
      /\ payouts' = [b \in Balance |-> IF b \in B THEN payouts[b] + 1 ELSE payouts[b]]
  BY DEF WritePaid
<1>2. /\ balance \in Balances /\ payouts \in [Balance -> Nat]
      /\ \A b \in Balance : BalanceRow(balance[b])
  BY BalanceTypes
<1>3. KnowsBalance(desk[p])
  BY DEF DeskInv, ClerksKnow, ClerkKnows
<1>4. \A b \in B : /\ balance[b].status # "none"
                   /\ Alone(<<"balance", b>>) => balance[b].status = "PENDING"
  BY <1>1, <1>3 DEF KnowsBalance
<1>5. \A b \in Balance : b \in B <=> <<"balance", b>> \in desk[p].rows
  OBVIOUS
<1> HIDE DEF B
<1>6. balance' \in Balances /\ payouts' \in [Balance -> Nat]
  BY <1>1, <1>2 DEF Balances
<1>7. /\ \A b \in Balance \ B : balance'[b] = balance[b] /\ payouts'[b] = payouts[b]
      /\ \A b \in Balance : b \in B => /\ balance'[b].status = "PAID"
                                       /\ balance'[b].owner = balance[b].owner
                                       /\ payouts'[b] = payouts[b] + 1
  BY <1>1, <1>2 DEF Balances
<1>8. \A b \in Balance : BalanceRow(balance'[b])
  <2> SUFFICES ASSUME NEW b \in Balance PROVE BalanceRow(balance'[b])
    OBVIOUS
  <2>1. BalanceRow(balance[b])
    BY <1>2
  <2>2. CASE b \in B
    BY <1>4, <1>7, <2>1, <2>2 DEF BalanceRow
  <2>3. CASE b \notin B
    BY <1>7, <2>1, <2>3
  <2> QED
    BY <2>2, <2>3
<1>9. PaidOutOnce'
  <2> SUFFICES ASSUME NEW b \in Balance, Alone(<<"balance", b>>)
               PROVE  payouts'[b] = (IF balance'[b].status = "PAID" THEN 1 ELSE 0)
    BY <1>1 DEF PaidOutOnce, Alone
  <2>1. payouts[b] = (IF balance[b].status = "PAID" THEN 1 ELSE 0)
    BY DEF DeskInv, PaidOutOnce, Alone
  <2>2. CASE b \in B
    BY <1>4, <1>7, <2>1, <2>2
  <2>3. CASE b \notin B
    BY <1>7, <2>1, <2>3
  <2> QED
    BY <2>2, <2>3
<1>10. \A b \in Balance : balance[b].status # "none" => balance'[b].status # "none"
  BY <1>7
<1>11. \A b \in Balance : \/ <<"balance", b>> \in desk[p].rows \/ balance[b].status # "PENDING"
                          \/ balance'[b].status = balance[b].status
  BY <1>5, <1>7
<1> QED
  BY <1>1, <1>6, <1>8, <1>9, <1>10, <1>11, BalanceWrite DEF Balances, BalanceRow

\* A balance that was not there is inserted, by the desk or by a sale.
Inserts(b, r) == /\ balance[b] = NoBalance /\ balance' = [balance EXCEPT ![b] = r]
                 /\ payouts' = payouts
NewBalances == [status: {"PENDING"}, owner: Promoter, amount: Int,
                invoice: Invoice \cup {None}]

LEMMA InsertsFacts ==
  ASSUME DeskInv, NEW b \in Balance, NEW r \in NewBalances, Inserts(b, r), crossed' = crossed
  PROVE  /\ balance' \in Balances /\ payouts' \in [Balance -> Nat]
         /\ \A x \in Balance : BalanceRow(balance'[x])
         /\ balance[b].status = "none" /\ balance'[b] = r
         /\ \A x \in Balance \ {b} : balance'[x] = balance[x]
         /\ PaidOutOnce'
<1>1. /\ balance \in Balances /\ payouts \in [Balance -> Nat]
      /\ \A x \in Balance : BalanceRow(balance[x])
  BY BalanceTypes
<1>2. /\ balance' \in Balances /\ payouts' \in [Balance -> Nat]
      /\ balance'[b] = r /\ \A x \in Balance \ {b} : balance'[x] = balance[x]
  BY <1>1 DEF Inserts, Balances, NewBalances
<1>3. balance[b].status = "none"
  BY DEF Inserts, NoBalance
<1>4. BalanceRow(r) /\ r.status = "PENDING"
  BY NoneIsNone DEF NewBalances, BalanceRow
<1>5. \A x \in Balance : BalanceRow(balance'[x])
  BY <1>1, <1>2, <1>4
<1>6. PaidOutOnce'
  <2>1. PaidOutOnce /\ payouts' = payouts
    BY DEF DeskInv, Inserts
  <2> QED
    BY <1>2, <1>3, <1>4, <2>1 DEF PaidOutOnce
<1> QED
  BY <1>1, <1>2, <1>3, <1>5, <1>6

LEMMA InsertRefundInv ==
  ASSUME DeskInv, NEW p \in Request, NEW b \in Balance, InsertRefund(p, b)
  PROVE  DeskInv' /\ \E x \in Balance, r \in NewBalances : Inserts(x, r) /\ r.invoice = None
<1>1. /\ desk[p].step = "refund" /\ desk[p].rows = {<<"balance", b>>} /\ Done(p)
      /\ UNCHANGED <<people, code, promoterCode, payouts, crossed, faults, requests>>
  BY DEF InsertRefund
<1> DEFINE r == [status |-> "PENDING", owner |-> balance[b].owner,
                 amount |-> -balance[b].amount, invoice |-> None]
<1>2. PICK x \in Balance : balance[x] = NoBalance /\ balance' = [balance EXCEPT ![x] = r]
  BY DEF InsertRefund
<1>3. KnowsBalance(desk[p])
  BY DEF DeskInv, ClerksKnow, ClerkKnows
<1>4. balance[b].status # "none"
  BY <1>1, <1>3 DEF KnowsBalance
<1>5. balance \in Balances /\ BalanceRow(balance[b])
  BY BalanceTypes
<1>6. balance[b].owner \in Promoter /\ balance[b].amount \in Int
  BY <1>4, <1>5 DEF Balances, BalanceRow
<1>7. r \in NewBalances /\ r.invoice = None
  BY <1>6 DEF NewBalances
<1> HIDE DEF r
<1>8. Inserts(x, r)
  BY <1>1, <1>2 DEF Inserts
<1>9. /\ balance' \in Balances /\ payouts' \in [Balance -> Nat]
      /\ \A y \in Balance : BalanceRow(balance'[y])
      /\ balance[x].status = "none" /\ \A y \in Balance \ {x} : balance'[y] = balance[y]
      /\ PaidOutOnce'
  BY <1>1, <1>7, <1>8, InsertsFacts
<1>10. DeskInv'
  <2>1. \A y \in Balance : balance[y].status # "none" => balance'[y].status # "none"
    BY <1>9
  <2>2. \A y \in Balance : \/ <<"balance", y>> \in desk[p].rows \/ balance[y].status # "PENDING"
                           \/ balance'[y].status = balance[y].status
    BY <1>9
  <2> QED
    BY <1>1, <1>9, <2>1, <2>2, BalanceWrite DEF Balances, BalanceRow
<1> QED
  BY <1>7, <1>8, <1>10

\* What the desk never touches: the owner of a code an invoice names, and a commission of a
\* sale but for its status.
KeepsPromises ==
  /\ promoterCode' = promoterCode
  /\ \A i \in Invoice : promoterCode[i] # None =>
       code'[promoterCode[i]].owner = code[promoterCode[i]].owner
  /\ \A b \in Balance :
       /\ balance'[b].invoice = balance[b].invoice
       /\ balance[b].invoice # None => /\ balance'[b].amount = balance[b].amount
                                       /\ balance'[b].owner = balance[b].owner

\* A code an invoice names is there.
NamedExist == \A i \in Invoice : promoterCode[i] # None => Exists(promoterCode[i])

LEMMA NothingWritten ==
  ASSUME code' = code, promoterCode' = promoterCode, balance' = balance
  PROVE  KeepsPromises
BY DEF KeepsPromises

LEMMA InsertCodeKeeps ==
  ASSUME DeskInv, NamedExist, NEW p \in Request, InsertCode(p)
  PROVE  KeepsPromises
<1> DEFINE c == desk[p].code
<1>1. /\ desk[p].step = "create" /\ promoterCode' = promoterCode /\ balance' = balance
      /\ code' = code \/ /\ code[c] = NoCode
                         /\ \E r : code' = [code EXCEPT ![c] = r]
  BY DEF InsertCode, money
<1>2. c \in Code
  BY <1>1 DEF DeskInv, ClerksInShape, ClerkShape
<1>3. code \in Codes /\ promoterCode \in [Invoice -> Code \cup {None}]
  BY DEF DeskInv, PromoterTypeOK, Codes
<1> HIDE DEF c
<1>4. CASE code' = code
  BY <1>1, <1>4 DEF KeepsPromises
<1>5. CASE code[c] = NoCode /\ \E r : code' = [code EXCEPT ![c] = r]
  <2>1. \A x \in Code \ {c} : code'[x] = code[x]
    BY <1>2, <1>3, <1>5 DEF Codes
  <2>2. ASSUME NEW i \in Invoice, promoterCode[i] # None
        PROVE  code'[promoterCode[i]].owner = code[promoterCode[i]].owner
    <3>1. promoterCode[i] \in Code /\ code[promoterCode[i]].owner # None
      BY <1>3, <2>2 DEF NamedExist, Exists
    <3>2. promoterCode[i] # c
      BY <1>5, <3>1 DEF NoCode
    <3> QED
      BY <2>1, <3>1, <3>2
  <2> QED
    BY <1>1, <2>2 DEF KeepsPromises
<1> QED
  BY <1>1, <1>4, <1>5

LEMMA WriteToggleKeeps ==
  ASSUME DeskInv, NEW p \in Request, WriteToggle(p)
  PROVE  KeepsPromises
<1>1. /\ promoterCode' = promoterCode /\ balance' = balance
      /\ code' = code \/ \E c, s : code' = [code EXCEPT ![c].status = s]
  BY DEF WriteToggle, money
<1>2. code \in Codes /\ promoterCode \in [Invoice -> Code \cup {None}]
  BY DEF DeskInv, PromoterTypeOK, Codes
<1>3. \A x \in Code : code'[x].owner = code[x].owner
  <2>1. CASE code' = code
    BY <2>1
  <2>2. CASE \E c, s : code' = [code EXCEPT ![c].status = s]
    BY <1>2, <2>2 DEF Codes
  <2> QED
    BY <1>1, <2>1, <2>2
<1> QED
  BY <1>1, <1>2, <1>3 DEF KeepsPromises

LEMMA WriteDeleteKeeps ==
  ASSUME DeskInv, NEW p \in Request, WriteDelete(p)
  PROVE  KeepsPromises
<1> DEFINE c == desk[p].code
<1>1. /\ promoterCode' = promoterCode /\ balance' = balance
      /\ \/ code' = code
         \/ /\ ~\E i \in Invoice : promoterCode[i] = c
            /\ \E r : code' = [code EXCEPT ![c] = r]
  BY DEF WriteDelete, money
<1>2. code \in Codes /\ promoterCode \in [Invoice -> Code \cup {None}]
  BY DEF DeskInv, PromoterTypeOK, Codes
<1> HIDE DEF c
<1>3. CASE code' = code
  BY <1>1, <1>3 DEF KeepsPromises
<1>4. CASE /\ ~\E i \in Invoice : promoterCode[i] = c
           /\ \E r : code' = [code EXCEPT ![c] = r]
  <2>1. \A x \in Code \ {c} : code'[x] = code[x]
    BY <1>2, <1>4 DEF Codes
  <2>2. \A i \in Invoice : promoterCode[i] # None =>
          promoterCode[i] \in Code \ {c}
    BY <1>2, <1>4
  <2> QED
    BY <1>1, <2>1, <2>2 DEF KeepsPromises
<1> QED
  BY <1>1, <1>3, <1>4

LEMMA WritePaidKeeps ==
  ASSUME DeskInv, NEW p \in Request, WritePaid(p)
  PROVE  KeepsPromises
<1>1. /\ code' = code /\ promoterCode' = promoterCode
      /\ \E B \in SUBSET Balance :
           balance' = [b \in Balance |-> IF b \in B THEN [balance[b] EXCEPT !.status = "PAID"]
                                         ELSE balance[b]]
  BY DEF WritePaid
<1>2. balance \in Balances
  BY BalanceTypes
<1>3. \A b \in Balance : /\ balance'[b].invoice = balance[b].invoice
                         /\ balance'[b].amount = balance[b].amount
                         /\ balance'[b].owner = balance[b].owner
  BY <1>1, <1>2 DEF Balances
<1> QED
  BY <1>1, <1>3 DEF KeepsPromises

LEMMA InsertRefundKeeps ==
  ASSUME DeskInv, NEW p \in Request, NEW b \in Balance, InsertRefund(p, b)
  PROVE  KeepsPromises
<1>1. /\ code' = code /\ promoterCode' = promoterCode /\ crossed' = crossed
  BY DEF InsertRefund
<1>2. PICK x \in Balance, r \in NewBalances : Inserts(x, r) /\ r.invoice = None
  BY InsertRefundInv
<1>3. balance'[x] = r /\ \A y \in Balance \ {x} : balance'[y] = balance[y]
  BY <1>1, <1>2, InsertsFacts
<1>4. balance[x].invoice = None
  BY <1>2 DEF Inserts, NoBalance
<1> QED
  BY <1>1, <1>2, <1>3, <1>4 DEF KeepsPromises

\* A failure writes nothing.
LEMMA FailPromoterInv ==
  ASSUME DeskInv, NEW p \in Request, FailPromoter(p)
  PROVE  DeskInv'
<1>1. /\ Done(p) /\ role' = role /\ application' = application /\ appointed' = appointed
      /\ code' = code
      /\ promoterCode' = promoterCode /\ balance' = balance /\ payouts' = payouts
      /\ crossed' = crossed /\ requests' = requests
  BY DEF FailPromoter, people, money
<1>2. faults' \in 0..MaxFaults
  BY PromoterBoundsAssumption DEF FailPromoter, DeskInv, PromoterTypeOK
<1>3. PromoterTypeOK'
  BY <1>1, <1>2, DoneFacts DEF DeskInv, PromoterTypeOK
<1>4. RowsInShape'
  BY <1>1 DEF DeskInv, RowsInShape
<1>5. ASSUME NEW q \in Request \ {p}, ClerkKnows(desk[q]) PROVE ClerkKnows(desk[q])'
  <2>1. desk'[q] = desk[q] /\ \A row : Alone(row)' <=> Alone(row)
    BY <1>1, DoneFacts
  <2>2. KnowsUser(desk[q])'
    BY <1>1, <1>5, <2>1 DEF ClerkKnows, KnowsUser, ApplicationsOf
  <2>3. KnowsApplication(desk[q])'
    BY <1>1, <1>5, <2>1 DEF ClerkKnows, KnowsApplication
  <2>4. KnowsOwner(desk[q])'
    BY <1>1, <1>5, <2>1 DEF ClerkKnows, KnowsOwner, CodesOf
  <2>5. KnowsBalance(desk[q])'
    BY <1>1, <1>5, <2>1 DEF ClerkKnows, KnowsBalance
  <2> QED
    BY <2>2, <2>3, <2>4, <2>5 DEF ClerkKnows
<1>6. ClerksKnow'
  BY <1>1, <1>5, OthersKnow
<1>7. RoleIsEarned' /\ OneAtATime' /\ PaidOutOnce'
  BY <1>1 DEF DeskInv, RoleIsEarned, OneAtATime, PaidOutOnce, ApplicationsOf, CodesOf
<1> QED
  BY <1>1, <1>3, <1>4, <1>6, <1>7, DoneFacts DEF DeskInv

\* A role that is written by hand is not one the reviews account for.
LEMMA UpdateUserInv ==
  ASSUME DeskInv, NEW u \in Promoter, NEW r \in {"CUSTOMER", "PROMOTER"}, UpdateUser(u, r),
         requests' \in 0..MaxRequests
  PROVE  DeskInv' /\ KeepsPromises
<1>1. /\ role' = [role EXCEPT ![u] = r] /\ appointed' = appointed \cup {u}
      /\ application' = application /\ code' = code /\ promoterCode' = promoterCode
      /\ balance' = balance /\ payouts' = payouts /\ desk' = desk /\ crossed' = crossed
      /\ faults' = faults
  BY DEF UpdateUser, money
<1>2. /\ role' \in [Promoter -> {"CUSTOMER", "PROMOTER"}]
      /\ \A v \in Promoter \ {u} : role'[v] = role[v]
  BY <1>1 DEF DeskInv, PromoterTypeOK
<1>3. PromoterTypeOK'
  BY <1>1, <1>2 DEF DeskInv, PromoterTypeOK
<1>4. ClerksInShape' /\ RowsInShape'
  BY <1>1 DEF DeskInv, ClerksInShape, RowsInShape
<1>5. Isolation'
  BY <1>1 DEF DeskInv, Isolation, Alone
<1>6. ASSUME NEW q \in Request PROVE ClerkKnows(desk[q])'
  <2>1. desk'[q] = desk[q] /\ (\A row : Alone(row)' <=> Alone(row)) /\ ClerkKnows(desk[q])
    BY <1>1 DEF Alone, DeskInv, ClerksKnow
  <2>2. KnowsUser(desk[q])'
    BY <1>1, <2>1 DEF ClerkKnows, KnowsUser, ApplicationsOf
  <2>3. KnowsApplication(desk[q])'
    BY <1>1, <2>1 DEF ClerkKnows, KnowsApplication
  <2>4. KnowsOwner(desk[q])'
    BY <1>1, <2>1 DEF ClerkKnows, KnowsOwner, CodesOf
  <2>5. KnowsBalance(desk[q])'
    BY <1>1, <2>1 DEF ClerkKnows, KnowsBalance
  <2> QED
    BY <2>2, <2>3, <2>4, <2>5 DEF ClerkKnows
<1>7. ClerksKnow'
  BY <1>6 DEF ClerksKnow
<1>8. RoleIsEarned'
  <2>1. RoleIsEarned
    BY DEF DeskInv
  <2> QED
    BY <1>1, <1>2, <2>1 DEF RoleIsEarned, ApplicationsOf
<1>9. OneAtATime' /\ PaidOutOnce'
  BY <1>1 DEF DeskInv, OneAtATime, PaidOutOnce, ApplicationsOf, CodesOf
<1> QED
  BY <1>1, <1>3, <1>4, <1>5, <1>7, <1>8, <1>9, NothingWritten DEF DeskInv

\* No step of the desk breaks what it promises, nor what a sale counts on.
LEMMA DeskStepInv ==
  ASSUME DeskInv, NamedExist, PromoterNext
  PROVE  DeskInv' /\ KeepsPromises
<1>1. CASE AskPromoterDesk
  <2>1. /\ requests' \in 0..MaxRequests
        /\ \/ \E p \in Request, h \in Clerk : ClerkShape(h) /\ Begins(p, h) /\ Read(h)
           \/ \E u \in Promoter, r \in {"CUSTOMER", "PROMOTER"} : UpdateUser(u, r)
    BY <1>1, AskStarts, DeskInvShape
  <2>2. ASSUME NEW p \in Request, NEW h \in Clerk, ClerkShape(h), Begins(p, h), Read(h)
        PROVE  DeskInv' /\ KeepsPromises
    BY <2>1, <2>2, BeginsInv, NothingWritten DEF Begins, money
  <2> QED
    BY <2>1, <2>2, UpdateUserInv
<1>2. ASSUME NEW p \in Request, PromoterStep(p) PROVE DeskInv' /\ KeepsPromises
  <2>1. CASE InsertApplication(p)
    BY <2>1, InsertApplicationInv, NothingWritten DEF InsertApplication, money
  <2>2. CASE InsertCode(p)
    BY <2>2, InsertCodeInv, InsertCodeKeeps
  <2>3. CASE WriteToggle(p)
    BY <2>3, WriteToggleInv, WriteToggleKeeps
  <2>4. CASE WriteDelete(p)
    BY <2>4, WriteDeleteInv, WriteDeleteKeeps
  <2>5. CASE WritePaid(p)
    BY <2>5, WritePaidInv, WritePaidKeeps
  <2>6. ASSUME NEW a \in Application, WriteApproval(p, a) PROVE DeskInv' /\ KeepsPromises
    BY <2>6, WriteApprovalInv, NothingWritten DEF WriteApproval, money
  <2>7. ASSUME NEW a \in Application, WriteRejection(p, a) PROVE DeskInv' /\ KeepsPromises
    BY <2>7, WriteRejectionInv, NothingWritten DEF WriteRejection, money
  <2>8. ASSUME NEW b \in Balance, InsertRefund(p, b) PROVE DeskInv' /\ KeepsPromises
    BY <2>8, InsertRefundInv, InsertRefundKeeps
  <2> QED
    BY <1>2, <2>1, <2>2, <2>3, <2>4, <2>5, <2>6, <2>7, <2>8 DEF PromoterStep
<1>3. ASSUME NEW p \in Request, FailPromoter(p) PROVE DeskInv' /\ KeepsPromises
  BY <1>3, FailPromoterInv, NothingWritten DEF FailPromoter, money
<1> QED
  BY <1>1, <1>2, <1>3 DEF PromoterNext

LEMMA DeskInit ==
  ASSUME PromoterInit, faults = 0, requests = 0
  PROVE  DeskInv
<1>1. desk = [p \in Request |-> Idle] /\ crossed = {} /\ payouts = [b \in Balance |-> 0]
  BY DEF PromoterInit
<1>2. \A p \in Request : desk[p].step = "idle" /\ desk[p].rows = {}
  BY <1>1 DEF Idle
<1>3. PromoterTypeOK
  <2>1. role \in [Promoter -> {"CUSTOMER", "PROMOTER"}]
    BY DEF PromoterInit
  <2>0. appointed \subseteq Promoter
    BY DEF PromoterInit
  <2>2. application \in [Application -> [user: Promoter \cup {None},
                           status: {"none", "PENDING", "APPROVED", "REJECTED"}]]
    BY DEF PromoterInit, NoApplication
  <2>3. code \in [Code -> [owner: Promoter \cup {None},
                           status: {"none", "active", "inactive", "deleted"}]]
    BY DEF PromoterInit, NoCode
  <2>4. promoterCode \in [Invoice -> Code \cup {None}] /\ payouts \in [Balance -> Nat]
    BY DEF PromoterInit
  <2>5. balance \in [Balance -> [status: {"none", "PENDING", "PAID"},
                                 owner: Promoter \cup {None}, amount: Int,
                                 invoice: Invoice \cup {None}]]
    BY DEF PromoterInit, NoBalance
  <2>6. desk \in [Request -> Clerk] /\ crossed \subseteq Row
    BY <1>1, IdleShape
  <2>7. faults \in 0..MaxFaults /\ requests \in 0..MaxRequests
    BY PromoterBoundsAssumption
  <2> QED
    BY <2>0, <2>1, <2>2, <2>3, <2>4, <2>5, <2>6, <2>7 DEF PromoterTypeOK
<1>4. ClerksInShape
  BY <1>1, IdleShape DEF ClerksInShape
<1>5. RowsInShape
  <2>1. \A a \in Application : application[a].status # "none" => application[a].user \in Promoter
    BY DEF PromoterInit, NoApplication
  <2>2. \A c \in Code : (code[c].owner = None) <=> (code[c].status \in {"none", "deleted"})
    BY NoneIsNone DEF PromoterInit, NoCode
  <2>3. \A b \in Balance : IF balance[b].status = "none" THEN balance[b] = NoBalance
                           ELSE balance[b].owner # None
    BY NoneIsNone DEF PromoterInit, NoBalance
  <2> QED
    BY <2>1, <2>2, <2>3 DEF RowsInShape
<1>6. Isolation
  BY <1>2 DEF Isolation
<1>7. ClerksKnow
  BY <1>2 DEF ClerksKnow, ClerkKnows, KnowsUser, KnowsApplication, KnowsOwner, KnowsBalance
<1>8. RoleIsEarned
  BY DEF PromoterInit, RoleIsEarned
<1>9. OneAtATime
  BY DEF PromoterInit, OneAtATime, AtMostOne
<1>10. PaidOutOnce
  <2>1. \A b \in Balance : balance[b].status # "PAID"
    BY DEF PromoterInit, NoBalance
  <2> QED
    BY <1>1, <2>1 DEF PaidOutOnce
<1> QED
  BY <1>3, <1>4, <1>5, <1>6, <1>7, <1>8, <1>9, <1>10 DEF DeskInv

----------------------------------------------------------------------------
(***************************************************************************)
(* The sale: what every handler in flight holds at each step.              *)
(***************************************************************************)
Selling == {"quote", "insert", "items", "uses"}
Settling == {"issue", "count", "commission"}
Priced == {"insert", "items", "uses"}
Invoiced == {"items", "uses"} \cup Settling

\* The regular price of a cart.
PriceOf(cart, prices) == SumFunction([k \in DOMAIN cart |-> prices[k] * cart[k].qty])

\* The commission of rule r for a sale of n, unless a percentage beyond a hundred was taken.
CommissionWithin(r, n, type, value, commission) ==
  r.reward = "PERCENTAGE" /\ (type # 1 \/ value <= 100) => commission \in 0..Percent(n, r.amount)

TillShape(h) ==
  /\ h.step \in Selling => /\ h.cart \in Cart
                           /\ DOMAIN h.prices = DOMAIN h.cart
                           /\ h.regular = PriceOf(h.cart, h.prices)
  /\ h.step \notin Selling => h.cart = <<>> /\ ~h.named
  /\ h.step \in Invoiced => h.invoice \in Invoice
  /\ h.step \notin Invoiced => h.invoice = None
  /\ h.step \in Priced => /\ h.base = AfterDiscount(h.regular, h.type, h.value)
                          /\ CommissionWithin(rule, h.regular, h.type, h.value, h.commission)
  /\ h.valid => h.named /\ h.type # 0 /\ h.step \in Priced
  /\ h.step \in {"quota", "sold", "move"} => h.locality \in Locality
  /\ h.step \in {"price", "move"} => h.stage \in Stage

TillsInShape == \A p \in Request : TillShape(till[p])

SaleShape == SaleTypeOK /\ TillsInShape

LEMMA ClosedShape ==
  Closed \in Till /\ TillShape(Closed) /\ Closed.step = "idle" /\ Closed.cart = <<>>
    /\ Closed.invoice = None /\ ~Closed.named /\ ~Closed.valid
BY DEF Closed, Till, TillShape, Selling, Settling, Invoiced, Priced

\* A till turns to something else, and the others stay where they are.
Puts(p, h) ==
  /\ till' \in [Request -> Till] /\ TillsInShape'
  /\ till'[p] = h /\ \A q \in Request \ {p} : till'[q] = till[q]

LEMMA TillPut ==
  ASSUME SaleShape, NEW p \in Request, NEW h \in Till, TillShape(h), rule' = rule,
         till' = [till EXCEPT ![p] = h]
  PROVE  Puts(p, h)
<1>1. till \in [Request -> Till] /\ TillsInShape
  BY DEF SaleShape, SaleTypeOK
<1>2. /\ till' \in [Request -> Till]
      /\ till'[p] = h /\ \A q \in Request \ {p} : till'[q] = till[q]
  BY <1>1
<1>3. ASSUME NEW q \in Request PROVE TillShape(till[q])'
  <2>1. TillShape(till'[q])
    BY <1>1, <1>2 DEF TillsInShape
  <2> QED
    BY <2>1 DEF TillShape
<1>4. TillsInShape'
  BY <1>3 DEF TillsInShape
<1> QED
  BY <1>2, <1>4 DEF Puts

LEMMA TillIs ==
  ASSUME SaleShape, NEW p \in Request
  PROVE  till[p] \in Till /\ TillShape(till[p])
BY DEF SaleShape, SaleTypeOK, TillsInShape

LEMMA Closes ==
  ASSUME SaleShape, NEW p \in Request, Close(p), rule' = rule
  PROVE  Puts(p, Closed)
BY ClosedShape, TillPut DEF Close

\* A handler that goes on keeps what it holds.
LEMMA GoesOn ==
  ASSUME SaleShape, NEW p \in Request, NEW s, Goto(p, s), rule' = rule,
         \/ till[p].step = "items" /\ s = "uses"
         \/ till[p].step \in {"issue", "count"} /\ s \in {"count", "commission"}
  PROVE  Puts(p, [till[p] EXCEPT !.step = s])
<1> DEFINE h == till[p]
           g == [h EXCEPT !.step = s]
<1>1. h \in Till /\ TillShape(h)
  BY TillIs
<1>2. /\ g \in Till /\ g.step = s /\ g.cart = h.cart /\ g.prices = h.prices
      /\ g.regular = h.regular /\ g.named = h.named /\ g.invoice = h.invoice
      /\ g.base = h.base /\ g.type = h.type /\ g.value = h.value
      /\ g.commission = h.commission /\ g.valid = h.valid /\ g.locality = h.locality
  BY <1>1 DEF Till
<1>3. till' = [till EXCEPT ![p] = g]
  BY DEF Goto, SaleShape, SaleTypeOK
<1>4. \/ h.step = "items" /\ s = "uses"
      \/ h.step \in {"issue", "count"} /\ s \in {"count", "commission"}
  OBVIOUS
<1> HIDE DEF g, h
<1>5. TillShape(g)
  <2>1. CASE h.step = "items" /\ s = "uses"
    BY <1>1, <1>2, <2>1 DEF TillShape, Selling, Settling, Invoiced, Priced
  <2>2. CASE h.step \in {"issue", "count"} /\ s \in {"count", "commission"}
    BY <1>1, <1>2, <2>2 DEF TillShape, Selling, Settling, Invoiced, Priced
  <2> QED
    BY <1>4, <2>1, <2>2
<1> QED
  BY <1>2, <1>3, <1>5, TillPut DEF g, h

LEMMA PriceNat ==
  ASSUME NEW cart \in Cart, NEW prices, \A k \in DOMAIN cart : prices[k] \in Nat
  PROVE  PriceOf(cart, prices) \in Nat
<1> DEFINE f == [k \in DOMAIN cart |-> prices[k] * cart[k].qty]
<1>1. \A k \in DOMAIN cart : f[k] \in Nat
  BY CartFacts
<1>2. DOMAIN f = DOMAIN cart /\ PriceOf(cart, prices) = SumFunctionOnSet(f, DOMAIN f)
  BY DEF PriceOf, SumFunction
<1>3. IsFiniteSet(DOMAIN cart)
  BY CartFacts
<1> HIDE DEF f
<1> QED
  BY <1>1, <1>2, <1>3, SumNat

LEMMA QuoteTyped ==
  ASSUME NEW h \in Till, NEW cart \in Cart, NEW prices \in Seq(Nat), NEW named \in BOOLEAN,
         NEW c \in Code \cup {None}, NEW n \in Nat
  PROVE  [h EXCEPT !.step = "quote", !.cart = cart, !.prices = prices, !.named = named,
                   !.code = c, !.regular = n] \in Till
BY DEF Till

LEMMA PricedTyped ==
  ASSUME NEW h \in Till, NEW valid \in BOOLEAN, NEW c \in Code \cup {None}, NEW type \in 0..2,
         NEW value \in Nat, NEW base \in Int, NEW n \in Int
  PROVE  [h EXCEPT !.step = "insert", !.valid = valid, !.code = c, !.type = type,
                   !.value = value, !.base = base, !.commission = n] \in Till
BY DEF Till

\* A quote holds the cart and the prices of that moment.
LEMMA QuoteFacts ==
  ASSUME SaleShape, NEW p \in Request, NEW cart \in Cart, NEW named \in BOOLEAN,
         NEW c \in Code \cup {None}, Quote(p, cart, named, c)
  PROVE  /\ SaleShape'
         /\ \E h \in Till : /\ Puts(p, h) /\ h.step = "quote" /\ h.cart = cart
                            /\ h.named = named /\ ~h.valid /\ h.invoice = None
<1> DEFINE prices == [k \in DOMAIN cart |-> stage[cart[k].stage].price]
           n == PriceOf(cart, prices)
           h == [Closed EXCEPT !.step = "quote", !.cart = cart, !.prices = prices,
                               !.named = named, !.code = c,
                               !.regular = n]
<1>1. till' = [till EXCEPT ![p] = h] /\ catalog' = catalog /\ invoice' = invoice /\ given' = given
  BY DEF Quote, PriceOf
<1>2. /\ DOMAIN cart = 1..Len(cart) /\ Len(cart) \in Nat
      /\ \A k \in DOMAIN cart : cart[k].stage \in Stage /\ cart[k].locality \in Locality
  BY CartFacts
<1>3. \A k \in DOMAIN cart : prices[k] \in Nat
  BY <1>2 DEF SaleShape, SaleTypeOK
<1>4. prices \in Seq(Nat) /\ DOMAIN prices = DOMAIN cart
  BY <1>2, <1>3
<1> HIDE DEF prices
<1>5. n \in Nat
  BY <1>3, PriceNat
<1> HIDE DEF n
<1>6. /\ h \in Till /\ h.step = "quote" /\ h.cart = cart /\ h.prices = prices
      /\ h.named = named /\ ~h.valid /\ h.invoice = None /\ h.regular = n
  <2>1. h \in Till
    BY <1>4, <1>5, ClosedShape, QuoteTyped
  <2>2. /\ h.step = "quote" /\ h.cart = cart /\ h.prices = prices
        /\ h.named = named /\ ~h.valid /\ h.invoice = None /\ h.regular = n
    BY DEF Closed
  <2> QED
    BY <2>1, <2>2
<1> USE DEF n
<1> HIDE DEF h
<1>7. TillShape(h)
  BY <1>4, <1>6 DEF TillShape, Selling, Settling, Invoiced, Priced
<1>8. Puts(p, h)
  BY <1>1, <1>6, <1>7, TillPut DEF catalog
<1>9. contended' \subseteq Key
  <2>1. LocalitiesOf(cart) \subseteq Locality
    BY <1>2 DEF LocalitiesOf
  <2>2. contended \subseteq Key
    BY DEF SaleShape, SaleTypeOK
  <2>3. contended' \subseteq contended \cup ({"locality"} \X LocalitiesOf(cart))
                       \cup {<<"event", None>>, <<"code", None>>}
    BY DEF Quote, LocalitiesOf
  <2> QED
    BY <2>1, <2>2, <2>3 DEF Key
<1>10. SaleTypeOK'
  BY <1>1, <1>8, <1>9 DEF SaleShape, SaleTypeOK, Puts, catalog
<1> QED
  BY <1>6, <1>8, <1>10 DEF SaleShape, Puts

\* The rest of the sale, as it is after a step that changes neither catalog nor contended.
LEMMA StillTyped ==
  ASSUME SaleShape, till' \in [Request -> Till], invoice' \in [Invoice -> InvoiceRow],
         given' \in Nat, event' = event, stage' = stage, locality' = locality,
         discount' = discount, rule' = rule, contended' = contended
  PROVE  SaleTypeOK'
BY DEF SaleShape, SaleTypeOK

\* The discount of a rule takes the place of the code's; the commission is of what is left,
\* or of the regular price.
LEMMA ReadDiscountsFacts ==
  ASSUME SaleShape, NEW p \in Request, ReadDiscounts(p)
  PROVE  /\ SaleShape' /\ till[p].step = "quote"
         /\ UNCHANGED <<promoterVars, catalog, invoice, given, contended>>
         /\ \/ Puts(p, Closed)
            \/ \E h \in Till :
                 /\ Puts(p, h) /\ h.step = "insert" /\ h.cart = till[p].cart
                 /\ h.named = till[p].named
                 /\ h.valid <=> h.named /\ discount.type # 0
                 /\ h.valid => discount.max = 0 \/ discount.uses < discount.max
<1> DEFINE g     == till[p]
           valid == g.named /\ discount.type # 0
           promo == g.code # None /\ code[g.code].status = "active"
           cut   == promo /\ rule.cutType # 0
           type  == IF cut THEN rule.cutType ELSE IF valid THEN discount.type ELSE 0
           value == IF cut THEN rule.cutValue ELSE IF valid THEN discount.value ELSE 0
           base  == AfterDiscount(g.regular, type, value)
           c     == IF promo THEN g.code ELSE None
           n     == IF promo
                    THEN CommissionOf(rule, IF rule.original THEN g.regular ELSE base,
                                      QtyOf(g.cart))
                    ELSE 0
           h     == [g EXCEPT !.step = "insert", !.valid = valid, !.code = c, !.type = type,
                              !.value = value, !.base = base, !.commission = n]
<1>1. /\ g.step = "quote" /\ event' = event /\ stage' = stage /\ locality' = locality
      /\ discount' = discount /\ rule' = rule /\ invoice' = invoice /\ given' = given
      /\ contended' = contended /\ UNCHANGED promoterVars
  BY DEF ReadDiscounts, SaleOnly, catalog
<1>2. IF Refused(g) THEN Close(p) ELSE till' = [till EXCEPT ![p] = h]
  BY DEF ReadDiscounts
<1>3. g \in Till /\ TillShape(g)
  BY TillIs
<1>4. /\ g.cart \in Cart /\ g.regular \in Nat /\ g.named \in BOOLEAN
      /\ g.code \in Code \cup {None} /\ g.invoice = None
      /\ DOMAIN g.prices = DOMAIN g.cart /\ g.regular = PriceOf(g.cart, g.prices)
  BY <1>1, <1>3 DEF Till, TillShape, Selling, Settling, Invoiced
<1>5. /\ rule \in Rule /\ rule.amount \in Nat /\ rule.cutType \in 0..2 /\ rule.cutValue \in Nat
      /\ rule.original \in BOOLEAN
  BY RuleAssumption DEF SaleShape, SaleTypeOK
<1>6. /\ discount.type \in 0..2 /\ discount.value \in Nat /\ discount.uses \in Nat
      /\ discount.max \in Nat
  BY DEF SaleShape, SaleTypeOK
<1>7. /\ type \in 0..2 /\ value \in Nat /\ valid \in BOOLEAN /\ promo \in BOOLEAN
      /\ c \in Code \cup {None} /\ (valid => type # 0)
  BY <1>4, <1>5, <1>6
<1> HIDE DEF promo, cut, type, value, c
<1>8. /\ base \in Int /\ (type # 1 \/ value <= 100 => base \in 0..g.regular)
  BY <1>4, <1>7, DiscountWithin
<1>9. base = AfterDiscount(g.regular, type, value)
  OBVIOUS
<1> HIDE DEF base
<1>10. n \in Int
  <2> DEFINE b == IF rule.original THEN g.regular ELSE base
  <2>1. b \in Int
    BY <1>4, <1>8
  <2> HIDE DEF b
  <2>2. CommissionOf(rule, b, QtyOf(g.cart)) \in Int
    BY <1>5, <2>1, CommissionInt
  <2> QED
    BY <2>2 DEF b
<1>11. CommissionWithin(rule, g.regular, type, value, n)
  <2> SUFFICES ASSUME rule.reward = "PERCENTAGE", type # 1 \/ value <= 100
               PROVE  n \in 0..Percent(g.regular, rule.amount)
    BY DEF CommissionWithin
  <2>1. base \in 0..g.regular
    BY <1>8
  <2>2. Percent(g.regular, rule.amount) \in Nat
    BY <1>4, <1>5, PercentRounds, ZenonT(40)
  <2>3. CASE ~promo
    BY <2>2, <2>3
  <2>4. CASE promo /\ rule.original
    <3>1. n = Percent(g.regular, rule.amount)
      BY <2>4 DEF CommissionOf
    <3> QED
      BY <2>2, <3>1
  <2>5. CASE promo /\ ~rule.original
    <3>1. n = Percent(base, rule.amount)
      BY <2>5 DEF CommissionOf
    <3>2. base \in Nat /\ base <= g.regular
      BY <1>4, <2>1
    <3>3. Percent(base, rule.amount) \in Nat
            /\ Percent(base, rule.amount) <= Percent(g.regular, rule.amount)
      BY <1>4, <1>5, <3>2, PercentRounds, PercentGrows
    <3> QED
      BY <2>2, <3>1, <3>3
  <2> QED
    BY <1>5, <2>3, <2>4, <2>5
<1> HIDE DEF n
<1>12. CASE Refused(g)
  <2>1. Puts(p, Closed)
    BY <1>1, <1>2, <1>12, Closes
  <2> QED
    BY <1>1, <2>1, StillTyped DEF SaleShape, SaleTypeOK, Puts, catalog
<1>13. CASE ~Refused(g)
  <2>1. h \in Till
    BY <1>3, <1>7, <1>8, <1>10, PricedTyped, ZenonT(40)
  <2>2. /\ h.step = "insert" /\ h.cart = g.cart /\ h.prices = g.prices /\ h.named = g.named
        /\ h.regular = g.regular /\ h.invoice = g.invoice /\ h.type = type /\ h.value = value
        /\ h.base = base /\ h.commission = n /\ h.valid = valid
    BY <1>3 DEF Till
  <2>3. till' = [till EXCEPT ![p] = h]
    BY <1>2, <1>13
  <2> HIDE DEF h
  <2>4. TillShape(h)
    BY <1>4, <1>7, <1>9, <1>11, <2>2 DEF TillShape, Selling, Settling, Invoiced, Priced
  <2>5. Puts(p, h)
    BY <1>1, <2>1, <2>3, <2>4, TillPut
  <2>6. valid => discount.max = 0 \/ discount.uses < discount.max
    BY <1>6, <1>13 DEF Refused
  <2>7. SaleShape'
    BY <1>1, <2>5, StillTyped DEF SaleShape, SaleTypeOK, Puts
  <2> QED
    BY <1>1, <2>1, <2>2, <2>5, <2>6, <2>7 DEF catalog
<1> QED
  BY <1>12, <1>13

\* The row an invoice starts with.
Billing(h) == [NoInvoice EXCEPT !.status = "ISSUED", !.regular = h.regular,
                 !.total = AtLeast0(h.base), !.type = h.type, !.value = h.value,
                 !.commission = h.commission]

LEMMA InsertInvoiceFacts ==
  ASSUME SaleShape, NEW p \in Request, InsertInvoice(p)
  PROVE  /\ SaleShape' /\ till[p].step = "insert"
         /\ UNCHANGED <<people, code, money, desk, crossed, faults, requests, catalog, contended>>
         /\ \/ Puts(p, Closed) /\ UNCHANGED <<invoice, promoterCode, given>>
            \/ \E i \in Invoice, h \in Till :
                 /\ invoice[i] = NoInvoice
                 /\ Puts(p, h) /\ h = [till[p] EXCEPT !.step = "items", !.invoice = i]
                 /\ invoice' = [invoice EXCEPT ![i] = Billing(till[p])]
                 /\ Billing(till[p]) \in InvoiceRow
                 /\ promoterCode' = [promoterCode EXCEPT ![i] = till[p].code]
                 /\ till[p].code \in Code \cup {None}
                 /\ till[p].code # None => Exists(till[p].code)
                 /\ given' = IF till[p].valid THEN given + 1 ELSE given
<1> DEFINE g == till[p]
<1>1. /\ g.step = "insert" /\ event' = event /\ stage' = stage /\ locality' = locality
      /\ discount' = discount /\ rule' = rule /\ contended' = contended
      /\ UNCHANGED <<people, code, money, desk, crossed, faults, requests>>
  BY DEF InsertInvoice, catalog
<1>2. g \in Till /\ TillShape(g)
  BY TillIs
<1>3. given \in Nat /\ invoice \in [Invoice -> InvoiceRow]
  BY DEF SaleShape, SaleTypeOK
<1>4. CASE g.code # None /\ ~Exists(g.code)
  <2>1. Close(p) /\ UNCHANGED <<invoice, promoterCode, given>>
    BY <1>4 DEF InsertInvoice
  <2>2. Puts(p, Closed)
    BY <1>1, <2>1, Closes
  <2> QED
    BY <1>1, <1>3, <2>1, <2>2, StillTyped DEF SaleShape, Puts, catalog
<1>5. CASE ~(g.code # None /\ ~Exists(g.code))
  <2>1. PICK i \in Invoice :
          /\ invoice[i] = NoInvoice
          /\ invoice' = [invoice EXCEPT ![i] = Billing(g)]
          /\ promoterCode' = [promoterCode EXCEPT ![i] = g.code]
          /\ given' = IF g.valid THEN given + 1 ELSE given
          /\ till' = [till EXCEPT ![p].step = "items", ![p].invoice = i]
    BY <1>5 DEF InsertInvoice, Billing
  <2> DEFINE h == [g EXCEPT !.step = "items", !.invoice = i]
  <2>2. till' = [till EXCEPT ![p] = h]
    BY <2>1 DEF SaleShape, SaleTypeOK
  <2>3. /\ h \in Till /\ h.step = "items" /\ h.cart = g.cart /\ h.prices = g.prices
        /\ h.regular = g.regular /\ h.named = g.named /\ h.invoice = i /\ h.valid = g.valid
        /\ h.base = g.base /\ h.type = g.type /\ h.value = g.value
        /\ h.commission = g.commission
    BY <1>2 DEF Till
  <2> HIDE DEF h
  <2>4. TillShape(h)
    BY <1>1, <1>2, <2>3 DEF TillShape, Selling, Settling, Invoiced, Priced
  <2>5. Puts(p, h)
    BY <1>1, <2>2, <2>3, <2>4, TillPut
  <2>6. Billing(g) \in InvoiceRow
    <3>1. /\ g.regular \in Nat /\ AtLeast0(g.base) \in Nat /\ g.type \in 0..2 /\ g.value \in Nat
          /\ g.commission \in Int
      BY <1>2 DEF Till, AtLeast0
    <3> DEFINE total == AtLeast0(g.base)
    <3> HIDE DEF total
    <3>2. <<>> \in Seq(ItemRows)
      OBVIOUS
    <3> QED
      BY <3>1, <3>2 DEF Billing, NoInvoice, InvoiceRow, total
  <2>7. invoice' \in [Invoice -> InvoiceRow] /\ given' \in Nat
    <3> HIDE DEF g
    <3> QED
      BY <1>3, <2>1, <2>6
  <2>8. SaleShape'
    BY <1>1, <2>5, <2>7, StillTyped DEF SaleShape, Puts
  <2>9. g.code \in Code \cup {None}
    BY <1>2 DEF Till
  <2> QED
    BY <1>1, <1>5, <2>1, <2>3, <2>5, <2>6, <2>8, <2>9 DEF catalog, h
<1> QED
  BY <1>4, <1>5

\* The rows of the items.
Rows(h) == [k \in DOMAIN h.cart |-> ItemRow(h, k)]

LEMMA RowsFacts ==
  ASSUME NEW h \in Till, TillShape(h), h.step = "items"
  PROVE  /\ Rows(h) \in Seq(ItemRows) /\ Rows(h) # <<>> /\ DOMAIN Rows(h) = DOMAIN h.cart
         /\ Len(Rows(h)) = Len(h.cart)
         /\ \A k \in DOMAIN h.cart :
              /\ h.prices[k] * h.cart[k].qty \in Nat
              /\ Rows(h)[k].locality = h.cart[k].locality
              /\ Rows(h)[k].qty = h.cart[k].qty
              /\ Rows(h)[k].regular = h.prices[k] * h.cart[k].qty
              /\ ~Rows(h)[k].issued
<1>1. /\ h.cart \in Cart /\ DOMAIN h.prices = DOMAIN h.cart /\ h.prices \in Seq(Nat)
      /\ h.value \in Nat
  BY DEF TillShape, Till, Selling
<1>2. /\ h.cart # <<>> /\ DOMAIN h.cart = 1..Len(h.cart) /\ Len(h.cart) \in Nat
      /\ \A k \in DOMAIN h.cart : /\ h.cart[k].locality \in Locality
                                  /\ h.cart[k].qty \in Nat
  BY <1>1, CartFacts
<1>3. ASSUME NEW k \in DOMAIN h.cart
      PROVE  h.prices[k] * h.cart[k].qty \in Nat /\ ItemRow(h, k) \in ItemRows
  <2> DEFINE n == h.prices[k] * h.cart[k].qty
  <2>1. h.prices[k] \in Nat /\ h.cart[k].qty \in Nat
    BY <1>1, <1>2
  <2>2. n \in Nat
    BY <2>1
  <2>3. Percent(n, h.value) \in Nat
    BY <1>1, <2>2, PercentRounds
  <2>4. ItemRow(h, k) = [locality |-> h.cart[k].locality, qty |-> h.cart[k].qty, regular |-> n,
                         paid |-> IF h.type = 0 THEN n ELSE n - Percent(n, h.value),
                         issued |-> FALSE]
    BY DEF ItemRow
  <2> DEFINE m == Percent(n, h.value)
  <2> HIDE DEF n, m
  <2>5. ItemRow(h, k) \in ItemRows
    BY <1>2, <2>1, <2>2, <2>3, <2>4 DEF ItemRows, m
  <2> QED
    BY <2>2, <2>5 DEF n
<1>4. \A k \in DOMAIN h.cart : /\ ItemRow(h, k).locality = h.cart[k].locality
                               /\ ItemRow(h, k).qty = h.cart[k].qty
                               /\ ItemRow(h, k).regular = h.prices[k] * h.cart[k].qty
                               /\ ~ItemRow(h, k).issued
  BY DEF ItemRow
<1>5. DOMAIN Rows(h) = DOMAIN h.cart /\ \A k \in DOMAIN h.cart : Rows(h)[k] = ItemRow(h, k)
  BY DEF Rows
<1>6. Rows(h) \in Seq(ItemRows) /\ Len(Rows(h)) = Len(h.cart)
  <2> DEFINE n == Len(h.cart)
  <2>1. Rows(h) = [k \in 1..n |-> ItemRow(h, k)] /\ n \in Nat
    BY <1>2 DEF Rows
  <2>2. \A k \in 1..n : ItemRow(h, k) \in ItemRows
    BY <1>2, <1>3
  <2> HIDE DEF n
  <2> QED
    BY <2>1, <2>2 DEF n
<1>7. Rows(h) # <<>>
  BY <1>2, <1>6
<1> QED
  BY <1>3, <1>4, <1>5, <1>6, <1>7

LEMMA InsertItemsFacts ==
  ASSUME SaleShape, NEW p \in Request, InsertItems(p)
  PROVE  /\ SaleShape' /\ till[p].step = "items" /\ till[p].invoice \in Invoice
         /\ UNCHANGED <<promoterVars, catalog, given, contended>>
         /\ invoice' = [invoice EXCEPT ![till[p].invoice].items = Rows(till[p])]
         /\ \/ Puts(p, Closed) /\ ~till[p].valid
            \/ Puts(p, [till[p] EXCEPT !.step = "uses"]) /\ till[p].named
<1> DEFINE g == till[p]
<1>1. /\ g.step = "items" /\ event' = event /\ stage' = stage /\ locality' = locality
      /\ discount' = discount /\ rule' = rule /\ contended' = contended /\ given' = given
      /\ invoice' = [invoice EXCEPT ![g.invoice].items = Rows(g)]
      /\ IF g.named /\ g.type # 0 THEN Goto(p, "uses") ELSE Close(p)
      /\ UNCHANGED promoterVars
  BY DEF InsertItems, catalog, SaleOnly, Rows
<1>2. g \in Till /\ TillShape(g) /\ g.invoice \in Invoice
  BY <1>1, TillIs DEF TillShape, Invoiced
<1>3. given \in Nat /\ invoice \in [Invoice -> InvoiceRow]
  BY DEF SaleShape, SaleTypeOK
<1>4. Rows(g) \in Seq(ItemRows)
  BY <1>1, <1>2, RowsFacts
<1>5. invoice' \in [Invoice -> InvoiceRow]
  <2> DEFINE i == g.invoice
             s == Rows(g)
  <2>1. i \in Invoice /\ s \in Seq(ItemRows) /\ invoice' = [invoice EXCEPT ![i].items = s]
    BY <1>1, <1>2, <1>4
  <2> HIDE DEF i, s
  <2> QED
    BY <1>3, <2>1 DEF InvoiceRow
<1>6. \/ Puts(p, Closed) /\ ~g.valid
      \/ Puts(p, [g EXCEPT !.step = "uses"]) /\ g.named
  <2>1. CASE g.named /\ g.type # 0
    BY <1>1, <2>1, GoesOn
  <2>2. CASE ~(g.named /\ g.type # 0)
    <3>1. Puts(p, Closed)
      BY <1>1, <2>2, Closes
    <3> QED
      BY <1>2, <2>2, <3>1 DEF TillShape, Till
  <2> QED
    BY <2>1, <2>2
<1>7. SaleShape'
  BY <1>1, <1>3, <1>5, <1>6, StillTyped DEF SaleShape, Puts
<1> QED
  BY <1>1, <1>2, <1>6, <1>7 DEF catalog

LEMMA IncrementUsesFacts ==
  ASSUME SaleShape, NEW p \in Request, IncrementUses(p)
  PROVE  /\ SaleShape' /\ till[p].step = "uses" /\ Puts(p, Closed)
         /\ UNCHANGED <<promoterVars, event, stage, locality, rule, invoice, given, contended>>
         /\ discount' = IF discount.type = 0 THEN discount
                        ELSE [discount EXCEPT !.uses = @ + 1]
<1>1. /\ till[p].step = "uses" /\ Close(p) /\ rule' = rule
      /\ UNCHANGED <<promoterVars, event, stage, locality, rule, invoice, given, contended>>
      /\ discount' = IF discount.type = 0 THEN discount ELSE [discount EXCEPT !.uses = @ + 1]
  BY DEF IncrementUses, SaleOnly
<1>2. Puts(p, Closed)
  BY <1>1, Closes
<1>3. discount' \in [type: 0..2, value: Nat, max: Nat, min: Nat, active: BOOLEAN, uses: Nat]
  BY <1>1 DEF SaleShape, SaleTypeOK
<1>4. SaleShape'
  BY <1>1, <1>2, <1>3 DEF SaleShape, SaleTypeOK, Puts
<1> QED
  BY <1>1, <1>2, <1>4

LEMMA IssueTyped ==
  ASSUME NEW h \in Till, NEW i \in Invoice
  PROVE  [h EXCEPT !.step = "issue", !.invoice = i] \in Till
BY DEF Till

LEMMA SettleFacts ==
  ASSUME SaleShape, NEW p \in Request, NEW i \in Invoice, Settle(p, i)
  PROVE  /\ SaleShape' /\ till[p].step = "idle" /\ invoice[i].status = "ISSUED"
         /\ \A q \in Request : till[q].invoice # i
         /\ \E h \in Till : /\ Puts(p, h) /\ h.step = "issue" /\ h.invoice = i /\ h.cart = <<>>
                            /\ ~h.named /\ ~h.valid
         /\ invoice' = [invoice EXCEPT ![i].status = "PAID"]
         /\ UNCHANGED <<promoterVars, catalog, given, contended>>
<1> DEFINE h == [Closed EXCEPT !.step = "issue", !.invoice = i]
<1>1. /\ till[p].step = "idle" /\ invoice[i].status = "ISSUED"
      /\ \A q \in Request : till[q].invoice # i
      /\ till' = [till EXCEPT ![p] = h] /\ invoice' = [invoice EXCEPT ![i].status = "PAID"]
      /\ UNCHANGED <<promoterVars, catalog, given, contended>> /\ rule' = rule
      /\ event' = event /\ stage' = stage /\ locality' = locality /\ discount' = discount
      /\ given' = given /\ contended' = contended
  BY DEF Settle, Free, SaleOnly, catalog
<1>2. /\ h \in Till /\ h.step = "issue" /\ h.invoice = i /\ h.cart = <<>>
      /\ ~h.named /\ ~h.valid
  <2>1. h \in Till
    BY ClosedShape, IssueTyped
  <2>2. /\ h.step = "issue" /\ h.invoice = i /\ h.cart = <<>>
        /\ ~h.named /\ ~h.valid
    BY DEF Closed
  <2> QED
    BY <2>1, <2>2
<1> HIDE DEF h
<1>3. TillShape(h)
  BY <1>2 DEF TillShape, Selling, Settling, Invoiced, Priced
<1>4. Puts(p, h)
  BY <1>1, <1>2, <1>3, TillPut
<1>5. given \in Nat /\ invoice' \in [Invoice -> InvoiceRow]
  <2> DEFINE r == [invoice[i] EXCEPT !.status = "PAID"]
  <2>1. given \in Nat /\ invoice \in [Invoice -> InvoiceRow]
    BY DEF SaleShape, SaleTypeOK
  <2>2. r \in InvoiceRow
    BY <2>1 DEF InvoiceRow
  <2>3. invoice' = [invoice EXCEPT ![i] = r]
    BY <1>1
  <2> HIDE DEF r
  <2> QED
    BY <2>1, <2>2, <2>3
<1>6. SaleShape'
  BY <1>1, <1>4, <1>5, StillTyped DEF SaleShape, Puts
<1> QED
  BY <1>1, <1>2, <1>4, <1>6

\* The items t of invoice i are what they were, but issued.
Reissues(i, t) ==
  LET s == invoice[i].items IN
  /\ invoice' = [invoice EXCEPT ![i].items = t]
  /\ DOMAIN t = DOMAIN s /\ Len(t) = Len(s)
  /\ \A k \in DOMAIN s : /\ t[k].issued /\ t[k].locality = s[k].locality
                         /\ t[k].qty = s[k].qty /\ t[k].regular = s[k].regular
                         /\ t[k].paid = s[k].paid

LEMMA IssueItemsFacts ==
  ASSUME SaleShape, NEW p \in Request, IssueItems(p)
  PROVE  LET i == till[p].invoice IN
         /\ SaleShape' /\ till[p].step = "issue" /\ i \in Invoice
         /\ Puts(p, [till[p] EXCEPT !.step = "count"])
         /\ \E t \in Seq(ItemRows) : Reissues(i, t)
         /\ UNCHANGED <<promoterVars, catalog, given, contended>>
<1> DEFINE i == till[p].invoice
           s == invoice[i].items
           t == [k \in DOMAIN s |-> [s[k] EXCEPT !.issued = TRUE]]
<1>1. /\ till[p].step = "issue" /\ Goto(p, "count") /\ rule' = rule
      /\ invoice' = [invoice EXCEPT ![i].items = [k \in DOMAIN @ |-> [@[k] EXCEPT !.issued = TRUE]]]
      /\ UNCHANGED <<promoterVars, catalog, given, contended>>
      /\ event' = event /\ stage' = stage /\ locality' = locality /\ discount' = discount
      /\ given' = given /\ contended' = contended
  BY DEF IssueItems, SaleOnly, catalog
<1>2. i \in Invoice
  BY <1>1, TillIs DEF TillShape, Invoiced, Settling
<1>3. given \in Nat /\ invoice \in [Invoice -> InvoiceRow]
  BY DEF SaleShape, SaleTypeOK
<1>4. s \in Seq(ItemRows)
  BY <1>2, <1>3 DEF InvoiceRow
<1>5. invoice' = [invoice EXCEPT ![i].items = t]
  BY <1>1
<1> HIDE DEF i
<1>6. DOMAIN s = 1..Len(s) /\ Len(s) \in Nat /\ \A k \in DOMAIN s : s[k] \in ItemRows
  BY <1>4, ItemsFacts
<1> HIDE DEF s
<1>7. /\ DOMAIN t = DOMAIN s
      /\ \A k \in DOMAIN s : /\ t[k] \in ItemRows
                             /\ t[k].issued /\ t[k].locality = s[k].locality
                             /\ t[k].qty = s[k].qty /\ t[k].regular = s[k].regular
                             /\ t[k].paid = s[k].paid
  BY <1>6 DEF ItemRows
<1>8. t \in Seq(ItemRows) /\ Len(t) = Len(s)
  <2> DEFINE n == Len(s)
  <2>1. t = [k \in 1..n |-> t[k]] /\ n \in Nat
    BY <1>6, <1>7
  <2>2. \A k \in 1..n : t[k] \in ItemRows
    BY <1>6, <1>7
  <2> HIDE DEF n, t
  <2> QED
    BY <2>1, <2>2 DEF n
<1> HIDE DEF t
<1>9. invoice' \in [Invoice -> InvoiceRow]
  BY <1>2, <1>3, <1>5, <1>8 DEF InvoiceRow
<1>10. Puts(p, [till[p] EXCEPT !.step = "count"])
  BY <1>1, GoesOn
<1>11. SaleShape'
  BY <1>1, <1>3, <1>9, <1>10, StillTyped DEF SaleShape, Puts
<1>12. Reissues(i, t)
  BY <1>5, <1>7, <1>8 DEF Reissues, s
<1> QED
  BY <1>1, <1>2, <1>8, <1>10, <1>11, <1>12 DEF i

LEMMA CountSoldFacts ==
  ASSUME SaleShape, NEW p \in Request, CountSold(p)
  PROVE  /\ SaleShape' /\ till[p].step = "count" /\ till[p].invoice \in Invoice
         /\ Puts(p, [till[p] EXCEPT !.step = "commission"])
         /\ locality' = [l \in Locality |-> [locality[l] EXCEPT
                           !.sold = @ + QtyIn(invoice[till[p].invoice].items, {l})]]
         /\ \A l \in Locality :
              /\ locality[l].sold \in Nat
              /\ QtyIn(invoice[till[p].invoice].items, {l}) \in Nat
              /\ locality'[l].sold = locality[l].sold + QtyIn(invoice[till[p].invoice].items, {l})
              /\ locality'[l].quota = locality[l].quota
         /\ UNCHANGED <<promoterVars, event, stage, discount, rule, invoice, given, contended>>
<1> DEFINE i == till[p].invoice
           q(l) == QtyIn(invoice[i].items, {l})
<1>1. /\ till[p].step = "count" /\ Goto(p, "commission") /\ rule' = rule
      /\ locality' = [l \in Locality |-> [locality[l] EXCEPT !.sold = @ + q(l)]]
      /\ UNCHANGED <<promoterVars, event, stage, discount, rule, invoice, given, contended>>
  BY DEF CountSold, SaleOnly
<1>2. i \in Invoice
  BY <1>1, TillIs DEF TillShape, Invoiced, Settling
<1>3. invoice[i].items \in Seq(ItemRows)
  BY <1>2 DEF SaleShape, SaleTypeOK, InvoiceRow
<1>4. ASSUME NEW l \in Locality PROVE q(l) \in Nat
  BY <1>3, ItemsFacts, QtyNat DEF ItemRows
<1>5. Puts(p, [till[p] EXCEPT !.step = "commission"])
  BY <1>1, GoesOn
<1> HIDE DEF q
<1>6. locality \in [Locality -> [quota: Nat, sold: Nat]]
  BY DEF SaleShape, SaleTypeOK
<1>7. /\ locality' \in [Locality -> [quota: Nat, sold: Nat]]
      /\ \A l \in Locality : /\ locality[l].sold \in Nat
                             /\ locality'[l].sold = locality[l].sold + q(l)
                             /\ locality'[l].quota = locality[l].quota
  BY <1>1, <1>4, <1>6
<1>8. SaleShape'
  BY <1>1, <1>5, <1>7 DEF SaleShape, SaleTypeOK, Puts
<1> QED
  BY <1>1, <1>2, <1>4, <1>5, <1>7, <1>8 DEF q

Editing == {"quota", "sold", "price", "move", "edit", "toggle", "limit"}

\* The organizer opens an edit: nothing of a sale is in his hands.
Edits(h) == /\ h \in Till /\ TillShape(h) /\ h.step \in Editing
            /\ h.cart = <<>> /\ h.invoice = None /\ ~h.named /\ ~h.valid

LEMMA ReadLocalityEdits ==
  ASSUME NEW p \in Request, NEW l \in Locality, NEW step \in {"quota", "sold"}, NEW n \in Nat,
         ReadLocality(p, l, step, n)
  PROVE  /\ till[p].step = "idle" /\ UNCHANGED <<catalog, invoice, given, contended>>
         /\ \E h : Edits(h) /\ till' = [till EXCEPT ![p] = h]
<1> DEFINE h == [Closed EXCEPT !.step = step, !.locality = l, !.n = n]
<1>1. h \in Till
  <2>1. ASSUME NEW g \in Till
        PROVE  [g EXCEPT !.step = step, !.locality = l, !.n = n] \in Till
    BY DEF Till
  <2> QED
    BY <2>1, ClosedShape
<1>2. /\ h.step = step /\ h.cart = <<>> /\ h.invoice = None /\ ~h.named /\ ~h.valid
      /\ h.locality = l
  BY DEF Closed
<1>3. /\ till[p].step = "idle" /\ UNCHANGED <<catalog, invoice, given, contended>>
      /\ till' = [till EXCEPT ![p] = h]
  BY DEF ReadLocality, Free
<1> HIDE DEF h
<1>4. Edits(h)
  BY <1>1, <1>2 DEF Edits, Editing, TillShape, Selling, Settling, Invoiced, Priced
<1> QED
  BY <1>3, <1>4

LEMMA ReadStageEdits ==
  ASSUME NEW p \in Request, NEW s \in Stage, NEW step \in {"price", "move"},
         NEW l \in Locality \cup {None}, step = "move" => l \in Locality,
         NEW n \in Nat,
         ReadStage(p, s, step, l, n)
  PROVE  /\ till[p].step = "idle" /\ UNCHANGED <<catalog, invoice, given, contended>>
         /\ \E h : Edits(h) /\ till' = [till EXCEPT ![p] = h]
<1> DEFINE h == [Closed EXCEPT !.step = step, !.stage = s, !.locality = l, !.n = n]
<1>1. h \in Till
  <2>1. ASSUME NEW g \in Till
        PROVE  [g EXCEPT !.step = step, !.stage = s, !.locality = l, !.n = n] \in Till
    BY DEF Till
  <2> QED
    BY <2>1, ClosedShape
<1>2. /\ h.step = step /\ h.cart = <<>> /\ h.invoice = None /\ ~h.named /\ ~h.valid
      /\ h.stage = s /\ h.locality = l
  BY DEF Closed
<1>3. /\ till[p].step = "idle" /\ UNCHANGED <<catalog, invoice, given, contended>>
      /\ till' = [till EXCEPT ![p] = h]
  BY DEF ReadStage, Free
<1> HIDE DEF h
<1>4. Edits(h)
  BY <1>1, <1>2 DEF Edits, Editing, TillShape, Selling, Settling, Invoiced, Priced
<1> QED
  BY <1>3, <1>4

LEMMA ReadLimitEdits ==
  ASSUME NEW p \in Request, NEW n \in Nat, ReadLimit(p, n)
  PROVE  /\ till[p].step = "idle" /\ UNCHANGED <<catalog, invoice, given, contended>>
         /\ \E h : Edits(h) /\ till' = [till EXCEPT ![p] = h]
<1> DEFINE h == [Closed EXCEPT !.step = "limit", !.n = n]
<1>1. h \in Till
  <2>1. ASSUME NEW g \in Till PROVE [g EXCEPT !.step = "limit", !.n = n] \in Till
    BY DEF Till
  <2> QED
    BY <2>1, ClosedShape
<1>2. h.step = "limit" /\ h.cart = <<>> /\ h.invoice = None /\ ~h.named /\ ~h.valid
  BY DEF Closed
<1>3. /\ till[p].step = "idle" /\ UNCHANGED <<catalog, invoice, given, contended>>
      /\ till' = [till EXCEPT ![p] = h]
  BY DEF ReadLimit, Free
<1> HIDE DEF h
<1>4. Edits(h)
  BY <1>1, <1>2 DEF Edits, Editing, TillShape, Selling, Settling, Invoiced, Priced
<1> QED
  BY <1>3, <1>4

LEMMA ReadDiscountEdits ==
  ASSUME NEW p \in Request, NEW e \in Edit, ReadDiscount(p, e)
  PROVE  /\ till[p].step = "idle" /\ UNCHANGED <<catalog, invoice, given, contended>>
         /\ \E h : Edits(h) /\ till' = [till EXCEPT ![p] = h]
<1> DEFINE h == [Closed EXCEPT !.step = "edit", !.type = e.type, !.value = e.value]
<1>1. h \in Till
  <2>1. e.type \in 0..2 /\ e.value \in Nat
    BY EditAssumption
  <2>2. ASSUME NEW g \in Till
        PROVE  [g EXCEPT !.step = "edit", !.type = e.type, !.value = e.value] \in Till
    BY <2>1 DEF Till
  <2> QED
    BY <2>2, ClosedShape
<1>2. h.step = "edit" /\ h.cart = <<>> /\ h.invoice = None /\ ~h.named /\ ~h.valid
  BY DEF Closed
<1>3. /\ till[p].step = "idle" /\ UNCHANGED <<catalog, invoice, given, contended>>
      /\ till' = [till EXCEPT ![p] = h]
  BY DEF ReadDiscount, Free
<1> HIDE DEF h
<1>4. Edits(h)
  BY <1>1, <1>2 DEF Edits, Editing, TillShape, Selling, Settling, Invoiced, Priced
<1> QED
  BY <1>3, <1>4

LEMMA ReadActiveEdits ==
  ASSUME SaleShape, NEW p \in Request, ReadActive(p)
  PROVE  /\ till[p].step = "idle" /\ UNCHANGED <<catalog, invoice, given, contended>>
         /\ \E h : Edits(h) /\ till' = [till EXCEPT ![p] = h]
<1> DEFINE h == [Closed EXCEPT !.step = "toggle", !.active = discount.active]
<1>1. h \in Till
  <2>1. discount.active \in BOOLEAN
    BY DEF SaleShape, SaleTypeOK
  <2>2. ASSUME NEW g \in Till, NEW a \in BOOLEAN
        PROVE  [g EXCEPT !.step = "toggle", !.active = a] \in Till
    BY DEF Till
  <2> QED
    BY <2>1, <2>2, ClosedShape
<1>2. h.step = "toggle" /\ h.cart = <<>> /\ h.invoice = None /\ ~h.named /\ ~h.valid
  BY DEF Closed
<1>3. /\ till[p].step = "idle" /\ UNCHANGED <<catalog, invoice, given, contended>>
      /\ till' = [till EXCEPT ![p] = h]
  BY DEF ReadActive, Free
<1> HIDE DEF h
<1>4. Edits(h)
  BY <1>1, <1>2 DEF Edits, Editing, TillShape, Selling, Settling, Invoiced, Priced
<1> QED
  BY <1>3, <1>4

LEMMA EditFacts ==
  ASSUME SaleShape, NEW p \in Request, NEW h, Edits(h), till' = [till EXCEPT ![p] = h],
         UNCHANGED <<catalog, invoice, given, contended>>
  PROVE  SaleShape' /\ Puts(p, h)
<1>1. /\ event' = event /\ stage' = stage /\ locality' = locality
      /\ discount' = discount /\ rule' = rule
      /\ invoice' = invoice /\ given' = given /\ contended' = contended
  BY DEF catalog
<1>2. Puts(p, h)
  BY <1>1, TillPut DEF Edits
<1>3. SaleTypeOK'
  BY <1>1, <1>2 DEF SaleShape, SaleTypeOK, Puts
<1> QED
  BY <1>2, <1>3 DEF SaleShape, Puts

\* The organizer writes.
LEMMA WriteLocalityFacts ==
  ASSUME SaleShape, NEW p \in Request, WriteLocality(p)
  PROVE  LET l == till[p].locality
             n == till[p].n
         IN
         /\ SaleShape' /\ till[p].step \in {"quota", "sold"} /\ Puts(p, Closed) /\ l \in Locality
         /\ \A m \in Locality \ {l} : locality'[m] = locality[m]
         /\ till[p].step = "quota" => locality'[l] = [locality[l] EXCEPT !.quota = n]
         /\ contended \subseteq contended'
         /\ till[p].step = "sold" \/ l \in Outstanding \/ SoldIn({l}) > n
              => <<"locality", l>> \in contended'
         /\ contended' \subseteq contended \cup {<<"locality", l>>}
         /\ UNCHANGED <<promoterVars, event, stage, discount, rule, invoice, given>>
<1> DEFINE l == till[p].locality
           n == till[p].n
           quota == till[p].step = "quota"
<1>1. /\ till[p].step \in {"quota", "sold"} /\ Close(p) /\ rule' = rule
      /\ locality' = [locality EXCEPT ![l] = IF quota THEN [locality[l] EXCEPT !.quota = n]
                                             ELSE [locality[l] EXCEPT !.sold = n]]
      /\ contended' = IF till[p].step = "sold" \/ l \in Outstanding \/ SoldIn({l}) > n
                      THEN contended \cup {<<"locality", l>>} ELSE contended
      /\ UNCHANGED <<promoterVars, event, stage, discount, rule, invoice, given>>
  <2>1. till[p].locality \in Locality /\ locality \in [Locality -> [quota: Nat, sold: Nat]]
    BY TillIs DEF WriteLocality, TillShape, SaleShape, SaleTypeOK
  <2> QED
    BY <2>1 DEF WriteLocality, SaleOnly
<1>2. l \in Locality /\ n \in Nat
  BY <1>1, TillIs DEF TillShape, Till
<1>3. Puts(p, Closed)
  BY <1>1, Closes
<1> HIDE DEF l, n, quota
<1>4. locality \in [Locality -> [quota: Nat, sold: Nat]] /\ contended \subseteq Key
  BY DEF SaleShape, SaleTypeOK
<1>5. /\ locality' \in [Locality -> [quota: Nat, sold: Nat]]
      /\ \A m \in Locality \ {l} : locality'[m] = locality[m]
      /\ quota => locality'[l] = [locality[l] EXCEPT !.quota = n]
  BY <1>1, <1>2, <1>4
<1>6. /\ contended \subseteq contended'
      /\ till[p].step = "sold" \/ l \in Outstanding \/ SoldIn({l}) > n
           => <<"locality", l>> \in contended'
      /\ contended' \subseteq contended \cup {<<"locality", l>>}
  BY <1>1
<1>7. contended' \subseteq Key
  BY <1>2, <1>4, <1>6 DEF Key
<1>8. SaleShape'
  BY <1>1, <1>3, <1>5, <1>7 DEF SaleShape, SaleTypeOK, Puts
<1> QED
  BY <1>1, <1>2, <1>3, <1>5, <1>6, <1>8 DEF l, n, quota

LEMMA WriteStageFacts ==
  ASSUME SaleShape, NEW p \in Request, WriteStage(p)
  PROVE  /\ SaleShape' /\ till[p].step \in {"price", "move"} /\ Puts(p, Closed)
         /\ UNCHANGED <<promoterVars, event, locality, discount, rule, invoice, given, contended>>
<1> DEFINE s == till[p].stage
           l == till[p].locality
           n == till[p].n
           row == IF till[p].step = "price" THEN [stage[s] EXCEPT !.price = n]
                                            ELSE [stage[s] EXCEPT !.locality = l]
<1>1. stage \in [Stage -> [locality: Locality, price: Nat]]
  BY DEF SaleShape, SaleTypeOK
<1>2. /\ till[p].step \in {"price", "move"} /\ Close(p) /\ rule' = rule
      /\ UNCHANGED <<promoterVars, event, locality, discount, rule, invoice, given, contended>>
  BY DEF WriteStage, SaleOnly
<1>3. s \in Stage /\ n \in Nat /\ (till[p].step = "move" => l \in Locality)
  BY <1>2, TillIs DEF TillShape, Till
<1>4. stage' = [stage EXCEPT ![s] = row]
  BY <1>1, <1>3 DEF WriteStage
<1>5. Puts(p, Closed)
  BY <1>2, Closes
<1>6. row \in [locality: Locality, price: Nat]
  BY <1>1, <1>2, <1>3
<1> HIDE DEF s, row
<1>7. stage' \in [Stage -> [locality: Locality, price: Nat]]
  BY <1>1, <1>3, <1>4, <1>6
<1>8. SaleShape'
  BY <1>2, <1>5, <1>7 DEF SaleShape, SaleTypeOK, Puts
<1> QED
  BY <1>2, <1>5, <1>8

LEMMA WriteLimitFacts ==
  ASSUME SaleShape, NEW p \in Request, WriteLimit(p)
  PROVE  /\ SaleShape' /\ till[p].step = "limit" /\ Puts(p, Closed)
         /\ contended' = contended \cup {<<"code", None>>}
         /\ UNCHANGED <<promoterVars, event, stage, locality, rule, invoice, given>>
<1> DEFINE n == till[p].n
<1>1. /\ till[p].step = "limit" /\ Close(p) /\ rule' = rule
      /\ contended' = contended \cup {<<"code", None>>}
      /\ UNCHANGED <<promoterVars, event, stage, locality, rule, invoice, given>>
      /\ \/ discount' = discount
         \/ discount' = [discount EXCEPT !.max = n]
         \/ discount' = [discount EXCEPT !.uses = n]
  BY DEF WriteLimit, SaleOnly
<1>2. n \in Nat
  BY TillIs DEF Till
<1>3. Puts(p, Closed)
  BY <1>1, Closes
<1> HIDE DEF n
<1>4. discount' \in [type: 0..2, value: Nat, max: Nat, min: Nat, active: BOOLEAN, uses: Nat]
  BY <1>1, <1>2 DEF SaleShape, SaleTypeOK
<1>5. contended' \subseteq Key
  BY <1>1 DEF SaleShape, SaleTypeOK, Key
<1>6. SaleShape'
  BY <1>1, <1>3, <1>4, <1>5 DEF SaleShape, SaleTypeOK, Puts
<1> QED
  BY <1>1, <1>3, <1>6

\* An edit leaves the limit of a code and its uses alone.
LEMMA WriteDiscountFacts ==
  ASSUME SaleShape, NEW p \in Request, WriteDiscount(p)
  PROVE  /\ SaleShape' /\ till[p].step \in {"edit", "toggle"} /\ Puts(p, Closed)
         /\ discount.type = 0 => discount' = discount
         /\ discount.type # 0 => discount'.type # 0 /\ discount'.max = discount.max
                                 /\ discount'.uses = discount.uses
         /\ UNCHANGED <<promoterVars, event, stage, locality, rule, invoice, given, contended>>
<1> DEFINE h == till[p]
           type == IF h.type = 0 THEN discount.type ELSE h.type
           value == IF h.value = 0 THEN discount.value ELSE h.value
           active == ~h.active
<1>1. /\ h.step \in {"edit", "toggle"} /\ Close(p) /\ rule' = rule
      /\ discount' = IF discount.type = 0 THEN discount
                     ELSE IF h.step = "toggle" THEN [discount EXCEPT !.active = active]
                     ELSE [discount EXCEPT !.type = type, !.value = value]
      /\ UNCHANGED <<promoterVars, event, stage, locality, rule, invoice, given, contended>>
  BY DEF WriteDiscount, SaleOnly
<1>2. h.type \in 0..2 /\ h.value \in Nat /\ active \in BOOLEAN
  BY TillIs DEF Till
<1>3. Puts(p, Closed)
  BY <1>1, Closes
<1>4. discount \in [type: 0..2, value: Nat, max: Nat, min: Nat, active: BOOLEAN, uses: Nat]
  BY DEF SaleShape, SaleTypeOK
<1>5. /\ type \in 0..2 /\ value \in Nat /\ (discount.type # 0 => type # 0)
  BY <1>2, <1>4
<1> HIDE DEF h, type, value, active
<1>6. /\ discount' \in [type: 0..2, value: Nat, max: Nat, min: Nat, active: BOOLEAN, uses: Nat]
      /\ discount.type # 0 => discount'.type # 0 /\ discount'.max = discount.max
                              /\ discount'.uses = discount.uses
  BY <1>1, <1>2, <1>4, <1>5
<1>7. SaleShape'
  BY <1>1, <1>3, <1>6 DEF SaleShape, SaleTypeOK, Puts
<1> QED
  BY <1>1, <1>3, <1>6, <1>7 DEF h

LEMMA CreateDiscountFacts ==
  ASSUME SaleShape, NEW o \in Offer, CreateDiscount(o)
  PROVE  /\ SaleShape' /\ discount.type = 0
         /\ discount'.type # 0 /\ discount'.uses = 0 /\ discount'.max \in Nat /\ given' = 0
         /\ contended \subseteq contended'
         /\ NameInUse => <<"code", None>> \in contended'
         /\ contended' \subseteq contended \cup {<<"code", None>>}
         /\ UNCHANGED <<event, stage, locality, rule, invoice, till>>
<1>1. /\ discount.type = 0 /\ discount' = Created(o) /\ given' = 0
      /\ contended' = IF NameInUse THEN contended \cup {<<"code", None>>} ELSE contended
      /\ UNCHANGED <<event, stage, locality, rule, invoice, till>>
  BY DEF CreateDiscount
<1>2. o.type \in {1, 2} /\ o.value \in Nat /\ o.max \in Nat /\ o.min \in Nat
  BY OfferAssumption
<1>3. /\ discount' \in [type: 0..2, value: Nat, max: Nat, min: Nat, active: BOOLEAN, uses: Nat]
      /\ discount'.type # 0 /\ discount'.uses = 0 /\ discount'.max \in Nat
  BY <1>1, <1>2 DEF Created
<1>4. contended' \subseteq Key
  BY <1>1 DEF SaleShape, SaleTypeOK, Key
<1>5. SaleTypeOK'
  BY <1>1, <1>3, <1>4 DEF SaleShape, SaleTypeOK
<1>6. TillsInShape'
  BY <1>1 DEF SaleShape, TillsInShape, TillShape
<1> QED
  BY <1>1, <1>3, <1>5, <1>6 DEF SaleShape

LEMMA DeleteDiscountFacts ==
  ASSUME SaleShape, DeleteDiscount
  PROVE  /\ SaleShape' /\ discount' = NoDiscount
         /\ UNCHANGED <<event, stage, locality, rule, invoice, till, given, contended>>
<1>1. /\ discount' = NoDiscount
      /\ UNCHANGED <<event, stage, locality, rule, invoice, till, given, contended>>
  BY DEF DeleteDiscount
<1>2. SaleTypeOK'
  BY <1>1 DEF SaleShape, SaleTypeOK, NoDiscount
<1>3. TillsInShape'
  BY <1>1 DEF SaleShape, TillsInShape, TillShape
<1> QED
  BY <1>1, <1>2, <1>3 DEF SaleShape

LEMMA AdvanceFacts ==
  ASSUME SaleShape, Advance
  PROVE  /\ SaleShape' /\ event'.max = event.max
         /\ UNCHANGED <<promoterVars, stage, locality, discount, rule, invoice, till, given,
                        contended>>
<1>1. /\ event' = [event EXCEPT !.status = IF @ = "SCHEDULED" THEN "ACTIVE" ELSE "FINALIZED"]
      /\ UNCHANGED <<promoterVars, stage, locality, discount, rule, invoice, till, given,
                     contended>>
  BY DEF Advance, SaleOnly
<1>2. event' \in [status: EventStatus, max: Nat] /\ event'.max = event.max
  BY <1>1 DEF SaleShape, SaleTypeOK, EventStatus
<1>3. SaleTypeOK'
  BY <1>1, <1>2 DEF SaleShape, SaleTypeOK
<1>4. TillsInShape'
  BY <1>1 DEF SaleShape, TillsInShape, TillShape
<1> QED
  BY <1>1, <1>2, <1>3, <1>4 DEF SaleShape

LEMMA UpdateEventFacts ==
  ASSUME SaleShape, NEW row \in [status: EventStatus, max: Limit], UpdateEvent(row)
  PROVE  /\ SaleShape'
         /\ contended \subseteq contended'
         /\ event'.max # event.max /\ (Outstanding # {} \/ SoldIn(Locality) > event'.max)
              => <<"event", None>> \in contended'
         /\ contended' \subseteq contended \cup {<<"event", None>>}
         /\ UNCHANGED <<stage, locality, discount, rule, invoice, till, given>>
<1>1. /\ event' = row
      /\ contended' = IF row.max # event.max
                            /\ (Outstanding # {} \/ SoldIn(Locality) > row.max)
                      THEN contended \cup {<<"event", None>>} ELSE contended
      /\ UNCHANGED <<stage, locality, discount, rule, invoice, till, given>>
  BY DEF UpdateEvent
<1>2. event' \in [status: EventStatus, max: Nat]
  BY <1>1, NumbersAssumption
<1>3. contended' \subseteq Key
  BY <1>1 DEF SaleShape, SaleTypeOK, Key
<1>4. SaleTypeOK'
  BY <1>1, <1>2, <1>3 DEF SaleShape, SaleTypeOK
<1>5. TillsInShape'
  BY <1>1 DEF SaleShape, TillsInShape, TillShape
<1> QED
  BY <1>1, <1>4, <1>5 DEF SaleShape

\* A failure leaves its traces: the code of the request, and the invoice and the localities
\* of a settlement that was cut.
LEMMA FailSaleFacts ==
  ASSUME SaleShape, NEW p \in Request, FailSale(p)
  PROVE  LET h == till[p] IN
         /\ SaleShape' /\ Puts(p, Closed) /\ faults' = faults + 1 /\ faults < MaxFaults
         /\ contended \subseteq contended'
         /\ h.named => <<"code", None>> \in contended'
         /\ h.step \in Settling =>
              /\ <<"invoice", h.invoice>> \in contended'
              /\ \A l \in LocalitiesOf(invoice[h.invoice].items) :
                   <<"locality", l>> \in contended'
         /\ UNCHANGED <<promoterVars, catalog, invoice, given, requests>>
<1> DEFINE h == till[p]
           touched == {"locality"} \X LocalitiesOf(invoice[h.invoice].items)
<1>1. /\ faults' = faults + 1 /\ faults < MaxFaults /\ Close(p)
      /\ contended' = contended
           \cup (IF h.named THEN {<<"code", None>>} ELSE {})
           \cup (IF h.step \in {"issue", "count", "commission"}
                 THEN {<<"invoice", h.invoice>>} \cup touched ELSE {})
      /\ UNCHANGED <<promoterVars, catalog, invoice, given, requests>>
      /\ event' = event /\ stage' = stage /\ locality' = locality
      /\ discount' = discount /\ rule' = rule
      /\ invoice' = invoice /\ given' = given
  BY DEF FailSale, catalog
<1>2. Puts(p, Closed)
  BY <1>1, Closes
<1>3. h.step \in Settling => h.invoice \in Invoice /\ touched \subseteq {"locality"} \X Locality
  <2> SUFFICES ASSUME h.step \in Settling
               PROVE  h.invoice \in Invoice /\ touched \subseteq {"locality"} \X Locality
    OBVIOUS
  <2>1. h.invoice \in Invoice
    BY TillIs DEF TillShape, Invoiced
  <2> DEFINE s == invoice[h.invoice].items
  <2>2. s \in Seq(ItemRows)
    BY <2>1 DEF SaleShape, SaleTypeOK, InvoiceRow
  <2> HIDE DEF s
  <2>3. LocalitiesOf(s) \subseteq Locality
    BY <2>2, ItemsFacts DEF LocalitiesOf, ItemRows
  <2> QED
    BY <2>1, <2>3 DEF s
<1> HIDE DEF touched
<1>4. contended' \subseteq Key
  <2>1. contended \subseteq Key /\ <<"code", None>> \in Key
    BY DEF SaleShape, SaleTypeOK, Key
  <2>2. h.step \in Settling => {<<"invoice", h.invoice>>} \cup touched \subseteq Key
    BY <1>3 DEF Key
  <2> QED
    BY <1>1, <2>1, <2>2 DEF Settling
<1>5. SaleTypeOK'
  BY <1>1, <1>2, <1>4 DEF SaleShape, SaleTypeOK, Puts
<1>6. h.step \in Settling => /\ <<"invoice", h.invoice>> \in contended'
                             /\ touched \subseteq contended'
  BY <1>1 DEF Settling
<1> QED
  BY <1>1, <1>2, <1>5, <1>6 DEF SaleShape, Puts, touched

----------------------------------------------------------------------------
(***************************************************************************)
(* The programme and the sale together.                                    *)
(***************************************************************************)
Standing == DeskInv /\ SaleShape /\ NamedExist

\* The desk, when a sale goes on: no balance that is there changes.
LEMMA DeskRests ==
  ASSUME DeskInv, UNCHANGED <<people, code, payouts, desk, crossed>>,
         promoterCode' \in [Invoice -> Code \cup {None}],
         faults' \in 0..MaxFaults, requests' \in 0..MaxRequests,
         balance' \in Balances, \A b \in Balance : BalanceRow(balance'[b]),
         \A b \in Balance : balance[b].status # "none" => balance'[b] = balance[b],
         PaidOutOnce'
  PROVE  DeskInv'
<1>1. /\ role' = role /\ application' = application /\ appointed' = appointed
      /\ code' = code /\ payouts' = payouts
      /\ desk' = desk /\ crossed' = crossed
  BY DEF people
<1>2. PromoterTypeOK'
  BY <1>1 DEF DeskInv, PromoterTypeOK, Balances
<1>3. ClerksInShape'
  BY <1>1 DEF DeskInv, ClerksInShape
<1>4. RowsInShape'
  BY <1>1 DEF DeskInv, RowsInShape, BalanceRow
<1>5. Isolation'
  BY <1>1 DEF DeskInv, Isolation, Alone
<1>6. ASSUME NEW q \in Request PROVE ClerkKnows(desk[q])'
  <2>1. desk'[q] = desk[q] /\ (\A row : Alone(row)' <=> Alone(row)) /\ ClerkKnows(desk[q])
    BY <1>1 DEF Alone, DeskInv, ClerksKnow
  <2>2. KnowsUser(desk[q])'
    BY <1>1, <2>1 DEF ClerkKnows, KnowsUser, ApplicationsOf
  <2>3. KnowsApplication(desk[q])'
    BY <1>1, <2>1 DEF ClerkKnows, KnowsApplication
  <2>4. KnowsOwner(desk[q])'
    BY <1>1, <2>1 DEF ClerkKnows, KnowsOwner, CodesOf
  <2>5. KnowsBalance(desk[q])'
    BY <1>1, <2>1 DEF ClerkKnows, KnowsBalance
  <2> QED
    BY <2>2, <2>3, <2>4, <2>5 DEF ClerkKnows
<1>7. ClerksKnow'
  BY <1>6 DEF ClerksKnow
<1>8. RoleIsEarned' /\ OneAtATime'
  <2>1. RoleIsEarned /\ OneAtATime
    BY DEF DeskInv
  <2>2. RoleIsEarned'
    BY <1>1, <2>1 DEF RoleIsEarned, ApplicationsOf
  <2>3. OneAtATime'
    BY <1>1, <2>1 DEF OneAtATime, ApplicationsOf, CodesOf
  <2> QED
    BY <2>2, <2>3
<1> QED
  BY <1>2, <1>3, <1>4, <1>5, <1>7, <1>8 DEF DeskInv

\* The programme is as it was.
LEMMA Rests ==
  ASSUME Standing, SaleShape', UNCHANGED promoterVars, faults' \in 0..MaxFaults,
         requests' \in 0..MaxRequests
  PROVE  Standing' /\ KeepsPromises
<1>1. /\ UNCHANGED <<people, code, payouts, desk, crossed>>
      /\ promoterCode' = promoterCode /\ balance' = balance
      /\ code' = code /\ payouts' = payouts /\ crossed' = crossed
  BY DEF promoterVars, money
<1>2. /\ balance \in Balances /\ \A b \in Balance : BalanceRow(balance[b])
      /\ promoterCode \in [Invoice -> Code \cup {None}]
  BY BalanceTypes DEF Standing, DeskInv, PromoterTypeOK
<1>3. PaidOutOnce'
  BY <1>1 DEF Standing, DeskInv, PaidOutOnce
<1>4. DeskInv'
  BY <1>1, <1>2, <1>3, DeskRests DEF Standing
<1>5. NamedExist'
  BY <1>1 DEF Standing, NamedExist, Exists
<1> QED
  BY <1>1, <1>4, <1>5, NothingWritten DEF Standing

LEMMA CountsTyped ==
  ASSUME Standing
  PROVE  /\ faults \in 0..MaxFaults /\ requests \in 0..MaxRequests
         /\ faults < MaxFaults => faults + 1 \in 0..MaxFaults
         /\ requests < MaxRequests => requests + 1 \in 0..MaxRequests
BY PromoterBoundsAssumption DEF Standing, DeskInv, PromoterTypeOK

\* What a buyer or an organizer asks for.
LEMMA AskTillFacts ==
  ASSUME Standing, AskTill
  PROVE  /\ Standing' /\ KeepsPromises /\ UNCHANGED promoterVars
         /\ \/ \E p \in Request, cart \in Cart, named \in BOOLEAN, c \in Code \cup {None} :
                 ReadCart(p, cart, named, c)
            \/ \E p \in Request, h \in Till :
                 /\ till[p].step = "idle" /\ Edits(h) /\ Puts(p, h)
                 /\ UNCHANGED <<catalog, invoice, given, contended>>
            \/ \E o \in Offer : CreateDiscount(o)
            \/ DeleteDiscount
            \/ \E row \in [status: EventStatus, max: Limit] : UpdateEvent(row)
<1>1. UNCHANGED promoterVars /\ faults' \in 0..MaxFaults /\ requests' \in 0..MaxRequests
  BY CountsTyped DEF AskTill, Asked
<1>2. SaleShape
  BY DEF Standing
<1> SUFFICES
      /\ SaleShape'
      /\ \/ \E p \in Request, cart \in Cart, named \in BOOLEAN, c \in Code \cup {None} :
              ReadCart(p, cart, named, c)
         \/ \E p \in Request, h \in Till :
              /\ till[p].step = "idle" /\ Edits(h) /\ Puts(p, h)
              /\ UNCHANGED <<catalog, invoice, given, contended>>
         \/ \E o \in Offer : CreateDiscount(o)
         \/ DeleteDiscount
         \/ \E row \in [status: EventStatus, max: Limit] : UpdateEvent(row)
  BY <1>1, Rests
<1>3. ASSUME NEW p \in Request, NEW cart \in Cart, NEW named \in BOOLEAN,
             NEW c \in Code \cup {None}, ReadCart(p, cart, named, c)
      PROVE  SaleShape'
  <2>1. Quote(p, cart, named, c)
    BY <1>3 DEF ReadCart
  <2> QED
    BY <1>2, <2>1, QuoteFacts
<1>4. ASSUME NEW p \in Request, till[p].step = "idle",
             UNCHANGED <<catalog, invoice, given, contended>>,
             \E h : Edits(h) /\ till' = [till EXCEPT ![p] = h]
      PROVE  SaleShape' /\ \E h \in Till : Edits(h) /\ Puts(p, h)
  <2>1. PICK h : Edits(h) /\ till' = [till EXCEPT ![p] = h]
    BY <1>4
  <2>2. SaleShape' /\ Puts(p, h)
    BY <1>2, <1>4, <2>1, EditFacts
  <2> QED
    BY <2>1, <2>2 DEF Edits
<1> DEFINE opens(p) == \E h \in Till : /\ till[p].step = "idle" /\ Edits(h) /\ Puts(p, h)
                                      /\ UNCHANGED <<catalog, invoice, given, contended>>
<1>5. ASSUME NEW p \in Request, NEW l \in Locality, NEW step \in {"quota", "sold"},
             NEW n \in Quota, ReadLocality(p, l, step, n)
      PROVE  SaleShape' /\ opens(p)
  <2>1. n \in Nat
    BY NumbersAssumption
  <2> QED
    BY <1>4, <1>5, <2>1, ReadLocalityEdits
<1>6. ASSUME NEW p \in Request, NEW s \in Stage, NEW n \in Price,
             ReadStage(p, s, "price", None, n)
      PROVE  SaleShape' /\ opens(p)
  <2>1. n \in Nat
    BY NumbersAssumption
  <2> QED
    BY <1>4, <1>6, <2>1, ReadStageEdits
<1>7. ASSUME NEW p \in Request, NEW s \in Stage, NEW l \in Locality,
             ReadStage(p, s, "move", l, 0)
      PROVE  SaleShape' /\ opens(p)
  BY <1>4, <1>7, ReadStageEdits
<1>8. ASSUME NEW p \in Request, NEW e \in Edit, ReadDiscount(p, e)
      PROVE  SaleShape' /\ opens(p)
  BY <1>4, <1>8, ReadDiscountEdits
<1>9. ASSUME NEW p \in Request, NEW o \in Offer, ReadLimit(p, o.max)
      PROVE  SaleShape' /\ opens(p)
  <2>1. o.max \in Nat
    BY OfferAssumption
  <2> QED
    BY <1>4, <1>9, <2>1, ReadLimitEdits
<1>10. ASSUME NEW p \in Request, ReadActive(p)
       PROVE  SaleShape' /\ opens(p)
  BY <1>2, <1>4, <1>10, ReadActiveEdits
<1>11. ASSUME NEW o \in Offer, CreateDiscount(o) PROVE SaleShape'
  BY <1>2, <1>11, CreateDiscountFacts
<1>12. DeleteDiscount => SaleShape'
  BY <1>2, DeleteDiscountFacts
<1>13. ASSUME NEW row \in [status: EventStatus, max: Limit], UpdateEvent(row) PROVE SaleShape'
  BY <1>2, <1>13, UpdateEventFacts
<1>14. \/ \E p \in Request, cart \in Cart, named \in BOOLEAN, c \in Code \cup {None} :
            ReadCart(p, cart, named, c)
       \/ \E p \in Request, l \in Locality, step \in {"quota", "sold"}, n \in Quota :
            ReadLocality(p, l, step, n)
       \/ \E p \in Request, s \in Stage, n \in Price : ReadStage(p, s, "price", None, n)
       \/ \E p \in Request, s \in Stage, l \in Locality : ReadStage(p, s, "move", l, 0)
       \/ \E p \in Request, e \in Edit : ReadDiscount(p, e)
       \/ \E p \in Request, o \in Offer : ReadLimit(p, o.max)
       \/ \E p \in Request : ReadActive(p)
       \/ \E o \in Offer : CreateDiscount(o)
       \/ DeleteDiscount
       \/ \E row \in [status: EventStatus, max: Limit] : UpdateEvent(row)
  BY DEF AskTill
<1>15. (\E p \in Request : SaleShape' /\ opens(p)) =>
         SaleShape' /\ \E p \in Request, h \in Till :
                         /\ till[p].step = "idle" /\ Edits(h) /\ Puts(p, h)
                         /\ UNCHANGED <<catalog, invoice, given, contended>>
  OBVIOUS
<1> HIDE DEF opens
<1> QED
  BY <1>3, <1>5, <1>6, <1>7, <1>8, <1>9, <1>10, <1>11, <1>12, <1>13, <1>14, <1>15

\* An invoice names a code that was there when it was inserted.
LEMMA InsertInvoiceStands ==
  ASSUME Standing, NEW p \in Request, InsertInvoice(p)
  PROVE  Standing'
<1>1. /\ SaleShape'
      /\ UNCHANGED <<people, code, money, desk, crossed, faults, requests, catalog, contended>>
      /\ \/ promoterCode' = promoterCode
         \/ \E i \in Invoice, c \in Code \cup {None} :
              /\ promoterCode' = [promoterCode EXCEPT ![i] = c]
              /\ c # None => Exists(c)
  BY InsertInvoiceFacts DEF Standing
<1>2. /\ UNCHANGED <<people, code, payouts, desk, crossed>> /\ balance' = balance
      /\ code' = code /\ payouts' = payouts /\ crossed' = crossed
  BY <1>1 DEF money
<1>3. /\ balance \in Balances /\ \A b \in Balance : BalanceRow(balance[b])
      /\ promoterCode \in [Invoice -> Code \cup {None}]
  BY BalanceTypes DEF Standing, DeskInv, PromoterTypeOK
<1>4. PaidOutOnce'
  BY <1>2 DEF Standing, DeskInv, PaidOutOnce
<1>5. promoterCode' \in [Invoice -> Code \cup {None}]
  BY <1>1, <1>3
<1>6. DeskInv'
  BY <1>1, <1>2, <1>3, <1>4, <1>5, CountsTyped, DeskRests DEF Standing
<1>7. ASSUME NEW i \in Invoice, promoterCode'[i] # None
      PROVE  code[promoterCode'[i]].owner # None
  BY <1>1, <1>3, <1>7 DEF Standing, NamedExist, Exists
<1>8. NamedExist'
  BY <1>2, <1>7 DEF NamedExist, Exists
<1> QED
  BY <1>1, <1>6, <1>8 DEF Standing

\* The promoter's balance is of the code's owner, and of what the invoice says.
Owed(i) == [status |-> "PENDING", owner |-> code[promoterCode[i]].owner,
            amount |-> invoice[i].commission, invoice |-> i]

LEMMA RecordCommissionFacts ==
  ASSUME Standing, NEW p \in Request, RecordCommission(p)
  PROVE  LET i == till[p].invoice IN
         /\ Standing' /\ till[p].step = "commission" /\ i \in Invoice /\ Puts(p, Closed)
         /\ UNCHANGED <<code, promoterCode, catalog, invoice, given, contended>>
         /\ IF promoterCode[i] = None \/ invoice[i].commission = 0 THEN balance' = balance
            ELSE Owed(i) \in NewBalances /\ \E b \in Balance : Inserts(b, Owed(i))
<1> DEFINE i == till[p].invoice
           none == promoterCode[i] = None \/ invoice[i].commission = 0
<1>1. /\ till[p].step = "commission" /\ Close(p)
      /\ IF none THEN balance' = balance
         ELSE \E b \in Balance :
                balance[b] = NoBalance /\ balance' = [balance EXCEPT ![b] = Owed(i)]
      /\ UNCHANGED <<people, code, promoterCode, payouts, desk, crossed, faults, requests,
                     catalog, invoice, given, contended>>
  BY DEF RecordCommission, Owed
<1>2. /\ event' = event /\ stage' = stage /\ locality' = locality
      /\ discount' = discount /\ rule' = rule
      /\ invoice' = invoice /\ given' = given /\ contended' = contended
      /\ promoterCode' = promoterCode /\ code' = code /\ payouts' = payouts
      /\ crossed' = crossed /\ faults' = faults /\ requests' = requests
      /\ UNCHANGED <<people, code, payouts, desk, crossed>>
  BY <1>1 DEF catalog
<1>3. SaleShape /\ DeskInv /\ NamedExist
  BY DEF Standing
<1>4. i \in Invoice
  BY <1>1, <1>3, TillIs DEF TillShape, Invoiced, Settling
<1>5. Puts(p, Closed)
  BY <1>1, <1>2, <1>3, Closes
<1>6. SaleShape'
  BY <1>2, <1>3, <1>5 DEF SaleShape, SaleTypeOK, Puts
<1>7. NamedExist'
  BY <1>2, <1>3 DEF NamedExist, Exists
<1>8. /\ balance \in Balances /\ \A b \in Balance : BalanceRow(balance[b])
      /\ promoterCode \in [Invoice -> Code \cup {None}]
      /\ code \in Codes
  BY <1>3, BalanceTypes DEF DeskInv, PromoterTypeOK, Codes
<1>9. invoice[i].commission \in Int
  BY <1>3, <1>4 DEF SaleShape, SaleTypeOK, InvoiceRow
<1>10. CASE none
  <2>1. balance' = balance
    BY <1>1, <1>10
  <2>2. PaidOutOnce'
    BY <1>2, <1>3, <2>1 DEF DeskInv, PaidOutOnce
  <2>3. DeskInv'
    BY <1>2, <1>3, <1>8, <2>1, <2>2, CountsTyped, DeskRests
  <2> QED
    BY <1>1, <1>3, <1>4, <1>5, <1>6, <1>7, <1>10, <2>1, <2>3 DEF Standing
<1>11. CASE ~none
  <2>1. PICK b \in Balance : balance[b] = NoBalance /\ balance' = [balance EXCEPT ![b] = Owed(i)]
    BY <1>1, <1>11
  <2>2. promoterCode[i] \in Code /\ code[promoterCode[i]].owner # None
    BY <1>3, <1>4, <1>8, <1>11 DEF NamedExist, Exists
  <2>3. code[promoterCode[i]].owner \in Promoter
    BY <1>8, <2>2 DEF Codes
  <2> HIDE DEF i
  <2>4. Owed(i) \in NewBalances
    BY <1>4, <1>9, <2>3 DEF Owed, NewBalances
  <2>5. Inserts(b, Owed(i))
    BY <1>2, <2>1 DEF Inserts
  <2>6. /\ balance' \in Balances /\ \A x \in Balance : BalanceRow(balance'[x])
        /\ balance[b].status = "none" /\ \A x \in Balance \ {b} : balance'[x] = balance[x]
        /\ PaidOutOnce'
    BY <1>2, <1>3, <2>4, <2>5, InsertsFacts
  <2>7. \A x \in Balance : balance[x].status # "none" => balance'[x] = balance[x]
    BY <2>6
  <2>8. DeskInv'
    BY <1>2, <1>3, <1>8, <2>6, <2>7, CountsTyped, DeskRests
  <2> QED
    BY <1>1, <1>3, <1>4, <1>5, <1>6, <1>7, <1>11, <2>4, <2>5, <2>8 DEF Standing, i
<1> QED
  BY <1>10, <1>11

\* The desk goes on, and the sale waits.
LEMMA DeskStepStands ==
  ASSUME Standing, PromoterNext, UNCHANGED saleVars
  PROVE  /\ Standing' /\ KeepsPromises
         /\ UNCHANGED <<event, stage, locality, discount, rule, invoice, till, given, contended>>
<1>1. UNCHANGED <<event, stage, locality, discount, rule, invoice, till, given, contended>>
  BY DEF saleVars, catalog
<1>2. DeskInv' /\ KeepsPromises
  BY DeskStepInv DEF Standing
<1>3. SaleShape'
  BY <1>1 DEF Standing, SaleShape, SaleTypeOK, TillsInShape, TillShape
<1>4. NamedExist'
  BY <1>2 DEF Standing, NamedExist, Exists, KeepsPromises
<1> QED
  BY <1>1, <1>2, <1>3, <1>4 DEF Standing

\* A step of a sale that leaves the programme as it is.
LEMMA SaleOnlyStands ==
  ASSUME Standing, SaleShape', UNCHANGED promoterVars, faults' = faults, requests' = requests
  PROVE  Standing' /\ KeepsPromises
BY CountsTyped, Rests

LEMMA SaleStepStands ==
  ASSUME Standing, NEW p \in Request, SaleStep(p)
  PROVE  Standing'
<1>1. SaleShape
  BY DEF Standing
<1>2. CASE ReadDiscounts(p)
  BY <1>1, <1>2, ReadDiscountsFacts, SaleOnlyStands DEF ReadDiscounts, SaleOnly
<1>3. CASE InsertInvoice(p)
  BY <1>3, InsertInvoiceStands
<1>4. CASE InsertItems(p)
  BY <1>1, <1>4, InsertItemsFacts, SaleOnlyStands DEF InsertItems, SaleOnly
<1>5. CASE IncrementUses(p)
  BY <1>1, <1>5, IncrementUsesFacts, SaleOnlyStands DEF IncrementUses, SaleOnly
<1>6. ASSUME NEW i \in Invoice, Settle(p, i) PROVE Standing'
  BY <1>1, <1>6, SettleFacts, SaleOnlyStands DEF Settle, SaleOnly
<1>7. CASE IssueItems(p)
  BY <1>1, <1>7, IssueItemsFacts, SaleOnlyStands DEF IssueItems, SaleOnly
<1>8. CASE CountSold(p)
  BY <1>1, <1>8, CountSoldFacts, SaleOnlyStands DEF CountSold, SaleOnly
<1>9. CASE RecordCommission(p)
  BY <1>9, RecordCommissionFacts
<1>10. CASE WriteLocality(p)
  BY <1>1, <1>10, WriteLocalityFacts, SaleOnlyStands DEF WriteLocality, SaleOnly
<1>11. CASE WriteStage(p)
  BY <1>1, <1>11, WriteStageFacts, SaleOnlyStands DEF WriteStage, SaleOnly
<1>12. CASE WriteDiscount(p)
  BY <1>1, <1>12, WriteDiscountFacts, SaleOnlyStands DEF WriteDiscount, SaleOnly
<1>13. CASE WriteLimit(p)
  BY <1>1, <1>13, WriteLimitFacts, SaleOnlyStands DEF WriteLimit, SaleOnly
<1> QED
  BY <1>2, <1>3, <1>4, <1>5, <1>6, <1>7, <1>8, <1>9, <1>10, <1>11, <1>12, <1>13 DEF SaleStep

LEMMA StandingStep ==
  ASSUME Standing, [Next]_vars
  PROVE  Standing'
<1>1. CASE AskTill
  BY <1>1, AskTillFacts
<1>2. ASSUME NEW p \in Request, SaleStep(p) PROVE Standing'
  BY <1>2, SaleStepStands
<1>3. ASSUME NEW p \in Request, FailSale(p) PROVE Standing'
  <2>1. /\ SaleShape' /\ UNCHANGED promoterVars /\ faults' = faults + 1 /\ faults < MaxFaults
        /\ requests' = requests
    BY <1>3, FailSaleFacts DEF Standing
  <2> QED
    BY <2>1, CountsTyped, Rests
<1>4. CASE Advance
  BY <1>4, AdvanceFacts, SaleOnlyStands DEF Advance, SaleOnly, Standing
<1>5. CASE PromoterNext /\ UNCHANGED saleVars
  BY <1>5, DeskStepStands
<1>6. CASE UNCHANGED vars
  <2>1. /\ UNCHANGED <<event, stage, locality, discount, rule, invoice, till, given, contended>>
        /\ UNCHANGED promoterVars /\ faults' = faults /\ requests' = requests
    BY <1>6 DEF vars, saleVars, catalog
  <2>2. SaleShape'
    BY <2>1 DEF Standing, SaleShape, SaleTypeOK, TillsInShape, TillShape
  <2> QED
    BY <2>1, <2>2, SaleOnlyStands
<1> QED
  BY <1>1, <1>2, <1>3, <1>4, <1>5, <1>6 DEF Next

LEMMA StandingInit == Init => Standing
<1> SUFFICES ASSUME Init PROVE Standing
  OBVIOUS
<1>1. /\ PromoterInit /\ faults = 0 /\ requests = 0
      /\ event \in [status: {"SCHEDULED"}, max: Limit]
      /\ stage \in [Stage -> [locality: Locality, price: Price]]
      /\ locality \in [Locality -> [quota: Quota, sold: {0}]]
      /\ discount \in {Created(o) : o \in Offer} /\ rule \in Rule
      /\ invoice = [i \in Invoice |-> NoInvoice] /\ till = [p \in Request |-> Closed]
      /\ given = 0 /\ contended = {}
  BY DEF Init
<1>2. DeskInv
  BY <1>1, DeskInit
<1>3. SaleTypeOK
  <2>1. locality \in [Locality -> [quota: Nat, sold: Nat]]
    <3>1. Quota \subseteq Nat /\ {0} \subseteq Nat
      BY NumbersAssumption
    <3>2. [quota: Quota, sold: {0}] \subseteq [quota: Nat, sold: Nat]
      BY <3>1
    <3> QED
      BY <1>1, <3>2
  <2>2. discount \in [type: 0..2, value: Nat, max: Nat, min: Nat, active: BOOLEAN, uses: Nat]
    <3>1. PICK o \in Offer : discount = Created(o)
      BY <1>1
    <3>2. o.type \in 0..2 /\ o.value \in Nat /\ o.max \in Nat /\ o.min \in Nat
      BY OfferAssumption
    <3> QED
      BY <3>1, <3>2 DEF Created
  <2>3. NoInvoice \in InvoiceRow
    <3>1. <<>> \in Seq(ItemRows)
      OBVIOUS
    <3> QED
      BY <3>1 DEF NoInvoice, InvoiceRow
  <2>4. till \in [Request -> Till]
    BY <1>1, ClosedShape
  <2>5. event \in [status: EventStatus, max: Nat]
    BY <1>1, NumbersAssumption DEF EventStatus
  <2>6. stage \in [Stage -> [locality: Locality, price: Nat]]
    <3>1. [locality: Locality, price: Price] \subseteq [locality: Locality, price: Nat]
      BY NumbersAssumption
    <3> QED
      BY <1>1, <3>1
  <2> QED
    BY <1>1, <2>1, <2>2, <2>3, <2>4, <2>5, <2>6 DEF SaleTypeOK
<1>4. TillsInShape
  BY <1>1, ClosedShape DEF TillsInShape
<1>5. NamedExist
  BY <1>1 DEF PromoterInit, NamedExist
<1> QED
  BY <1>2, <1>3, <1>4, <1>5 DEF Standing, SaleShape

\* Every variable has its type, whatever the desk, the buyers and the organizer do.
THEOREM TypeCorrect == Spec => []TypeOK
<1>1. Standing => TypeOK
  BY TypeSplits DEF Standing, DeskInv, SaleShape
<1> QED
  BY <1>1, StandingInit, StandingStep, PTL DEF Spec

\* A role is the outcome of a review, and applications and codes do not pile up, for
\* whoever asks for one thing at a time (ProgrammeHolds, of promoter_request.service.ts and
\* promoter_code.service.ts).
THEOREM ProgrammeCorrect == Spec => []ProgrammeHolds
<1>1. Standing => ProgrammeHolds
  BY DEF Standing, DeskInv, ProgrammeHolds
<1> QED
  BY <1>1, StandingInit, StandingStep, PTL DEF Spec

\* A balance no two requests met on is reported as paid once, and is PAID then and only
\* then (PaidOutOnce, of eventbalancepromoters.service.ts).
THEOREM PaidOutCorrect == Spec => []PaidOutOnce
<1>1. Standing => PaidOutOnce
  BY DEF Standing, DeskInv
<1> QED
  BY <1>1, StandingInit, StandingStep, PTL DEF Spec

----------------------------------------------------------------------------
(***************************************************************************)
(* Invoices: one till works on an invoice, and what it relies on is there. *)
(***************************************************************************)
NoneIssued(items) == \A k \in DOMAIN items : ~items[k].issued
AllIssued(items) == \A k \in DOMAIN items : items[k].issued

\* Till h works on an invoice with row r.
Works(h, r) ==
  /\ h.step = "items" => /\ r.status = "ISSUED" /\ r.items = <<>> /\ r.regular = h.regular
                         /\ r.type = h.type /\ r.value = h.value
  /\ h.step = "uses" => r.status = "ISSUED"
  /\ h.step = "issue" => r.status = "PAID" /\ NoneIssued(r.items)
  /\ h.step \in {"count", "commission"} => r.status = "PAID" /\ AllIssued(r.items)

TillsHold ==
  \A p \in Request : till[p].step \in Invoiced => Works(till[p], invoice[till[p].invoice])

OneTill ==
  \A p, q \in Request : till[p].invoice \in Invoice /\ till[p].invoice = till[q].invoice => p = q

\* The items make up the regular price, and each is paid as the discount says.
ItemsAdd(r) ==
  r.items # <<>> =>
    /\ r.regular = SumFunction([k \in DOMAIN r.items |-> r.items[k].regular])
    /\ \A k \in DOMAIN r.items :
         r.items[k].paid = IF r.type = 0 THEN r.items[k].regular
                           ELSE r.items[k].regular - Percent(r.items[k].regular, r.value)

RowHolds(r) ==
  /\ r.status = "ISSUED" => NoneIssued(r.items)
  /\ r.total = AtLeast0(AfterDiscount(r.regular, r.type, r.value))
  /\ CommissionWithin(rule, r.regular, r.type, r.value, r.commission)
  /\ ItemsAdd(r)

RowsHold == \A i \in Invoice : RowHolds(invoice[i])

\* The balance of a sale is the last thing it inserts.
BalancesOf(i) == {b \in Balance : balance[b].invoice = i}
NotPaidOutYet ==
  /\ \A i \in Invoice : invoice[i].status # "PAID" => BalancesOf(i) = {}
  /\ \A p \in Request : till[p].step \in Settling => BalancesOf(till[p].invoice) = {}

\* The promoter's balance of an invoice, as CommissionIsKept states it.
Settled(i) == /\ invoice[i].status = "PAID" /\ <<"invoice", i>> \notin contended
              /\ \A p \in Request : till[p].invoice # i
Kept(i) ==
  LET B == {b \in Balance : balance[b].invoice = i} IN
  IF promoterCode[i] = None \/ invoice[i].commission = 0 THEN B = {}
  ELSE /\ B # {} /\ AtMostOne(B)
       /\ \A b \in B : /\ balance[b].amount = invoice[i].commission
                       /\ balance[b].owner = code[promoterCode[i]].owner
                       /\ balance[b].owner # None

LEMMA KeptIs == CommissionIsKept <=> \A i \in Invoice : Settled(i) => Kept(i)
BY DEF CommissionIsKept, Settled, Kept

Booked ==
  /\ Standing
  /\ OneTill
  /\ TillsHold
  /\ RowsHold
  /\ NotPaidOutYet
  /\ \A i \in Invoice : Settled(i) => Kept(i)

\* A till goes on with its invoice, or lets go of it; of a settlement only when it fails.
Follows(h, g) ==
  \/ g = h
  \/ /\ g.step \notin Invoiced /\ g.invoice = None
     /\ h.step \in Settling => <<"invoice", h.invoice>> \in contended'
  \/ /\ h.step = "count" /\ g.step = "commission" /\ g.invoice = h.invoice

\* A step that writes no invoice and no commission.
Quiet ==
  /\ KeepsPromises /\ invoice' = invoice /\ rule' = rule /\ contended \subseteq contended'
  /\ \A q \in Request : Follows(till[q], till'[q])

LEMMA InvoicedTill ==
  ASSUME SaleShape, NEW p \in Request
  PROVE  /\ till[p].step \in Invoiced => till[p].invoice \in Invoice
         /\ till[p].step \notin Invoiced => till[p].invoice = None
BY TillIs DEF TillShape

\* What a promoter was promised is kept by a step that keeps promises.
LEMMA KeptStays ==
  ASSUME Standing, KeepsPromises, NEW i \in Invoice, invoice'[i].commission = invoice[i].commission
  PROVE  /\ BalancesOf(i)' = BalancesOf(i)
         /\ Kept(i) => Kept(i)'
<1>1. \A b \in Balance : balance'[b].invoice = balance[b].invoice
  BY DEF KeepsPromises
<1>2. BalancesOf(i)' = BalancesOf(i)
  BY <1>1 DEF BalancesOf
<1>3. i # None
  BY NoneIsNone
<1>4. \A b \in Balance : balance[b].invoice = i =>
        balance'[b].amount = balance[b].amount /\ balance'[b].owner = balance[b].owner
  BY <1>3 DEF KeepsPromises
<1>5. /\ promoterCode'[i] = promoterCode[i]
      /\ promoterCode[i] # None =>
           code'[promoterCode[i]].owner = code[promoterCode[i]].owner
  BY DEF KeepsPromises
<1>6. Kept(i) => Kept(i)'
  BY <1>1, <1>4, <1>5, ZenonT(40) DEF Kept
<1> QED
  BY <1>2, <1>6

LEMMA QuietStep ==
  ASSUME Booked, Standing', Quiet
  PROVE  Booked'
<1>1. /\ Standing /\ OneTill /\ TillsHold /\ RowsHold /\ NotPaidOutYet /\ SaleShape
      /\ \A i \in Invoice : Settled(i) => Kept(i)
  BY DEF Booked, Standing
<1>2. /\ KeepsPromises /\ invoice' = invoice /\ rule' = rule /\ contended \subseteq contended'
      /\ \A q \in Request : Follows(till[q], till'[q])
  BY DEF Quiet
<1>3. None \notin Invoice
  BY NoneIsNone
<1>4. ASSUME NEW q \in Request, till'[q].step \in Invoiced
      PROVE  /\ till'[q].invoice = till[q].invoice /\ till[q].step \in Invoiced
             /\ till'[q].step \in Settling => till[q].step \in Settling
             /\ Works(till'[q], invoice'[till'[q].invoice])
  <2>1. CASE till'[q] = till[q]
    BY <1>1, <1>2, <1>4, <2>1 DEF TillsHold
  <2>2. CASE till[q].step = "count" /\ till'[q].step = "commission"
              /\ till'[q].invoice = till[q].invoice
    BY <1>1, <1>2, <1>4, <2>2 DEF TillsHold, Works, Invoiced, Settling
  <2> QED
    BY <1>2, <1>4, <2>1, <2>2 DEF Follows
<1>5. \A q \in Request : till'[q].invoice \in Invoice => till'[q].invoice = till[q].invoice
  BY <1>2, <1>3 DEF Follows
<1>6. OneTill'
  BY <1>1, <1>5 DEF OneTill
<1>7. TillsHold'
  BY <1>4 DEF TillsHold
<1>8. RowsHold'
  BY <1>1, <1>2 DEF RowsHold, RowHolds
<1>9. \A i \in Invoice : /\ BalancesOf(i)' = BalancesOf(i)
                         /\ Kept(i) => Kept(i)'
  BY <1>1, <1>2, KeptStays
<1>10. NotPaidOutYet'
  <2>1. \A i \in Invoice : invoice'[i].status # "PAID" => BalancesOf(i)' = {}
    BY <1>1, <1>2, <1>9 DEF NotPaidOutYet
  <2>2. ASSUME NEW q \in Request, till'[q].step \in Settling
        PROVE  BalancesOf(till[q].invoice)' = {}
    <3>1. till'[q].invoice = till[q].invoice /\ till[q].step \in Settling
      BY <1>4, <2>2 DEF Invoiced
    <3>2. till[q].invoice \in Invoice /\ BalancesOf(till[q].invoice) = {}
      BY <1>1, <3>1, InvoicedTill DEF NotPaidOutYet, Invoiced
    <3>3. \A b \in Balance : balance'[b].invoice = balance[b].invoice
      BY <1>2 DEF KeepsPromises
    <3> QED
      BY <3>1, <3>2, <3>3 DEF BalancesOf
  <2> QED
    BY <2>1, <2>2 DEF NotPaidOutYet
<1>11. ASSUME NEW i \in Invoice, Settled(i)' PROVE Kept(i)'
  <2>1. invoice[i].status = "PAID" /\ <<"invoice", i>> \notin contended
    BY <1>2, <1>11 DEF Settled
  <2>2. ASSUME NEW q \in Request, till[q].invoice = i PROVE FALSE
    <3>1. till'[q].invoice # i
      BY <1>11 DEF Settled
    <3>2. till[q].step \in Settling => <<"invoice", i>> \in contended'
      BY <1>2, <2>2, <3>1 DEF Follows
    <3>3. till[q].step \notin Settling
      BY <1>11, <3>2 DEF Settled
    <3>4. till[q].step \in Invoiced
      BY <1>1, <1>3, <2>2, InvoicedTill
    <3>5. till[q].step \in {"items", "uses"}
      BY <3>3, <3>4 DEF Invoiced
    <3>6. Works(till[q], invoice[i])
      BY <1>1, <2>2, <3>4 DEF TillsHold
    <3> QED
      BY <2>1, <3>5, <3>6 DEF Works
  <2>3. Settled(i)
    BY <2>1, <2>2 DEF Settled
  <2> QED
    BY <1>1, <1>9, <2>3
<1> QED
  BY <1>6, <1>7, <1>8, <1>10, <1>11 DEF Booked

\* Till p writes row r of invoice i, that no other till works on, and goes on as h.
Writes(p, i, r, h) ==
  /\ Puts(p, h) /\ h.invoice \in {i, None} /\ till[p].invoice \in {i, None}
  /\ \A q \in Request \ {p} : till[q].invoice # i
  /\ invoice' = [invoice EXCEPT ![i] = r]
  /\ h.step \in Invoiced => h.invoice = i /\ Works(h, r)
  /\ RowHolds(r)
  /\ h.step \in Settling \/ r.status # "PAID" => BalancesOf(i) = {}
  /\ h.invoice = i \/ r.status # "PAID"
  /\ rule' = rule /\ contended' = contended /\ balance' = balance /\ code' = code
  /\ \A j \in Invoice \ {i} : promoterCode'[j] = promoterCode[j]

LEMMA WriteStep ==
  ASSUME Booked, Standing', NEW p \in Request, NEW i \in Invoice, NEW r, NEW h \in Till,
         Writes(p, i, r, h)
  PROVE  Booked'
<1>1. /\ Standing /\ OneTill /\ TillsHold /\ RowsHold /\ NotPaidOutYet /\ SaleShape
      /\ \A j \in Invoice : Settled(j) => Kept(j)
  BY DEF Booked, Standing
<1>2. /\ till'[p] = h /\ \A q \in Request \ {p} : till'[q] = till[q]
      /\ h.invoice \in {i, None} /\ till[p].invoice \in {i, None}
      /\ \A q \in Request \ {p} : till[q].invoice # i
      /\ invoice' = [invoice EXCEPT ![i] = r]
      /\ h.step \in Invoiced => h.invoice = i /\ Works(h, r)
      /\ RowHolds(r)
      /\ h.step \in Settling \/ r.status # "PAID" => BalancesOf(i) = {}
      /\ h.invoice = i \/ r.status # "PAID"
      /\ rule' = rule /\ contended' = contended /\ balance' = balance /\ code' = code
      /\ \A j \in Invoice \ {i} : promoterCode'[j] = promoterCode[j]
  BY DEF Writes, Puts
<1>3. invoice'[i] = r /\ \A j \in Invoice \ {i} : invoice'[j] = invoice[j]
  BY <1>1, <1>2 DEF SaleShape, SaleTypeOK
<1>4. None \notin Invoice
  BY NoneIsNone
<1>5. OneTill'
  BY <1>1, <1>2, <1>4 DEF OneTill
<1>6. TillsHold'
  <2> SUFFICES ASSUME NEW q \in Request, till'[q].step \in Invoiced
               PROVE  Works(till'[q], invoice'[till'[q].invoice])
    BY DEF TillsHold
  <2>1. CASE q = p
    BY <1>2, <1>3, <2>1
  <2>2. CASE q # p
    <3>1. till'[q] = till[q] /\ till[q].invoice # i /\ till[q].invoice \in Invoice
      BY <1>1, <1>2, <2>2, InvoicedTill
    <3> QED
      BY <1>1, <1>3, <3>1 DEF TillsHold
  <2> QED
    BY <2>1, <2>2
<1>7. RowsHold'
  <2>1. \A j \in Invoice : RowHolds(invoice'[j])
    BY <1>1, <1>2, <1>3 DEF RowsHold
  <2> QED
    BY <1>2, <2>1 DEF RowsHold, RowHolds
<1>8. \A j : BalancesOf(j)' = BalancesOf(j)
  BY <1>2 DEF BalancesOf
<1>9. NotPaidOutYet'
  <2>1. ASSUME NEW j \in Invoice, invoice'[j].status # "PAID" PROVE BalancesOf(j)' = {}
    BY <1>1, <1>2, <1>3, <1>8, <2>1 DEF NotPaidOutYet
  <2>2. ASSUME NEW q \in Request, till'[q].step \in Settling
        PROVE  BalancesOf(till'[q].invoice) = {}
    <3>1. CASE q = p
      BY <1>2, <2>2, <3>1 DEF Invoiced
    <3>2. CASE q # p
      BY <1>1, <1>2, <2>2, <3>2 DEF NotPaidOutYet
    <3> QED
      BY <3>1, <3>2
  <2> QED
    BY <1>2, <2>1, <2>2 DEF NotPaidOutYet, BalancesOf
<1>10. ASSUME NEW j \in Invoice, Settled(j)' PROVE Kept(j)'
  <2>1. j # i
    BY <1>2, <1>3, <1>10 DEF Settled
  <2>2. Settled(j)
    BY <1>2, <1>3, <1>4, <1>10, <2>1 DEF Settled
  <2>3. Kept(j)
    BY <1>1, <2>2
  <2> QED
    BY <1>2, <1>3, <2>1, <2>3 DEF Kept
<1> QED
  BY <1>5, <1>6, <1>7, <1>9, <1>10 DEF Booked

\* The last step of a settlement: the promoter's balance is there.
LEMMA RecordStep ==
  ASSUME Booked, Standing', NEW p \in Request, RecordCommission(p)
  PROVE  Booked'
<1>0. PICK i \in Invoice : i = till[p].invoice
  BY RecordCommissionFacts DEF Booked
<1> DEFINE none == promoterCode[i] = None \/ invoice[i].commission = 0
<1>1. /\ Standing /\ OneTill /\ TillsHold /\ RowsHold /\ NotPaidOutYet /\ SaleShape
      /\ \A j \in Invoice : Settled(j) => Kept(j)
  BY DEF Booked, Standing
<1>2. /\ till[p].step = "commission" /\ till[p].invoice = i /\ Puts(p, Closed)
      /\ code' = code /\ promoterCode' = promoterCode /\ invoice' = invoice
      /\ contended' = contended /\ rule' = rule /\ crossed' = crossed
      /\ IF none THEN balance' = balance
         ELSE Owed(i) \in NewBalances /\ \E b \in Balance : Inserts(b, Owed(i))
  BY <1>0, <1>1, RecordCommissionFacts DEF catalog, RecordCommission
<1>3. /\ till'[p] = Closed /\ Closed.invoice = None /\ Closed.step = "idle"
      /\ \A q \in Request \ {p} : till'[q] = till[q]
  BY <1>2, ClosedShape DEF Puts
<1>4. None \notin Invoice
  BY NoneIsNone
<1>5. OneTill'
  BY <1>1, <1>3, <1>4 DEF OneTill
<1>6. TillsHold'
  BY <1>1, <1>2, <1>3 DEF TillsHold, Invoiced, Settling
<1>7. RowsHold'
  BY <1>1, <1>2 DEF RowsHold, RowHolds
<1>8. BalancesOf(i) = {} /\ invoice[i].status = "PAID"
  BY <1>1, <1>2 DEF NotPaidOutYet, TillsHold, Works, Invoiced, Settling
<1>9. /\ \A j \in Invoice \ {i} : \A b \in Balance : balance'[b].invoice = j =>
           balance[b].invoice = j /\ balance'[b] = balance[b]
      /\ \A b \in Balance : balance[b].invoice \in Invoice => balance'[b] = balance[b]
      /\ Kept(i)'
  <2>1. CASE none
    <3>1. balance' = balance
      BY <1>2, <2>1
    <3>2. Kept(i)'
      BY <1>2, <1>8, <2>1, <3>1 DEF Kept, BalancesOf
    <3> QED
      BY <3>1, <3>2
  <2>2. CASE ~none
    <3>1. PICK b \in Balance : Inserts(b, Owed(i)) /\ Owed(i) \in NewBalances
      BY <1>2, <2>2
    <3>2. /\ balance'[b] = Owed(i)
          /\ \A x \in Balance \ {b} : balance'[x] = balance[x]
      BY <1>1, <1>2, <3>1, InsertsFacts DEF Standing
    <3>3. balance[b].invoice = None
      BY <3>1 DEF Inserts, NoBalance
    <3>4. /\ Owed(i).invoice = i /\ Owed(i).amount = invoice[i].commission
          /\ Owed(i).owner = code[promoterCode[i]].owner
      BY DEF Owed
    <3>5. Owed(i).owner # None
      BY <3>1, NoneIsNone DEF NewBalances
    <3>6. \A x \in Balance : balance'[x].invoice = i <=> x = b
      BY <1>2, <1>8, <3>2, <3>4 DEF BalancesOf
    <3> HIDE DEF none
    <3>7. Kept(i)'
      BY <1>2, <2>2, <3>2, <3>4, <3>5, <3>6 DEF Kept, AtMostOne, none
    <3>8. \A j \in Invoice \ {i} : \A x \in Balance : balance'[x].invoice = j =>
             balance[x].invoice = j /\ balance'[x] = balance[x]
      BY <3>2, <3>6
    <3>9. \A x \in Balance : balance[x].invoice \in Invoice => balance'[x] = balance[x]
      BY <1>4, <3>2, <3>3
    <3> QED
      BY <3>7, <3>8, <3>9
  <2> QED
    BY <2>1, <2>2
<1>10. \A j \in Invoice \ {i} : \A x \in Balance :
         balance'[x].invoice = j <=> balance[x].invoice = j
  BY <1>9
<1>11. NotPaidOutYet'
  <2>1. ASSUME NEW j \in Invoice, j # i, BalancesOf(j) = {} PROVE BalancesOf(j)' = {}
    BY <1>10, <2>1 DEF BalancesOf
  <2>2. \A j \in Invoice : invoice'[j].status # "PAID" => BalancesOf(j)' = {}
    BY <1>1, <1>2, <1>8, <2>1 DEF NotPaidOutYet
  <2>3. ASSUME NEW q \in Request, till'[q].step \in Settling
        PROVE  BalancesOf(till[q].invoice)' = {}
    <3>1. q # p /\ till'[q] = till[q]
      BY <1>3, <2>3 DEF Settling
    <3>2. till[q].invoice \in Invoice /\ till[q].invoice # i
      BY <1>1, <1>2, <2>3, <3>1, InvoicedTill DEF OneTill, Invoiced
    <3>3. \A x \in Balance : balance[x].invoice # till[q].invoice
      BY <1>1, <2>3, <3>1 DEF NotPaidOutYet, BalancesOf
    <3> QED
      BY <1>10, <3>1, <3>2, <3>3 DEF BalancesOf
  <2> QED
    BY <2>2, <2>3 DEF NotPaidOutYet
<1>12. ASSUME NEW j \in Invoice, Settled(j)' PROVE Kept(j)'
  <2>1. CASE j = i
    BY <1>9, <2>1
  <2>2. CASE j # i
    <3>1. Settled(j)
      BY <1>2, <1>3, <1>12, <2>2 DEF Settled
    <3>2. Kept(j)
      BY <1>1, <3>1
    <3>3. \A x \in Balance : balance[x].invoice = j => balance'[x] = balance[x]
      BY <1>9
    <3>4. \A x \in Balance : balance'[x].invoice = j <=> balance[x].invoice = j
      BY <1>10, <2>2
    <3> QED
      BY <1>2, <3>2, <3>3, <3>4, ZenonT(40) DEF Kept
  <2> QED
    BY <2>1, <2>2
<1> QED
  BY <1>5, <1>6, <1>7, <1>11, <1>12 DEF Booked

LEMMA QuietPut ==
  ASSUME KeepsPromises, invoice' = invoice, rule' = rule, contended \subseteq contended',
         NEW p \in Request, NEW h, Puts(p, h), Follows(till[p], h)
  PROVE  Quiet
<1>1. till'[p] = h /\ \A q \in Request \ {p} : till'[q] = till[q]
  BY DEF Puts
<1>2. \A q \in Request : Follows(till[q], till'[q])
  <2> SUFFICES ASSUME NEW q \in Request PROVE Follows(till[q], till'[q])
    OBVIOUS
  <2>1. CASE q = p
    BY <1>1, <2>1
  <2>2. CASE q # p
    BY <1>1, <2>2 DEF Follows
  <2> QED
    BY <2>1, <2>2
<1> QED
  BY <1>2 DEF Quiet

LEMMA QuietTills ==
  ASSUME KeepsPromises, invoice' = invoice, rule' = rule, contended \subseteq contended',
         till' = till
  PROVE  Quiet
BY DEF Quiet, Follows

\* A till closes: whatever it did, if it was no settlement.
LEMMA QuietClose ==
  ASSUME KeepsPromises, invoice' = invoice, rule' = rule, contended \subseteq contended',
         NEW p \in Request, Puts(p, Closed),
         till[p].step \in Settling => <<"invoice", till[p].invoice>> \in contended'
  PROVE  Quiet
<1>1. Closed.step \notin Invoiced /\ Closed.invoice = None
  BY ClosedShape DEF Invoiced, Settling
<1>2. Follows(till[p], Closed)
  BY <1>1 DEF Follows
<1> QED
  BY <1>2, QuietPut

LEMMA AskTillQuiet ==
  ASSUME Standing, AskTill
  PROVE  Quiet
<1>1. KeepsPromises /\ SaleShape
  BY AskTillFacts DEF Standing
<1>2. ASSUME NEW p \in Request, NEW cart \in Cart, NEW named \in BOOLEAN,
             NEW c \in Code \cup {None}, ReadCart(p, cart, named, c)
      PROVE  Quiet
  <2>1. Quote(p, cart, named, c)
    BY <1>2 DEF ReadCart
  <2>2. /\ invoice' = invoice /\ rule' = rule /\ contended \subseteq contended'
        /\ till[p].step = "idle"
    BY <2>1 DEF Quote, catalog, Free
  <2>3. PICK h \in Till : Puts(p, h) /\ h.step = "quote" /\ h.invoice = None
    BY <1>1, <2>1, QuoteFacts
  <2>4. Follows(till[p], h)
    BY <2>2, <2>3 DEF Follows, Invoiced, Settling
  <2> QED
    BY <1>1, <2>2, <2>3, <2>4, QuietPut
<1>3. ASSUME NEW p \in Request, NEW h \in Till, till[p].step = "idle", Edits(h), Puts(p, h),
             UNCHANGED <<catalog, invoice, given, contended>>
      PROVE  Quiet
  <2>1. Follows(till[p], h)
    BY <1>3 DEF Edits, Editing, Follows, Invoiced, Settling
  <2> QED
    BY <1>1, <1>3, <2>1, QuietPut DEF catalog
<1>4. ASSUME NEW o \in Offer, CreateDiscount(o) PROVE Quiet
  BY <1>1, <1>4, CreateDiscountFacts, QuietTills
<1>5. DeleteDiscount => Quiet
  BY <1>1, DeleteDiscountFacts, QuietTills
<1>6. ASSUME NEW row \in [status: EventStatus, max: Limit], UpdateEvent(row) PROVE Quiet
  BY <1>1, <1>6, UpdateEventFacts, QuietTills
<1> QED
  BY <1>2, <1>3, <1>4, <1>5, <1>6, AskTillFacts

\* The steps of a sale that write no invoice.
LEMMA SaleStepQuiet ==
  ASSUME Standing, NEW p \in Request,
         \/ ReadDiscounts(p) \/ IncrementUses(p) \/ CountSold(p)
         \/ WriteLocality(p) \/ WriteStage(p) \/ WriteDiscount(p) \/ WriteLimit(p)
  PROVE  Quiet
<1>1. SaleShape
  BY DEF Standing
<1>2. CASE ReadDiscounts(p)
  <2>1. /\ SaleShape' /\ till[p].step = "quote" /\ UNCHANGED promoterVars
        /\ invoice' = invoice /\ rule' = rule /\ contended' = contended
        /\ Puts(p, Closed) \/ \E h \in Till : Puts(p, h) /\ h.step = "insert"
    BY <1>1, <1>2, ReadDiscountsFacts DEF catalog
  <2>2. KeepsPromises
    BY <1>2, <2>1, SaleOnlyStands DEF ReadDiscounts, SaleOnly
  <2>3. CASE Puts(p, Closed)
    BY <2>1, <2>2, <2>3, QuietClose DEF Settling
  <2>4. ASSUME NEW h \in Till, Puts(p, h), h.step = "insert" PROVE Quiet
    <3>1. TillShape(till'[p]) /\ till'[p] = h
      <4>1. TillShape(till[p])' /\ till'[p] = h
        BY <2>4 DEF Puts, TillsInShape
      <4> QED
        BY <2>1, <4>1 DEF TillShape
    <3>2. h.invoice = None
      BY <2>4, <3>1 DEF TillShape, Invoiced, Settling
    <3>3. Follows(till[p], h)
      BY <2>1, <2>4, <3>2 DEF Follows, Invoiced, Settling
    <3> QED
      BY <2>1, <2>2, <2>4, <3>3, QuietPut
  <2> QED
    BY <2>1, <2>3, <2>4
<1>3. CASE IncrementUses(p)
  <2>1. /\ SaleShape' /\ till[p].step = "uses" /\ Puts(p, Closed) /\ UNCHANGED promoterVars
        /\ invoice' = invoice /\ rule' = rule /\ contended' = contended
    BY <1>1, <1>3, IncrementUsesFacts
  <2>2. KeepsPromises
    BY <1>3, <2>1, SaleOnlyStands DEF IncrementUses, SaleOnly
  <2> QED
    BY <2>1, <2>2, QuietClose DEF Settling
<1>4. CASE CountSold(p)
  <2> DEFINE h == [till[p] EXCEPT !.step = "commission"]
  <2>1. /\ SaleShape' /\ till[p].step = "count" /\ Puts(p, h) /\ UNCHANGED promoterVars
        /\ invoice' = invoice /\ rule' = rule /\ contended' = contended
    BY <1>1, <1>4, CountSoldFacts
  <2>2. KeepsPromises
    BY <1>4, <2>1, SaleOnlyStands DEF CountSold, SaleOnly
  <2>3. h.step = "commission" /\ h.invoice = till[p].invoice
    BY <1>1, TillIs DEF Till
  <2> HIDE DEF h
  <2>4. Follows(till[p], h)
    BY <2>1, <2>3 DEF Follows
  <2> QED
    BY <2>1, <2>2, <2>4, QuietPut
<1>5. CASE WriteLocality(p)
  <2>1. /\ SaleShape' /\ till[p].step \in {"quota", "sold"} /\ Puts(p, Closed)
        /\ UNCHANGED promoterVars
        /\ invoice' = invoice /\ rule' = rule /\ contended \subseteq contended'
    BY <1>1, <1>5, WriteLocalityFacts
  <2>2. KeepsPromises
    BY <1>5, <2>1, SaleOnlyStands DEF WriteLocality, SaleOnly
  <2> QED
    BY <2>1, <2>2, QuietClose DEF Settling
<1>6. CASE WriteStage(p)
  <2>1. /\ SaleShape' /\ till[p].step \in {"price", "move"} /\ Puts(p, Closed)
        /\ UNCHANGED promoterVars
        /\ invoice' = invoice /\ rule' = rule /\ contended' = contended
    BY <1>1, <1>6, WriteStageFacts
  <2>2. KeepsPromises
    BY <1>6, <2>1, SaleOnlyStands DEF WriteStage, SaleOnly
  <2> QED
    BY <2>1, <2>2, QuietClose DEF Settling
<1>7. CASE WriteDiscount(p)
  <2>1. /\ SaleShape' /\ till[p].step \in {"edit", "toggle"} /\ Puts(p, Closed)
        /\ UNCHANGED promoterVars /\ invoice' = invoice /\ rule' = rule
        /\ contended' = contended
    BY <1>1, <1>7, WriteDiscountFacts
  <2>2. KeepsPromises
    BY <1>7, <2>1, SaleOnlyStands DEF WriteDiscount, SaleOnly
  <2> QED
    BY <2>1, <2>2, QuietClose DEF Settling
<1>8. CASE WriteLimit(p)
  <2>1. /\ SaleShape' /\ till[p].step = "limit" /\ Puts(p, Closed)
        /\ UNCHANGED promoterVars /\ invoice' = invoice /\ rule' = rule
        /\ contended \subseteq contended'
    BY <1>1, <1>8, WriteLimitFacts
  <2>2. KeepsPromises
    BY <1>8, <2>1, SaleOnlyStands DEF WriteLimit, SaleOnly
  <2> QED
    BY <2>1, <2>2, QuietClose DEF Settling
<1> QED
  BY <1>2, <1>3, <1>4, <1>5, <1>6, <1>7, <1>8

\* Nobody else works on the invoice of a till.
LEMMA Others ==
  ASSUME Booked, NEW p \in Request, till[p].invoice \in Invoice
  PROVE  \A q \in Request \ {p} : till[q].invoice # till[p].invoice
BY DEF Booked, OneTill

LEMMA InsertInvoiceStep ==
  ASSUME Booked, Standing', NEW p \in Request, InsertInvoice(p)
  PROVE  Booked'
<1> DEFINE g == till[p]
<1>1. SaleShape /\ TillsHold /\ NotPaidOutYet
  BY DEF Booked, Standing
<1>2. /\ g.step = "insert" /\ code' = code /\ balance' = balance /\ rule' = rule
      /\ contended' = contended
      /\ \/ Puts(p, Closed) /\ UNCHANGED <<invoice, promoterCode, given>>
         \/ \E i \in Invoice, h \in Till :
              /\ invoice[i] = NoInvoice
              /\ Puts(p, h) /\ h = [g EXCEPT !.step = "items", !.invoice = i]
              /\ invoice' = [invoice EXCEPT ![i] = Billing(g)]
              /\ promoterCode' = [promoterCode EXCEPT ![i] = g.code]
  BY <1>1, InsertInvoiceFacts DEF money, catalog
<1>3. CASE Puts(p, Closed) /\ UNCHANGED <<invoice, promoterCode, given>>
  <2>1. KeepsPromises
    BY <1>2, <1>3, NothingWritten
  <2>2. Quiet
    BY <1>2, <1>3, <2>1, QuietClose DEF Settling
  <2> QED
    BY <2>2, QuietStep
<1>4. ASSUME NEW i \in Invoice, NEW h \in Till, invoice[i] = NoInvoice, Puts(p, h),
             h = [g EXCEPT !.step = "items", !.invoice = i],
             invoice' = [invoice EXCEPT ![i] = Billing(g)],
             promoterCode' = [promoterCode EXCEPT ![i] = g.code]
      PROVE  Booked'
  <2>1. g \in Till /\ TillShape(g)
    BY <1>1, TillIs
  <2>2. /\ h.step = "items" /\ h.invoice = i /\ h.regular = g.regular /\ h.type = g.type
        /\ h.value = g.value
    BY <1>4, <2>1 DEF Till
  <2>3. g.invoice = None
    BY <1>2, <2>1 DEF TillShape, Invoiced, Settling
  <2>4. NoInvoice.status = "none"
    BY DEF NoInvoice
  <2>5. ASSUME NEW q \in Request, till[q].invoice = i PROVE FALSE
    <3>1. till[q].step \in Invoiced
      BY <1>1, <2>5, NoneIsNone, InvoicedTill
    <3>2. Works(till[q], invoice[i])
      BY <1>1, <2>5, <3>1 DEF TillsHold
    <3> QED
      BY <1>4, <2>4, <3>1, <3>2 DEF Works, Invoiced, Settling
  <2>6. /\ Billing(g).status = "ISSUED" /\ Billing(g).items = <<>>
        /\ Billing(g).regular = g.regular /\ Billing(g).type = g.type
        /\ Billing(g).value = g.value /\ Billing(g).total = AtLeast0(g.base)
        /\ Billing(g).commission = g.commission
    BY DEF Billing, NoInvoice
  <2> DEFINE r == Billing(g)
  <2> HIDE DEF r
  <2>7. Works(h, r)
    BY <2>2, <2>6 DEF Works, r
  <2>8. RowHolds(r)
    <3>1. g.base = AfterDiscount(g.regular, g.type, g.value)
      BY <1>2, <2>1 DEF TillShape, Priced
    <3>2. CommissionWithin(rule, g.regular, g.type, g.value, g.commission)
      BY <1>2, <2>1 DEF TillShape, Priced
    <3> HIDE DEF g
    <3>3. NoneIssued(r.items) /\ ItemsAdd(r)
      BY <2>6 DEF NoneIssued, ItemsAdd, r
    <3> QED
      BY <2>6, <3>1, <3>2, <3>3 DEF RowHolds, r
  <2>9. BalancesOf(i) = {}
    BY <1>1, <1>4, <2>4 DEF NotPaidOutYet
  <2>10. \A j \in Invoice \ {i} : promoterCode'[j] = promoterCode[j]
    BY <1>4 DEF Booked, Standing, DeskInv, PromoterTypeOK
  <2>11. Writes(p, i, r, h)
    BY <1>2, <1>4, <2>2, <2>3, <2>5, <2>7, <2>8, <2>9, <2>10 DEF Writes, r
  <2> QED
    BY <2>11, WriteStep
<1> QED
  BY <1>2, <1>3, <1>4

\* The items of an invoice make up what it says.
LEMMA InsertItemsStep ==
  ASSUME Booked, Standing', NEW p \in Request, InsertItems(p)
  PROVE  Booked'
<1> DEFINE g == till[p]
<1>1. SaleShape /\ TillsHold /\ NotPaidOutYet /\ RowsHold
  BY DEF Booked, Standing
<1>2. PICK i \in Invoice : i = g.invoice
  BY <1>1, InsertItemsFacts
<1>3. /\ g.step = "items" /\ UNCHANGED promoterVars /\ rule' = rule /\ contended' = contended
      /\ invoice' = [invoice EXCEPT ![i].items = Rows(g)]
      /\ \/ Puts(p, Closed) \/ Puts(p, [g EXCEPT !.step = "uses"])
  BY <1>1, <1>2, InsertItemsFacts DEF catalog
<1>4. code' = code /\ balance' = balance /\ promoterCode' = promoterCode
  BY <1>3 DEF promoterVars, money
<1>5. g \in Till /\ TillShape(g)
  BY <1>1, TillIs
<1>6. /\ invoice[i].status = "ISSUED" /\ invoice[i].regular = g.regular
      /\ invoice[i].type = g.type /\ invoice[i].value = g.value
      /\ RowHolds(invoice[i]) /\ invoice[i] \in InvoiceRow /\ BalancesOf(i) = {}
  BY <1>1, <1>2, <1>3 DEF TillsHold, Works, Invoiced, RowsHold, SaleShape, SaleTypeOK, NotPaidOutYet
<1> DEFINE s == Rows(g)
           r == [invoice[i] EXCEPT !.items = s]
<1>7. /\ s # <<>> /\ DOMAIN s = DOMAIN g.cart
      /\ \A k \in DOMAIN g.cart : s[k].regular = g.prices[k] * g.cart[k].qty /\ ~s[k].issued
  BY <1>3, <1>5, RowsFacts
<1>8. g.regular = PriceOf(g.cart, g.prices)
  BY <1>3, <1>5 DEF TillShape, Selling
<1>9. g.regular = SumFunction([k \in DOMAIN s |-> s[k].regular])
  <2>1. [k \in DOMAIN s |-> s[k].regular] = [k \in DOMAIN g.cart |-> g.prices[k] * g.cart[k].qty]
    BY <1>7
  <2> QED
    BY <1>8, <2>1 DEF PriceOf
<1>10. \A k \in DOMAIN s : s[k].paid = IF g.type = 0 THEN s[k].regular
                                       ELSE s[k].regular - Percent(s[k].regular, g.value)
  BY DEF Rows, ItemRow
<1> HIDE DEF s
<1>11. invoice' = [invoice EXCEPT ![i] = r]
  BY <1>3 DEF s
<1>12. /\ r.items = s /\ r.status = "ISSUED" /\ r.regular = g.regular /\ r.type = g.type
       /\ r.value = g.value /\ r.total = invoice[i].total
       /\ r.commission = invoice[i].commission
  BY <1>6 DEF InvoiceRow
<1> HIDE DEF r
<1>13. ItemsAdd(r)
  BY <1>9, <1>10, <1>12 DEF ItemsAdd
<1>14. RowHolds(r)
  BY <1>6, <1>7, <1>12, <1>13 DEF RowHolds, NoneIssued
<1>15. \A q \in Request \ {p} : till[q].invoice # i
  BY <1>2, Others
<1>16. CASE Puts(p, Closed)
  <2>1. Writes(p, i, r, Closed)
    BY <1>2, <1>3, <1>4, <1>6, <1>11, <1>12, <1>14, <1>15, <1>16, ClosedShape
       DEF Writes, Invoiced, Settling
  <2> QED
    BY <2>1, ClosedShape, WriteStep
<1>17. CASE Puts(p, [g EXCEPT !.step = "uses"])
  <2> DEFINE h == [g EXCEPT !.step = "uses"]
  <2>1. h \in Till /\ h.step = "uses" /\ h.invoice = i
    BY <1>2, <1>5 DEF Till
  <2> HIDE DEF h
  <2>2. Writes(p, i, r, h)
    BY <1>2, <1>3, <1>4, <1>6, <1>11, <1>12, <1>14, <1>15, <1>17, <2>1
       DEF Writes, Works, Invoiced, Settling, h
  <2> QED
    BY <2>1, <2>2, WriteStep
<1> QED
  BY <1>3, <1>16, <1>17

LEMMA SettleStep ==
  ASSUME Booked, Standing', NEW p \in Request, NEW i \in Invoice, Settle(p, i)
  PROVE  Booked'
<1>1. SaleShape /\ NotPaidOutYet /\ RowsHold
  BY DEF Booked, Standing
<1>2. /\ till[p].step = "idle" /\ invoice[i].status = "ISSUED"
      /\ \A q \in Request : till[q].invoice # i
      /\ invoice' = [invoice EXCEPT ![i].status = "PAID"]
      /\ UNCHANGED promoterVars /\ rule' = rule /\ contended' = contended
      /\ \E h \in Till : Puts(p, h) /\ h.step = "issue" /\ h.invoice = i
  BY <1>1, SettleFacts DEF catalog
<1>3. code' = code /\ balance' = balance /\ promoterCode' = promoterCode
  BY <1>2 DEF promoterVars, money
<1>4. till[p].invoice = None
  BY <1>1, <1>2, InvoicedTill DEF Invoiced, Settling
<1>5. RowHolds(invoice[i]) /\ invoice[i] \in InvoiceRow /\ BalancesOf(i) = {}
  BY <1>1, <1>2 DEF RowsHold, SaleShape, SaleTypeOK, NotPaidOutYet
<1> DEFINE r == [invoice[i] EXCEPT !.status = "PAID"]
<1>6. invoice' = [invoice EXCEPT ![i] = r]
  BY <1>2
<1>7. /\ r.items = invoice[i].items /\ r.status = "PAID" /\ r.regular = invoice[i].regular
      /\ r.type = invoice[i].type /\ r.value = invoice[i].value
      /\ r.total = invoice[i].total /\ r.commission = invoice[i].commission
  BY <1>5 DEF InvoiceRow
<1> HIDE DEF r
<1>8. RowHolds(r) /\ NoneIssued(r.items)
  BY <1>2, <1>5, <1>7 DEF RowHolds, ItemsAdd
<1>9. PICK h \in Till : Puts(p, h) /\ h.step = "issue" /\ h.invoice = i
  BY <1>2
<1>10. Writes(p, i, r, h)
  BY <1>2, <1>3, <1>4, <1>5, <1>6, <1>7, <1>8, <1>9 DEF Writes, Works, Invoiced, Settling
<1> QED
  BY <1>10, WriteStep

LEMMA IssueItemsStep ==
  ASSUME Booked, Standing', NEW p \in Request, IssueItems(p)
  PROVE  Booked'
<1>1. SaleShape /\ TillsHold /\ NotPaidOutYet /\ RowsHold
  BY DEF Booked, Standing
<1>2. PICK i \in Invoice : i = till[p].invoice
  BY <1>1, IssueItemsFacts
<1> DEFINE s == invoice[i].items
           h == [till[p] EXCEPT !.step = "count"]
<1>3. /\ till[p].step = "issue" /\ UNCHANGED promoterVars /\ rule' = rule
      /\ contended' = contended /\ Puts(p, h)
  BY <1>1, IssueItemsFacts DEF catalog
<1>0. PICK t \in Seq(ItemRows) : Reissues(till[p].invoice, t)
  BY <1>1, IssueItemsFacts
<1>4. /\ invoice' = [invoice EXCEPT ![i].items = t]
      /\ DOMAIN t = DOMAIN s /\ Len(t) = Len(s)
      /\ \A k \in DOMAIN s : /\ t[k].issued /\ t[k].regular = s[k].regular
                             /\ t[k].paid = s[k].paid
  BY <1>0, <1>2 DEF Reissues
<1>5. code' = code /\ balance' = balance /\ promoterCode' = promoterCode
  BY <1>3 DEF promoterVars, money
<1>6. /\ RowHolds(invoice[i]) /\ invoice[i] \in InvoiceRow /\ invoice[i].status = "PAID"
      /\ BalancesOf(i) = {}
  BY <1>1, <1>2, <1>3
     DEF RowsHold, SaleShape, SaleTypeOK, TillsHold, Works, Invoiced, Settling, NotPaidOutYet
<1> DEFINE r == [invoice[i] EXCEPT !.items = t]
<1>7. invoice' = [invoice EXCEPT ![i] = r]
  BY <1>4
<1>8. /\ r.items = t /\ r.status = "PAID" /\ r.regular = invoice[i].regular
      /\ r.type = invoice[i].type /\ r.value = invoice[i].value
      /\ r.total = invoice[i].total /\ r.commission = invoice[i].commission
  BY <1>6 DEF InvoiceRow
<1>9. s \in Seq(ItemRows)
  BY <1>6 DEF InvoiceRow
<1> HIDE DEF r, s
<1>10. AllIssued(t)
  BY <1>4 DEF AllIssued
<1>11. ItemsAdd(r)
  <2>1. t # <<>> => s # <<>>
    BY <1>4, <1>9
  <2>2. [k \in DOMAIN t |-> t[k].regular] = [k \in DOMAIN s |-> s[k].regular]
    BY <1>4
  <2>3. ItemsAdd(invoice[i])
    BY <1>6 DEF RowHolds
  <2> QED
    <3> SUFFICES ASSUME t # <<>>
                 PROVE  /\ r.regular = SumFunction([k \in DOMAIN t |-> t[k].regular])
                        /\ \A k \in DOMAIN t :
                             t[k].paid = IF r.type = 0 THEN t[k].regular
                                         ELSE t[k].regular - Percent(t[k].regular, r.value)
      BY <1>8 DEF ItemsAdd
    <3>1. r.regular = SumFunction([k \in DOMAIN s |-> s[k].regular])
      BY <1>8, <2>1, <2>3 DEF ItemsAdd, s
    <3>2. \A k \in DOMAIN s :
            s[k].paid = IF r.type = 0 THEN s[k].regular
                        ELSE s[k].regular - Percent(s[k].regular, r.value)
      BY <1>8, <2>1, <2>3 DEF ItemsAdd, s
    <3>3. \A k \in DOMAIN t : /\ k \in DOMAIN s /\ t[k].regular = s[k].regular
                              /\ t[k].paid = s[k].paid
      BY <1>4 DEF s
    <3> QED
      BY <2>2, <3>1, <3>2, <3>3
<1>12. RowHolds(r)
  BY <1>6, <1>8, <1>11 DEF RowHolds
<1>13. h \in Till /\ h.step = "count" /\ h.invoice = i
  <2>1. till[p] \in Till /\ till[p].invoice = i
    BY <1>1, <1>2, TillIs
  <2> QED
    BY <2>1 DEF Till
<1> HIDE DEF h
<1>14. \A q \in Request \ {p} : till[q].invoice # i
  BY <1>2, Others
<1>15. Writes(p, i, r, h)
  BY <1>2, <1>3, <1>5, <1>6, <1>7, <1>8, <1>10, <1>12, <1>13, <1>14
     DEF Writes, Works, Invoiced, Settling
<1> QED
  BY <1>13, <1>15, WriteStep

LEMMA BookedStep ==
  ASSUME Booked, [Next]_vars
  PROVE  Booked'
<1>1. Standing /\ SaleShape
  BY DEF Booked, Standing
<1>2. Standing'
  BY <1>1, StandingStep
<1>3. CASE AskTill
  BY <1>1, <1>2, <1>3, AskTillQuiet, QuietStep
<1>4. ASSUME NEW p \in Request, SaleStep(p) PROVE Booked'
  <2>1. CASE \/ ReadDiscounts(p) \/ IncrementUses(p) \/ CountSold(p)
             \/ WriteLocality(p) \/ WriteStage(p) \/ WriteDiscount(p) \/ WriteLimit(p)
    BY <1>1, <1>2, <2>1, SaleStepQuiet, QuietStep
  <2>2. CASE InsertInvoice(p)
    BY <1>2, <2>2, InsertInvoiceStep
  <2>3. CASE InsertItems(p)
    BY <1>2, <2>3, InsertItemsStep
  <2>4. CASE IssueItems(p)
    BY <1>2, <2>4, IssueItemsStep
  <2>5. CASE RecordCommission(p)
    BY <1>2, <2>5, RecordStep
  <2>6. ASSUME NEW i \in Invoice, Settle(p, i) PROVE Booked'
    BY <1>2, <2>6, SettleStep
  <2> QED
    BY <1>4, <2>1, <2>2, <2>3, <2>4, <2>5, <2>6 DEF SaleStep
<1>5. ASSUME NEW p \in Request, FailSale(p) PROVE Booked'
  <2>1. /\ Puts(p, Closed) /\ contended \subseteq contended' /\ UNCHANGED promoterVars
        /\ invoice' = invoice /\ rule' = rule
        /\ till[p].step \in Settling => <<"invoice", till[p].invoice>> \in contended'
    BY <1>1, <1>5, FailSaleFacts DEF catalog
  <2>2. KeepsPromises
    BY <2>1, NothingWritten DEF promoterVars, money
  <2>3. Quiet
    BY <2>1, <2>2, QuietClose
  <2> QED
    BY <1>2, <2>3, QuietStep
<1>6. CASE Advance
  <2>1. /\ UNCHANGED promoterVars /\ invoice' = invoice /\ rule' = rule
        /\ contended' = contended /\ till' = till
    BY <1>1, <1>6, AdvanceFacts
  <2>2. KeepsPromises
    BY <2>1, NothingWritten DEF promoterVars, money
  <2> QED
    BY <1>2, <2>1, <2>2, QuietTills, QuietStep
<1>7. CASE PromoterNext /\ UNCHANGED saleVars
  <2>1. /\ KeepsPromises /\ invoice' = invoice /\ rule' = rule
        /\ contended' = contended /\ till' = till
    BY <1>1, <1>7, DeskStepStands
  <2> QED
    BY <1>2, <2>1, QuietTills, QuietStep
<1>8. CASE UNCHANGED vars
  <2>1. /\ UNCHANGED promoterVars /\ invoice' = invoice /\ rule' = rule
        /\ contended' = contended /\ till' = till
    BY <1>8 DEF vars, saleVars, catalog
  <2>2. KeepsPromises
    BY <2>1, NothingWritten DEF promoterVars, money
  <2> QED
    BY <1>2, <2>1, <2>2, QuietTills, QuietStep
<1> QED
  BY <1>3, <1>4, <1>5, <1>6, <1>7, <1>8 DEF Next

LEMMA BookedInit == Init => Booked
<1> SUFFICES ASSUME Init PROVE Booked
  OBVIOUS
<1>1. Standing
  BY StandingInit
<1>2. /\ invoice = [i \in Invoice |-> NoInvoice] /\ till = [p \in Request |-> Closed]
      /\ \A b \in Balance : balance[b].invoice = None
  BY DEF Init, PromoterInit, NoBalance
<1>3. \A p \in Request : till[p].step = "idle" /\ till[p].invoice = None
  BY <1>2, ClosedShape
<1>4. OneTill /\ TillsHold
  BY <1>3, NoneIsNone DEF OneTill, TillsHold, Invoiced, Settling
<1>5. RowHolds(NoInvoice)
  <2> DEFINE r == NoInvoice
  <2>1. /\ r.status = "none" /\ r.items = <<>> /\ r.regular = 0 /\ r.total = 0 /\ r.type = 0
        /\ r.value = 0 /\ r.commission = 0
    BY DEF NoInvoice
  <2> HIDE DEF r
  <2>2. r.total = AtLeast0(AfterDiscount(r.regular, r.type, r.value))
    BY <2>1 DEF AtLeast0, AfterDiscount
  <2>3. CommissionWithin(rule, r.regular, r.type, r.value, r.commission)
    <3>1. rule.amount \in Nat
      BY <1>1, RuleAssumption DEF Standing, SaleShape, SaleTypeOK
    <3>2. Percent(0, rule.amount) \in Nat
      BY <3>1, PercentRounds
    <3> QED
      BY <2>1, <3>2 DEF CommissionWithin
  <2>4. RowHolds(r)
    BY <2>1, <2>2, <2>3 DEF RowHolds, ItemsAdd
  <2> QED
    BY <2>4 DEF r
<1>6. RowsHold
  BY <1>2, <1>5 DEF RowsHold
<1>7. NotPaidOutYet
  BY <1>2, <1>3, NoneIsNone DEF NotPaidOutYet, BalancesOf, Settling
<1>8. \A i \in Invoice : ~Settled(i)
  BY <1>2 DEF Settled, NoInvoice
<1> QED
  BY <1>1, <1>4, <1>6, <1>7, <1>8 DEF Booked

\* A promoter gets what the invoice promised him, once, whatever becomes of his code, unless
\* the settlement is cut (CommissionIsKept: wompi.controller.ts, invoice.service.ts).
THEOREM CommissionCorrect == Spec => []CommissionIsKept
<1>1. Booked => CommissionIsKept
  BY KeptIs DEF Booked
<1> QED
  BY <1>1, BookedInit, BookedStep, PTL DEF Spec

\* What the items are paid is what the invoice is paid, to half a unit per rounding.
LEMMA ItemsMakeUp ==
  ASSUME NEW r \in InvoiceRow, ItemsAdd(r), r.items # <<>>, r.type # 2, r.value <= 100,
         r.total = AtLeast0(AfterDiscount(r.regular, r.type, r.value))
  PROVE  LET gap == SumFunction([k \in DOMAIN r.items |-> r.items[k].paid]) - r.total IN
         2 * gap < Len(r.items) + 1 /\ -2 * gap < Len(r.items) + 1
<1> DEFINE S == DOMAIN r.items
           n == Len(r.items)
           v == r.value
           paid == [k \in S |-> r.items[k].paid]
           whole == [k \in S |-> r.items[k].regular]
           cut == [k \in S |-> Percent(r.items[k].regular, v)]
<1>1. /\ r.items \in Seq(ItemRows) /\ r.regular \in Nat /\ v \in Nat /\ r.type \in {0, 1}
  BY DEF InvoiceRow
<1>2. /\ IsFiniteSet(S) /\ S = 1..n /\ n \in Nat
      /\ \A k \in S : r.items[k].regular \in Nat /\ r.items[k].paid \in Int
  <2> DEFINE s == r.items
  <2>1. s \in Seq(ItemRows)
    BY <1>1
  <2> HIDE DEF s
  <2>2. /\ IsFiniteSet(DOMAIN s) /\ DOMAIN s = 1..Len(s) /\ Len(s) \in Nat
        /\ \A k \in DOMAIN s : s[k] \in ItemRows
    BY <2>1, ItemsFacts
  <2>3. \A k \in DOMAIN s : s[k].regular \in Nat /\ s[k].paid \in Int
    BY <2>2 DEF ItemRows
  <2> QED
    BY <2>2, <2>3 DEF s
<1>3. Cardinality(S) = n /\ n # 0
  <2>1. Cardinality(1..n) = n
    BY <1>2, FS_Interval
  <2>2. n # 0
    BY <1>1
  <2> QED
    BY <1>2, <2>1, <2>2
<1>4. /\ SumFunction(paid) = SumFunctionOnSet(paid, S)
      /\ r.regular = SumFunctionOnSet(whole, S)
  BY DEF ItemsAdd, SumFunction
<1>5. \A k \in S : paid[k] = IF r.type = 0 THEN whole[k] ELSE whole[k] - cut[k]
  BY DEF ItemsAdd
<1>6. \A k \in S : whole[k] \in Nat /\ paid[k] \in Int
  BY <1>2
<1>7. \A k \in S : /\ cut[k] \in Nat
                   /\ -99 <= 200 * cut[k] - 2 * (v * whole[k])
                   /\ 200 * cut[k] - 2 * (v * whole[k]) <= 100
  <2> SUFFICES ASSUME NEW k \in S
               PROVE  /\ cut[k] \in Nat
                      /\ -99 <= 200 * cut[k] - 2 * (v * whole[k])
                      /\ 200 * cut[k] - 2 * (v * whole[k]) <= 100
    OBVIOUS
  <2> DEFINE x == r.items[k].regular
  <2>1. x \in Nat /\ whole[k] = x /\ cut[k] = Percent(x, v)
    BY <1>2
  <2> HIDE DEF x, whole, cut
  <2>2. /\ Percent(x, v) \in Nat /\ -99 <= 200 * Percent(x, v) - 2 * (v * x)
        /\ 200 * Percent(x, v) - 2 * (v * x) <= 100
    BY <1>1, <2>1, PercentRounds, ZenonT(40)
  <2> QED
    BY <2>1, <2>2
<1> DEFINE gap == SumFunction(paid) - r.total
<1>8. CASE r.type = 0
  <2>1. r.total = r.regular
    BY <1>1, <1>8 DEF AfterDiscount, AtLeast0
  <2>2. \A k \in S : paid[k] = whole[k]
    BY <1>5, <1>8
  <2> HIDE DEF paid, whole, S, n
  <2>3. SumFunctionOnSet(paid, S) = SumFunctionOnSet(whole, S)
    BY <1>2, <2>2, SumSame
  <2>4. gap = 0
    BY <1>1, <1>4, <2>1, <2>3
  <2>5. 2 * gap < n + 1 /\ -2 * gap < n + 1
    BY <1>2, <2>4
  <2> QED
    BY <2>5 DEF paid, n, S
<1>9. CASE r.type = 1
  <2> DEFINE p == Percent(r.regular, v)
             c == SumFunctionOnSet(cut, S)
             w == v * r.regular
  <2>1. /\ p \in Nat /\ -99 <= 200 * p - 2 * w /\ 200 * p - 2 * w <= 100 /\ p <= r.regular
        /\ w \in Nat
    <3> DEFINE x == r.regular
    <3>1. x \in Nat /\ v \in Nat /\ v <= 100
      BY <1>1
    <3> HIDE DEF x, v
    <3>2. /\ Percent(x, v) \in Nat /\ -99 <= 200 * Percent(x, v) - 2 * (v * x)
          /\ 200 * Percent(x, v) - 2 * (v * x) <= 100 /\ Percent(x, v) <= x
      BY <3>1, PercentRounds, PercentWithin
    <3>3. v * x \in Nat
      BY <3>1
    <3> QED
      BY <3>2, <3>3 DEF x
  <2>2. r.total = r.regular - p
    <3>1. AfterDiscount(r.regular, r.type, v) = r.regular - p
      BY <1>9 DEF AfterDiscount
    <3> HIDE DEF p
    <3> QED
      BY <1>1, <2>1, <3>1 DEF AtLeast0
  <2>3. \A k \in S : paid[k] = whole[k] - cut[k]
    BY <1>5, <1>9
  <2> HIDE DEF paid, whole, cut, S, n, v
  <2>4. SumFunctionOnSet(paid, S) = r.regular - c
    BY <1>2, <1>4, <1>6, <1>7, <2>3, SumMinus
  <2>5. /\ -99 * n <= 200 * c - 2 * w /\ 200 * c - 2 * w <= 100 * n
    <3> DEFINE sum == SumFunctionOnSet(whole, S)
    <3>0. v \in Int /\ IsFiniteSet(S)
      BY <1>1, <1>2
    <3>1. \A k \in S : /\ cut[k] \in Int /\ whole[k] \in Int
                       /\ -99 <= 200 * cut[k] - 2 * (v * whole[k])
                       /\ 200 * cut[k] - 2 * (v * whole[k]) <= 100
      BY <1>6, <1>7
    <3>2. /\ -99 * Cardinality(S) <= 200 * c - 2 * (v * sum)
          /\ 200 * c - 2 * (v * sum) <= 100 * Cardinality(S)
      BY <3>0, <3>1, SumRounded
    <3>3. sum = r.regular
      BY <1>4
    <3> HIDE DEF sum, c
    <3> QED
      BY <1>3, <3>2, <3>3
  <2>6. c \in Int
    BY <1>2, <1>7, SumInt
  <2> HIDE DEF p, c, w
  <2>7. gap = p - c
    BY <1>1, <1>4, <2>1, <2>2, <2>4, <2>6
  <2> HIDE DEF gap
  <2>8. 2 * gap < n + 1 /\ -2 * gap < n + 1
    BY <1>2, <1>3, <2>1, <2>5, <2>6, <2>7
  <2> QED
    BY <2>8 DEF gap, paid, n, S
<1> QED
  BY <1>1, <1>8, <1>9

LEMMA RowAddsUp ==
  ASSUME Booked, NEW i \in Invoice
  PROVE  LET r == invoice[i] IN
         /\ r.total \in 0..r.regular
         /\ r.items # <<>> => r.regular = SumFunction([k \in DOMAIN r.items |-> r.items[k].regular])
         /\ r.items # <<>> /\ r.type # 2 /\ r.value <= 100 =>
              LET gap == SumFunction([k \in DOMAIN r.items |-> r.items[k].paid]) - r.total IN
              2 * gap < Len(r.items) + 1 /\ -2 * gap < Len(r.items) + 1
         /\ rule.reward = "PERCENTAGE" /\ (r.type # 1 \/ r.value <= 100) =>
              r.commission \in 0..Percent(r.regular, rule.amount)
<1> DEFINE r == invoice[i]
<1>1. RowHolds(r) /\ r \in InvoiceRow
  BY DEF Booked, RowsHold, Standing, SaleShape, SaleTypeOK
<1> HIDE DEF r
<1>2. /\ r.total = AtLeast0(AfterDiscount(r.regular, r.type, r.value)) /\ ItemsAdd(r)
      /\ CommissionWithin(rule, r.regular, r.type, r.value, r.commission)
  BY <1>1 DEF RowHolds
<1>3. r.regular \in Nat /\ r.type \in 0..2 /\ r.value \in Nat
  BY <1>1 DEF InvoiceRow
<1>4. r.total \in 0..r.regular
  BY <1>2, <1>3, DiscountWithin
<1>5. r.items # <<>> => r.regular = SumFunction([k \in DOMAIN r.items |-> r.items[k].regular])
  BY <1>2 DEF ItemsAdd
<1>6. r.items # <<>> /\ r.type # 2 /\ r.value <= 100 =>
        LET gap == SumFunction([k \in DOMAIN r.items |-> r.items[k].paid]) - r.total IN
        2 * gap < Len(r.items) + 1 /\ -2 * gap < Len(r.items) + 1
  BY <1>1, <1>2, ItemsMakeUp
<1>7. rule.reward = "PERCENTAGE" /\ (r.type # 1 \/ r.value <= 100) =>
        r.commission \in 0..Percent(r.regular, rule.amount)
  BY <1>2 DEF CommissionWithin
<1> QED
  BY <1>4, <1>5, <1>6, <1>7 DEF r

\* The amounts of an invoice agree, whatever is edited while it is made (AmountsAddUp:
\* createInvoice of invoice.service.ts and calculateDiscount).
THEOREM AmountsCorrect == Spec => []AmountsAddUp
<1>1. Booked => AmountsAddUp
  BY RowAddsUp DEF AmountsAddUp
<1> QED
  BY <1>1, BookedInit, BookedStep, PTL DEF Spec

----------------------------------------------------------------------------
(***************************************************************************)
(* The discount code: one buyer at a time uses it, and it is counted.      *)
(***************************************************************************)
Meeting == <<"code", None>>

\* Invoices with the code are at most the uses, but for one that is not counted yet.
CodeCounts ==
  /\ \A p, q \in Request : till[p].named /\ till[q].named => p = q
  /\ discount.max = 0 \/ given <= discount.max
  /\ given <= discount.uses + 1
  /\ (\A p \in Request : till[p].valid => till[p].step = "insert") => given <= discount.uses
  /\ \A p \in Request : till[p].valid /\ till[p].step = "insert" =>
                          discount.max = 0 \/ given < discount.max

CodeInv ==
  /\ discount.type = 0 => discount.max = 0
  /\ Meeting \notin contended /\ discount.type # 0 => CodeCounts

\* A till that neither takes the code, nor a discount of it, nor is counted.
Unnamed(h, g) ==
  /\ g.named => h.named
  /\ g.valid => h.valid /\ (g.step = "insert" <=> h.step = "insert")
  /\ h.valid /\ h.step # "insert" => \/ g.valid /\ g.step # "insert"
                                     \/ Meeting \in contended'

CodeQuiet ==
  /\ discount'.max = discount.max /\ discount'.uses = discount.uses
  /\ discount'.type = 0 <=> discount.type = 0
  /\ given' = given /\ contended \subseteq contended'
  /\ \A q \in Request : Unnamed(till[q], till'[q])

LEMMA CodeQuietStep ==
  ASSUME CodeInv, CodeQuiet
  PROVE  CodeInv'
<1>1. /\ discount'.max = discount.max /\ discount'.uses = discount.uses
      /\ discount'.type = 0 <=> discount.type = 0
      /\ given' = given /\ contended \subseteq contended'
      /\ \A q \in Request : Unnamed(till[q], till'[q])
  BY DEF CodeQuiet
<1>2. discount'.type = 0 => discount'.max = 0
  BY <1>1 DEF CodeInv
<1>3. ASSUME Meeting' \notin contended', discount'.type # 0 PROVE CodeCounts'
  <2>0. Meeting' = Meeting
    BY DEF Meeting
  <2>1. CodeCounts
    BY <1>1, <1>3, <2>0 DEF CodeInv
  <2>2. \A p, q \in Request : till'[p].named /\ till'[q].named => p = q
    BY <1>1, <2>1 DEF CodeCounts, Unnamed
  <2>3. (\A p \in Request : till'[p].valid => till'[p].step = "insert") =>
          \A p \in Request : till[p].valid => till[p].step = "insert"
    BY <1>1, <1>3, <2>0 DEF Unnamed
  <2>4. \A p \in Request : till'[p].valid /\ till'[p].step = "insert" =>
                             till[p].valid /\ till[p].step = "insert"
    BY <1>1 DEF Unnamed
  <2> QED
    BY <1>1, <2>1, <2>2, <2>3, <2>4 DEF CodeCounts
<1> QED
  BY <1>2, <1>3 DEF CodeInv

LEMMA CodePut ==
  ASSUME discount' = discount \/ /\ discount'.max = discount.max
                                 /\ discount'.uses = discount.uses
                                 /\ discount.type # 0 /\ discount'.type # 0,
         given' = given, contended \subseteq contended',
         NEW p \in Request, NEW h, Puts(p, h), Unnamed(till[p], h)
  PROVE  CodeQuiet
<1>1. till'[p] = h /\ \A q \in Request \ {p} : till'[q] = till[q]
  BY DEF Puts
<1>2. \A q \in Request : Unnamed(till[q], till'[q])
  <2> SUFFICES ASSUME NEW q \in Request PROVE Unnamed(till[q], till'[q])
    OBVIOUS
  <2>1. CASE q = p
    BY <1>1, <2>1
  <2>2. CASE q # p
    BY <1>1, <2>2 DEF Unnamed
  <2> QED
    BY <2>1, <2>2
<1> QED
  BY <1>2 DEF CodeQuiet

LEMMA CodeTills ==
  ASSUME discount' = discount, given' = given, contended \subseteq contended', till' = till
  PROVE  CodeQuiet
BY DEF CodeQuiet, Unnamed

\* A till closes that has not counted a discount of the code, or fails.
LEMMA CodeClose ==
  ASSUME discount' = discount \/ /\ discount'.max = discount.max
                                 /\ discount'.uses = discount.uses
                                 /\ discount.type # 0 /\ discount'.type # 0,
         given' = given, contended \subseteq contended', NEW p \in Request, Puts(p, Closed),
         \/ ~till[p].valid \/ till[p].step = "insert" \/ Meeting \in contended'
  PROVE  CodeQuiet
<1>1. ~Closed.named /\ ~Closed.valid
  BY ClosedShape
<1>2. Unnamed(till[p], Closed)
  BY <1>1 DEF Unnamed
<1> QED
  BY <1>2, CodePut

LEMMA ValidTill ==
  ASSUME SaleShape, NEW p \in Request
  PROVE  /\ till[p].valid => till[p].named /\ till[p].type # 0 /\ till[p].step \in Priced
         /\ till[p].step \notin Selling => ~till[p].named /\ ~till[p].valid
         /\ till[p].named \in BOOLEAN /\ till[p].valid \in BOOLEAN
<1>1. till[p] \in Till /\ TillShape(till[p])
  BY TillIs
<1> QED
  BY <1>1 DEF TillShape, Till, Selling, Priced

LEMMA CountsAreNat ==
  ASSUME SaleShape
  PROVE  given \in Nat /\ discount.max \in Nat /\ discount.uses \in Nat
BY DEF SaleShape, SaleTypeOK

\* A second buyer who names the code meets the first.
LEMMA QuoteCode ==
  ASSUME SaleShape, CodeInv, NEW p \in Request, NEW cart \in Cart, NEW named \in BOOLEAN,
         NEW c \in Code \cup {None}, Quote(p, cart, named, c)
  PROVE  CodeInv'
<1>1. /\ discount' = discount /\ given' = given /\ contended \subseteq contended'
      /\ named /\ NameInUse => Meeting \in contended'
  BY DEF Quote, catalog, Meeting
<1>2. PICK h \in Till : Puts(p, h) /\ h.named = named /\ ~h.valid
  BY QuoteFacts
<1>3. /\ till'[p] = h /\ \A q \in Request \ {p} : till'[q] = till[q]
  BY <1>2 DEF Puts
<1>4. ASSUME Meeting' \notin contended', discount'.type # 0 PROVE CodeCounts'
  <2>0. Meeting' = Meeting
    BY DEF Meeting
  <2>1. CodeCounts /\ (named => ~NameInUse)
    BY <1>1, <1>4, <2>0 DEF CodeInv
  <2>2. \A x, y \in Request : till'[x].named /\ till'[y].named => x = y
    BY <1>2, <1>3, <2>1 DEF CodeCounts, NameInUse
  <2>3. till[p].step = "idle"
    BY DEF Quote, Free
  <2>4. ~till[p].valid
    BY <2>3, ValidTill DEF Selling
  <2>5. \A x \in Request : till'[x].valid \/ till[x].valid => till'[x] = till[x]
    BY <1>2, <1>3, <2>4
  <2> QED
    BY <1>1, <2>1, <2>2, <2>5 DEF CodeCounts
<1> QED
  BY <1>1, <1>4 DEF CodeInv

LEMMA CreateCode0 ==
  ASSUME SaleShape, CodeInv, NEW o \in Offer, CreateDiscount(o)
  PROVE  CodeInv'
<1>1. /\ discount'.type # 0 /\ discount'.uses = 0 /\ discount'.max \in Nat /\ given' = 0
      /\ NameInUse => Meeting \in contended'
      /\ till' = till
  BY CreateDiscountFacts DEF Meeting
<1>2. ASSUME Meeting' \notin contended' PROVE CodeCounts'
  <2>1. \A p \in Request : ~till[p].named
    BY <1>1, <1>2 DEF NameInUse, Meeting
  <2>2. \A p \in Request : ~till[p].valid
    BY <2>1, ValidTill
  <2> QED
    BY <1>1, <2>1, <2>2 DEF CodeCounts
<1> QED
  BY <1>1, <1>2 DEF CodeInv

\* The code is found, and not used up.
LEMMA ReadDiscountsCode ==
  ASSUME SaleShape, CodeInv, NEW p \in Request, ReadDiscounts(p)
  PROVE  CodeInv'
<1>1. /\ till[p].step = "quote" /\ discount' = discount /\ given' = given
      /\ contended' = contended
  BY ReadDiscountsFacts DEF catalog
<1>2. ~till[p].valid
  BY <1>1, ValidTill DEF Priced
<1>3. CASE Puts(p, Closed)
  BY <1>1, <1>2, <1>3, CodeClose, CodeQuietStep
<1>4. ASSUME NEW h \in Till, Puts(p, h), h.step = "insert", h.named = till[p].named,
             h.valid <=> h.named /\ discount.type # 0,
             h.valid => discount.max = 0 \/ discount.uses < discount.max
      PROVE  CodeInv'
  <2>1. /\ till'[p] = h /\ \A q \in Request \ {p} : till'[q] = till[q]
    BY <1>4 DEF Puts
  <2>2. ASSUME Meeting' \notin contended', discount'.type # 0 PROVE CodeCounts'
    <3>1. CodeCounts
      BY <1>1, <2>2 DEF CodeInv, Meeting
    <3>2. \A x, y \in Request : till'[x].named /\ till'[y].named => x = y
      BY <1>4, <2>1, <3>1 DEF CodeCounts
    <3>3. (\A x \in Request : till'[x].valid => till'[x].step = "insert") =>
            \A x \in Request : till[x].valid => till[x].step = "insert"
      BY <1>2, <2>1
    <3>4. ASSUME NEW x \in Request, till'[x].valid, till'[x].step = "insert"
          PROVE  discount.max = 0 \/ given < discount.max
      <4>1. CASE x # p
        BY <2>1, <3>1, <3>4, <4>1 DEF CodeCounts
      <4>2. CASE x = p
        <5>1. h.valid /\ till[p].named
          BY <1>4, <2>1, <3>4, <4>2
        <5>2. \A y \in Request : ~till[y].valid
          BY <1>2, <3>1, <5>1, ValidTill DEF CodeCounts
        <5>3. given <= discount.uses
          BY <3>1, <5>2 DEF CodeCounts
        <5> QED
          BY <1>4, <5>1, <5>3, CountsAreNat
      <4> QED
        BY <4>1, <4>2
    <3> QED
      BY <1>1, <3>1, <3>2, <3>3, <3>4 DEF CodeCounts
  <2> QED
    BY <1>1, <2>2 DEF CodeInv
<1> QED
  BY <1>3, <1>4, ReadDiscountsFacts

\* The invoice is made: one more with the code, that is within its limit.
LEMMA InsertInvoiceCode ==
  ASSUME SaleShape, CodeInv, NEW p \in Request, InsertInvoice(p)
  PROVE  CodeInv'
<1> DEFINE g == till[p]
<1>1. /\ g.step = "insert" /\ discount' = discount /\ contended' = contended
      /\ \/ Puts(p, Closed) /\ given' = given
         \/ \E i \in Invoice, h \in Till :
              /\ Puts(p, h) /\ h = [g EXCEPT !.step = "items", !.invoice = i]
              /\ given' = IF g.valid THEN given + 1 ELSE given
  BY InsertInvoiceFacts DEF catalog
<1>2. CASE Puts(p, Closed) /\ given' = given
  BY <1>1, <1>2, CodeClose, CodeQuietStep
<1>3. ASSUME NEW i \in Invoice, NEW h \in Till, Puts(p, h),
             h = [g EXCEPT !.step = "items", !.invoice = i],
             given' = IF g.valid THEN given + 1 ELSE given
      PROVE  CodeInv'
  <2>1. h.step = "items" /\ h.named = g.named /\ h.valid = g.valid
    BY <1>3, TillIs DEF Till
  <2>2. CASE ~g.valid
    <3>1. Unnamed(g, h)
      BY <2>1, <2>2 DEF Unnamed
    <3> QED
      BY <1>1, <1>3, <2>2, <3>1, CodePut, CodeQuietStep
  <2>3. CASE g.valid
    <3>1. /\ till'[p] = h /\ \A q \in Request \ {p} : till'[q] = till[q]
      BY <1>3 DEF Puts
    <3>2. ASSUME Meeting' \notin contended', discount'.type # 0 PROVE CodeCounts'
      <4>1. CodeCounts
        BY <1>1, <3>2 DEF CodeInv, Meeting
      <4>2. \A x, y \in Request : till'[x].named /\ till'[y].named => x = y
        BY <2>1, <3>1, <4>1 DEF CodeCounts
      <4>3. \A y \in Request \ {p} : ~till[y].valid
        BY <2>3, <4>1, ValidTill DEF CodeCounts
      <4>4. given <= discount.uses
        BY <1>1, <4>1, <4>3 DEF CodeCounts
      <4>5. discount.max = 0 \/ given < discount.max
        BY <1>1, <2>3, <4>1 DEF CodeCounts
      <4>6. given' = given + 1 /\ till'[p].valid /\ till'[p].step # "insert"
        BY <1>3, <2>1, <2>3, <3>1
      <4>0. given \in Nat /\ discount.max \in Nat /\ discount.uses \in Nat
        BY CountsAreNat
      <4>9. discount' = discount
        BY <1>1
      <4>7. /\ discount'.max = 0 \/ given' <= discount'.max
            /\ given' <= discount'.uses + 1
        BY <4>0, <4>4, <4>5, <4>6, <4>9
      <4>8. \A x \in Request : ~(till'[x].valid /\ till'[x].step = "insert")
        BY <3>1, <4>3, <4>6
      <4> QED
        BY <4>2, <4>6, <4>7, <4>8 DEF CodeCounts
    <3> QED
      BY <1>1, <3>2 DEF CodeInv
  <2> QED
    BY <2>2, <2>3
<1> QED
  BY <1>1, <1>2, <1>3

\* The use is counted.
LEMMA IncrementUsesCode ==
  ASSUME SaleShape, CodeInv, NEW p \in Request, IncrementUses(p)
  PROVE  CodeInv'
<1>1. /\ till[p].step = "uses" /\ Puts(p, Closed) /\ given' = given /\ contended' = contended
      /\ discount' = IF discount.type = 0 THEN discount ELSE [discount EXCEPT !.uses = @ + 1]
  BY IncrementUsesFacts
<1>2. /\ discount'.max = discount.max /\ discount'.type = discount.type
      /\ discount.type # 0 => discount'.uses = discount.uses + 1
  BY <1>1 DEF SaleShape, SaleTypeOK
<1>3. /\ till'[p] = Closed /\ ~Closed.named /\ ~Closed.valid
      /\ \A q \in Request \ {p} : till'[q] = till[q]
  BY <1>1, ClosedShape DEF Puts
<1>4. ASSUME Meeting' \notin contended', discount'.type # 0 PROVE CodeCounts'
  <2>1. CodeCounts
    BY <1>1, <1>2, <1>4 DEF CodeInv, Meeting
  <2>2. \A x, y \in Request : till'[x].named /\ till'[y].named => x = y
    BY <1>3, <2>1 DEF CodeCounts
  <2>3. given' <= discount'.uses /\ discount'.uses \in Nat /\ given' \in Nat
    BY <1>1, <1>2, <1>4, <2>1, CountsAreNat DEF CodeCounts
  <2>4. \A x \in Request : till'[x].valid => till'[x] = till[x]
    BY <1>3
  <2>5. \A x \in Request : till'[x].valid /\ till'[x].step = "insert" =>
                             discount'.max = 0 \/ given' < discount'.max
    BY <1>1, <1>2, <2>1, <2>4 DEF CodeCounts
  <2>6. discount'.max = 0 \/ given' <= discount'.max
    BY <1>1, <1>2, <2>1 DEF CodeCounts
  <2> QED
    BY <2>2, <2>3, <2>5, <2>6 DEF CodeCounts
<1> QED
  BY <1>2, <1>4 DEF CodeInv

\* The limit or the count of the code is written by hand: a meeting.
LEMMA WriteLimitCode ==
  ASSUME SaleShape, CodeInv, NEW p \in Request, WriteLimit(p)
  PROVE  CodeInv'
<1>1. Meeting \in contended' /\ Meeting' = Meeting
  BY WriteLimitFacts DEF Meeting
<1>2. discount.type = 0 => discount' = discount
  BY DEF WriteLimit
<1>3. discount'.type = discount.type
  BY <1>2 DEF WriteLimit, SaleShape, SaleTypeOK
<1>4. discount'.type = 0 => discount'.max = 0
  BY <1>2, <1>3 DEF CodeInv
<1> QED
  BY <1>1, <1>4 DEF CodeInv

LEMMA CodeSaleStep ==
  ASSUME SaleShape, CodeInv, NEW p \in Request, SaleStep(p), Standing
  PROVE  CodeInv'
<1>1. CASE ReadDiscounts(p)
  BY <1>1, ReadDiscountsCode
<1>2. CASE InsertInvoice(p)
  BY <1>2, InsertInvoiceCode
<1>3. CASE InsertItems(p)
  <2> DEFINE h == [till[p] EXCEPT !.step = "uses"]
  <2>1. /\ till[p].step = "items" /\ discount' = discount /\ given' = given
        /\ contended' = contended
        /\ \/ Puts(p, Closed) /\ ~till[p].valid
           \/ Puts(p, h)
    BY <1>3, InsertItemsFacts DEF catalog
  <2>2. h.named = till[p].named /\ h.valid = till[p].valid /\ h.step = "uses"
    BY TillIs DEF Till
  <2> HIDE DEF h
  <2>3. Unnamed(till[p], h)
    BY <2>1, <2>2 DEF Unnamed
  <2> QED
    BY <2>1, <2>3, CodeClose, CodePut, CodeQuietStep
<1>4. CASE IncrementUses(p)
  BY <1>4, IncrementUsesCode
<1>5. ASSUME NEW i \in Invoice, Settle(p, i) PROVE CodeInv'
  <2>1. /\ discount' = discount /\ given' = given /\ contended' = contended
        /\ till[p].step = "idle"
    BY <1>5, SettleFacts DEF catalog
  <2>2. PICK h \in Till : Puts(p, h) /\ ~h.named /\ ~h.valid
    BY <1>5, SettleFacts
  <2>3. Unnamed(till[p], h)
    BY <2>1, <2>2, ValidTill DEF Unnamed, Selling
  <2> QED
    BY <2>1, <2>2, <2>3, CodePut, CodeQuietStep
<1>6. CASE IssueItems(p)
  <2> DEFINE h == [till[p] EXCEPT !.step = "count"]
  <2>1. /\ discount' = discount /\ given' = given /\ contended' = contended
        /\ till[p].step = "issue" /\ Puts(p, h)
    BY <1>6, IssueItemsFacts DEF catalog
  <2>2. h.named = till[p].named /\ h.valid = till[p].valid /\ h.step = "count"
    BY TillIs DEF Till
  <2> HIDE DEF h
  <2>3. Unnamed(till[p], h)
    BY <2>1, <2>2 DEF Unnamed
  <2> QED
    BY <2>1, <2>3, CodePut, CodeQuietStep
<1>7. CASE CountSold(p)
  <2> DEFINE h == [till[p] EXCEPT !.step = "commission"]
  <2>1. /\ discount' = discount /\ given' = given /\ contended' = contended
        /\ till[p].step = "count" /\ Puts(p, h)
    BY <1>7, CountSoldFacts
  <2>2. h.named = till[p].named /\ h.valid = till[p].valid /\ h.step = "commission"
    BY TillIs DEF Till
  <2> HIDE DEF h
  <2>3. Unnamed(till[p], h)
    BY <2>1, <2>2 DEF Unnamed
  <2> QED
    BY <2>1, <2>3, CodePut, CodeQuietStep
<1>8. CASE RecordCommission(p)
  <2>1. /\ discount' = discount /\ given' = given /\ contended' = contended
        /\ till[p].step = "commission" /\ Puts(p, Closed)
    BY <1>8, RecordCommissionFacts DEF catalog
  <2> QED
    BY <2>1, ValidTill, CodeClose, CodeQuietStep DEF Selling
<1>9. CASE WriteLocality(p)
  <2>1. /\ discount' = discount /\ given' = given /\ contended \subseteq contended'
        /\ till[p].step \in {"quota", "sold"} /\ Puts(p, Closed)
    BY <1>9, WriteLocalityFacts
  <2> QED
    BY <2>1, ValidTill, CodeClose, CodeQuietStep DEF Selling
<1>10. CASE WriteStage(p)
  <2>1. /\ discount' = discount /\ given' = given /\ contended' = contended
        /\ till[p].step \in {"price", "move"} /\ Puts(p, Closed)
    BY <1>10, WriteStageFacts
  <2> QED
    BY <2>1, ValidTill, CodeClose, CodeQuietStep DEF Selling
<1>11. CASE WriteDiscount(p)
  <2>1. /\ given' = given /\ contended' = contended
        /\ till[p].step \in {"edit", "toggle"} /\ Puts(p, Closed)
        /\ discount.type = 0 => discount' = discount
        /\ discount.type # 0 => discount'.type # 0 /\ discount'.max = discount.max
                                /\ discount'.uses = discount.uses
    BY <1>11, WriteDiscountFacts
  <2>2. ~till[p].valid
    BY <2>1, ValidTill DEF Selling
  <2> QED
    BY <2>1, <2>2, CodeClose, CodeQuietStep
<1>12. CASE WriteLimit(p)
  BY <1>12, WriteLimitCode
<1> QED
  BY <1>1, <1>2, <1>3, <1>4, <1>5, <1>6, <1>7, <1>8, <1>9, <1>10, <1>11, <1>12 DEF SaleStep

LEMMA CodeStep ==
  ASSUME Standing, CodeInv, [Next]_vars
  PROVE  CodeInv'
<1>1. SaleShape
  BY DEF Standing
<1>2. CASE AskTill
  <2>1. ASSUME NEW p \in Request, NEW cart \in Cart, NEW named \in BOOLEAN,
               NEW c \in Code \cup {None}, ReadCart(p, cart, named, c)
        PROVE  CodeInv'
    BY <1>1, <2>1, QuoteCode DEF ReadCart
  <2>2. ASSUME NEW p \in Request, NEW h \in Till, till[p].step = "idle", Edits(h), Puts(p, h),
               UNCHANGED <<catalog, invoice, given, contended>>
        PROVE  CodeInv'
    <3>1. discount' = discount /\ given' = given /\ contended' = contended
      BY <2>2 DEF catalog
    <3>2. Unnamed(till[p], h)
      BY <1>1, <2>2, ValidTill DEF Edits, Editing, Unnamed, Selling
    <3> QED
      BY <2>2, <3>1, <3>2, CodePut, CodeQuietStep
  <2>3. ASSUME NEW o \in Offer, CreateDiscount(o) PROVE CodeInv'
    BY <1>1, <2>3, CreateCode0
  <2>4. ASSUME DeleteDiscount PROVE CodeInv'
    <3>1. discount'.type = 0 /\ discount'.max = 0
      BY <1>1, <2>4, DeleteDiscountFacts DEF NoDiscount
    <3> QED
      BY <3>1 DEF CodeInv
  <2>5. ASSUME NEW row \in [status: EventStatus, max: Limit], UpdateEvent(row) PROVE CodeInv'
    BY <1>1, <2>5, UpdateEventFacts, CodeTills, CodeQuietStep
  <2> QED
    BY <1>2, <2>1, <2>2, <2>3, <2>4, <2>5, AskTillFacts
<1>3. ASSUME NEW p \in Request, SaleStep(p) PROVE CodeInv'
  BY <1>1, <1>3, CodeSaleStep
<1>4. ASSUME NEW p \in Request, FailSale(p) PROVE CodeInv'
  <2>1. /\ Puts(p, Closed) /\ contended \subseteq contended' /\ discount' = discount
        /\ given' = given
        /\ till[p].named => Meeting \in contended'
    BY <1>1, <1>4, FailSaleFacts DEF catalog, Meeting
  <2>2. ~till[p].valid \/ Meeting \in contended'
    BY <1>1, <2>1, ValidTill
  <2> QED
    BY <2>1, <2>2, CodeClose, CodeQuietStep
<1>5. CASE Advance
  BY <1>1, <1>5, AdvanceFacts, CodeTills, CodeQuietStep
<1>6. CASE PromoterNext /\ UNCHANGED saleVars
  BY <1>6, DeskStepStands, CodeTills, CodeQuietStep
<1>7. CASE UNCHANGED vars
  BY <1>7, CodeTills, CodeQuietStep DEF vars, saleVars, catalog
<1> QED
  BY <1>2, <1>3, <1>4, <1>5, <1>6, <1>7 DEF Next

LEMMA CodeInit == Init => CodeInv
<1> SUFFICES ASSUME Init PROVE CodeInv
  OBVIOUS
<1>1. SaleShape
  BY StandingInit DEF Standing
<1>2. PICK o \in Offer : discount = Created(o)
  BY DEF Init
<1>3. /\ discount.type # 0 /\ discount.uses = 0 /\ discount.max \in Nat
  BY <1>2, OfferAssumption DEF Created
<1>4. given = 0 /\ \A p \in Request : ~till[p].named /\ ~till[p].valid
  BY ClosedShape DEF Init
<1> QED
  BY <1>3, <1>4 DEF CodeInv, CodeCounts

----------------------------------------------------------------------------
(***************************************************************************)
(* The limits: a locality on which no two buyers met has one sale under    *)
(* way, that was within the quota when it was quoted, and its counter      *)
(* lags behind the tickets issued by the sale that is being counted.       *)
(***************************************************************************)
Touches(s, L) == \E k \in DOMAIN s : s[k].locality \in L

\* A sale under way in localities L: before its items are in the table, or after.
Sells(h, L) == h.step \in {"quote", "insert", "items"} /\ Touches(h.cart, L)
Pending(i) == invoice[i].status = "ISSUED" \/ \E p \in Request : till[p].invoice = i
Billed(i, L) == Pending(i) /\ Touches(invoice[i].items, L)
Unissued(i) == \/ invoice[i].status = "ISSUED"
               \/ \E p \in Request : till[p].invoice = i /\ till[p].step = "issue"

OneSale(L) ==
  /\ \A p, q \in Request : Sells(till[p], L) /\ Sells(till[q], L) => p = q
  /\ \A i, j \in Invoice : Billed(i, L) /\ Billed(j, L) => i = j
  /\ \A p \in Request, i \in Invoice : ~(Sells(till[p], L) /\ Billed(i, L))

\* The tickets issued in L, and those of the sale under way, are within the limit.
Fits(L, max) ==
  max = 0
  \/ /\ SoldIn(L) <= max
     /\ \A p \in Request : Sells(till[p], L) => SoldIn(L) + QtyIn(till[p].cart, L) <= max
     /\ \A i \in Invoice : Billed(i, L) /\ Unissued(i) =>
                             SoldIn(L) + QtyIn(invoice[i].items, L) <= max

\* The tickets of a settlement are issued first, and counted after that.
ItemsOf(p) == invoice[till[p].invoice].items
Counting(p, l) == till[p].step = "count" /\ Touches(ItemsOf(p), {l})
Counted(l) ==
  /\ \A p \in Request : Counting(p, l) =>
       locality[l].sold + QtyIn(ItemsOf(p), {l}) = SoldIn({l})
  /\ (\A p \in Request : ~Counting(p, l)) => locality[l].sold = SoldIn({l})

Unmet(l) == <<"locality", l>> \notin contended
LocalityInv(l) == OneSale({l}) /\ Fits({l}, locality[l].quota) /\ Counted(l)
EventInv == OneSale(Locality) /\ Fits(Locality, event.max)
LimitsInv == /\ \A l \in Locality : Unmet(l) => LocalityInv(l)
             /\ <<"event", None>> \notin contended => EventInv

\* What a step does to the sales in L, and to the counter of l.
Respects(L) == OneSale(L) => OneSale(L)' /\ \A max \in Nat : Fits(L, max) => Fits(L, max)'
Recounts(l) == OneSale({l}) /\ Counted(l) => Counted(l)'

LEMMA RespectLocalities ==
  ASSUME SaleShape, LimitsInv, contended \subseteq contended',
         \A l \in Locality : Unmet(l)' => Respects({l}) /\ Recounts(l)
                                          /\ locality'[l].quota = locality[l].quota
  PROVE  \A l \in Locality : Unmet(l)' => LocalityInv(l)'
<1> SUFFICES ASSUME NEW l \in Locality, Unmet(l)' PROVE LocalityInv(l)'
  OBVIOUS
<1>1. Unmet(l)
  BY DEF Unmet
<1>2. LocalityInv(l)
  BY <1>1 DEF LimitsInv
<1>3. Respects({l}) /\ Recounts(l) /\ locality'[l].quota = locality[l].quota
  OBVIOUS
<1>4. OneSale({l})' /\ Counted(l)'
  BY <1>2, <1>3 DEF LocalityInv, Respects, Recounts
<1>5. PICK n \in Nat : n = locality[l].quota
  BY DEF SaleShape, SaleTypeOK
<1>6. Fits({l}, n)'
  BY <1>2, <1>3, <1>5 DEF LocalityInv, Respects
<1>7. Fits({l}, locality[l].quota)'
  BY <1>3, <1>5, <1>6 DEF Fits
<1> QED
  BY <1>4, <1>7 DEF LocalityInv

LEMMA RespectEvent ==
  ASSUME SaleShape, LimitsInv, contended \subseteq contended', Respects(Locality),
         event'.max = event.max
  PROVE  <<"event", None>> \notin contended' => EventInv'
<1> SUFFICES ASSUME <<"event", None>> \notin contended' PROVE EventInv'
  OBVIOUS
<1>1. EventInv
  BY DEF LimitsInv
<1>2. PICK n \in Nat : n = event.max
  BY DEF SaleShape, SaleTypeOK
<1>3. OneSale(Locality)' /\ Fits(Locality, n)'
  BY <1>1, <1>2 DEF EventInv, Respects
<1>4. Fits(Locality, event.max)'
  BY <1>2, <1>3 DEF Fits
<1> QED
  BY <1>3, <1>4 DEF EventInv

LEMMA RespectStep ==
  ASSUME SaleShape, LimitsInv, contended \subseteq contended', Respects(Locality),
         event'.max = event.max,
         \A l \in Locality : Unmet(l)' => Respects({l}) /\ Recounts(l)
                                          /\ locality'[l].quota = locality[l].quota
  PROVE  LimitsInv'
<1>1. \A l \in Locality : Unmet(l)' => LocalityInv(l)'
  BY RespectLocalities
<1>2. <<"event", None>> \notin contended' => EventInv'
  BY RespectEvent
<1> QED
  BY <1>1, <1>2 DEF LimitsInv

\* A step that starts no sale in L and issues no tickets there.
Neutral(L) ==
  /\ SoldIn(L)' = SoldIn(L)
  /\ \A q \in Request : Sells(till'[q], L) => Sells(till[q], L) /\ till'[q].cart = till[q].cart
  /\ \A i \in Invoice : Billed(i, L)' =>
       Billed(i, L) /\ QtyIn(invoice'[i].items, L) = QtyIn(invoice[i].items, L)
  /\ \A i \in Invoice : Unissued(i)' => Unissued(i) \/ ~Billed(i, L)'

LEMMA NeutralRespects ==
  ASSUME NEW L, Neutral(L)
  PROVE  Respects(L)
<1> SUFFICES ASSUME OneSale(L)
             PROVE  OneSale(L)' /\ \A max \in Nat : Fits(L, max) => Fits(L, max)'
  BY DEF Respects
<1>1. /\ SoldIn(L)' = SoldIn(L)
      /\ \A q \in Request : Sells(till'[q], L) => Sells(till[q], L) /\ till'[q].cart = till[q].cart
      /\ \A i \in Invoice : Billed(i, L)' =>
           Billed(i, L) /\ QtyIn(invoice'[i].items, L) = QtyIn(invoice[i].items, L)
      /\ \A i \in Invoice : Unissued(i)' => Unissued(i) \/ ~Billed(i, L)'
  BY DEF Neutral
<1>2. OneSale(L)'
  BY <1>1 DEF OneSale
<1>3. ASSUME NEW max \in Nat, Fits(L, max) PROVE Fits(L, max)'
  <2>1. CASE max = 0
    BY <2>1 DEF Fits
  <2>2. CASE max # 0
    <3>1. /\ SoldIn(L) <= max
          /\ \A p \in Request : Sells(till[p], L) => SoldIn(L) + QtyIn(till[p].cart, L) <= max
          /\ \A i \in Invoice : Billed(i, L) /\ Unissued(i) =>
                                  SoldIn(L) + QtyIn(invoice[i].items, L) <= max
      BY <1>3, <2>2 DEF Fits
    <3>2. \A p \in Request : Sells(till'[p], L) =>
                               SoldIn(L)' + QtyIn(till'[p].cart, L) <= max
      BY <1>1, <3>1
    <3>3. \A i \in Invoice : Billed(i, L)' /\ Unissued(i)' =>
                               SoldIn(L)' + QtyIn(invoice'[i].items, L) <= max
      BY <1>1, <3>1
    <3> QED
      BY <1>1, <3>1, <3>2, <3>3 DEF Fits
  <2> QED
    BY <2>1, <2>2
<1> QED
  BY <1>2, <1>3

----------------------------------------------------------------------------
\* What the sums of tickets do.

\* IssuedIn and SoldIn of any table.
IssuedOf(r, L) ==
  IF r.status # "PAID" THEN 0
  ELSE SumFunction([k \in DOMAIN r.items |->
         IF r.items[k].issued /\ r.items[k].locality \in L THEN r.items[k].qty ELSE 0])
SoldOf(t, L) == SumFunction([i \in Invoice |-> IssuedOf(t[i], L)])

LEMMA SoldIs ==
  ASSUME NEW L
  PROVE  /\ SoldIn(L) = SoldOf(invoice, L) /\ SoldIn(L)' = SoldOf(invoice', L)
         /\ \A i \in Invoice : IssuedIn(i, L) = IssuedOf(invoice[i], L)
<1>1. /\ \A i \in Invoice : IssuedIn(i, L) = IssuedOf(invoice[i], L)
      /\ \A i \in Invoice : IssuedIn(i, L)' = IssuedOf(invoice'[i], L)
  BY DEF IssuedIn, IssuedOf
<1>2. SoldIn(L) = SoldOf(invoice, L)
  BY <1>1 DEF SoldIn, SoldOf
<1>3. SoldIn(L)' = SoldOf(invoice', L)
  BY <1>1 DEF SoldIn, SoldOf
<1> QED
  BY <1>1, <1>2, <1>3

LEMMA SoldSame ==
  ASSUME NEW L, NEW t, NEW u, \A i \in Invoice : IssuedOf(u[i], L) = IssuedOf(t[i], L)
  PROVE  SoldOf(u, L) = SoldOf(t, L)
BY DEF SoldOf

LEMMA QtyNone ==
  ASSUME NEW s, IsFiniteSet(DOMAIN s), NEW L, ~Touches(s, L)
  PROVE  QtyIn(s, L) = 0
<1> DEFINE f == [k \in DOMAIN s |-> IF s[k].locality \in L THEN s[k].qty ELSE 0]
<1>1. \A k \in DOMAIN s : f[k] = 0
  BY DEF Touches
<1>2. DOMAIN f = DOMAIN s /\ QtyIn(s, L) = SumFunctionOnSet(f, DOMAIN f)
  BY DEF QtyIn, SumFunction
<1> HIDE DEF f
<1> QED
  BY <1>1, <1>2, SumZero

LEMMA QtySame ==
  ASSUME NEW s, NEW t, DOMAIN t = DOMAIN s,
         \A k \in DOMAIN s : t[k].locality = s[k].locality /\ t[k].qty = s[k].qty, NEW L
  PROVE  QtyIn(t, L) = QtyIn(s, L) /\ (Touches(t, L) <=> Touches(s, L))
BY DEF QtyIn, Touches

LEMMA NotIssued ==
  ASSUME NEW r, r.status # "PAID" \/ (NoneIssued(r.items) /\ IsFiniteSet(DOMAIN r.items)), NEW L
  PROVE  IssuedOf(r, L) = 0
<1>1. CASE r.status # "PAID"
  BY <1>1 DEF IssuedOf
<1>2. CASE r.status = "PAID" /\ NoneIssued(r.items) /\ IsFiniteSet(DOMAIN r.items)
  <2> DEFINE f == [k \in DOMAIN r.items |->
                IF r.items[k].issued /\ r.items[k].locality \in L THEN r.items[k].qty ELSE 0]
  <2>1. \A k \in DOMAIN r.items : f[k] = 0
    BY <1>2 DEF NoneIssued
  <2>2. DOMAIN f = DOMAIN r.items /\ IssuedOf(r, L) = SumFunctionOnSet(f, DOMAIN f)
    BY <1>2 DEF IssuedOf, SumFunction
  <2> HIDE DEF f
  <2> QED
    BY <1>2, <2>1, <2>2, SumZero
<1> QED
  BY <1>1, <1>2

LEMMA WhollyIssued ==
  ASSUME NEW r, r.status = "PAID", AllIssued(r.items), NEW L
  PROVE  IssuedOf(r, L) = QtyIn(r.items, L)
BY DEF IssuedOf, QtyIn, AllIssued

\* The tickets of one invoice are issued.
LEMMA SoldGrows ==
  ASSUME invoice \in [Invoice -> InvoiceRow], NEW L, NEW u, NEW i \in Invoice,
         \A j \in Invoice \ {i} : u[j] = invoice[j],
         IssuedOf(invoice[i], L) = 0, IssuedOf(u[i], L) \in Nat
  PROVE  SoldOf(u, L) = SoldOf(invoice, L) + IssuedOf(u[i], L)
<1> DEFINE f == [j \in Invoice |-> IssuedOf(invoice[j], L)]
           g == [j \in Invoice |-> IssuedOf(u[j], L)]
<1>1. \A j \in Invoice : f[j] \in Nat
  BY IssuedNat, SoldIs
<1>2. /\ DOMAIN f = Invoice /\ DOMAIN g = Invoice /\ f[i] = 0 /\ g[i] = IssuedOf(u[i], L)
      /\ SoldOf(invoice, L) = SumFunctionOnSet(f, Invoice)
      /\ SoldOf(u, L) = SumFunctionOnSet(g, Invoice)
  BY DEF SoldOf, SumFunction
<1>3. \A j \in Invoice \ {i} : g[j] = f[j]
  OBVIOUS
<1> HIDE DEF f, g
<1>4. SumFunctionOnSet(g, Invoice) = SumFunctionOnSet(f, Invoice) - f[i] + g[i]
  BY <1>1, <1>2, <1>3, FiniteAssumption, SumChange
<1>5. SumFunctionOnSet(f, Invoice) \in Nat
  BY <1>1, FiniteAssumption, SumNat
<1> QED
  BY <1>2, <1>4, <1>5

LEMMA RowsFinite ==
  ASSUME SaleShape, NEW i \in Invoice
  PROVE  /\ invoice[i] \in InvoiceRow /\ IsFiniteSet(DOMAIN invoice[i].items)
         /\ \A L : QtyIn(invoice[i].items, L) \in Nat
<1>1. invoice[i] \in InvoiceRow
  BY DEF SaleShape, SaleTypeOK
<1>2. invoice[i].items \in Seq(ItemRows)
  BY <1>1 DEF InvoiceRow
<1>3. /\ IsFiniteSet(DOMAIN invoice[i].items)
      /\ \A k \in DOMAIN invoice[i].items : invoice[i].items[k] \in ItemRows
  BY <1>2, ItemsFacts
<1>4. \A k \in DOMAIN invoice[i].items : invoice[i].items[k].qty \in Nat
  BY <1>3 DEF ItemRows
<1> QED
  BY <1>1, <1>3, <1>4, QtyNat

----------------------------------------------------------------------------
(***************************************************************************)
(* The limits, step by step.  Most steps write no invoice and take no      *)
(* sale on.                                                                *)
(***************************************************************************)
\* A till that goes on with the sale it has, or leaves it.
Fades(h, g) ==
  /\ g.step \in {"quote", "insert", "items"} =>
       h.step \in {"quote", "insert", "items"} /\ g.cart = h.cart
  /\ g.invoice \in Invoice => h.invoice = g.invoice
  /\ g.step = "issue" => h.step = "issue"

LEMMA FadesRespects ==
  ASSUME invoice' = invoice, \A q \in Request : Fades(till[q], till'[q]), NEW L
  PROVE  Respects(L)
<1>1. SoldIn(L)' = SoldIn(L)
  BY SoldIs
<1>2. \A q \in Request : Sells(till'[q], L) => Sells(till[q], L) /\ till'[q].cart = till[q].cart
  BY DEF Fades, Sells
<1>3. ASSUME NEW i \in Invoice PROVE Pending(i)' => Pending(i)
  BY DEF Fades, Pending
<1>4. \A i \in Invoice : Billed(i, L)' =>
        Billed(i, L) /\ QtyIn(invoice'[i].items, L) = QtyIn(invoice[i].items, L)
  BY <1>3 DEF Billed
<1>5. ASSUME NEW i \in Invoice PROVE Unissued(i)' => Unissued(i)
  BY DEF Fades, Unissued
<1> QED
  BY <1>1, <1>2, <1>4, <1>5, NeutralRespects DEF Neutral

\* A step that neither starts nor ends the count of tickets of locality l.
Counts(l) ==
  /\ locality'[l].sold = locality[l].sold
  /\ SoldIn({l})' = SoldIn({l})
  /\ \A q \in Request : Counting(q, l)' <=> Counting(q, l)
  /\ \A q \in Request : Counting(q, l) => ItemsOf(q)' = ItemsOf(q)

LEMMA CountsRecounts ==
  ASSUME NEW l \in Locality, Counts(l)
  PROVE  Recounts(l)
<1> SUFFICES ASSUME Counted(l) PROVE Counted(l)'
  BY DEF Recounts
<1>1. /\ locality'[l].sold = locality[l].sold
      /\ SoldIn({l})' = SoldIn({l})
      /\ \A q \in Request : Counting(q, l)' <=> Counting(q, l)
      /\ \A q \in Request : Counting(q, l) => ItemsOf(q)' = ItemsOf(q)
  BY DEF Counts
<1>2. \A q \in Request : Counting(q, l)' =>
        locality'[l].sold + QtyIn(ItemsOf(q)', {l}) = SoldIn({l})'
  BY <1>1 DEF Counted
<1>3. (\A q \in Request : ~Counting(q, l)') => locality'[l].sold = SoldIn({l})'
  BY <1>1 DEF Counted
<1> QED
  BY <1>2, <1>3 DEF Counted

\* The tills count what they counted, and no invoice that is counted is written.
LEMMA SameCounts ==
  ASSUME NEW l \in Locality, locality'[l].sold = locality[l].sold, SoldIn({l})' = SoldIn({l}),
         \A q \in Request : till'[q].step = "count" <=> till[q].step = "count",
         \A q \in Request : till[q].step = "count" => ItemsOf(q)' = ItemsOf(q)
  PROVE  Recounts(l)
<1>1. ASSUME NEW q \in Request PROVE Counting(q, l)' <=> Counting(q, l)
  BY DEF Counting
<1>2. \A q \in Request : Counting(q, l) => ItemsOf(q)' = ItemsOf(q)
  BY DEF Counting
<1> QED
  BY <1>1, <1>2, CountsRecounts DEF Counts

\* A till goes from step to step within its settlement, or closes, and writes no invoice.
LEMMA OneFades ==
  ASSUME invoice' = invoice, NEW p \in Request, NEW h, Puts(p, h), Fades(till[p], h)
  PROVE  /\ \A L : Respects(L)
         /\ \A L : SoldIn(L)' = SoldIn(L)
         /\ till'[p] = h /\ \A q \in Request \ {p} : till'[q] = till[q]
         /\ \A q \in Request \ {p} : ItemsOf(q)' = ItemsOf(q)
<1>1. till'[p] = h /\ \A q \in Request \ {p} : till'[q] = till[q]
  BY DEF Puts
<1>2. \A q \in Request : Fades(till[q], till'[q])
  <2> SUFFICES ASSUME NEW q \in Request PROVE Fades(till[q], till'[q])
    OBVIOUS
  <2>1. CASE q = p
    BY <1>1, <2>1
  <2>2. CASE q # p
    BY <1>1, <2>2 DEF Fades
  <2> QED
    BY <2>1, <2>2
<1>3. \A L : Respects(L)
  BY <1>2, FadesRespects
<1>4. \A L : SoldIn(L)' = SoldIn(L)
  BY SoldIs
<1>5. \A q \in Request \ {p} : ItemsOf(q)' = ItemsOf(q)
  BY <1>1 DEF ItemsOf
<1> QED
  BY <1>1, <1>3, <1>4, <1>5

\* A step of till p, that is not in a settlement nor gets into one, and writes no invoice.
LEMMA FadingStep ==
  ASSUME SaleShape, LimitsInv, invoice' = invoice, contended \subseteq contended',
         event'.max = event.max, locality' = locality,
         NEW p \in Request, NEW h, Puts(p, h), Fades(till[p], h),
         till[p].step # "count", h.step # "count"
  PROVE  LimitsInv'
<1>1. till'[p] = h /\ \A q \in Request \ {p} : till'[q] = till[q]
  BY DEF Puts
<1>2. ASSUME NEW q \in Request PROVE Fades(till[q], till'[q])
  <2>1. CASE q = p
    BY <1>1, <2>1
  <2>2. CASE q # p
    BY <1>1, <2>2 DEF Fades
  <2> QED
    BY <2>1, <2>2
<1>3. Respects(Locality) /\ \A l \in Locality : Respects({l})
  BY <1>2, FadesRespects
<1>4. \A q \in Request : till'[q].step = "count" <=> till[q].step = "count"
  BY <1>1
<1>5. \A q \in Request : till[q].step = "count" => ItemsOf(q)' = ItemsOf(q)
  BY <1>1 DEF ItemsOf
<1>6. ASSUME NEW l \in Locality PROVE Recounts(l)
  <2>1. SoldIn({l})' = SoldIn({l})
    BY SoldIs
  <2> QED
    BY <1>4, <1>5, <2>1, SameCounts
<1> QED
  BY <1>3, <1>6, RespectStep

\* Nothing changes for the sales.
LEMMA NoSaleStep ==
  ASSUME SaleShape, LimitsInv, invoice' = invoice, contended \subseteq contended',
         event'.max = event.max, locality' = locality, till' = till
  PROVE  LimitsInv'
<1>1. Respects(Locality) /\ \A l \in Locality : Respects({l})
  BY FadesRespects DEF Fades
<1>2. ASSUME NEW l \in Locality PROVE Recounts(l)
  <2>1. SoldIn({l})' = SoldIn({l})
    BY SoldIs
  <2>2. \A q \in Request : ItemsOf(q)' = ItemsOf(q)
    BY DEF ItemsOf
  <2> QED
    BY <2>1, <2>2, SameCounts
<1> QED
  BY <1>1, <1>2, RespectStep

LEMMA ClosedFades == ASSUME NEW h PROVE Fades(h, Closed) /\ Closed.step # "count"
BY ClosedShape, NoneIsNone DEF Fades

----------------------------------------------------------------------------
\* The steps that write no invoice and start no sale.
LEMMA ReadDiscountsLimits ==
  ASSUME SaleShape, LimitsInv, NEW p \in Request, ReadDiscounts(p)
  PROVE  LimitsInv'
<1>1. /\ SaleShape' /\ till[p].step = "quote" /\ invoice' = invoice /\ contended' = contended
      /\ locality' = locality /\ event' = event
      /\ \/ Puts(p, Closed)
         \/ \E h \in Till : Puts(p, h) /\ h.step = "insert" /\ h.cart = till[p].cart
  BY ReadDiscountsFacts DEF catalog
<1>2. CASE Puts(p, Closed)
  BY <1>1, <1>2, ClosedFades, FadingStep
<1>3. ASSUME NEW h \in Till, Puts(p, h), h.step = "insert", h.cart = till[p].cart
      PROVE  LimitsInv'
  <2>1. TillsInShape' /\ till'[p] = h
    BY <1>3 DEF Puts
  <2>2. h.invoice = None
    BY <1>3, <2>1 DEF TillsInShape, TillShape, Invoiced, Settling
  <2>3. Fades(till[p], h)
    BY <1>1, <1>3, <2>2, NoneIsNone DEF Fades
  <2> QED
    BY <1>1, <1>3, <2>3, FadingStep
<1> QED
  BY <1>1, <1>2, <1>3

LEMMA ClosingLimits ==
  ASSUME SaleShape, LimitsInv, Standing, NEW p \in Request,
         \/ IncrementUses(p) \/ WriteStage(p) \/ WriteDiscount(p) \/ WriteLimit(p)
         \/ RecordCommission(p)
  PROVE  LimitsInv'
<1>1. CASE IncrementUses(p)
  <2>1. /\ till[p].step = "uses" /\ Puts(p, Closed) /\ invoice' = invoice
        /\ contended' = contended /\ locality' = locality /\ event' = event
    BY <1>1, IncrementUsesFacts
  <2> QED
    BY <2>1, ClosedFades, FadingStep
<1>2. CASE WriteStage(p)
  <2>1. /\ till[p].step \in {"price", "move"} /\ Puts(p, Closed) /\ invoice' = invoice
        /\ contended' = contended /\ locality' = locality /\ event' = event
    BY <1>2, WriteStageFacts
  <2> QED
    BY <2>1, ClosedFades, FadingStep
<1>3. CASE WriteDiscount(p)
  <2>1. /\ till[p].step \in {"edit", "toggle"} /\ Puts(p, Closed) /\ invoice' = invoice
        /\ contended' = contended /\ locality' = locality /\ event' = event
    BY <1>3, WriteDiscountFacts
  <2> QED
    BY <2>1, ClosedFades, FadingStep
<1>4. CASE RecordCommission(p)
  <2>1. /\ till[p].step = "commission" /\ Puts(p, Closed) /\ invoice' = invoice
        /\ contended' = contended /\ locality' = locality /\ event' = event
    BY <1>4, RecordCommissionFacts DEF catalog
  <2> QED
    BY <2>1, ClosedFades, FadingStep
<1>5. CASE WriteLimit(p)
  <2>1. /\ till[p].step = "limit" /\ Puts(p, Closed) /\ invoice' = invoice
        /\ contended \subseteq contended' /\ locality' = locality /\ event' = event
    BY <1>5, WriteLimitFacts
  <2> QED
    BY <2>1, ClosedFades, FadingStep
<1> QED
  BY <1>1, <1>2, <1>3, <1>4, <1>5

\* A sale or a bill in a locality is outstanding.
LEMMA OutstandingIs ==
  ASSUME NEW L
  PROVE  /\ \A p \in Request : Sells(till[p], L) => Outstanding \cap L # {}
         /\ \A i \in Invoice : Billed(i, L) => Outstanding \cap L # {}
<1>1. ASSUME NEW p \in Request, Sells(till[p], L) PROVE Outstanding \cap L # {}
  <2>1. PICK k \in DOMAIN till[p].cart : till[p].cart[k].locality \in L
    BY <1>1 DEF Sells, Touches
  <2>2. till[p].cart[k].locality \in LocalitiesOf(till[p].cart)
    BY DEF LocalitiesOf
  <2>3. till[p].cart[k].locality \in Outstanding
    BY <2>2 DEF Outstanding
  <2> QED
    BY <2>1, <2>3
<1>2. ASSUME NEW i \in Invoice, Billed(i, L) PROVE Outstanding \cap L # {}
  <2>1. PICK k \in DOMAIN invoice[i].items : invoice[i].items[k].locality \in L
    BY <1>2 DEF Billed, Touches
  <2>2. invoice[i].items[k].locality \in LocalitiesOf(invoice[i].items)
    BY DEF LocalitiesOf
  <2>3. i \in {j \in Invoice : \/ invoice[j].status = "ISSUED"
                              \/ \E p \in Request : till[p].invoice = j}
    BY <1>2 DEF Billed, Pending
  <2>4. invoice[i].items[k].locality \in Outstanding
    BY <2>2, <2>3 DEF Outstanding
  <2> QED
    BY <2>1, <2>4
<1> QED
  BY <1>1, <1>2

\* Nobody sells in L, and what was issued there is within the limit.
LEMMA NobodyFits ==
  ASSUME NEW L, NEW max \in Nat, max = 0 \/ SoldIn(L) <= max,
         \A p \in Request : ~Sells(till[p], L), \A i \in Invoice : ~Billed(i, L)
  PROVE  OneSale(L) /\ Fits(L, max)
BY DEF OneSale, Fits

\* A quota that is lowered below what was sold, or while somebody buys, is a meeting; so is a
\* count that is written by hand.
LEMMA WriteLocalityLimits ==
  ASSUME SaleShape, LimitsInv, NEW p \in Request, WriteLocality(p)
  PROVE  LimitsInv'
<1>0. PICK l \in Locality : l = till[p].locality
  BY WriteLocalityFacts
<1>1. /\ Puts(p, Closed) /\ invoice' = invoice /\ SaleShape' /\ event' = event
      /\ till[p].step \in {"quota", "sold"}
      /\ \A m \in Locality \ {l} : locality'[m] = locality[m]
      /\ contended \subseteq contended'
  BY <1>0, WriteLocalityFacts
<1>2. Unmet(l)' => /\ locality'[l].sold = locality[l].sold
                   /\ l \notin Outstanding /\ ~(SoldIn({l}) > locality'[l].quota)
  <2>1. Unmet(l)' => till[p].step = "quota" /\ l \notin Outstanding /\ ~(SoldIn({l}) > till[p].n)
    BY <1>0, <1>1, WriteLocalityFacts DEF Unmet
  <2>2. till[p].step = "quota" => /\ locality'[l].sold = locality[l].sold
                                  /\ locality'[l].quota = till[p].n
    <3>1. locality[l] \in [quota: Nat, sold: Nat]
      BY DEF SaleShape, SaleTypeOK
    <3>2. till[p].step = "quota" => locality'[l] = [locality[l] EXCEPT !.quota = till[p].n]
      BY <1>0, WriteLocalityFacts
    <3> QED
      BY <3>1, <3>2
  <2> QED
    BY <2>1, <2>2
<1>3. Fades(till[p], Closed)
  BY ClosedFades
<1>4. /\ \A L : Respects(L)
      /\ \A L : SoldIn(L)' = SoldIn(L)
      /\ till'[p] = Closed /\ \A q \in Request \ {p} : till'[q] = till[q]
      /\ \A q \in Request \ {p} : ItemsOf(q)' = ItemsOf(q)
  BY <1>1, <1>3, OneFades
<1>5. \A q \in Request : till'[q].step = "count" <=> till[q].step = "count"
  BY <1>1, <1>4, ClosedShape
<1>6. \A q \in Request : till[q].step = "count" => ItemsOf(q)' = ItemsOf(q)
  BY <1>1, <1>4
<1>7. ASSUME NEW m \in Locality, Unmet(m)' PROVE Recounts(m)
  <2>1. locality'[m].sold = locality[m].sold
    BY <1>1, <1>2, <1>7
  <2> QED
    BY <1>4, <1>5, <1>6, <2>1, SameCounts
<1>8. ASSUME NEW m \in Locality, Unmet(m)' PROVE LocalityInv(m)'
  <2>1. Unmet(m) /\ LocalityInv(m)
    BY <1>1, <1>8 DEF Unmet, LimitsInv
  <2>2. OneSale({m})' /\ Counted(m)'
    BY <1>4, <1>7, <1>8, <2>1 DEF LocalityInv, Respects, Recounts
  <2>3. PICK n \in Nat : n = locality'[m].quota
    BY <1>1 DEF SaleShape, SaleTypeOK
  <2>4. CASE m # l
    <3>1. Fits({m}, n)
      BY <1>1, <2>1, <2>3, <2>4 DEF LocalityInv
    <3> QED
      BY <1>4, <2>1, <2>2, <2>3, <3>1 DEF LocalityInv, Respects, Fits
  <2>5. CASE m = l
    <3>1. Outstanding \cap {m} = {} /\ ~(SoldIn({m}) > n)
      BY <1>2, <1>8, <2>3, <2>5
    <3>2. SoldIn({m}) <= n
      BY <2>3, <3>1, SoldNat DEF SaleShape, SaleTypeOK
    <3>3. Fits({m}, n)
      BY <2>3, <3>1, <3>2, OutstandingIs, NobodyFits
    <3>4. Fits({m}, n)'
      BY <1>4, <2>1, <2>3, <3>3 DEF LocalityInv, Respects
    <3> QED
      BY <2>2, <2>3, <3>4 DEF LocalityInv, Fits
  <2> QED
    BY <2>4, <2>5
<1>9. <<"event", None>> \notin contended' => EventInv'
  BY <1>1, <1>4, RespectEvent
<1> QED
  BY <1>8, <1>9 DEF LimitsInv

\* So is a limit of the event that is written below what was sold, or while somebody buys.
LEMMA UpdateEventLimits ==
  ASSUME SaleShape, LimitsInv, NEW row \in [status: EventStatus, max: Limit], UpdateEvent(row)
  PROVE  LimitsInv'
<1>1. /\ SaleShape' /\ contended \subseteq contended'
      /\ event'.max # event.max /\ (Outstanding # {} \/ SoldIn(Locality) > event'.max)
           => <<"event", None>> \in contended'
      /\ locality' = locality /\ invoice' = invoice /\ till' = till
  BY UpdateEventFacts
<1>2. CASE event'.max = event.max
  BY <1>1, <1>2, NoSaleStep
<1>3. CASE event'.max # event.max
  <2>1. \A L : Respects(L)
    BY <1>1, FadesRespects DEF Fades
  <2>2. ASSUME NEW l \in Locality PROVE Recounts(l)
    <3>1. SoldIn({l})' = SoldIn({l})
      BY <1>1, SoldIs
    <3>2. \A q \in Request : ItemsOf(q)' = ItemsOf(q)
      BY <1>1 DEF ItemsOf
    <3> QED
      BY <1>1, <3>1, <3>2, SameCounts
  <2>3. \A l \in Locality : Unmet(l)' => LocalityInv(l)'
    BY <1>1, <2>1, <2>2, RespectLocalities
  <2>4. ASSUME <<"event", None>> \notin contended' PROVE EventInv'
    <3>1. PICK n \in Nat : n = event'.max
      BY <1>1 DEF SaleShape, SaleTypeOK
    <3>2. Outstanding \cap Locality = {} /\ ~(SoldIn(Locality) > n)
      BY <1>1, <1>3, <2>4, <3>1
    <3>3. SoldIn(Locality) <= n
      BY <3>1, <3>2, SoldNat DEF SaleShape, SaleTypeOK
    <3>4. OneSale(Locality) /\ Fits(Locality, n)
      BY <3>1, <3>2, <3>3, OutstandingIs, NobodyFits
    <3>5. OneSale(Locality)' /\ Fits(Locality, n)'
      BY <2>1, <3>1, <3>4 DEF Respects
    <3> QED
      BY <3>1, <3>5 DEF EventInv, Fits
  <2> QED
    BY <2>3, <2>4 DEF LimitsInv
<1> QED
  BY <1>2, <1>3

----------------------------------------------------------------------------
\* The steps that write an invoice that is not issued: it is made, gets its items, is paid.
LEMMA SoldWritten ==
  ASSUME SaleShape, NEW i \in Invoice, NEW r, invoice' = [invoice EXCEPT ![i] = r], NEW L,
         IssuedOf(invoice[i], L) = 0, IssuedOf(r, L) = 0
  PROVE  SoldIn(L)' = SoldIn(L)
<1>1. invoice'[i] = r /\ \A j \in Invoice \ {i} : invoice'[j] = invoice[j]
  BY DEF SaleShape, SaleTypeOK
<1>2. \A j \in Invoice : IssuedOf(invoice'[j], L) = IssuedOf(invoice[j], L)
  BY <1>1
<1>3. SoldOf(invoice', L) = SoldOf(invoice, L)
  BY <1>2, SoldSame
<1> QED
  BY <1>3, SoldIs

\* Till p, that is not counting, writes an invoice that no other till works on.
LEMMA WritingStep ==
  ASSUME SaleShape, LimitsInv, NEW p \in Request, NEW h, Puts(p, h),
         till[p].step # "count", h.step # "count",
         NEW i \in Invoice, NEW r, invoice' = [invoice EXCEPT ![i] = r],
         \A q \in Request \ {p} : till[q].invoice # i,
         contended' = contended, locality' = locality, event' = event,
         \A L : SoldIn(L)' = SoldIn(L), \A L : Respects(L)
  PROVE  LimitsInv'
<1>1. till'[p] = h /\ \A q \in Request \ {p} : till'[q] = till[q]
  BY DEF Puts
<1>2. \A q \in Request : till'[q].step = "count" <=> till[q].step = "count"
  BY <1>1
<1>3. ASSUME NEW q \in Request, till[q].step = "count" PROVE ItemsOf(q)' = ItemsOf(q)
  <2>1. q # p
    BY <1>3
  <2>2. till'[q] = till[q] /\ till[q].invoice \in Invoice /\ till[q].invoice # i
    BY <1>1, <1>3, <2>1, InvoicedTill DEF Invoiced, Settling
  <2>3. invoice'[till[q].invoice] = invoice[till[q].invoice]
    BY <2>2 DEF SaleShape, SaleTypeOK
  <2> QED
    BY <2>2, <2>3 DEF ItemsOf
<1>4. ASSUME NEW l \in Locality PROVE Recounts(l)
  <2>1. locality'[l].sold = locality[l].sold /\ SoldIn({l})' = SoldIn({l})
    OBVIOUS
  <2> QED
    BY <1>2, <1>3, <2>1, SameCounts
<1>5. Respects(Locality) /\ \A l \in Locality : Respects({l})
  OBVIOUS
<1> QED
  BY <1>4, <1>5, RespectStep

\* The sales of the others and their bills are what they were.
LEMMA OthersStay ==
  ASSUME SaleShape, NEW p \in Request, NEW h, Puts(p, h),
         NEW i \in Invoice, NEW r, invoice' = [invoice EXCEPT ![i] = r],
         h.invoice \in {i, None}, NEW j \in Invoice \ {i}, NEW L
  PROVE  /\ Billed(j, L)' => Billed(j, L) /\ invoice'[j] = invoice[j]
         /\ Unissued(j)' => Unissued(j)
<1>1. till'[p] = h /\ \A q \in Request \ {p} : till'[q] = till[q]
  BY DEF Puts
<1>2. invoice'[j] = invoice[j]
  BY DEF SaleShape, SaleTypeOK
<1>3. \A q \in Request : till'[q].invoice = j => till'[q] = till[q]
  BY <1>1, NoneIsNone
<1>4. Pending(j)' => Pending(j)
  BY <1>2, <1>3 DEF Pending
<1>5. Unissued(j)' => Unissued(j)
  BY <1>2, <1>3 DEF Unissued
<1>6. Billed(j, L)' => Billed(j, L)
  BY <1>2, <1>4 DEF Billed
<1> QED
  BY <1>2, <1>5, <1>6

LEMMA InsertInvoiceLimits ==
  ASSUME Booked, LimitsInv, NEW p \in Request, InsertInvoice(p)
  PROVE  LimitsInv'
<1> DEFINE g == till[p]
<1>1. SaleShape /\ TillsHold
  BY DEF Booked, Standing
<1>2. /\ g.step = "insert" /\ contended' = contended /\ locality' = locality /\ event' = event
      /\ \/ Puts(p, Closed) /\ invoice' = invoice
         \/ \E i \in Invoice, h \in Till :
              /\ invoice[i] = NoInvoice
              /\ Puts(p, h) /\ h = [g EXCEPT !.step = "items", !.invoice = i]
              /\ invoice' = [invoice EXCEPT ![i] = Billing(g)]
  BY <1>1, InsertInvoiceFacts DEF catalog
<1>3. CASE Puts(p, Closed) /\ invoice' = invoice
  BY <1>1, <1>2, <1>3, ClosedFades, FadingStep
<1>4. ASSUME NEW i \in Invoice, NEW h \in Till, invoice[i] = NoInvoice, Puts(p, h),
             h = [g EXCEPT !.step = "items", !.invoice = i],
             invoice' = [invoice EXCEPT ![i] = Billing(g)]
      PROVE  LimitsInv'
  <2>1. h.step = "items" /\ h.invoice = i /\ h.cart = g.cart
    BY <1>1, <1>4, TillIs DEF Till
  <2>2. NoInvoice.status = "none" /\ Billing(g).status = "ISSUED" /\ Billing(g).items = <<>>
    BY DEF NoInvoice, Billing
  <2>3. ASSUME NEW q \in Request, till[q].invoice = i PROVE FALSE
    <3>1. till[q].step \in Invoiced
      BY <1>1, <2>3, NoneIsNone, InvoicedTill
    <3>2. Works(till[q], invoice[i])
      BY <1>1, <2>3, <3>1 DEF TillsHold
    <3> QED
      BY <1>4, <2>2, <3>1, <3>2 DEF Works, Invoiced, Settling
  <2>4. ASSUME NEW L PROVE SoldIn(L)' = SoldIn(L)
    <3>1. IssuedOf(invoice[i], L) = 0 /\ IssuedOf(Billing(g), L) = 0
      BY <1>4, <2>2, NotIssued
    <3> QED
      BY <1>1, <1>4, <3>1, SoldWritten
  <2>5. ASSUME NEW L PROVE Respects(L)
    <3>1. till'[p] = h /\ \A q \in Request \ {p} : till'[q] = till[q]
      BY <1>4 DEF Puts
    <3>2. \A q \in Request : Sells(till'[q], L) => Sells(till[q], L) /\ till'[q].cart = till[q].cart
      BY <1>2, <2>1, <3>1 DEF Sells
    <3>3. invoice'[i].items = <<>>
      BY <1>1, <1>4, <2>2 DEF SaleShape, SaleTypeOK
    <3>4. ~Billed(i, L)'
      BY <3>3 DEF Billed, Touches
    <3>5. \A j \in Invoice : Billed(j, L)' =>
            Billed(j, L) /\ QtyIn(invoice'[j].items, L) = QtyIn(invoice[j].items, L)
      BY <1>1, <1>4, <2>1, <3>4, OthersStay
    <3>6. \A j \in Invoice : Unissued(j)' => Unissued(j) \/ ~Billed(j, L)'
      BY <1>1, <1>4, <2>1, <3>4, OthersStay
    <3> QED
      BY <2>4, <3>2, <3>5, <3>6, NeutralRespects DEF Neutral
  <2> HIDE DEF g
  <2> QED
    BY <1>1, <1>2, <1>4, <2>1, <2>3, <2>4, <2>5, WritingStep, ZenonT(40) DEF g
<1> QED
  BY <1>2, <1>3, <1>4

LEMMA SettleLimits ==
  ASSUME Booked, LimitsInv, NEW p \in Request, NEW i \in Invoice, Settle(p, i)
  PROVE  LimitsInv'
<1>1. SaleShape /\ RowsHold
  BY DEF Booked, Standing
<1>2. /\ till[p].step = "idle" /\ invoice[i].status = "ISSUED"
      /\ \A q \in Request : till[q].invoice # i
      /\ invoice' = [invoice EXCEPT ![i].status = "PAID"]
      /\ contended' = contended /\ locality' = locality /\ event' = event
  BY <1>1, SettleFacts DEF catalog
<1>3. PICK h \in Till : Puts(p, h) /\ h.step = "issue" /\ h.invoice = i /\ h.cart = <<>>
  BY <1>1, SettleFacts
<1> DEFINE r == [invoice[i] EXCEPT !.status = "PAID"]
<1>4. invoice' = [invoice EXCEPT ![i] = r] /\ r.status = "PAID" /\ r.items = invoice[i].items
  BY <1>1, <1>2, RowsFinite DEF InvoiceRow
<1> HIDE DEF r
<1>5. NoneIssued(r.items) /\ IsFiniteSet(DOMAIN r.items)
  BY <1>1, <1>2, <1>4, RowsFinite DEF RowsHold, RowHolds
<1>6. ASSUME NEW L PROVE SoldIn(L)' = SoldIn(L)
  <2>1. IssuedOf(invoice[i], L) = 0 /\ IssuedOf(r, L) = 0
    BY <1>2, <1>5, NotIssued
  <2> QED
    BY <1>1, <1>4, <2>1, SoldWritten
<1>7. ASSUME NEW L PROVE Respects(L)
  <2>1. till'[p] = h /\ \A q \in Request \ {p} : till'[q] = till[q]
    BY <1>3 DEF Puts
  <2>2. \A q \in Request : Sells(till'[q], L) => Sells(till[q], L) /\ till'[q].cart = till[q].cart
    BY <1>3, <2>1 DEF Sells
  <2>3. invoice'[i].items = invoice[i].items
    BY <1>1, <1>4 DEF SaleShape, SaleTypeOK
  <2>4. (Billed(i, L)' => Billed(i, L)) /\ Unissued(i)
    BY <1>2, <2>3 DEF Billed, Pending, Unissued
  <2>5. \A j \in Invoice : Billed(j, L)' =>
          Billed(j, L) /\ QtyIn(invoice'[j].items, L) = QtyIn(invoice[j].items, L)
    BY <1>1, <1>3, <1>4, <2>3, <2>4, OthersStay
  <2>6. \A j \in Invoice : Unissued(j)' => Unissued(j) \/ ~Billed(j, L)'
    BY <1>1, <1>3, <1>4, <2>4, OthersStay
  <2> QED
    BY <1>6, <2>2, <2>5, <2>6, NeutralRespects DEF Neutral
<1>8. /\ till[p].step # "count" /\ h.step # "count" /\ contended' = contended
      /\ locality' = locality /\ event' = event /\ \A q \in Request \ {p} : till[q].invoice # i
  BY <1>2, <1>3
<1>9. Puts(p, h) /\ invoice' = [invoice EXCEPT ![i] = r]
  BY <1>3, <1>4
<1> QED
  BY <1>1, <1>6, <1>7, <1>8, <1>9, WritingStep

----------------------------------------------------------------------------
\* A sale becomes a bill.
LEMMA InsertItemsLimits ==
  ASSUME Booked, LimitsInv, NEW p \in Request, InsertItems(p)
  PROVE  LimitsInv'
<1>0. SaleShape /\ TillsHold
  BY DEF Booked, Standing
<1>1. PICK i \in Invoice : i = till[p].invoice
  BY <1>0, InsertItemsFacts
<1>2. PICK g \in Till : g = till[p]
  BY <1>0, TillIs
<1>3. /\ g.step = "items" /\ g.invoice = i /\ contended' = contended /\ locality' = locality
      /\ event' = event /\ invoice' = [invoice EXCEPT ![i].items = Rows(g)]
      /\ Puts(p, Closed) \/ Puts(p, [g EXCEPT !.step = "uses"])
  BY <1>0, <1>1, <1>2, InsertItemsFacts DEF catalog
<1>4. PICK h : /\ Puts(p, h) /\ h.step \in {"idle", "uses"} /\ h.invoice \in {i, None}
  <2>1. [g EXCEPT !.step = "uses"].step = "uses" /\ [g EXCEPT !.step = "uses"].invoice = i
    BY <1>3 DEF Till
  <2> QED
    BY <1>3, <2>1, ClosedShape
<1> DEFINE r == [invoice[i] EXCEPT !.items = Rows(g)]
<1>5. /\ invoice' = [invoice EXCEPT ![i] = r]
      /\ r.status = invoice[i].status /\ r.items = Rows(g)
  BY <1>0, <1>3, RowsFinite DEF InvoiceRow
<1> HIDE DEF r
<1>6. Works(g, invoice[i])
  BY <1>0, <1>1, <1>2, <1>3 DEF TillsHold, Invoiced
<1>7. invoice[i].status = "ISSUED"
  BY <1>3, <1>6 DEF Works
<1>8. \A q \in Request \ {p} : till[q].invoice # i
  BY <1>1, Others
<1>9. ASSUME NEW L PROVE SoldIn(L)' = SoldIn(L)
  <2>1. IssuedOf(invoice[i], L) = 0 /\ IssuedOf(r, L) = 0
    BY <1>5, <1>7, NotIssued
  <2> QED
    BY <1>0, <1>5, <2>1, SoldWritten
<1>10. till'[p] = h /\ \A q \in Request \ {p} : till'[q] = till[q]
  BY <1>4 DEF Puts
<1>11. invoice'[i].items = Rows(g)
  BY <1>0, <1>5 DEF SaleShape, SaleTypeOK
<1>12. ASSUME NEW L
       PROVE  QtyIn(Rows(g), L) = QtyIn(g.cart, L) /\ (Touches(Rows(g), L) <=> Touches(g.cart, L))
  <2>1. TillShape(g)
    BY <1>0, <1>2, TillIs
  <2>2. DOMAIN Rows(g) = DOMAIN g.cart
        /\ \A k \in DOMAIN g.cart : Rows(g)[k].locality = g.cart[k].locality
                                    /\ Rows(g)[k].qty = g.cart[k].qty
    BY <1>3, <2>1, RowsFacts
  <2> QED
    BY <2>2, QtySame
<1>13. ASSUME NEW L PROVE Respects(L)
  <2>1. \A q \in Request : Sells(till'[q], L) => q # p /\ till'[q] = till[q]
    BY <1>4, <1>10 DEF Sells
  <2>2. \A j \in Invoice \ {i} : /\ Billed(j, L)' => Billed(j, L) /\ invoice'[j] = invoice[j]
                                 /\ Unissued(j)' => Unissued(j)
    BY <1>0, <1>4, <1>5, OthersStay
  <2>3. CASE ~Touches(g.cart, L)
    <3>1. ~Billed(i, L)'
      BY <1>11, <1>12, <2>3 DEF Billed
    <3>2. \A j \in Invoice : Billed(j, L)' =>
            Billed(j, L) /\ QtyIn(invoice'[j].items, L) = QtyIn(invoice[j].items, L)
      BY <2>2, <3>1
    <3>3. \A j \in Invoice : Unissued(j)' => Unissued(j) \/ ~Billed(j, L)'
      BY <2>2, <3>1
    <3>4. \A q \in Request : Sells(till'[q], L) => Sells(till[q], L) /\ till'[q].cart = till[q].cart
      BY <2>1
    <3> QED
      BY <1>9, <3>2, <3>3, <3>4, NeutralRespects DEF Neutral
  <2>4. CASE Touches(g.cart, L)
    <3> SUFFICES ASSUME OneSale(L)
                 PROVE  OneSale(L)' /\ \A max \in Nat : Fits(L, max) => Fits(L, max)'
      BY DEF Respects
    <3>1. Sells(till[p], L) /\ till[p].cart = g.cart
      BY <1>2, <1>3, <2>4 DEF Sells
    <3>2. \A q \in Request : ~Sells(till'[q], L)
      BY <2>1, <3>1 DEF OneSale
    <3>3. \A j \in Invoice : Billed(j, L)' => j = i
      BY <2>2, <3>1 DEF OneSale
    <3>4. OneSale(L)'
      BY <3>2, <3>3 DEF OneSale
    <3>5. ASSUME NEW max \in Nat, Fits(L, max) PROVE Fits(L, max)'
      <4>1. max = 0 \/ (SoldIn(L) <= max /\ SoldIn(L) + QtyIn(g.cart, L) <= max)
        BY <3>1, <3>5 DEF Fits
      <4>2. max = 0 \/ (SoldIn(L)' <= max /\ SoldIn(L)' + QtyIn(invoice'[i].items, L) <= max)
        BY <1>9, <1>11, <1>12, <4>1
      <4> QED
        BY <3>2, <3>3, <4>2 DEF Fits
    <3> QED
      BY <3>4, <3>5
  <2> QED
    BY <2>3, <2>4
<1>14. till[p].step # "count" /\ h.step # "count"
  BY <1>2, <1>3, <1>4
<1>15. Puts(p, h) /\ contended' = contended /\ locality' = locality /\ event' = event
  BY <1>3, <1>4
<1>16. invoice' = [invoice EXCEPT ![i] = r]
  BY <1>5
<1> QED
  BY <1>0, <1>8, <1>9, <1>13, <1>14, <1>15, <1>16, WritingStep

----------------------------------------------------------------------------
\* The bill is issued, and counts as sold.
LEMMA IssueItemsLimits ==
  ASSUME Booked, LimitsInv, NEW p \in Request, IssueItems(p)
  PROVE  LimitsInv'
<1>0. SaleShape /\ TillsHold /\ OneTill
  BY DEF Booked, Standing
<1>1. PICK i \in Invoice : i = till[p].invoice
  BY <1>0, IssueItemsFacts
<1>2. PICK g \in Till : g = till[p]
  BY <1>0, TillIs
<1>3. PICK t \in Seq(ItemRows) : Reissues(i, t)
  BY <1>0, <1>1, IssueItemsFacts
<1> DEFINE s == invoice[i].items
           r == [invoice[i] EXCEPT !.items = t]
           h == [g EXCEPT !.step = "count"]
<1>4. /\ till[p].step = "issue" /\ till[p].invoice = i /\ Puts(p, h)
      /\ contended' = contended /\ locality' = locality /\ event' = event
  BY <1>0, <1>1, <1>2, IssueItemsFacts DEF catalog
<1>5. h.step = "count" /\ h.invoice = i
  BY <1>1, <1>2 DEF Till
<1> HIDE DEF h
<1>6. Works(g, invoice[i])
  BY <1>0, <1>1, <1>2, <1>4 DEF TillsHold, Invoiced, Settling
<1>7. invoice[i].status = "PAID" /\ NoneIssued(s) /\ IsFiniteSet(DOMAIN s)
  BY <1>0, <1>2, <1>4, <1>6, RowsFinite DEF Works
<1>8. invoice' = [invoice EXCEPT ![i] = r] /\ r.status = "PAID" /\ r.items = t
  BY <1>0, <1>3, <1>7, RowsFinite DEF InvoiceRow, Reissues
<1> HIDE DEF r
<1>9. /\ invoice'[i] = r /\ \A j \in Invoice \ {i} : invoice'[j] = invoice[j]
  BY <1>0, <1>8 DEF SaleShape, SaleTypeOK
<1>10. till'[p] = h /\ \A q \in Request \ {p} : till'[q] = till[q]
  BY <1>4 DEF Puts
<1>11. \A q \in Request \ {p} : till[q].invoice # i
  BY <1>1, Others
<1>12. ASSUME NEW L
       PROVE  /\ QtyIn(t, L) = QtyIn(s, L) /\ (Touches(t, L) <=> Touches(s, L))
              /\ QtyIn(s, L) \in Nat /\ SoldIn(L) \in Nat
              /\ SoldIn(L)' = SoldIn(L) + QtyIn(s, L)
  <2>1. DOMAIN t = DOMAIN s /\ AllIssued(t)
        /\ \A k \in DOMAIN s : t[k].locality = s[k].locality /\ t[k].qty = s[k].qty
    BY <1>3 DEF Reissues, AllIssued
  <2>2. QtyIn(t, L) = QtyIn(s, L) /\ (Touches(t, L) <=> Touches(s, L))
    BY <2>1, QtySame
  <2>3. QtyIn(s, L) \in Nat /\ SoldIn(L) \in Nat
    BY <1>0, RowsFinite, SoldNat DEF SaleShape, SaleTypeOK
  <2>4. IssuedOf(invoice[i], L) = 0
    BY <1>7, NotIssued
  <2>5. IssuedOf(r, L) = QtyIn(t, L)
    BY <1>8, <2>1, WhollyIssued
  <2>6. SoldOf(invoice', L) = SoldOf(invoice, L) + IssuedOf(invoice'[i], L)
    BY <1>0, <1>9, <2>2, <2>3, <2>4, <2>5, SoldGrows DEF SaleShape, SaleTypeOK
  <2> QED
    BY <1>9, <2>2, <2>3, <2>5, <2>6, SoldIs
<1> HIDE DEF s
<1>13. s = invoice[i].items /\ invoice'[i].items = t
  BY <1>8, <1>9 DEF s
<1>14. ASSUME NEW L PROVE Respects(L)
  <2>1. \A q \in Request : Sells(till'[q], L) => Sells(till[q], L) /\ till'[q].cart = till[q].cart
    BY <1>5, <1>10 DEF Sells
  <2>2. \A j \in Invoice \ {i} : /\ Billed(j, L)' => Billed(j, L) /\ invoice'[j] = invoice[j]
                                 /\ Unissued(j)' => Unissued(j)
    BY <1>0, <1>4, <1>5, <1>8, OthersStay, ZenonT(40)
  <2>3. CASE ~Touches(s, L)
    <3>1. ~Billed(i, L)'
      BY <1>12, <1>13, <2>3 DEF Billed
    <3>2. QtyIn(s, L) = 0
      BY <1>7, <1>13, <2>3, QtyNone
    <3>3. SoldIn(L)' = SoldIn(L)
      BY <1>12, <3>2
    <3>4. \A j \in Invoice : Billed(j, L)' =>
            Billed(j, L) /\ QtyIn(invoice'[j].items, L) = QtyIn(invoice[j].items, L)
      BY <2>2, <3>1
    <3>5. \A j \in Invoice : Unissued(j)' => Unissued(j) \/ ~Billed(j, L)'
      BY <2>2, <3>1
    <3> QED
      BY <2>1, <3>3, <3>4, <3>5, NeutralRespects DEF Neutral
  <2>4. CASE Touches(s, L)
    <3> SUFFICES ASSUME OneSale(L)
                 PROVE  OneSale(L)' /\ \A max \in Nat : Fits(L, max) => Fits(L, max)'
      BY DEF Respects
    <3>1. Billed(i, L) /\ Unissued(i)
      BY <1>4, <1>13, <2>4 DEF Billed, Pending, Unissued
    <3>2. \A q \in Request : ~Sells(till'[q], L)
      BY <2>1, <3>1 DEF OneSale
    <3>3. \A j \in Invoice : Billed(j, L)' => j = i
      BY <2>2, <3>1 DEF OneSale
    <3>4. OneSale(L)'
      BY <3>2, <3>3 DEF OneSale
    <3>5. ~Unissued(i)'
      BY <1>5, <1>8, <1>9, <1>10, <1>11 DEF Unissued
    <3>6. ASSUME NEW max \in Nat, Fits(L, max) PROVE Fits(L, max)'
      <4>1. max = 0 \/ SoldIn(L) + QtyIn(s, L) <= max
        BY <1>13, <3>1, <3>6 DEF Fits
      <4>2. max = 0 \/ SoldIn(L)' <= max
        BY <1>12, <4>1
      <4> QED
        BY <3>2, <3>3, <3>5, <4>2 DEF Fits
    <3> QED
      BY <3>4, <3>6
  <2> QED
    BY <2>3, <2>4
<1>15. \A q \in Request \ {p} : till[q].step = "count" => ItemsOf(q)' = ItemsOf(q)
  <2> SUFFICES ASSUME NEW q \in Request \ {p}, till[q].step = "count"
               PROVE  ItemsOf(q)' = ItemsOf(q)
    OBVIOUS
  <2>1. till[q].invoice \in Invoice /\ till[q].invoice # i
    BY <1>0, <1>11, InvoicedTill DEF Invoiced, Settling
  <2> QED
    BY <1>9, <1>10, <2>1 DEF ItemsOf
<1>16. ASSUME NEW l \in Locality PROVE Recounts(l)
  <2>1. ASSUME NEW q \in Request \ {p}
        PROVE  Counting(q, l)' <=> Counting(q, l)
    BY <1>10, <1>15 DEF Counting
  <2>2. ~Counting(p, l) /\ (Counting(p, l)' <=> Touches(s, {l}))
    <3>1. ~Counting(p, l)
      BY <1>4 DEF Counting
    <3>2. ItemsOf(p)' = t
      BY <1>5, <1>10, <1>13 DEF ItemsOf
    <3>3. Counting(p, l)' <=> Touches(t, {l})
      BY <1>5, <1>10, <3>2 DEF Counting
    <3> QED
      BY <1>12, <3>1, <3>3
  <2>3. CASE ~Touches(s, {l})
    <3>1. QtyIn(s, {l}) = 0
      BY <1>7, <1>13, <2>3, QtyNone
    <3>2. SoldIn({l})' = SoldIn({l})
      BY <1>12, <3>1
    <3>3. \A q \in Request : Counting(q, l)' <=> Counting(q, l)
      BY <2>1, <2>2, <2>3
    <3>4. \A q \in Request : Counting(q, l) => ItemsOf(q)' = ItemsOf(q)
      BY <1>15, <2>2 DEF Counting
    <3> QED
      BY <1>4, <3>2, <3>3, <3>4, CountsRecounts DEF Counts
  <2>4. CASE Touches(s, {l})
    <3> SUFFICES ASSUME OneSale({l}), Counted(l) PROVE Counted(l)'
      BY DEF Recounts
    <3>1. Billed(i, {l})
      BY <1>4, <1>13, <2>4 DEF Billed, Pending
    <3>2. ASSUME NEW q \in Request \ {p} PROVE ~Counting(q, l)
      <4> SUFFICES ASSUME Counting(q, l) PROVE FALSE
        OBVIOUS
      <4>1. till[q].invoice \in Invoice /\ till[q].invoice # i
        BY <1>0, <1>11, InvoicedTill DEF Counting, Invoiced, Settling
      <4>2. Billed(till[q].invoice, {l})
        BY DEF Counting, ItemsOf, Billed, Pending
      <4> QED
        BY <3>1, <4>1, <4>2 DEF OneSale
    <3>3. locality[l].sold = SoldIn({l})
      BY <2>2, <3>2 DEF Counted
    <3>4. ItemsOf(p)' = t
      BY <1>5, <1>10, <1>13 DEF ItemsOf
    <3>5. \A q \in Request : Counting(q, l)' <=> q = p
      BY <2>1, <2>2, <2>4, <3>2
    <3>6. locality'[l].sold + QtyIn(ItemsOf(p)', {l}) = SoldIn({l})'
      BY <1>4, <1>12, <3>3, <3>4
    <3> QED
      BY <3>5, <3>6 DEF Counted
  <2> QED
    BY <2>3, <2>4
<1>17. Respects(Locality) /\ \A l \in Locality : Respects({l})
  BY <1>14
<1>18. contended \subseteq contended' /\ locality' = locality /\ event' = event
  BY <1>4
<1> QED
  BY <1>0, <1>16, <1>17, <1>18, RespectStep

----------------------------------------------------------------------------
\* The counter catches up.
LEMMA CountSoldLimits ==
  ASSUME Booked, LimitsInv, NEW p \in Request, CountSold(p)
  PROVE  LimitsInv'
<1>0. SaleShape /\ OneTill
  BY DEF Booked, Standing
<1>1. PICK i \in Invoice : i = till[p].invoice
  BY <1>0, CountSoldFacts
<1>2. PICK g \in Till : g = till[p]
  BY <1>0, TillIs
<1> DEFINE h == [g EXCEPT !.step = "commission"]
<1>3. /\ till[p].step = "count" /\ Puts(p, h) /\ invoice' = invoice /\ contended' = contended
      /\ event' = event
      /\ \A l \in Locality :
           /\ locality[l].sold \in Nat /\ QtyIn(invoice[i].items, {l}) \in Nat
           /\ locality'[l].sold = locality[l].sold + QtyIn(invoice[i].items, {l})
           /\ locality'[l].quota = locality[l].quota
  BY <1>0, <1>1, <1>2, CountSoldFacts
<1>4. h.step = "commission" /\ h.invoice = till[p].invoice
  BY <1>2 DEF Till
<1> HIDE DEF h
<1>5. Fades(till[p], h)
  BY <1>4 DEF Fades
<1>6. /\ \A L : Respects(L)
      /\ \A L : SoldIn(L)' = SoldIn(L)
      /\ till'[p] = h /\ \A q \in Request \ {p} : till'[q] = till[q]
      /\ \A q \in Request \ {p} : ItemsOf(q)' = ItemsOf(q)
  BY <1>3, <1>5, OneFades
<1>7. ItemsOf(p) = invoice[i].items
  BY <1>1 DEF ItemsOf
<1>8. ASSUME NEW l \in Locality PROVE Recounts(l)
  <2>1. ASSUME NEW q \in Request \ {p} PROVE Counting(q, l)' <=> Counting(q, l)
    BY <1>6 DEF Counting
  <2>2. ~Counting(p, l)'
    BY <1>4, <1>6 DEF Counting
  <2>3. CASE ~Touches(ItemsOf(p), {l})
    <3>1. QtyIn(invoice[i].items, {l}) = 0
      BY <1>0, <1>7, <2>3, RowsFinite, QtyNone
    <3>2. locality'[l].sold = locality[l].sold
      BY <1>3, <3>1
    <3>3. \A q \in Request : Counting(q, l)' <=> Counting(q, l)
      BY <2>1, <2>2, <2>3 DEF Counting
    <3>4. \A q \in Request : Counting(q, l) => ItemsOf(q)' = ItemsOf(q)
      BY <1>6, <2>3 DEF Counting
    <3>5. SoldIn({l})' = SoldIn({l})
      BY <1>6
    <3> QED
      BY <3>2, <3>3, <3>4, <3>5, CountsRecounts DEF Counts
  <2>4. CASE Touches(ItemsOf(p), {l})
    <3> SUFFICES ASSUME OneSale({l}), Counted(l) PROVE Counted(l)'
      BY DEF Recounts
    <3>1. Counting(p, l) /\ Billed(i, {l})
      BY <1>1, <1>3, <1>7, <2>4 DEF Counting, Billed, Pending
    <3>2. ASSUME NEW q \in Request \ {p} PROVE ~Counting(q, l)
      <4> SUFFICES ASSUME Counting(q, l) PROVE FALSE
        OBVIOUS
      <4>1. till[q].invoice \in Invoice /\ till[q].invoice # i
        BY <1>0, <1>1, InvoicedTill DEF Counting, Invoiced, Settling, OneTill
      <4>2. Billed(till[q].invoice, {l})
        BY DEF Counting, ItemsOf, Billed, Pending
      <4> QED
        BY <3>1, <4>1, <4>2 DEF OneSale
    <3>3. locality[l].sold + QtyIn(invoice[i].items, {l}) = SoldIn({l})
      BY <1>7, <3>1 DEF Counted
    <3>4. \A q \in Request : ~Counting(q, l)'
      BY <2>1, <2>2, <3>2
    <3>5. locality'[l].sold = SoldIn({l})'
      BY <1>3, <1>6, <3>3
    <3> QED
      BY <3>4, <3>5 DEF Counted
  <2> QED
    BY <2>3, <2>4
<1>9. Respects(Locality) /\ \A l \in Locality : Respects({l})
  BY <1>6
<1>10. /\ contended \subseteq contended' /\ event' = event
       /\ \A l \in Locality : locality'[l].quota = locality[l].quota
  BY <1>3
<1> QED
  BY <1>0, <1>8, <1>9, <1>10, RespectStep

\* A settlement that is cut before the count leaves the counters of its localities behind,
\* which are marked as met.
LEMMA FailSaleLimits ==
  ASSUME SaleShape, LimitsInv, NEW p \in Request, FailSale(p)
  PROVE  LimitsInv'
<1>1. /\ Puts(p, Closed) /\ invoice' = invoice /\ contended \subseteq contended'
      /\ locality' = locality /\ event' = event
      /\ till[p].step \in Settling =>
           \A l \in LocalitiesOf(invoice[till[p].invoice].items) :
             <<"locality", l>> \in contended'
  BY FailSaleFacts DEF catalog
<1>2. /\ \A L : Respects(L)
      /\ \A L : SoldIn(L)' = SoldIn(L)
      /\ till'[p] = Closed /\ \A q \in Request \ {p} : till'[q] = till[q]
      /\ \A q \in Request \ {p} : ItemsOf(q)' = ItemsOf(q)
  BY <1>1, ClosedFades, OneFades
<1>3. ASSUME NEW l \in Locality, Unmet(l)' PROVE Recounts(l)
  <2>1. ASSUME Counting(p, l) PROVE FALSE
    <3>1. till[p].step \in Settling
      BY <2>1 DEF Counting, Settling
    <3>2. l \in LocalitiesOf(invoice[till[p].invoice].items)
      BY <2>1 DEF Counting, Touches, ItemsOf, LocalitiesOf
    <3>3. <<"locality", l>> \in contended'
      BY <1>1, <3>1, <3>2
    <3> QED
      BY <1>3, <3>3 DEF Unmet
  <2>2. ~Counting(p, l)'
    BY <1>2, ClosedFades DEF Counting
  <2>3. ASSUME NEW q \in Request \ {p} PROVE Counting(q, l)' <=> Counting(q, l)
    BY <1>2 DEF Counting
  <2>4. \A q \in Request : Counting(q, l)' <=> Counting(q, l)
    BY <2>1, <2>2, <2>3
  <2>5. \A q \in Request : Counting(q, l) => ItemsOf(q)' = ItemsOf(q)
    BY <1>2, <2>1
  <2>6. SoldIn({l})' = SoldIn({l}) /\ locality'[l].sold = locality[l].sold
    BY <1>1, <1>2
  <2> QED
    BY <2>4, <2>5, <2>6, CountsRecounts DEF Counts
<1>4. Respects(Locality) /\ \A l \in Locality : Respects({l})
  BY <1>2
<1>5. \A l \in Locality : locality'[l].quota = locality[l].quota
  BY <1>1
<1> QED
  BY <1>1, <1>3, <1>4, <1>5, RespectStep

----------------------------------------------------------------------------
\* A sale starts where nobody sells.
LEMMA SaleStarts ==
  ASSUME SaleShape, invoice' = invoice, NEW p \in Request, NEW h, Puts(p, h),
         h.step = "quote", h.invoice = None, NEW L,
         \A q \in Request : ~Sells(till[q], L), \A i \in Invoice : ~Billed(i, L),
         NEW max \in Nat, QtyIn(h.cart, L) \in Nat,
         max = 0 \/ SoldIn(L) + QtyIn(h.cart, L) <= max
  PROVE  OneSale(L)' /\ Fits(L, max)'
<1>1. till'[p] = h /\ \A q \in Request \ {p} : till'[q] = till[q]
  BY DEF Puts
<1>2. \A q \in Request : Sells(till'[q], L) => q = p
  BY <1>1
<1>3. ASSUME NEW i \in Invoice PROVE ~Billed(i, L)'
  <2>1. Pending(i)' => Pending(i)
    BY <1>1, NoneIsNone DEF Pending
  <2> QED
    BY <2>1 DEF Billed
<1>4. OneSale(L)'
  BY <1>2, <1>3 DEF OneSale
<1>5. SoldIn(L)' = SoldIn(L) /\ SoldIn(L) \in Nat
  BY SoldIs, SoldNat DEF SaleShape, SaleTypeOK
<1>6. max = 0 \/ (SoldIn(L)' <= max /\ SoldIn(L)' + QtyIn(till'[p].cart, L) <= max)
  BY <1>1, <1>5
<1>7. Fits(L, max)'
  BY <1>2, <1>3, <1>6 DEF Fits
<1> QED
  BY <1>4, <1>7

\* The quota is compared with the item: its locality is in the cart once.
LEMMA QtyOnce ==
  ASSUME NEW cart \in Cart, NEW k \in DOMAIN cart, NEW l, cart[k].locality = l,
         \A n \in DOMAIN cart \ {k} : cart[n].locality # l
  PROVE  QtyIn(cart, {l}) = cart[k].qty
<1> DEFINE f == [n \in DOMAIN cart |-> IF cart[n].locality \in {l} THEN cart[n].qty ELSE 0]
<1>1. IsFiniteSet(DOMAIN cart) /\ cart[k].qty \in Nat
  BY CartFacts
<1>2. f[k] = cart[k].qty /\ \A n \in DOMAIN cart \ {k} : f[n] = 0
  OBVIOUS
<1>3. DOMAIN f = DOMAIN cart /\ QtyIn(cart, {l}) = SumFunctionOnSet(f, DOMAIN f)
  BY DEF QtyIn, SumFunction
<1> HIDE DEF f
<1>4. SumFunctionOnSet(f, DOMAIN cart) = f[k]
  BY <1>1, <1>2, SumOnly
<1> QED
  BY <1>2, <1>3, <1>4

LEMMA ReadCartFacts ==
  ASSUME SaleShape, NEW p \in Request, NEW cart \in Cart, NEW named \in BOOLEAN,
         NEW c \in Code \cup {None}, ReadCart(p, cart, named, c)
  PROVE  /\ SaleShape' /\ till[p].step = "idle" /\ invoice' = invoice /\ locality' = locality
         /\ contended \subseteq contended'
         /\ event' = event
         /\ \A l \in LocalitiesOf(cart) : Unmet(l)' =>
              /\ l \notin Outstanding
              /\ \A k, n \in DOMAIN cart : cart[k].locality = l /\ cart[n].locality = l => k = n
              /\ \A k \in DOMAIN cart : cart[k].locality = l =>
                   locality[l].quota = 0 \/ cart[k].qty <= locality[l].quota - locality[l].sold
         /\ <<"event", None>> \notin contended' => Outstanding = {}
         /\ event.max = 0 \/ SoldIn(Locality) + QtyIn(cart, Locality) <= event.max
         /\ \E h \in Till : Puts(p, h) /\ h.step = "quote" /\ h.cart = cart /\ h.invoice = None
<1> DEFINE twice == {k \in DOMAIN cart : \E n \in DOMAIN cart \ {k} :
                                           cart[n].locality = cart[k].locality}
           misnamed == {k \in DOMAIN cart :
                          stage[cart[k].stage].locality # cart[k].locality}
<1>1. Quote(p, cart, named, c)
  BY DEF ReadCart
<1>2. /\ till[p].step = "idle" /\ invoice' = invoice /\ locality' = locality /\ event' = event
      /\ contended' = contended
           \cup ({"locality"} \X (LocalitiesOf(cart) \cap Outstanding))
           \cup {<<"locality", cart[k].locality>> : k \in twice \cup misnamed}
           \cup (IF Outstanding # {} THEN {<<"event", None>>} ELSE {})
           \cup (IF named /\ NameInUse THEN {<<"code", None>>} ELSE {})
  BY <1>1 DEF Quote, Free, catalog
<1>3. contended \subseteq contended' /\ (<<"event", None>> \notin contended' => Outstanding = {})
  BY <1>2
<1>4. ASSUME NEW l \in LocalitiesOf(cart), Unmet(l)'
      PROVE  /\ l \notin Outstanding
             /\ \A k, n \in DOMAIN cart : cart[k].locality = l /\ cart[n].locality = l => k = n
             /\ \A k \in DOMAIN cart : cart[k].locality = l =>
                  locality[l].quota = 0 \/ cart[k].qty <= locality[l].quota - locality[l].sold
  <2>1. <<"locality", l>> \notin contended'
    BY <1>4 DEF Unmet
  <2>2. l \notin Outstanding
    BY <1>2, <2>1
  <2>3. \A k \in twice \cup misnamed : cart[k].locality # l
    BY <1>2, <2>1
  <2>4. \A k \in DOMAIN cart : cart[k].locality = l => stage[cart[k].stage].locality = l
    BY <2>3
  <2>5. ASSUME NEW k \in DOMAIN cart, cart[k].locality = l
        PROVE  locality[l].quota = 0 \/ cart[k].qty <= locality[l].quota - locality[l].sold
    <3>1. stage[cart[k].stage].locality = l
      BY <2>4, <2>5
    <3> HIDE DEF twice, misnamed
    <3> QED
      BY <3>1 DEF ReadCart
  <2>6. \A k, n \in DOMAIN cart : cart[k].locality = l /\ cart[n].locality = l => k = n
    BY <2>3
  <2> QED
    BY <2>2, <2>5, <2>6
<1>5. event.max = 0 \/ SoldIn(Locality) + QtyIn(cart, Locality) <= event.max
  BY DEF ReadCart, QtyOf
<1> HIDE DEF twice, misnamed
<1> QED
  BY <1>1, <1>2, <1>3, <1>4, <1>5, QuoteFacts

LEMMA QuoteLimits ==
  ASSUME SaleShape, LimitsInv, NEW p \in Request, NEW cart \in Cart, NEW named \in BOOLEAN,
         NEW c \in Code \cup {None}, ReadCart(p, cart, named, c)
  PROVE  LimitsInv'
<1>1. /\ SaleShape' /\ till[p].step = "idle" /\ invoice' = invoice /\ locality' = locality
      /\ event' = event /\ contended \subseteq contended'
      /\ \A l \in LocalitiesOf(cart) : Unmet(l)' =>
           /\ l \notin Outstanding
           /\ \A k, n \in DOMAIN cart : cart[k].locality = l /\ cart[n].locality = l => k = n
           /\ \A k \in DOMAIN cart : cart[k].locality = l =>
                locality[l].quota = 0 \/ cart[k].qty <= locality[l].quota - locality[l].sold
      /\ <<"event", None>> \notin contended' => Outstanding = {}
      /\ event.max = 0 \/ SoldIn(Locality) + QtyIn(cart, Locality) <= event.max
  BY ReadCartFacts
<1>2. PICK h \in Till : Puts(p, h) /\ h.step = "quote" /\ h.cart = cart /\ h.invoice = None
  BY ReadCartFacts
<1>3. till'[p] = h /\ \A q \in Request \ {p} : till'[q] = till[q]
  BY <1>2 DEF Puts
<1>4. \A L : QtyIn(cart, L) \in Nat
  BY CartFacts, QtyNat
<1>5. ASSUME NEW l \in Locality PROVE Recounts(l)
  <2>1. \A q \in Request : till'[q].step = "count" <=> till[q].step = "count"
    BY <1>1, <1>2, <1>3
  <2>2. \A q \in Request : till[q].step = "count" => ItemsOf(q)' = ItemsOf(q)
    BY <1>1, <1>3 DEF ItemsOf
  <2>3. SoldIn({l})' = SoldIn({l})
    BY <1>1, SoldIs
  <2> QED
    BY <1>1, <2>1, <2>2, <2>3, SameCounts
<1>6. ASSUME NEW L, ~Touches(cart, L) PROVE Respects(L)
  <2>1. SoldIn(L)' = SoldIn(L)
    BY <1>1, SoldIs
  <2>2. \A q \in Request : Sells(till'[q], L) => Sells(till[q], L) /\ till'[q].cart = till[q].cart
    BY <1>2, <1>3, <1>6 DEF Sells
  <2>3. ASSUME NEW i \in Invoice
        PROVE  /\ Billed(i, L)' => Billed(i, L)
               /\ Unissued(i)' => Unissued(i)
    <3>1. \A q \in Request : till'[q].invoice = i => till'[q] = till[q]
      BY <1>2, <1>3, NoneIsNone
    <3>2. Pending(i)' => Pending(i)
      BY <1>1, <3>1 DEF Pending
    <3> QED
      BY <1>1, <3>1, <3>2 DEF Billed, Unissued
  <2> QED
    BY <1>1, <2>1, <2>2, <2>3, NeutralRespects DEF Neutral
<1>7. ASSUME NEW l \in Locality, Unmet(l)' PROVE LocalityInv(l)'
  <2>1. Unmet(l) /\ LocalityInv(l)
    BY <1>1, <1>7 DEF Unmet, LimitsInv
  <2>2. Counted(l)'
    BY <1>5, <2>1 DEF LocalityInv, Recounts
  <2>3. PICK max \in Nat : max = locality[l].quota
    BY DEF SaleShape, SaleTypeOK
  <2>4. OneSale({l})' /\ Fits({l}, max)'
    <3>1. CASE ~Touches(cart, {l})
      BY <1>6, <2>1, <2>3, <3>1 DEF LocalityInv, Respects
    <3>2. CASE Touches(cart, {l})
      <4>1. PICK k \in DOMAIN cart : cart[k].locality = l
        BY <3>2 DEF Touches
      <4>2. l \in LocalitiesOf(cart)
        BY <4>1 DEF LocalitiesOf
      <4>3. l \notin Outstanding /\ \A n \in DOMAIN cart \ {k} : cart[n].locality # l
        BY <1>1, <1>7, <4>1, <4>2
      <4>4. Outstanding \cap {l} = {}
        BY <4>3
      <4>5. /\ \A q \in Request : ~Sells(till[q], {l})
            /\ \A i \in Invoice : ~Billed(i, {l})
        BY <4>4, OutstandingIs
      <4>6. QtyIn(cart, {l}) = cart[k].qty
        BY <4>1, <4>3, QtyOnce
      <4>7. \A q \in Request : ~Counting(q, l)
        <5> SUFFICES ASSUME NEW q \in Request, Counting(q, l) PROVE FALSE
          OBVIOUS
        <5>1. till[q].invoice \in Invoice
          BY InvoicedTill DEF Counting, Invoiced, Settling
        <5>2. Billed(till[q].invoice, {l})
          BY <5>1 DEF Counting, ItemsOf, Billed, Pending
        <5> QED
          BY <4>5, <5>1, <5>2
      <4>8. locality[l].sold = SoldIn({l}) /\ locality[l].sold \in Nat
        BY <2>1, <4>7 DEF LocalityInv, Counted, SaleShape, SaleTypeOK
      <4>9. max = 0 \/ cart[k].qty <= max - locality[l].sold
        BY <1>1, <1>7, <2>3, <4>1, <4>2
      <4>10. max = 0 \/ SoldIn({l}) + QtyIn(h.cart, {l}) <= max
        BY <1>2, <1>4, <4>6, <4>8, <4>9
      <4>11. QtyIn(h.cart, {l}) \in Nat
        BY <1>2, <1>4
      <4> QED
        BY <1>1, <1>2, <4>5, <4>10, <4>11, SaleStarts
    <3> QED
      BY <3>1, <3>2
  <2> QED
    BY <1>1, <2>2, <2>3, <2>4 DEF LocalityInv, Fits
<1>8. ASSUME <<"event", None>> \notin contended' PROVE EventInv'
  <2>1. Outstanding \cap Locality = {}
    BY <1>1, <1>8
  <2>2. /\ \A q \in Request : ~Sells(till[q], Locality)
        /\ \A i \in Invoice : ~Billed(i, Locality)
    BY <2>1, OutstandingIs
  <2>0. PICK n \in Nat : n = event.max
    BY DEF SaleShape, SaleTypeOK
  <2>3. n = 0 \/ SoldIn(Locality) + QtyIn(h.cart, Locality) <= n
    BY <1>1, <1>2, <2>0
  <2>4. QtyIn(h.cart, Locality) \in Nat
    BY <1>2, <1>4
  <2>5. OneSale(Locality)' /\ Fits(Locality, n)'
    BY <1>1, <1>2, <2>2, <2>3, <2>4, SaleStarts
  <2> QED
    BY <1>1, <2>0, <2>5 DEF EventInv, Fits
<1> QED
  BY <1>7, <1>8 DEF LimitsInv

----------------------------------------------------------------------------
LEMMA LimitsStep ==
  ASSUME Booked, LimitsInv, [Next]_vars
  PROVE  LimitsInv'
<1>1. SaleShape /\ Standing
  BY DEF Booked, Standing
<1>2. CASE AskTill
  <2>1. ASSUME NEW p \in Request, NEW cart \in Cart, NEW named \in BOOLEAN,
               NEW c \in Code \cup {None}, ReadCart(p, cart, named, c)
        PROVE  LimitsInv'
    BY <1>1, <2>1, QuoteLimits
  <2>2. ASSUME NEW p \in Request, NEW h \in Till, till[p].step = "idle", Edits(h), Puts(p, h),
               UNCHANGED <<catalog, invoice, given, contended>>
        PROVE  LimitsInv'
    <3>1. /\ invoice' = invoice /\ locality' = locality /\ contended' = contended
          /\ event' = event
      BY <2>2 DEF catalog
    <3>2. Fades(till[p], h) /\ h.step # "count"
      BY <2>2, NoneIsNone DEF Edits, Editing, Fades
    <3> QED
      BY <1>1, <2>2, <3>1, <3>2, FadingStep
  <2>3. ASSUME NEW o \in Offer, CreateDiscount(o) PROVE LimitsInv'
    BY <1>1, <2>3, CreateDiscountFacts, NoSaleStep
  <2>4. ASSUME DeleteDiscount PROVE LimitsInv'
    BY <1>1, <2>4, DeleteDiscountFacts, NoSaleStep
  <2>5. ASSUME NEW row \in [status: EventStatus, max: Limit], UpdateEvent(row)
        PROVE  LimitsInv'
    BY <1>1, <2>5, UpdateEventLimits
  <2> QED
    BY <1>1, <1>2, <2>1, <2>2, <2>3, <2>4, <2>5, AskTillFacts
<1>3. ASSUME NEW p \in Request, SaleStep(p) PROVE LimitsInv'
  <2>1. CASE ReadDiscounts(p)
    BY <1>1, <2>1, ReadDiscountsLimits
  <2>2. CASE InsertInvoice(p)
    BY <2>2, InsertInvoiceLimits
  <2>3. CASE InsertItems(p)
    BY <2>3, InsertItemsLimits
  <2>4. CASE IssueItems(p)
    BY <2>4, IssueItemsLimits
  <2>5. CASE CountSold(p)
    BY <2>5, CountSoldLimits
  <2>6. CASE WriteLocality(p)
    BY <1>1, <2>6, WriteLocalityLimits
  <2>7. ASSUME NEW i \in Invoice, Settle(p, i) PROVE LimitsInv'
    BY <2>7, SettleLimits
  <2>8. CASE \/ IncrementUses(p) \/ WriteStage(p) \/ WriteDiscount(p) \/ WriteLimit(p)
             \/ RecordCommission(p)
    BY <1>1, <2>8, ClosingLimits
  <2> QED
    BY <1>3, <2>1, <2>2, <2>3, <2>4, <2>5, <2>6, <2>7, <2>8 DEF SaleStep
<1>4. ASSUME NEW p \in Request, FailSale(p) PROVE LimitsInv'
  BY <1>1, <1>4, FailSaleLimits
<1>5. CASE Advance
  BY <1>1, <1>5, AdvanceFacts, NoSaleStep
<1>6. CASE PromoterNext /\ UNCHANGED saleVars
  BY <1>1, <1>6, DeskStepStands, NoSaleStep
<1>7. CASE UNCHANGED vars
  BY <1>1, <1>7, NoSaleStep DEF vars, saleVars, catalog
<1> QED
  BY <1>2, <1>3, <1>4, <1>5, <1>6, <1>7 DEF Next

LEMMA LimitsInit == Init => LimitsInv
<1> SUFFICES ASSUME Init PROVE LimitsInv
  OBVIOUS
<1>1. SaleShape
  BY StandingInit DEF Standing
<1>2. /\ invoice = [i \in Invoice |-> NoInvoice] /\ till = [p \in Request |-> Closed]
      /\ \A l \in Locality : locality[l].sold = 0 /\ locality[l].quota \in Nat
      /\ event.max \in Nat
  BY NumbersAssumption DEF Init
<1>3. \A q \in Request : till[q].step = "idle" /\ till[q].invoice = None
  BY <1>2, ClosedShape
<1>4. \A i \in Invoice : invoice[i].status = "none" /\ invoice[i].items = <<>>
  BY <1>2 DEF NoInvoice
<1>5. ASSUME NEW L
      PROVE  /\ SoldIn(L) = 0 /\ \A q \in Request : ~Sells(till[q], L)
             /\ \A i \in Invoice : ~Billed(i, L)
  <2> DEFINE f == [i \in Invoice |-> IssuedOf(invoice[i], L)]
  <2>1. \A i \in Invoice : f[i] = 0
    BY <1>4, NotIssued
  <2>2. DOMAIN f = Invoice /\ SoldIn(L) = SumFunctionOnSet(f, DOMAIN f)
    BY SoldIs DEF SoldOf, SumFunction
  <2> HIDE DEF f
  <2>3. SoldIn(L) = 0
    BY <2>1, <2>2, FiniteAssumption, SumZero
  <2>4. \A q \in Request : ~Sells(till[q], L)
    BY <1>3 DEF Sells
  <2>5. \A i \in Invoice : ~Billed(i, L)
    BY <1>4 DEF Billed, Touches
  <2> QED
    BY <2>3, <2>4, <2>5
<1>6. ASSUME NEW l \in Locality PROVE LocalityInv(l)
  <2>1. OneSale({l}) /\ Fits({l}, locality[l].quota)
    BY <1>2, <1>5, NobodyFits
  <2>2. Counted(l)
    BY <1>2, <1>3, <1>5 DEF Counted, Counting
  <2> QED
    BY <2>1, <2>2 DEF LocalityInv
<1>7. EventInv
  BY <1>2, <1>5, NobodyFits DEF EventInv
<1> QED
  BY <1>6, <1>7 DEF LimitsInv

\* What runs out does run out: the tickets issued of a locality and of the event stay within
\* their quotas where buyers come one after another, and a discount code is given as often as
\* it may be (LimitsHold: createInvoice of invoice.service.ts, incrementTicketsSold of
\* event_localities, incrementUses of event_dcto); not of a locality that an item names with
\* the stage of another.
THEOREM LimitsCorrect == Spec => []LimitsHold
<1> DEFINE Inv == Booked /\ CodeInv /\ LimitsInv
<1>1. Init => Inv
  BY BookedInit, CodeInit, LimitsInit
<1>2. Inv /\ [Next]_vars => Inv'
  <2> SUFFICES ASSUME Inv, [Next]_vars PROVE Booked' /\ CodeInv' /\ LimitsInv'
    OBVIOUS
  <2>1. Standing
    BY DEF Booked
  <2> QED
    BY <2>1, BookedStep, CodeStep, LimitsStep
<1>3. Inv => LimitsHold
  <2> SUFFICES ASSUME Inv PROVE NotOversold /\ CodeIsLimited
    BY DEF LimitsHold
  <2>1. NotOversold
    BY DEF NotOversold, LimitsInv, Unmet, LocalityInv, EventInv, Fits
  <2>2. CodeIsLimited
    BY DEF CodeIsLimited, CodeInv, CodeCounts, Meeting
  <2> QED
    BY <2>1, <2>2
<1> QED
  BY <1>1, <1>2, <1>3, PTL DEF Spec

=============================================================================
