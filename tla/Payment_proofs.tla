--------------------------- MODULE Payment_proofs ---------------------------
(***************************************************************************)
(* Proofs about Payment: for any customers, invoices, carts, handlers,     *)
(* webhooks and faults, an invoice whose webhooks came one after the other *)
(* is settled once and completely, and a user whose settlements did not    *)
(* overlap is never overdrawn.  Everything about an invoice depends on its *)
(* rows and on the handlers that have it, one of which writes it; a step   *)
(* is about one invoice and frames the others.                             *)
(***************************************************************************)
EXTENDS Payment, SumTheorems, TLAPS

\* The settlement is between its first and its last write of the books.
Moving == {"tickets", "sold", "redeem", "ledger", "debit", "promoter", "uses", "error"}
Keyed  == {"create", "record"}

\* What a handler carries at each step.
Shape(h) ==
  /\ h.step # "idle" => h.invoice \in Invoice /\ h.user \in User
  /\ h.step = "idle" => h.invoice = NoInvoice
  /\ h.step \in Keyed \cup (Settling \ {"find"}) => h.txn \in Txn
  /\ h.step \in Moving \cup {"paid"} => h.status = "APPROVED"
  /\ h.step = "reject" => h.status = "DECLINED"
  /\ h.step = "void" => h.status = "VOIDED"

HandlersInShape == \A p \in Request : Shape(proc[p])

\* Invoices are of users; Wompi knows issued invoices and sent what is recorded of them.
RowsInShape ==
  /\ \A i \in Invoice : IF invoice[i].status = "NONE" THEN invoice[i].user = NoUser
                        ELSE invoice[i].user \in User
  /\ \A i \in Invoice : wompi[i] # "NONE" => invoice[i].status # "NONE"
  /\ \A i \in Invoice : \A x \in RowsOf(i) : txn[x].status \in Sent(wompi[i])

\* What a handler relies on, whatever others do: the invoice is there, the event was sent,
\* the key of its INSERT is not taken.
Holds(h) ==
  /\ h.step \in Settling =>
       /\ h.status \in Sent(wompi[h.invoice])
       /\ invoice[h.invoice].user = h.user /\ invoice[h.invoice].cart = h.cart
  /\ h.step \in Settling \cup {"items", "cancel", "send", "record", "unlock"} =>
       invoice[h.invoice].status # "NONE"
  /\ h.step = "invoice" => invoice[h.invoice].status = "NONE"
  /\ h.step = "record" => wompi[h.invoice] # "NONE"
  /\ h.step \in Keyed => txn[h.txn].reference = NoInvoice
  /\ h.step \in Settling \ {"find", "create"} => txn[h.txn].reference = h.invoice

HandlersHold == \A p \in Request : Holds(proc[p])

\* An invoice that is not inserted yet has one handler, and a key one INSERT.
KeysAreOwn ==
  \A p, q \in Request :
    /\ proc[p].invoice = proc[q].invoice /\ proc[p].invoice \in Invoice
       /\ invoice[proc[p].invoice].status = "NONE" => p = q
    /\ proc[p].step \in Keyed /\ proc[q].step \in Keyed /\ proc[p].txn = proc[q].txn => p = q

\* A paid invoice has its items.
ItemsOK(i) ==
  i \notin disturbed =>
    /\ invoice[i].status # "NONE" =>
         \/ invoice[i].items
         \/ \E p \in Request : proc[p].step = "items" /\ proc[p].invoice = i
    /\ \A p \in Request : proc[p].invoice = i /\ proc[p].step \in Paying =>
         \/ invoice[i].items
         \/ proc[p].step = "lock" /\ invoice[i].status = "NONE"
    /\ wompi[i] # "NONE" => invoice[i].items

\* The points of the cart are redeemed.
Whole(i) == invoice[i].cart.points > 0 => books[i].redeemed = 1

\* The books of an invoice that no handler is settling.
Complete(i) ==
  LET b == books[i]
      done == IF b.tickets = 1 /\ Whole(i) THEN 1 ELSE 0 IN
  /\ b.sold = b.tickets /\ b.tickets <= 1
  /\ b.redeemed <= b.tickets /\ b.earned + awarding[i] = done
  /\ b.commission = (IF invoice[i].cart.code THEN done ELSE 0) /\ b.uses = b.commission

Blank(i) ==
  LET b == books[i] IN
  /\ b.tickets = 0 /\ b.sold = 0 /\ b.redeemed = 0 /\ b.commission = 0 /\ b.uses = 0
  /\ b.earned + awarding[i] = 0
  /\ invoice[i].status # "PAID"

\* An invoice at rest: its status, its books and its row agree.
Rest(i) ==
  /\ Complete(i)
  /\ invoice[i].status = "PAID" => books[i].tickets = 1
  /\ books[i].tickets = 1 => invoice[i].status = "PAID" \/ wompi[i] = "VOIDED"
  /\ invoice[i].status = "REJECTED" => wompi[i] = "DECLINED"
  /\ Blank(i) \/ \E x \in RowsOf(i) : txn[x].status \in {"APPROVED", "VOIDED"}

\* The books when the settlement is about to make step s.
Reached(i, s) ==
  LET b == books[i]
      points == invoice[i].cart.points IN
  /\ b.tickets = (IF s = "tickets" THEN 0 ELSE 1)
  /\ b.sold = (IF s \in {"tickets", "sold"} THEN 0 ELSE 1)
  /\ s \in {"redeem", "ledger", "debit", "error"} => points > 0
  /\ b.redeemed = (IF s \in {"debit", "promoter", "uses"} /\ points > 0 THEN 1 ELSE 0)
  /\ b.earned + awarding[i] = (IF s \in {"promoter", "uses"} THEN 1 ELSE 0)
  /\ b.commission = (IF s = "uses" THEN 1 ELSE 0) /\ b.uses = 0
  /\ s = "uses" => invoice[i].cart.code

\* What the one handler that writes a calm invoice still knows of it.
Knows(h, i) ==
  /\ h.step \in Moving =>
       Reached(i, h.step) /\ invoice[i].status = "PAID" /\ txn[h.txn].status = "APPROVED"
  /\ h.step \notin Moving => Rest(i)
  /\ h.step \in {"create", "paid", "reject"} => Blank(i)
  /\ h.step \in {"find", "mark"} => ~Stale(i, h.status)
  /\ h.step = "mark" => ~(txn[h.txn].status = "APPROVED" /\ h.status = "APPROVED")
  /\ h.step = "paid" => txn[h.txn].status = "APPROVED"
  /\ h.step = "cancel" => invoice[i].status # "PAID"

InvoiceOK(i) ==
  i \notin disturbed /\ OneRow(i) =>
    /\ \A p, q \in Writes(i) : p = q
    /\ \A p \in Writes(i) : Knows(proc[p], i)
    /\ Writes(i) = {} => Rest(i)

\* A user on whom no settlements overlapped has the points that are about to be debited.
UserOK(u) ==
  u \notin disturbed =>
    /\ balance[u] >= 0
    /\ \A p, q \in Settles(u) : p = q
    /\ \A p \in Settles(u) : proc[p].step \in {"ledger", "debit"} =>
                               balance[u] >= proc[p].cart.points

IInv ==
  /\ TypeOK
  /\ HandlersInShape
  /\ RowsInShape
  /\ HandlersHold
  /\ KeysAreOwn
  /\ \A i \in Invoice : ItemsOK(i) /\ InvoiceOK(i)
  /\ \A u \in User : UserOK(u)

----------------------------------------------------------------------------
LEMMA RowFacts ==
  /\ Idle \in Handler /\ Shape(Idle) /\ Idle.step = "idle" /\ Idle.invoice = NoInvoice
  /\ Plain \in Cart \cup {Plain} /\ Plain.points = 0
  /\ NoBill \in InvoiceRow /\ NoBill.status = "NONE" /\ NoBill.user = NoUser
  /\ NoPayment \in TxnRow /\ NoPayment.reference = NoInvoice
  /\ NoBooks \in Books
  /\ NoBooks.tickets = 0 /\ NoBooks.sold = 0 /\ NoBooks.redeemed = 0
  /\ NoBooks.earned = 0 /\ NoBooks.commission = 0 /\ NoBooks.uses = 0
<1>1. Idle \in Handler /\ Idle.step = "idle" /\ Idle.invoice = NoInvoice
  BY DEF Idle, Handler, Step, WompiStatus
<1>2. Shape(Idle)
  BY <1>1 DEF Shape, Keyed, Settling, Moving
<1>3. Plain \in Cart \cup {Plain} /\ Plain.points = 0
  BY DEF Plain
<1>4. NoBill \in InvoiceRow /\ NoBill.status = "NONE" /\ NoBill.user = NoUser
  BY DEF NoBill, InvoiceRow
<1>5. NoPayment \in TxnRow /\ NoPayment.reference = NoInvoice
  BY DEF NoPayment, TxnRow
<1>6. /\ NoBooks \in Books
      /\ NoBooks.tickets = 0 /\ NoBooks.sold = 0 /\ NoBooks.redeemed = 0
      /\ NoBooks.earned = 0 /\ NoBooks.commission = 0 /\ NoBooks.uses = 0
  BY DEF NoBooks, Books
<1> QED
  BY <1>1, <1>2, <1>3, <1>4, <1>5, <1>6

\* Every event implies the payment's present status, or that it was voided since.
LEMMA SentFacts ==
  /\ Sent("NONE") = {}
  /\ \A s \in WompiStatus : "PENDING" \in Sent(s)
  /\ \A s : "APPROVED" \in Sent(s) => s \in {"APPROVED", "VOIDED"}
  /\ \A s : "DECLINED" \in Sent(s) => s = "DECLINED"
  /\ \A s : "VOIDED" \in Sent(s) => s = "VOIDED"
BY DEF Sent, WompiStatus

LEMMA CartFacts == \A c \in Cart \cup {Plain} : c.points \in Nat
BY CartAssumption, RowFacts

LEMMA InitInv == Init => IInv
<1> SUFFICES ASSUME Init PROVE IInv
  OBVIOUS
<1>1. ASSUME NEW i \in Invoice
      PROVE  /\ invoice[i] \in InvoiceRow
             /\ IF invoice[i].status = "NONE" THEN invoice[i].user = NoUser
                ELSE invoice[i].user \in User /\ invoice[i].items
             /\ invoice[i].status \in {"NONE", "ISSUED"}
  <2> DEFINE Bill == [status : {"ISSUED"}, user : User,
                      cart : {c \in Cart : c.points <= Opening}, items : {TRUE}]
  <2>1. invoice[i] = NoBill \/ invoice[i] \in Bill
    BY DEF Init
  <2>2. ASSUME NEW r \in Bill
        PROVE  r \in InvoiceRow /\ r.status = "ISSUED" /\ r.user \in User /\ r.items
    BY DEF InvoiceRow
  <2> HIDE DEF Bill
  <2> QED
    BY <2>1, <2>2, RowFacts
<1>2. TypeOK
  <2>1. invoice \in [Invoice -> InvoiceRow]
    <3>1. invoice = [i \in Invoice |-> invoice[i]]
      BY DEF Init
    <3> QED
      BY <1>1, <3>1
  <2>2. locked \subseteq User /\ balance \in [User -> Int]
    BY PointsAssumption DEF Init
  <2>3. txn \in [Txn -> TxnRow]
    BY RowFacts DEF Init
  <2>4. wompi \in [Invoice -> WompiStatus \cup {"NONE"}] /\ unseen \in [Invoice -> SUBSET WompiStatus]
    BY DEF Init
  <2>5. /\ books \in [Invoice -> Books] /\ awarding \in [Invoice -> Nat]
        /\ crediting \in [Invoice -> Nat]
    BY RowFacts DEF Init
  <2>6. proc \in [Request -> Handler]
    BY RowFacts DEF Init
  <2>7. disturbed = {} /\ faults = 0 /\ requests = 0
    BY DEF Init
  <2>8. disturbed \subseteq Invoice \cup User /\ faults \in 0..MaxFaults /\ requests \in 0..MaxRequests
    BY <2>7, BoundsAssumption
  <2> QED
    BY <2>1, <2>2, <2>3, <2>4, <2>5, <2>6, <2>8 DEF TypeOK
<1>3. \A p \in Request : proc[p] = Idle
  BY DEF Init
<1>4. \A i \in Invoice : RowsOf(i) = {} /\ Writes(i) = {} /\ wompi[i] = "NONE"
  BY <1>3, RowFacts, NoneAssumption DEF Init, RowsOf, Writes, Settling
<1>5. HandlersInShape /\ HandlersHold /\ KeysAreOwn
  BY <1>3, RowFacts, NoneAssumption
     DEF HandlersInShape, HandlersHold, Holds, KeysAreOwn, Keyed, Settling
<1>6. RowsInShape
  BY <1>1, <1>4 DEF RowsInShape
<1>7. ASSUME NEW i \in Invoice PROVE ItemsOK(i)
  BY <1>1, <1>3, <1>4, RowFacts, NoneAssumption DEF ItemsOK
<1>8. ASSUME NEW i \in Invoice PROVE InvoiceOK(i)
  <2>1. books[i] = NoBooks /\ awarding[i] = 0
    BY DEF Init
  <2>2. Blank(i)
    BY <1>1, <2>1, RowFacts DEF Blank
  <2>3. Complete(i)
    BY <2>1, RowFacts DEF Complete
  <2>4. Rest(i)
    BY <1>1, <2>1, <2>2, <2>3, RowFacts DEF Rest
  <2> QED
    BY <1>4, <2>4 DEF InvoiceOK
<1>9. ASSUME NEW u \in User PROVE UserOK(u)
  <2>1. Settles(u) = {}
    BY <1>3, RowFacts DEF Settles, Settling
  <2>2. balance[u] >= 0
    BY PointsAssumption DEF Init
  <2> QED
    BY <2>1, <2>2 DEF UserOK
<1> QED
  BY <1>2, <1>5, <1>6, <1>7, <1>8, <1>9 DEF IInv

----------------------------------------------------------------------------
\* A step leaves what the settlement of invoice i has written; an award that arrives and
\* a payment that Wompi decides on do not change it.
FramesBooks(i) ==
  /\ invoice'[i].status = invoice[i].status /\ invoice'[i].cart = invoice[i].cart
  /\ books'[i].tickets = books[i].tickets /\ books'[i].sold = books[i].sold
  /\ books'[i].redeemed = books[i].redeemed
  /\ books'[i].earned + awarding'[i] = books[i].earned + awarding[i]
  /\ books'[i].commission = books[i].commission /\ books'[i].uses = books[i].uses
  /\ wompi[i] \in {"VOIDED", "DECLINED"} => wompi'[i] = wompi[i]
  /\ RowsOf(i)' = RowsOf(i)
  /\ \A x \in RowsOf(i) : txn'[x].status = txn[x].status

Frames(i) ==
  /\ FramesBooks(i)
  /\ invoice[i].items => invoice'[i].items
  /\ wompi[i] = "NONE" => wompi'[i] = "NONE"

LEMMA RestFramed ==
  ASSUME NEW i \in Invoice, FramesBooks(i)
  PROVE  /\ Blank(i) => Blank(i)'
         /\ Complete(i) => Complete(i)'
         /\ Rest(i) => Rest(i)'
         /\ \A s : Reached(i, s) => Reached(i, s)'
         /\ \A s : ~Stale(i, s) => ~Stale(i, s)'
<1>1. Blank(i) => Blank(i)'
  BY DEF Blank, FramesBooks
<1>2. Complete(i) => Complete(i)'
  BY DEF Complete, Whole, FramesBooks
<1>3. Rest(i) => Rest(i)'
  BY <1>1, <1>2 DEF Rest, FramesBooks
<1>4. \A s : Reached(i, s) => Reached(i, s)'
  BY DEF Reached, FramesBooks
<1>5. \A s : ~Stale(i, s) => ~Stale(i, s)'
  BY DEF Stale, FramesBooks
<1> QED
  BY <1>1, <1>2, <1>3, <1>4, <1>5

LEMMA KnowsFramed ==
  ASSUME NEW i \in Invoice, FramesBooks(i), NEW h, Knows(h, i),
         h.step \in Moving \cup {"mark", "paid"} => h.txn \in RowsOf(i)
  PROVE  Knows(h, i)'
<1>1. h.step \in Moving \cup {"mark", "paid"} => txn'[h.txn].status = txn[h.txn].status
  BY DEF FramesBooks
<1>2. invoice'[i].status = invoice[i].status
  BY DEF FramesBooks
<1> QED
  BY <1>1, <1>2, RestFramed DEF Knows

\* The row a settlement writes is one of its reference.
LEMMA RowIsOurs ==
  ASSUME IInv, NEW p \in Request, proc[p].step \in Settling \ {"find", "create"}
  PROVE  proc[p].txn \in RowsOf(proc[p].invoice)
BY DEF IInv, HandlersInShape, Shape, HandlersHold, Holds, RowsOf

LEMMA InvoiceFramed ==
  ASSUME IInv, NEW i \in Invoice, FramesBooks(i), disturbed \subseteq disturbed',
         Writes(i)' = Writes(i), \A p \in Writes(i) : proc'[p] = proc[p]
  PROVE  InvoiceOK(i)'
<1> SUFFICES ASSUME i \notin disturbed', OneRow(i)'
             PROVE  InvoiceOK(i)'
  BY DEF InvoiceOK
<1>1. OneRow(i)
  BY DEF OneRow, FramesBooks
<1>2. /\ \A p, q \in Writes(i) : p = q
      /\ \A p \in Writes(i) : Knows(proc[p], i)
      /\ Writes(i) = {} => Rest(i)
  BY <1>1 DEF IInv, InvoiceOK
<1>3. ASSUME NEW p \in Writes(i)' PROVE Knows(proc[p], i)'
  <2>1. PICK h : h = proc[p] /\ h = proc'[p] /\ Knows(h, i)
    BY <1>2
  <2>2. h.step \in Moving \cup {"mark", "paid"} => h.txn \in RowsOf(i)
    BY <2>1, RowIsOurs DEF Writes, Moving, Settling
  <2>3. Knows(h, i)'
    BY <2>1, <2>2, KnowsFramed
  <2> QED
    BY <2>1, <2>3
<1> QED
  BY <1>2, <1>3, RestFramed DEF InvoiceOK

LEMMA ItemsFramed ==
  ASSUME IInv, NEW i \in Invoice, Frames(i), disturbed \subseteq disturbed',
         \A p \in Request : proc[p].invoice = i \/ proc'[p].invoice = i => proc'[p] = proc[p]
  PROVE  ItemsOK(i)'
BY DEF IInv, ItemsOK, Frames, FramesBooks

----------------------------------------------------------------------------
TablesOK ==
  /\ locked \subseteq User
  /\ balance \in [User -> Int]
  /\ invoice \in [Invoice -> InvoiceRow]
  /\ txn \in [Txn -> TxnRow]
  /\ wompi \in [Invoice -> WompiStatus \cup {"NONE"}]
  /\ unseen \in [Invoice -> SUBSET WompiStatus]
  /\ books \in [Invoice -> Books]
  /\ awarding \in [Invoice -> Nat]
  /\ crediting \in [Invoice -> Nat]
  /\ disturbed \subseteq Invoice \cup User
  /\ faults \in 0..MaxFaults
  /\ requests \in 0..MaxRequests

\* Rows are inserted and never deleted, only by handler p, under its own key.
Grows(p) ==
  /\ \A i \in Invoice : invoice[i].status # "NONE" =>
       /\ invoice'[i].status # "NONE"
       /\ invoice'[i].user = invoice[i].user /\ invoice'[i].cart = invoice[i].cart
  /\ \A i \in Invoice : invoice'[i].status # "NONE" =>
       invoice[i].status # "NONE" \/ proc[p].invoice = i
  /\ \A i \in Invoice : /\ Sent(wompi[i]) \subseteq Sent(wompi'[i])
                        /\ wompi[i] # "NONE" => wompi'[i] # "NONE"
  /\ \A x \in Txn : txn[x].reference # NoInvoice => txn'[x].reference = txn[x].reference
  /\ \A x \in Txn : txn'[x].reference # NoInvoice =>
       txn[x].reference # NoInvoice \/ (proc[p].step \in Keyed /\ proc[p].txn = x)

OwnKeys(p, h) ==
  \A q \in Request \ {p} :
    /\ h.invoice \in Invoice /\ invoice'[h.invoice].status = "NONE" => proc[q].invoice # h.invoice
    /\ h.step \in Keyed /\ proc[q].step \in Keyed => proc[q].txn # h.txn

\* Another handler holds on to what it holds.
LEMMA HoldsGrows ==
  ASSUME IInv, NEW p \in Request, NEW q \in Request, q # p, Grows(p), NEW h, h = proc[q]
  PROVE  Holds(h)'
<1>1. Holds(h) /\ Shape(h)
  BY DEF IInv, HandlersHold, HandlersInShape
<1>2. h.step # "idle" => h.invoice \in Invoice
  BY <1>1 DEF Shape
<1>3. h.step \in Settling =>
        /\ h.status \in Sent(wompi'[h.invoice])
        /\ invoice'[h.invoice].user = h.user /\ invoice'[h.invoice].cart = h.cart
  BY <1>1, <1>2 DEF Holds, Grows, Settling
<1>4. h.step \in Settling \cup {"items", "cancel", "send", "record", "unlock"} =>
        invoice'[h.invoice].status # "NONE"
  BY <1>1, <1>2 DEF Holds, Grows, Settling
<1>5. h.step = "invoice" => invoice'[h.invoice].status = "NONE"
  <2> SUFFICES ASSUME h.step = "invoice", invoice'[h.invoice].status # "NONE"
               PROVE  FALSE
    OBVIOUS
  <2>1. h.invoice \in Invoice /\ invoice[h.invoice].status = "NONE"
    BY <1>1, <1>2 DEF Holds
  <2>2. proc[p].invoice = h.invoice
    BY <2>1 DEF Grows
  <2> QED
    BY <2>1, <2>2 DEF IInv, KeysAreOwn
<1>6. h.step = "record" => wompi'[h.invoice] # "NONE"
  BY <1>1, <1>2 DEF Holds, Grows
<1>7. h.step \in Keyed => txn'[h.txn].reference = NoInvoice
  BY <1>1 DEF Shape, Holds, Grows, IInv, KeysAreOwn
<1>8. h.step \in Settling \ {"find", "create"} => txn'[h.txn].reference = h.invoice
  BY <1>1, <1>2, NoneAssumption DEF Shape, Holds, Grows, Settling
<1> QED
  BY <1>3, <1>4, <1>5, <1>6, <1>7, <1>8 DEF Holds

\* Handler p goes on to h; the step is about invoice i.
LEMMA MoveInv ==
  ASSUME IInv, NEW p \in Request, NEW h \in Handler, NEW i \in Invoice,
         proc' = [proc EXCEPT ![p] = h], Shape(h), Holds(h)', OwnKeys(p, h),
         TablesOK', RowsInShape', Grows(p), disturbed \subseteq disturbed',
         proc[p].invoice \in {i, NoInvoice}, h.invoice \in {i, NoInvoice},
         \A j \in Invoice \ {i} : Frames(j), ItemsOK(i)', InvoiceOK(i)',
         \A u \in User : UserOK(u)'
  PROVE  IInv'
<1>1. /\ proc'[p] = h /\ proc' \in [Request -> Handler]
      /\ \A q \in Request \ {p} : proc'[q] = proc[q]
  BY DEF IInv, TypeOK
<1>2. TypeOK'
  BY <1>1 DEF TypeOK, TablesOK
<1>3. HandlersInShape'
  BY <1>1 DEF IInv, HandlersInShape
<1>4. HandlersHold'
  <2>1. ASSUME NEW q \in Request, q # p PROVE Holds(proc[q])'
    <3>1. PICK g : g = proc[q] /\ g = proc'[q]
      BY <1>1, <2>1
    <3>2. Holds(g)'
      BY <2>1, <3>1, HoldsGrows
    <3> QED
      BY <3>1, <3>2
  <2>2. Holds(proc[p])'
    BY <1>1
  <2> QED
    BY <2>1, <2>2 DEF HandlersHold
<1>5. KeysAreOwn'
  <2> SUFFICES ASSUME NEW q \in Request, NEW s \in Request, q # s
               PROVE  /\ ~(/\ proc'[q].invoice = proc'[s].invoice /\ proc'[q].invoice \in Invoice
                           /\ invoice'[proc'[q].invoice].status = "NONE")
                      /\ ~(/\ proc'[q].step \in Keyed /\ proc'[s].step \in Keyed
                           /\ proc'[q].txn = proc'[s].txn)
    BY DEF KeysAreOwn
  <2>1. CASE q = p
    BY <1>1, <2>1 DEF OwnKeys
  <2>2. CASE s = p
    BY <1>1, <2>2 DEF OwnKeys
  <2>3. CASE q # p /\ s # p
    BY <1>1, <2>3 DEF IInv, KeysAreOwn, Grows
  <2> QED
    BY <2>1, <2>2, <2>3
<1>6. ASSUME NEW j \in Invoice, j # i
      PROVE  ItemsOK(j)' /\ InvoiceOK(j)'
  <2>1. proc[p].invoice # j /\ h.invoice # j
    BY <1>6, NoneAssumption
  <2>2. \A q \in Request : proc[q].invoice = j \/ proc'[q].invoice = j => proc'[q] = proc[q]
    BY <1>1, <2>1
  <2>3. Writes(j)' = Writes(j) /\ \A q \in Writes(j) : proc'[q] = proc[q]
    BY <2>2 DEF Writes
  <2>4. Frames(j) /\ FramesBooks(j)
    BY <1>6 DEF Frames
  <2> QED
    BY <2>2, <2>3, <2>4, ItemsFramed, InvoiceFramed
<1> QED
  BY <1>2, <1>3, <1>4, <1>5, <1>6 DEF IInv

----------------------------------------------------------------------------
Writing == Settling \cup {"cancel"}

\* Handler p is at work.
LEMMA AtWork ==
  ASSUME IInv, NEW p \in Request, proc[p].step # "idle"
  PROVE  /\ proc[p] \in Handler /\ proc[p].step \in Step
         /\ proc[p].invoice \in Invoice /\ proc[p].user \in User
         /\ proc[p].status \in WompiStatus /\ proc[p].cart.points \in Nat
         /\ Shape(proc[p]) /\ Holds(proc[p])
<1>1. proc[p] \in Handler
  BY DEF IInv, TypeOK
<1>2. /\ proc[p].step \in Step /\ proc[p].status \in WompiStatus
      /\ proc[p].cart \in Cart \cup {Plain}
  BY <1>1 DEF Handler
<1>3. Shape(proc[p]) /\ Holds(proc[p])
  BY DEF IInv, HandlersInShape, HandlersHold
<1>4. proc[p].invoice \in Invoice /\ proc[p].user \in User
  BY <1>3 DEF Shape
<1> QED
  BY <1>1, <1>2, <1>3, <1>4, CartFacts

\* Handler p goes on to h, or has ended.
Becomes(p, h) == h \in Handler /\ proc' = [proc EXCEPT ![p] = h]

SameJob(h, g) ==
  g.user = h.user /\ g.invoice = h.invoice /\ g.status = h.status /\ g.cart = h.cart

LEMMA GoesTo ==
  ASSUME TypeOK, NEW p \in Request, NEW s \in Step, Goto(p, s)
  PROVE  \E h : Becomes(p, h) /\ h.step = s /\ SameJob(proc[p], h) /\ h.txn = proc[p].txn
<1> DEFINE g == [proc[p] EXCEPT !.step = s]
<1>1. proc[p] \in Handler
  BY DEF TypeOK
<1>2. g \in Handler
  BY <1>1 DEF Handler
<1>3. g.step = s /\ SameJob(proc[p], g) /\ g.txn = proc[p].txn
  BY <1>1 DEF Handler, SameJob
<1>4. proc' = [proc EXCEPT ![p] = g]
  BY DEF Goto
<1> HIDE DEF g
<1> QED
  BY <1>2, <1>3, <1>4 DEF Becomes

Takes(p, s, x) == proc' = [proc EXCEPT ![p].step = s, ![p].txn = x]

LEMMA TakesKey ==
  ASSUME TypeOK, NEW p \in Request, NEW s \in Step, NEW x \in Txn, Takes(p, s, x)
  PROVE  \E h : Becomes(p, h) /\ h.step = s /\ SameJob(proc[p], h) /\ h.txn = x
<1> DEFINE g == [proc[p] EXCEPT !.step = s, !.txn = x]
<1>1. proc[p] \in Handler /\ proc \in [Request -> Handler]
  BY DEF TypeOK
<1>2. g \in Handler
  BY <1>1 DEF Handler
<1>3. g.step = s /\ SameJob(proc[p], g) /\ g.txn = x
  BY <1>1 DEF Handler, SameJob
<1>4. proc' = [proc EXCEPT ![p] = g]
  BY <1>1 DEF Takes
<1> HIDE DEF g
<1> QED
  BY <1>2, <1>3, <1>4 DEF Becomes

LEMMA Ends == ASSUME NEW p \in Request, Done(p) PROVE Becomes(p, Idle)
BY RowFacts DEF Done, Becomes

LEMMA UsersKept ==
  ASSUME IInv, NEW p \in Request, NEW h, Becomes(p, h), disturbed \subseteq disturbed',
         balance' = balance,
         h.step \in Settling => proc[p].step \in Settling /\ SameJob(proc[p], h),
         h.step \in {"ledger", "debit"} =>
           proc[p].step \in {"ledger", "debit"} \/ balance[h.user] >= h.cart.points
  PROVE  \A u \in User : UserOK(u)'
<1> SUFFICES ASSUME NEW u \in User, u \notin disturbed'
             PROVE  UserOK(u)'
  BY DEF UserOK
<1>1. /\ balance[u] >= 0
      /\ \A q, s \in Settles(u) : q = s
      /\ \A q \in Settles(u) : proc[q].step \in {"ledger", "debit"} => balance[u] >= proc[q].cart.points
  BY DEF IInv, UserOK
<1>2. proc'[p] = h /\ \A q \in Request \ {p} : proc'[q] = proc[q]
  BY DEF IInv, TypeOK, Becomes
<1>3. Settles(u)' \subseteq Settles(u)
  BY <1>2 DEF Settles, SameJob
<1>4. ASSUME NEW q \in Settles(u)', proc'[q].step \in {"ledger", "debit"}
      PROVE  balance'[u] >= proc'[q].cart.points
  <2>1. q \in Settles(u)
    BY <1>3
  <2>2. CASE q = p
    BY <1>1, <1>2, <1>4, <2>1, <2>2 DEF Settles, SameJob
  <2>3. CASE q # p
    BY <1>1, <1>2, <1>4, <2>1, <2>3 DEF Settles
  <2> QED
    BY <2>2, <2>3
<1> QED
  BY <1>1, <1>3, <1>4 DEF UserOK

\* The one handler that writes invoice i hands over what it knows, or leaves it at rest.
LEMMA WriterMoves ==
  ASSUME IInv, NEW p \in Request, NEW i \in Invoice, p \in Writes(i), NEW h, Becomes(p, h),
         disturbed \subseteq disturbed', OneRow(i)' => OneRow(i), h.step \in Writing => h.invoice = i,
         i \notin disturbed' /\ OneRow(i)' /\ Knows(proc[p], i) =>
           IF h.step \in Writing THEN Knows(h, i)' ELSE Rest(i)'
  PROVE  InvoiceOK(i)'
<1> SUFFICES ASSUME i \notin disturbed', OneRow(i)'
             PROVE  InvoiceOK(i)'
  BY DEF InvoiceOK
<1>1. Writes(i) = {p} /\ Knows(proc[p], i)
  BY DEF IInv, InvoiceOK
<1>2. proc'[p] = h /\ \A q \in Request \ {p} : proc'[q] = proc[q]
  BY DEF IInv, TypeOK, Becomes
<1>3. \A q \in Request \ {p} : q \notin Writes(i)'
  BY <1>1, <1>2 DEF Writes
<1>4. CASE h.step \in Writing
  <2>1. Writes(i)' = {p}
    BY <1>2, <1>3, <1>4 DEF Writes, Writing
  <2>2. Knows(proc[p], i)'
    BY <1>1, <1>2, <1>4
  <2> QED
    BY <2>1, <2>2 DEF InvoiceOK
<1>5. CASE h.step \notin Writing
  <2>1. Writes(i)' = {}
    BY <1>2, <1>3, <1>5 DEF Writes, Writing
  <2> QED
    BY <1>1, <1>5, <2>1 DEF InvoiceOK
<1> QED
  BY <1>4, <1>5

\* The invoice keeps its items; only a payment that found them, or none at all, goes on.
LEMMA ItemsKept ==
  ASSUME IInv, NEW p \in Request, NEW i \in Invoice, NEW h, Becomes(p, h),
         disturbed \subseteq disturbed', invoice[i].items => invoice'[i].items,
         (invoice'[i].status = "NONE") = (invoice[i].status = "NONE"),
         wompi'[i] # "NONE" => wompi[i] # "NONE" \/ i \in disturbed' \/ invoice[i].items,
         proc[p].step = "items" => i \in disturbed' \/ invoice'[i].items,
         h.step \in Paying /\ h.invoice = i =>
           \/ i \in disturbed' \/ invoice'[i].items
           \/ h.step = "lock" /\ invoice[i].status = "NONE"
  PROVE  ItemsOK(i)'
<1> SUFFICES ASSUME i \notin disturbed'
             PROVE  ItemsOK(i)'
  BY DEF ItemsOK
<1>1. proc'[p] = h /\ \A q \in Request \ {p} : proc'[q] = proc[q]
  BY DEF IInv, TypeOK, Becomes
<1>2. ItemsOK(i) /\ i \notin disturbed
  BY DEF IInv
<1>3. invoice'[i].status # "NONE" =>
        \/ invoice'[i].items
        \/ \E q \in Request : proc'[q].step = "items" /\ proc'[q].invoice = i
  BY <1>1, <1>2 DEF ItemsOK
<1>4. \A q \in Request : proc'[q].invoice = i /\ proc'[q].step \in Paying =>
        \/ invoice'[i].items
        \/ proc'[q].step = "lock" /\ invoice'[i].status = "NONE"
  BY <1>1, <1>2 DEF ItemsOK
<1>5. wompi'[i] # "NONE" => invoice'[i].items
  BY <1>2 DEF ItemsOK
<1> QED
  BY <1>3, <1>4, <1>5 DEF ItemsOK

\* A step that leaves the rows and books of other invoices frames them.
LEMMA OthersFramed ==
  ASSUME IInv, NEW i \in Invoice,
         \A j \in Invoice \ {i} :
           /\ invoice'[j] = invoice[j] /\ books'[j] = books[j] /\ awarding'[j] = awarding[j]
           /\ wompi'[j] = wompi[j] /\ RowsOf(j)' = RowsOf(j)
           /\ \A x \in RowsOf(j) : txn'[x].status = txn[x].status
  PROVE  \A j \in Invoice \ {i} : Frames(j)
BY DEF Frames, FramesBooks

\* A handler that goes on with an issued invoice and inserts no row keeps the keys apart.
LEMMA NoKeyTaken ==
  ASSUME NEW p \in Request, NEW h, h.step \notin Keyed,
         h.invoice \in Invoice => invoice'[h.invoice].status # "NONE"
  PROVE  OwnKeys(p, h)
BY DEF OwnKeys

\* A step of the settlement: it writes the books of its invoice and nothing else.
LEMMA BooksInv ==
  ASSUME IInv, NEW p \in Request, NEW i \in Invoice, proc[p].invoice = i,
         NEW h, Becomes(p, h), Shape(h),
         proc[p].step \in Moving, h = Idle \/ (h.step \in Moving /\ SameJob(proc[p], h)),
         h.step # "idle" => h.txn = proc[p].txn,
         UNCHANGED <<locked, invoice, txn, wompi, unseen, disturbed, faults, requests>>,
         books' \in [Invoice -> Books], awarding' \in [Invoice -> Nat],
         crediting' \in [Invoice -> Nat], balance' \in [User -> Int],
         \A j \in Invoice \ {i} : books'[j] = books[j] /\ awarding'[j] = awarding[j],
         invoice[i].status = "PAID" /\ Reached(i, proc[p].step)
           /\ ItemsOK(i) /\ i \notin disturbed
           /\ wompi[i] # "NONE" =>
             IF h.step \in Moving THEN Reached(i, h.step)'
             ELSE Complete(i)' /\ books'[i].tickets = 1,
         \A u \in User : UserOK(u)'
  PROVE  IInv'
<1>1. /\ proc[p].step \in Settling \ {"find", "create"}
      /\ proc[p].step \notin Paying \cup {"idle", "items"}
  BY DEF Moving, Settling, Paying
<1>2. Shape(proc[p]) /\ Holds(proc[p])
  BY <1>1, AtWork
<1>3. /\ p \in Writes(i) /\ invoice[i].status # "NONE" /\ wompi[i] # "NONE"
      /\ proc[p].txn \in RowsOf(i)
  BY <1>1, <1>2, RowIsOurs, SentFacts DEF Writes, Holds
<1>4. h.step \in Moving \cup {"idle"} /\ h.step \notin Paying \cup Keyed \cup {"items"}
  BY RowFacts DEF Moving, Paying, Keyed
<1>5. Holds(h)'
  BY <1>1, <1>2, <1>4, RowFacts DEF Holds, SameJob, Moving, Settling, Keyed
<1>6. Grows(p)
  BY DEF Grows
<1>7. RowsInShape'
  BY DEF IInv, RowsInShape, RowsOf
<1>8. TablesOK'
  BY DEF IInv, TypeOK, TablesOK
<1>9. \A j \in Invoice \ {i} : Frames(j)
  BY <1>2, OthersFramed DEF RowsOf
<1>10. ItemsOK(i)'
  BY <1>1, <1>2, <1>4, ItemsKept
<1>11. OneRow(i)' = OneRow(i) /\ RowsOf(i)' = RowsOf(i)
  BY DEF OneRow, RowsOf
<1>12. h.invoice \in {i, NoInvoice} /\ (h.step # "idle" => h.invoice = i) /\ h \in Handler
  BY RowFacts DEF SameJob, Becomes
<1>13. i \notin disturbed' /\ OneRow(i)' /\ Knows(proc[p], i) =>
         IF h.step \in Writing THEN Knows(h, i)' ELSE Rest(i)'
  <2> SUFFICES ASSUME i \notin disturbed, Knows(proc[p], i)
               PROVE  IF h.step \in Writing THEN Knows(h, i)' ELSE Rest(i)'
    OBVIOUS
  <2>1. /\ Reached(i, proc[p].step) /\ invoice[i].status = "PAID"
        /\ txn[proc[p].txn].status = "APPROVED"
    BY DEF Knows
  <2>2. IF h.step \in Moving THEN Reached(i, h.step)'
        ELSE Complete(i)' /\ books'[i].tickets = 1
    BY <1>2, <1>3, <2>1 DEF IInv
  <2>3. CASE h.step \in Moving
    <3>1. h.step \in Writing /\ h.step \notin {"create", "paid", "reject", "find", "mark", "cancel"}
      BY <2>3 DEF Writing, Settling, Moving
    <3>2. h.txn = proc[p].txn
      BY <2>3 DEF Moving
    <3> QED
      BY <2>1, <2>2, <2>3, <3>1, <3>2 DEF Knows
  <2>4. CASE h.step \notin Moving
    <3>1. h.step \notin Writing
      BY <1>4, <2>4 DEF Writing, Settling
    <3>2. Complete(i)' /\ books'[i].tickets = 1
      BY <2>2, <2>4
    <3>3. Rest(i)'
      BY <1>3, <1>11, <2>1, <3>2 DEF Rest
    <3> QED
      BY <3>1, <3>3
  <2> QED
    BY <2>3, <2>4
<1>14. InvoiceOK(i)'
  <2>1. h.step \in Writing => h.invoice = i
    BY <1>12 DEF Writing, Settling
  <2> QED
    BY <1>2, <1>3, <1>11, <1>13, <2>1, WriterMoves
<1>15. OwnKeys(p, h)
  BY <1>3, <1>4, <1>12, NoKeyTaken, NoneAssumption
<1> QED
  BY <1>2, <1>5, <1>6, <1>7, <1>8, <1>9, <1>10, <1>12, <1>14, <1>15, MoveInv DEF Becomes

----------------------------------------------------------------------------
\* Each write of the settlement brings the books to the next step.

LEMMA CreateTicketsInv ==
  ASSUME IInv, NEW p \in Request, CreateTickets(p)
  PROVE  IInv'
<1>1. proc[p].step = "tickets"
  BY DEF CreateTickets
<1>2. PICK i \in Invoice : i = proc[p].invoice
  BY <1>1, AtWork
<1>3. PICK h : /\ Becomes(p, h) /\ h.step = "sold" /\ SameJob(proc[p], h) /\ h.txn = proc[p].txn
  <2>1. "sold" \in Step
    BY DEF Step, Settling
  <2> QED
    BY <2>1, GoesTo DEF CreateTickets, IInv
<1>4. books' = [books EXCEPT ![i].tickets = IF invoice[i].items THEN @ + 1 ELSE @]
  BY <1>2 DEF CreateTickets
<1>5. PICK b \in Books : b = books[i]
  BY DEF IInv, TypeOK
<1>6. PICK c \in Books : /\ books' = [books EXCEPT ![i] = c]
                         /\ c.tickets = (IF invoice[i].items THEN b.tickets + 1 ELSE b.tickets)
                         /\ c.sold = b.sold /\ c.redeemed = b.redeemed /\ c.earned = b.earned
                         /\ c.commission = b.commission /\ c.uses = b.uses
  <2> DEFINE g == [b EXCEPT !.tickets = IF invoice[i].items THEN @ + 1 ELSE @]
  <2>1. g \in Books
    BY DEF Books
  <2>2. /\ g.tickets = (IF invoice[i].items THEN b.tickets + 1 ELSE b.tickets)
        /\ g.sold = b.sold /\ g.redeemed = b.redeemed /\ g.earned = b.earned
        /\ g.commission = b.commission /\ g.uses = b.uses
    BY DEF Books
  <2>3. books' = [books EXCEPT ![i] = g]
    BY <1>4, <1>5
  <2> HIDE DEF g
  <2> QED
    BY <2>1, <2>2, <2>3
<1>7. /\ books' \in [Invoice -> Books] /\ books'[i] = c
      /\ \A j \in Invoice \ {i} : books'[j] = books[j]
  BY <1>6 DEF IInv, TypeOK
<1>8. UNCHANGED <<locked, invoice, txn, wompi, unseen, disturbed, faults, requests>>
      /\ UNCHANGED <<balance, awarding, crediting>>
  BY DEF CreateTickets, outside, history
<1>9. Reached(i, "tickets") /\ ItemsOK(i) /\ i \notin disturbed /\ wompi[i] # "NONE" =>
        Reached(i, "sold")'
  BY <1>5, <1>6, <1>7, <1>8 DEF Reached, ItemsOK, Books
<1>10. Shape(h)
  BY <1>1, <1>3, AtWork DEF Shape, SameJob, Settling, Keyed, Moving
<1>11. \A u \in User : UserOK(u)'
  BY <1>1, <1>3, <1>8, UsersKept DEF Settling
<1>12. awarding' \in [Invoice -> Nat] /\ crediting' \in [Invoice -> Nat] /\ balance' \in [User -> Int]
  BY <1>8 DEF IInv, TypeOK
<1>13. proc[p].step \in Moving /\ h.step \in Moving
  BY <1>1, <1>3 DEF Moving
<1> QED
  BY <1>1, <1>2, <1>3, <1>7, <1>8, <1>9, <1>10, <1>11, <1>12, <1>13, BooksInv

LEMMA IncrementSoldInv ==
  ASSUME IInv, NEW p \in Request, IncrementSold(p)
  PROVE  IInv'
<1>1. proc[p].step = "sold"
  BY DEF IncrementSold
<1>2. PICK i \in Invoice : i = proc[p].invoice
  BY <1>1, AtWork
<1>3. PICK h : /\ Becomes(p, h) /\ SameJob(proc[p], h) /\ h.txn = proc[p].txn
               /\ h.step = (IF proc[p].cart.points > 0 THEN "redeem" ELSE "promoter")
  <2>1. "redeem" \in Step /\ "promoter" \in Step
    BY DEF Step, Settling
  <2> QED
    BY <2>1, GoesTo DEF IncrementSold, IInv
<1>4. books' = [books EXCEPT ![i].sold = @ + 1]
  BY <1>2 DEF IncrementSold
<1>5. PICK b \in Books : b = books[i]
  BY DEF IInv, TypeOK
<1>6. PICK c \in Books : /\ books' = [books EXCEPT ![i] = c] /\ c.sold = b.sold + 1
                         /\ c.tickets = b.tickets /\ c.redeemed = b.redeemed /\ c.earned = b.earned
                         /\ c.commission = b.commission /\ c.uses = b.uses
  <2> DEFINE g == [b EXCEPT !.sold = @ + 1]
  <2>1. g \in Books
    BY DEF Books
  <2>2. /\ g.sold = b.sold + 1
        /\ g.tickets = b.tickets /\ g.redeemed = b.redeemed /\ g.earned = b.earned
        /\ g.commission = b.commission /\ g.uses = b.uses
    BY DEF Books
  <2>3. books' = [books EXCEPT ![i] = g]
    BY <1>4, <1>5
  <2> HIDE DEF g
  <2> QED
    BY <2>1, <2>2, <2>3
<1>7. /\ books' \in [Invoice -> Books] /\ books'[i] = c
      /\ \A j \in Invoice \ {i} : books'[j] = books[j]
  BY <1>6 DEF IInv, TypeOK
<1>8. UNCHANGED <<locked, invoice, txn, wompi, unseen, disturbed, faults, requests>>
      /\ UNCHANGED <<balance, crediting>>
  BY DEF IncrementSold, outside, history
<1>9. awarding \in [Invoice -> Nat] /\ crediting \in [Invoice -> Nat]
  BY DEF IInv, TypeOK
<1>10. /\ awarding' \in [Invoice -> Nat] /\ crediting' \in [Invoice -> Nat]
       /\ \A j \in Invoice \ {i} : awarding'[j] = awarding[j]
       /\ awarding'[i] = (IF proc[p].cart.points > 0 THEN awarding[i] ELSE awarding[i] + 1)
  BY <1>2, <1>8, <1>9 DEF IncrementSold
<1>11. invoice[i].cart = proc[p].cart /\ proc[p].cart.points \in Nat /\ Shape(proc[p])
  BY <1>1, <1>2, AtWork DEF Holds, Settling
<1>12. Reached(i, "sold") => Reached(i, h.step)'
  BY <1>3, <1>5, <1>6, <1>7, <1>8, <1>9, <1>10, <1>11 DEF Reached, Books
<1>13. proc[p].step \in Moving /\ h.step \in Moving
  BY <1>1, <1>3 DEF Moving
<1>14. Shape(h)
  BY <1>1, <1>3, <1>11 DEF Shape, SameJob, Settling, Keyed, Moving
<1>15. \A u \in User : UserOK(u)'
  BY <1>1, <1>3, <1>8, UsersKept DEF Settling
<1>16. balance' \in [User -> Int]
  BY <1>8 DEF IInv, TypeOK
<1> QED
  BY <1>1, <1>2, <1>3, <1>7, <1>8, <1>10, <1>12, <1>13, <1>14, <1>15, <1>16, BooksInv

LEMMA RedeemPointsInv ==
  ASSUME IInv, NEW p \in Request, RedeemPoints(p)
  PROVE  IInv'
<1>1. proc[p].step = "redeem"
  BY DEF RedeemPoints
<1>2. PICK i \in Invoice : i = proc[p].invoice
  BY <1>1, AtWork
<1>3. PICK h : /\ Becomes(p, h) /\ SameJob(proc[p], h) /\ h.txn = proc[p].txn
               /\ h.step = (IF balance[proc[p].user] < proc[p].cart.points THEN "error" ELSE "ledger")
  <2>1. "error" \in Step /\ "ledger" \in Step
    BY DEF Step, Settling
  <2> QED
    BY <2>1, GoesTo DEF RedeemPoints, IInv
<1>4. UNCHANGED <<locked, invoice, txn, wompi, unseen, disturbed, faults, requests>>
      /\ UNCHANGED <<balance, awarding, crediting, books>>
  BY DEF RedeemPoints, outside, history
<1>5. Shape(proc[p]) /\ proc[p].cart.points \in Nat /\ proc[p].user \in User
  BY <1>1, AtWork
<1>6. Shape(h)
  BY <1>1, <1>3, <1>5 DEF Shape, SameJob, Settling, Keyed, Moving
<1>7. /\ books' \in [Invoice -> Books] /\ awarding' \in [Invoice -> Nat] /\ crediting' \in [Invoice -> Nat]
      /\ balance' \in [User -> Int] /\ balance[proc[p].user] \in Int
  BY <1>4, <1>5 DEF IInv, TypeOK
<1>8. h.step = "ledger" => balance[h.user] >= h.cart.points
  BY <1>3, <1>5, <1>7 DEF SameJob
<1>9. Reached(i, "redeem") => Reached(i, h.step)'
  BY <1>3, <1>4 DEF Reached
<1>10. proc[p].step \in Moving /\ h.step \in Moving /\ h.step # "debit"
  BY <1>1, <1>3 DEF Moving
<1>11. \A u \in User : UserOK(u)'
  BY <1>1, <1>3, <1>4, <1>8, <1>10, UsersKept DEF Settling
<1> QED
  BY <1>1, <1>2, <1>3, <1>4, <1>6, <1>7, <1>9, <1>10, <1>11, BooksInv

LEMMA InsertRedeemedInv ==
  ASSUME IInv, NEW p \in Request, InsertRedeemed(p)
  PROVE  IInv'
<1>1. proc[p].step = "ledger"
  BY DEF InsertRedeemed
<1>2. PICK i \in Invoice : i = proc[p].invoice
  BY <1>1, AtWork
<1>3. PICK h : /\ Becomes(p, h) /\ h.step = "debit" /\ SameJob(proc[p], h) /\ h.txn = proc[p].txn
  <2>1. "debit" \in Step
    BY DEF Step, Settling
  <2> QED
    BY <2>1, GoesTo DEF InsertRedeemed, IInv
<1>4. books' = [books EXCEPT ![i].redeemed = @ + 1]
  BY <1>2 DEF InsertRedeemed
<1>5. PICK b \in Books : b = books[i]
  BY DEF IInv, TypeOK
<1>6. PICK c \in Books : /\ books' = [books EXCEPT ![i] = c] /\ c.redeemed = b.redeemed + 1
                         /\ c.tickets = b.tickets /\ c.sold = b.sold /\ c.earned = b.earned
                         /\ c.commission = b.commission /\ c.uses = b.uses
  <2> DEFINE g == [b EXCEPT !.redeemed = @ + 1]
  <2>1. g \in Books
    BY DEF Books
  <2>2. /\ g.redeemed = b.redeemed + 1
        /\ g.tickets = b.tickets /\ g.sold = b.sold /\ g.earned = b.earned
        /\ g.commission = b.commission /\ g.uses = b.uses
    BY DEF Books
  <2>3. books' = [books EXCEPT ![i] = g]
    BY <1>4, <1>5
  <2> HIDE DEF g
  <2> QED
    BY <2>1, <2>2, <2>3
<1>7. /\ books' \in [Invoice -> Books] /\ books'[i] = c
      /\ \A j \in Invoice \ {i} : books'[j] = books[j]
  BY <1>6 DEF IInv, TypeOK
<1>8. UNCHANGED <<locked, invoice, txn, wompi, unseen, disturbed, faults, requests>>
      /\ UNCHANGED <<balance, awarding, crediting>>
  BY DEF InsertRedeemed, outside, history
<1>9. Reached(i, "ledger") => Reached(i, "debit")'
  BY <1>5, <1>6, <1>7, <1>8 DEF Reached, Books
<1>10. Shape(h)
  BY <1>1, <1>3, AtWork DEF Shape, SameJob, Settling, Keyed, Moving
<1>11. \A u \in User : UserOK(u)'
  BY <1>1, <1>3, <1>8, UsersKept DEF Settling
<1>12. awarding' \in [Invoice -> Nat] /\ crediting' \in [Invoice -> Nat] /\ balance' \in [User -> Int]
  BY <1>8 DEF IInv, TypeOK
<1>13. proc[p].step \in Moving /\ h.step \in Moving
  BY <1>1, <1>3 DEF Moving
<1> QED
  BY <1>1, <1>2, <1>3, <1>7, <1>8, <1>9, <1>10, <1>11, <1>12, <1>13, BooksInv

LEMMA DebitPointsInv ==
  ASSUME IInv, NEW p \in Request, DebitPoints(p)
  PROVE  IInv'
<1>1. proc[p].step = "debit"
  BY DEF DebitPoints
<1>2. PICK i \in Invoice : i = proc[p].invoice
  BY <1>1, AtWork
<1>3. PICK h : Becomes(p, h) /\ h.step = "promoter" /\ SameJob(proc[p], h) /\ h.txn = proc[p].txn
  <2>1. "promoter" \in Step
    BY DEF Step, Settling
  <2> QED
    BY <2>1, GoesTo DEF DebitPoints, IInv
<1>4. UNCHANGED <<locked, invoice, txn, wompi, unseen, disturbed, faults, requests>>
      /\ UNCHANGED <<books, crediting>>
  BY DEF DebitPoints, outside, history
<1>5. /\ awarding \in [Invoice -> Nat] /\ balance \in [User -> Int] /\ books \in [Invoice -> Books]
      /\ crediting \in [Invoice -> Nat] /\ proc \in [Request -> Handler]
  BY DEF IInv, TypeOK
<1>6. /\ awarding' \in [Invoice -> Nat] /\ crediting' \in [Invoice -> Nat]
      /\ awarding'[i] = awarding[i] + 1
      /\ \A j \in Invoice \ {i} : awarding'[j] = awarding[j]
  BY <1>2, <1>4, <1>5 DEF DebitPoints
<1>7. Shape(proc[p]) /\ proc[p].cart.points \in Nat /\ proc[p].user \in User
  BY <1>1, AtWork
<1>8. PICK v \in User, n \in Nat : v = proc[p].user /\ n = proc[p].cart.points
  BY <1>7
<1>9. /\ balance' \in [User -> Int] /\ balance'[v] = balance[v] - n
      /\ \A u \in User \ {v} : balance'[u] = balance[u]
  <2>1. balance' = [balance EXCEPT ![v] = @ - n]
    BY <1>8 DEF DebitPoints
  <2>2. balance[v] - n \in Int
    BY <1>5
  <2> QED
    BY <1>5, <2>1, <2>2
<1>10. Shape(h)
  BY <1>1, <1>3, <1>7 DEF Shape, SameJob, Settling, Keyed, Moving
<1>11. Reached(i, "debit") => Reached(i, h.step)'
  <2>1. books[i].earned \in Nat /\ awarding[i] \in Nat
    BY <1>5 DEF Books
  <2> QED
    BY <1>3, <1>4, <1>6, <2>1 DEF Reached
<1>12. proc[p].step \in Moving /\ h.step \in Moving
  BY <1>1, <1>3 DEF Moving
<1>13. proc'[p] = h /\ \A q \in Request \ {p} : proc'[q] = proc[q]
  BY <1>3, <1>5 DEF Becomes
<1>14. ASSUME NEW u \in User PROVE UserOK(u)'
  <2> SUFFICES ASSUME u \notin disturbed PROVE UserOK(u)'
    BY <1>4 DEF UserOK
  <2>1. /\ balance[u] >= 0
        /\ \A q, s \in Settles(u) : q = s
        /\ \A q \in Settles(u) : proc[q].step \in {"ledger", "debit"} => balance[u] >= proc[q].cart.points
    BY DEF IInv, UserOK
  <2>2. Settles(u)' = Settles(u)
    BY <1>1, <1>3, <1>13 DEF Settles, SameJob, Settling
  <2>3. CASE u = v
    <3>1. Settles(u) = {p}
      BY <1>1, <1>8, <2>1, <2>3 DEF Settles, Settling
    <3>2. balance[u] >= n
      BY <1>1, <1>8, <2>1, <3>1
    <3>3. balance'[u] >= 0
      BY <1>5, <1>9, <2>3, <3>2
    <3> QED
      BY <1>3, <1>13, <2>2, <3>1, <3>3 DEF UserOK
  <2>4. CASE u # v
    <3>1. p \notin Settles(u)
      BY <1>8, <2>4 DEF Settles
    <3>2. \A q \in Settles(u) : proc'[q] = proc[q]
      BY <1>13, <3>1 DEF Settles
    <3> QED
      BY <1>9, <2>1, <2>2, <2>4, <3>2 DEF UserOK
  <2> QED
    BY <2>3, <2>4
<1> QED
  BY <1>1, <1>2, <1>3, <1>4, <1>5, <1>6, <1>9, <1>10, <1>11, <1>12, <1>14, BooksInv

LEMMA InsertCommissionInv ==
  ASSUME IInv, NEW p \in Request, InsertCommission(p)
  PROVE  IInv'
<1>1. proc[p].step = "promoter"
  BY DEF InsertCommission
<1>2. PICK i \in Invoice : i = proc[p].invoice
  BY <1>1, AtWork
<1>3. UNCHANGED <<locked, invoice, txn, wompi, unseen, disturbed, faults, requests>>
      /\ UNCHANGED <<balance, awarding, crediting>>
  BY DEF InsertCommission, outside, history
<1>4. awarding' \in [Invoice -> Nat] /\ crediting' \in [Invoice -> Nat] /\ balance' \in [User -> Int]
  BY <1>3 DEF IInv, TypeOK
<1>5. Shape(proc[p]) /\ invoice[i].cart = proc[p].cart
  BY <1>1, <1>2, AtWork DEF Holds, Settling
<1>6. proc[p].step \in Moving /\ Idle.step \notin Moving
  BY <1>1, RowFacts DEF Moving
<1>7. CASE ~proc[p].cart.code
  <2>1. Becomes(p, Idle) /\ books' = books
    BY <1>7, Ends DEF InsertCommission
  <2>2. Reached(i, "promoter") => Complete(i)' /\ books'[i].tickets = 1
    BY <1>3, <1>5, <1>7, <2>1 DEF Reached, Complete, Whole
  <2>3. \A u \in User : UserOK(u)'
    BY <1>3, <2>1, RowFacts, UsersKept DEF Settling
  <2>4. books' \in [Invoice -> Books]
    BY <2>1 DEF IInv, TypeOK
  <2> QED
    BY <1>1, <1>2, <1>3, <1>4, <1>6, <2>1, <2>2, <2>3, <2>4, RowFacts, BooksInv
<1>8. CASE proc[p].cart.code
  <2>1. books' = [books EXCEPT ![i].commission = @ + 1] /\ Goto(p, "uses")
    BY <1>2, <1>8 DEF InsertCommission
  <2>2. PICK h : Becomes(p, h) /\ h.step = "uses" /\ SameJob(proc[p], h) /\ h.txn = proc[p].txn
    <3>1. "uses" \in Step
      BY DEF Step, Settling
    <3> QED
      BY <2>1, <3>1, GoesTo DEF IInv
  <2>3. PICK b \in Books : b = books[i]
    BY DEF IInv, TypeOK
  <2>4. PICK c \in Books : /\ books' = [books EXCEPT ![i] = c] /\ c.commission = b.commission + 1
                           /\ c.tickets = b.tickets /\ c.sold = b.sold /\ c.redeemed = b.redeemed
                           /\ c.earned = b.earned /\ c.uses = b.uses
    <3> DEFINE g == [b EXCEPT !.commission = @ + 1]
    <3>1. g \in Books
      BY DEF Books
    <3>2. /\ g.commission = b.commission + 1
          /\ g.tickets = b.tickets /\ g.sold = b.sold /\ g.redeemed = b.redeemed
          /\ g.earned = b.earned /\ g.uses = b.uses
      BY DEF Books
    <3>3. books' = [books EXCEPT ![i] = g]
      BY <2>1, <2>3
    <3> HIDE DEF g
    <3> QED
      BY <3>1, <3>2, <3>3
  <2>5. /\ books' \in [Invoice -> Books] /\ books'[i] = c
        /\ \A j \in Invoice \ {i} : books'[j] = books[j]
    BY <2>4 DEF IInv, TypeOK
  <2>6. Reached(i, "promoter") => Reached(i, "uses")'
    BY <1>3, <1>5, <1>8, <2>3, <2>4, <2>5 DEF Reached, Books
  <2>7. Shape(h)
    BY <1>1, <1>5, <2>2, AtWork DEF Shape, SameJob, Settling, Keyed, Moving
  <2>8. \A u \in User : UserOK(u)'
    BY <1>1, <1>3, <2>2, UsersKept DEF Settling
  <2>9. h.step \in Moving
    BY <2>2 DEF Moving
  <2> QED
    BY <1>1, <1>2, <1>3, <1>4, <1>6, <2>2, <2>5, <2>6, <2>7, <2>8, <2>9, BooksInv
<1> QED
  BY <1>7, <1>8 DEF InsertCommission

LEMMA IncrementUsesInv ==
  ASSUME IInv, NEW p \in Request, IncrementUses(p)
  PROVE  IInv'
<1>1. proc[p].step = "uses"
  BY DEF IncrementUses
<1>2. PICK i \in Invoice : i = proc[p].invoice
  BY <1>1, AtWork
<1>3. Becomes(p, Idle)
  BY Ends DEF IncrementUses
<1>4. books' = [books EXCEPT ![i].uses = @ + 1]
  BY <1>2 DEF IncrementUses
<1>5. PICK b \in Books : b = books[i]
  BY DEF IInv, TypeOK
<1>6. PICK c \in Books : /\ books' = [books EXCEPT ![i] = c] /\ c.uses = b.uses + 1
                         /\ c.tickets = b.tickets /\ c.sold = b.sold /\ c.redeemed = b.redeemed
                         /\ c.earned = b.earned /\ c.commission = b.commission
  <2> DEFINE g == [b EXCEPT !.uses = @ + 1]
  <2>1. g \in Books
    BY DEF Books
  <2>2. /\ g.uses = b.uses + 1
        /\ g.tickets = b.tickets /\ g.sold = b.sold /\ g.redeemed = b.redeemed
        /\ g.earned = b.earned /\ g.commission = b.commission
    BY DEF Books
  <2>3. books' = [books EXCEPT ![i] = g]
    BY <1>4, <1>5
  <2> HIDE DEF g
  <2> QED
    BY <2>1, <2>2, <2>3
<1>7. /\ books' \in [Invoice -> Books] /\ books'[i] = c
      /\ \A j \in Invoice \ {i} : books'[j] = books[j]
  BY <1>6 DEF IInv, TypeOK
<1>8. UNCHANGED <<locked, invoice, txn, wompi, unseen, disturbed, faults, requests>>
      /\ UNCHANGED <<balance, awarding, crediting>>
  BY DEF IncrementUses, outside, history
<1>9. Reached(i, "uses") => Complete(i)' /\ books'[i].tickets = 1
  BY <1>5, <1>6, <1>7, <1>8 DEF Reached, Complete, Whole, Books
<1>10. \A u \in User : UserOK(u)'
  BY <1>3, <1>8, RowFacts, UsersKept DEF Settling
<1>11. awarding' \in [Invoice -> Nat] /\ crediting' \in [Invoice -> Nat] /\ balance' \in [User -> Int]
  BY <1>8 DEF IInv, TypeOK
<1>12. proc[p].step \in Moving /\ Idle.step \notin Moving
  BY <1>1, RowFacts DEF Moving
<1> QED
  BY <1>1, <1>2, <1>3, <1>7, <1>8, <1>9, <1>10, <1>11, <1>12, RowFacts, BooksInv

----------------------------------------------------------------------------
\* A step that only reads: it begins, goes on or ends, and writes no row of invoice i.
LEMMA ReadInv ==
  ASSUME IInv, NEW p \in Request, NEW i \in Invoice, NEW h, Becomes(p, h), Shape(h), Holds(h),
         proc[p].invoice \in {i, NoInvoice}, h.invoice \in {i, NoInvoice}, OwnKeys(p, h),
         UNCHANGED <<balance, invoice, txn, wompi, books, awarding, crediting>>,
         locked' \subseteq User, unseen' \in [Invoice -> SUBSET WompiStatus],
         disturbed \subseteq disturbed', disturbed' \subseteq Invoice \cup User,
         faults' \in 0..MaxFaults, requests' \in 0..MaxRequests,
         i \in disturbed' \/ proc[p].step # "items",
         h.step \in Paying => \/ i \in disturbed' \/ invoice[i].items
                              \/ h.step = "lock" /\ invoice[i].status = "NONE",
         i \notin disturbed' /\ OneRow(i) =>
           /\ h.step \in Writing => Writes(i) \subseteq {p} /\ Knows(h, i)
           /\ h.step \notin Writing /\ p \in Writes(i) => Rest(i),
         \A u \in User : UserOK(u)'
  PROVE  IInv'
<1>1. TablesOK'
  BY DEF IInv, TypeOK, TablesOK
<1>2. Grows(p) /\ RowsInShape' /\ Holds(h)'
  BY DEF Grows, IInv, RowsInShape, RowsOf, Holds
<1>3. \A j \in Invoice \ {i} : Frames(j)
  BY OthersFramed DEF RowsOf
<1>4. ItemsOK(i)'
  BY ItemsKept
<1>5. proc'[p] = h /\ \A q \in Request \ {p} : proc'[q] = proc[q]
  BY DEF IInv, TypeOK, Becomes
<1>6. h.step \in Writing => h.invoice = i
  BY NoneAssumption DEF Shape, Writing, Settling
<1>7. /\ OneRow(i)' = OneRow(i) /\ Rest(i)' = Rest(i)
      /\ \A g : Knows(g, i)' = Knows(g, i)
  BY DEF OneRow, RowsOf, Rest, Complete, Whole, Blank, Knows, Reached, Stale
<1>8. InvoiceOK(i)'
  <2> SUFFICES ASSUME i \notin disturbed', OneRow(i)
               PROVE  InvoiceOK(i)'
    BY <1>7 DEF InvoiceOK
  <2>1. /\ \A q, s \in Writes(i) : q = s
        /\ \A q \in Writes(i) : Knows(proc[q], i)
        /\ Writes(i) = {} => Rest(i)
    BY DEF IInv, InvoiceOK
  <2>2. Writes(i)' = (Writes(i) \ {p}) \cup (IF h.step \in Writing THEN {p} ELSE {})
    BY <1>5, <1>6 DEF Writes, Writing
  <2>3. CASE h.step \in Writing
    <3>1. Writes(i)' = {p}
      BY <2>2, <2>3
    <3>2. Knows(proc[p], i)'
      BY <1>5, <1>7, <2>3
    <3> QED
      BY <3>1, <3>2 DEF InvoiceOK
  <2>4. CASE h.step \notin Writing /\ p \in Writes(i)
    <3>1. Writes(i)' = {}
      BY <2>1, <2>2, <2>4
    <3> QED
      BY <1>7, <2>4, <3>1 DEF InvoiceOK
  <2>5. CASE h.step \notin Writing /\ p \notin Writes(i)
    <3>1. Writes(i)' = Writes(i) /\ \A q \in Writes(i) : proc'[q] = proc[q]
      BY <1>5, <2>2, <2>5 DEF Writes
    <3>2. ASSUME NEW q \in Writes(i)' PROVE Knows(proc[q], i)'
      <4>1. PICK g : g = proc[q] /\ g = proc'[q] /\ Knows(g, i)
        BY <2>1, <3>1
      <4> QED
        BY <1>7, <4>1
    <3> QED
      BY <1>7, <2>1, <3>1, <3>2 DEF InvoiceOK
  <2> QED
    BY <2>3, <2>4, <2>5
<1> QED
  BY <1>1, <1>2, <1>3, <1>4, <1>8, MoveInv DEF Becomes

\* A handler that ends holds nothing.
LEMMA IdleFacts ==
  /\ Holds(Idle) /\ Idle.step \notin Writing \cup Paying \cup Settling \cup Keyed
  /\ \A p \in Request : OwnKeys(p, Idle)
BY RowFacts, NoneAssumption DEF Holds, OwnKeys, Settling, Writing, Paying, Keyed

LEMMA UnlockUserInv ==
  ASSUME IInv, NEW p \in Request, UnlockUser(p)
  PROVE  IInv'
<1>1. proc[p].step = "unlock" /\ Becomes(p, Idle)
  BY Ends DEF UnlockUser
<1>2. PICK i \in Invoice : i = proc[p].invoice
  BY <1>1, AtWork
<1>3. UNCHANGED <<balance, invoice, txn, wompi, books, awarding, crediting>>
      /\ UNCHANGED <<unseen, disturbed, faults, requests>>
  BY DEF UnlockUser, outside, history
<1>4. /\ locked' \subseteq User /\ unseen' \in [Invoice -> SUBSET WompiStatus]
      /\ disturbed' \subseteq Invoice \cup User
      /\ faults' \in 0..MaxFaults /\ requests' \in 0..MaxRequests
  BY <1>3 DEF UnlockUser, IInv, TypeOK
<1>5. p \notin Writes(i)
  BY <1>1 DEF Writes, Settling
<1>6. \A u \in User : UserOK(u)'
  BY <1>1, <1>3, RowFacts, UsersKept DEF Settling
<1> QED
  BY <1>1, <1>2, <1>3, <1>4, <1>5, <1>6, IdleFacts, RowFacts, ReadInv

LEMMA FindTransactionInv ==
  ASSUME IInv, NEW p \in Request, FindTransaction(p)
  PROVE  IInv'
<1>1. proc[p].step = "find"
  BY DEF FindTransaction
<1>2. PICK i \in Invoice : i = proc[p].invoice
  BY <1>1, AtWork
<1>3. UNCHANGED <<balance, invoice, txn, wompi, books, awarding, crediting>>
      /\ UNCHANGED <<locked, unseen, disturbed, faults, requests>>
  BY DEF FindTransaction, outside, history
<1>4. /\ locked' \subseteq User /\ unseen' \in [Invoice -> SUBSET WompiStatus]
      /\ disturbed' \subseteq Invoice \cup User
      /\ faults' \in 0..MaxFaults /\ requests' \in 0..MaxRequests
  BY <1>3 DEF IInv, TypeOK
<1>5. p \in Writes(i) /\ Shape(proc[p]) /\ Holds(proc[p])
  BY <1>1, <1>2, AtWork DEF Writes, Settling
<1>6. i \notin disturbed /\ OneRow(i) => Writes(i) \subseteq {p} /\ Knows(proc[p], i)
  BY <1>5 DEF IInv, InvoiceOK
<1>7. i \notin disturbed /\ OneRow(i) => Rest(i) /\ ~Stale(i, proc[p].status)
  BY <1>1, <1>6 DEF Knows, Moving
<1>8. invoice[i].status # "NONE"
  BY <1>1, <1>2, <1>5 DEF Holds, Settling
<1>9. CASE Done(p)
  <2>1. Becomes(p, Idle)
    BY <1>9, Ends
  <2>2. \A u \in User : UserOK(u)'
    BY <1>3, <2>1, RowFacts, UsersKept DEF Settling
  <2> QED
    BY <1>1, <1>2, <1>3, <1>4, <1>7, <2>1, <2>2, IdleFacts, RowFacts, ReadInv
<1>10. ASSUME NEW x \in FreeTxn, RowsOf(i) = {},
              Takes(p, "create", x)
       PROVE  IInv'
  <2>1. x \in Txn /\ txn[x].reference = NoInvoice /\ \A q \in Request : proc[q].txn # x
    BY DEF FreeTxn
  <2>2. PICK h : Becomes(p, h) /\ h.step = "create" /\ SameJob(proc[p], h) /\ h.txn = x
    <3>1. "create" \in Step
      BY DEF Step, Settling
    <3> QED
      BY <1>10, <2>1, <3>1, TakesKey DEF IInv
  <2>3. Shape(h) /\ Holds(h) /\ h.invoice = i
    BY <1>1, <1>2, <1>5, <2>1, <2>2
       DEF Shape, Holds, SameJob, Settling, Keyed, Moving
  <2>4. OwnKeys(p, h)
    BY <1>3, <1>8, <2>1, <2>2, <2>3 DEF OwnKeys
  <2>5. i \notin disturbed /\ OneRow(i) => Knows(h, i)
    BY <1>7, <1>10, <2>2 DEF Knows, Rest, Moving
  <2>6. \A u \in User : UserOK(u)'
    BY <1>1, <1>3, <2>2, UsersKept DEF Settling
  <2>7. h.step \in Writing /\ h.step \notin Paying
    BY <2>2 DEF Writing, Settling, Paying
  <2> QED
    BY <1>1, <1>2, <1>3, <1>4, <1>6, <2>2, <2>3, <2>4, <2>5, <2>6, <2>7, ReadInv
<1>11. ASSUME NEW x \in RowsOf(i), ~(txn[x].status = "APPROVED" /\ proc[p].status = "APPROVED"),
              Takes(p, "mark", x)
       PROVE  IInv'
  <2>1. x \in Txn /\ txn[x].reference = i
    BY DEF RowsOf
  <2>2. PICK h : Becomes(p, h) /\ h.step = "mark" /\ SameJob(proc[p], h) /\ h.txn = x
    <3>1. "mark" \in Step
      BY DEF Step, Settling
    <3> QED
      BY <1>11, <2>1, <3>1, TakesKey DEF IInv
  <2>3. Shape(h) /\ Holds(h) /\ h.invoice = i
    BY <1>1, <1>2, <1>5, <2>1, <2>2
       DEF Shape, Holds, SameJob, Settling, Keyed, Moving
  <2>4. OwnKeys(p, h)
    BY <1>3, <1>8, <2>2, <2>3, NoKeyTaken DEF Keyed
  <2>5. i \notin disturbed /\ OneRow(i) => Knows(h, i)
    BY <1>7, <1>11, <2>2 DEF Knows, Moving, SameJob
  <2>6. \A u \in User : UserOK(u)'
    BY <1>1, <1>3, <2>2, UsersKept DEF Settling
  <2>7. h.step \in Writing /\ h.step \notin Paying
    BY <2>2 DEF Writing, Settling, Paying
  <2> QED
    BY <1>1, <1>2, <1>3, <1>4, <1>6, <2>2, <2>3, <2>4, <2>5, <2>6, <2>7, ReadInv
<1> QED
  BY <1>2, <1>9, <1>10, <1>11 DEF FindTransaction, Takes

LEMMA FailInv ==
  ASSUME IInv, NEW p \in Request, Fail(p)
  PROVE  IInv'
<1>1. /\ proc[p].step # "idle"
      /\ disturbed' = disturbed \cup ({proc[p].invoice, proc[p].user} \ {NoInvoice})
  BY DEF Fail
<1>2. PICK i \in Invoice : i = proc[p].invoice
  BY <1>1, AtWork
<1>3. UNCHANGED <<balance, invoice, txn, wompi, books, awarding, crediting>> /\ UNCHANGED <<locked, unseen>>
  BY DEF Fail, outside
<1>4. Shape(proc[p]) /\ Holds(proc[p]) /\ proc[p].user \in User
  BY <1>1, AtWork
<1>5. /\ locked' \subseteq User /\ unseen' \in [Invoice -> SUBSET WompiStatus]
      /\ disturbed \subseteq disturbed' /\ disturbed' \subseteq Invoice \cup User
      /\ faults' \in 0..MaxFaults /\ requests' \in 0..MaxRequests
  <2>1. disturbed \subseteq Invoice \cup User /\ faults \in 0..MaxFaults
    BY DEF IInv, TypeOK
  <2>2. disturbed' \subseteq Invoice \cup User
    BY <1>1, <1>2, <1>4, <2>1
  <2>3. faults' \in 0..MaxFaults
    BY <2>1, BoundsAssumption DEF Fail
  <2>4. locked' \subseteq User /\ unseen' \in [Invoice -> SUBSET WompiStatus]
        /\ requests' \in 0..MaxRequests
    BY <1>3 DEF Fail, IInv, TypeOK
  <2> QED
    BY <1>1, <2>2, <2>3, <2>4
<1>6. i \in disturbed'
  BY <1>1, <1>2, NoneAssumption
<1>7. CASE Done(p)
  <2>1. Becomes(p, Idle)
    BY <1>7, Ends
  <2>2. \A u \in User : UserOK(u)'
    BY <1>3, <1>5, <2>1, RowFacts, UsersKept DEF Settling
  <2> QED
    BY <1>2, <1>3, <1>5, <1>6, <2>1, <2>2, IdleFacts, RowFacts, ReadInv
<1>8. CASE proc[p].step \in {"send", "record"} /\ Goto(p, "unlock")
  <2>1. PICK h : Becomes(p, h) /\ h.step = "unlock" /\ SameJob(proc[p], h) /\ h.txn = proc[p].txn
    <3>1. "unlock" \in Step
      BY DEF Step, Paying
    <3> QED
      BY <1>8, <3>1, GoesTo DEF IInv
  <2>2. Shape(h) /\ Holds(h) /\ h.invoice = i
    BY <1>2, <1>4, <1>8, <2>1 DEF Shape, Holds, SameJob, Settling, Keyed, Moving
  <2>3. OwnKeys(p, h)
    BY <1>2, <1>3, <1>4, <1>8, <2>1, <2>2, NoKeyTaken DEF Holds, Keyed
  <2>4. \A u \in User : UserOK(u)'
    BY <1>3, <1>5, <2>1, UsersKept DEF Settling
  <2> QED
    BY <1>2, <1>3, <1>5, <1>6, <2>1, <2>2, <2>3, <2>4, ReadInv
<1>9. CASE /\ proc[p].step \in {"paid", "tickets", "sold", "redeem", "ledger", "debit"}
           /\ Goto(p, "error")
  <2>1. PICK h : Becomes(p, h) /\ h.step = "error" /\ SameJob(proc[p], h) /\ h.txn = proc[p].txn
    <3>1. "error" \in Step
      BY DEF Step, Settling
    <3> QED
      BY <1>9, <3>1, GoesTo DEF IInv
  <2>2. Shape(h) /\ Holds(h) /\ h.invoice = i
    BY <1>2, <1>4, <1>9, <2>1 DEF Shape, Holds, SameJob, Settling, Keyed, Moving
  <2>3. OwnKeys(p, h)
    BY <1>2, <1>3, <1>4, <1>9, <2>1, <2>2, NoKeyTaken DEF Holds, Keyed, Settling
  <2>4. \A u \in User : UserOK(u)'
    BY <1>3, <1>5, <1>9, <2>1, UsersKept DEF Settling
  <2> QED
    BY <1>2, <1>3, <1>5, <1>6, <2>1, <2>2, <2>3, <2>4, ReadInv
<1> QED
  BY <1>7, <1>8, <1>9 DEF Fail

----------------------------------------------------------------------------
\* Handlers that begin.
LEMMA CreateInvoiceInv ==
  ASSUME IInv, NEW p \in Request, NEW u \in User, NEW cart \in Cart, CreateInvoice(p, u, cart),
         requests' \in 0..MaxRequests
  PROVE  IInv'
<1>1. proc[p].step = "idle" /\ proc[p].invoice = NoInvoice
  BY DEF CreateInvoice, IInv, HandlersInShape, Shape
<1>2. PICK i \in FreeInvoice :
        proc' = [proc EXCEPT ![p] = [Idle EXCEPT !.step = "invoice", !.user = u, !.invoice = i,
                                                 !.cart = cart]]
  BY DEF CreateInvoice
<1>3. i \in Invoice /\ invoice[i].status = "NONE" /\ \A q \in Request : proc[q].invoice # i
  BY DEF FreeInvoice
<1>4. PICK h : /\ Becomes(p, h) /\ h.step = "invoice" /\ h.user = u /\ h.invoice = i
  <2> DEFINE g == [Idle EXCEPT !.step = "invoice", !.user = u, !.invoice = i, !.cart = cart]
  <2>1. "invoice" \in Step
    BY DEF Step
  <2>2. g \in Handler
    BY <1>3, <2>1, RowFacts DEF Handler
  <2>3. g.step = "invoice" /\ g.user = u /\ g.invoice = i
    BY RowFacts DEF Handler
  <2>4. proc' = [proc EXCEPT ![p] = g]
    BY <1>2
  <2> HIDE DEF g
  <2> QED
    BY <2>2, <2>3, <2>4 DEF Becomes
<1>5. UNCHANGED <<balance, invoice, txn, wompi, books, awarding, crediting>>
      /\ UNCHANGED <<locked, unseen, disturbed, faults>>
  BY DEF CreateInvoice, outside
<1>6. /\ locked' \subseteq User /\ unseen' \in [Invoice -> SUBSET WompiStatus]
      /\ disturbed' \subseteq Invoice \cup User /\ faults' \in 0..MaxFaults
  BY <1>5 DEF IInv, TypeOK
<1>7. Shape(h) /\ Holds(h)
  BY <1>3, <1>4 DEF Shape, Holds, Settling, Keyed, Moving
<1>8. OwnKeys(p, h) /\ p \notin Writes(i)
  BY <1>1, <1>3, <1>4 DEF OwnKeys, Keyed, Writes, Settling
<1>9. h.step \notin Paying \cup Writing \cup Settling
  BY <1>4 DEF Paying, Writing, Settling
<1>10. \A v \in User : UserOK(v)'
  BY <1>4, <1>5, <1>9, UsersKept
<1> QED
  BY <1>1, <1>3, <1>4, <1>5, <1>6, <1>7, <1>8, <1>9, <1>10, ReadInv

LEMMA ProcessTransactionInv ==
  ASSUME IInv, NEW p \in Request, NEW u \in User, NEW i \in Invoice,
         ProcessTransaction(p, u, i), requests' \in 0..MaxRequests
  PROVE  IInv'
<1>1. proc[p].step = "idle" /\ proc[p].invoice = NoInvoice
  BY DEF ProcessTransaction, IInv, HandlersInShape, Shape
<1>2. \/ /\ invoice[i].status # "NONE"
         /\ \A q \in Request : proc[q].invoice = i => proc[q].step \notin {"invoice", "items"}
      \/ invoice[i].status = "NONE" /\ \A q \in Request : proc[q].invoice # i
  <2>1. invoice[i].user = u => invoice[i].status # "NONE"
    BY NoneAssumption DEF IInv, RowsInShape
  <2> QED
    BY <2>1 DEF ProcessTransaction, FreeInvoice
<1>3. PICK h : /\ Becomes(p, h) /\ h.step = "lock" /\ h.user = u /\ h.invoice = i
  <2> DEFINE g == [Idle EXCEPT !.step = "lock", !.user = u, !.invoice = i]
  <2>1. "lock" \in Step
    BY DEF Step, Paying
  <2>2. g \in Handler
    BY <2>1, RowFacts DEF Handler
  <2>3. g.step = "lock" /\ g.user = u /\ g.invoice = i
    BY RowFacts DEF Handler
  <2>4. proc' = [proc EXCEPT ![p] = g]
    BY DEF ProcessTransaction
  <2> HIDE DEF g
  <2> QED
    BY <2>2, <2>3, <2>4 DEF Becomes
<1>4. UNCHANGED <<balance, invoice, txn, wompi, books, awarding, crediting>>
      /\ UNCHANGED <<locked, unseen, disturbed, faults>>
  BY DEF ProcessTransaction, outside
<1>5. /\ locked' \subseteq User /\ unseen' \in [Invoice -> SUBSET WompiStatus]
      /\ disturbed' \subseteq Invoice \cup User /\ faults' \in 0..MaxFaults
  BY <1>4 DEF IInv, TypeOK
<1>6. Shape(h) /\ Holds(h)
  BY <1>3 DEF Shape, Holds, Settling, Keyed, Moving
<1>7. OwnKeys(p, h) /\ p \notin Writes(i)
  BY <1>1, <1>2, <1>3, <1>4 DEF OwnKeys, Keyed, Writes, Settling
<1>8. h.step \notin Writing \cup Settling
  BY <1>3 DEF Writing, Settling
<1>9. i \in disturbed' \/ invoice[i].items \/ (h.step = "lock" /\ invoice[i].status = "NONE")
  BY <1>2, <1>3, <1>4 DEF IInv, ItemsOK
<1>10. \A v \in User : UserOK(v)'
  BY <1>3, <1>4, <1>8, UsersKept
<1> QED
  BY <1>1, <1>3, <1>4, <1>5, <1>6, <1>7, <1>8, <1>9, <1>10, ReadInv

LEMMA CancelInvoiceInv ==
  ASSUME IInv, NEW p \in Request, NEW i \in Invoice, CancelInvoice(p, i),
         requests' \in 0..MaxRequests
  PROVE  IInv'
<1>1. proc[p].step = "idle" /\ proc[p].invoice = NoInvoice
  BY DEF CancelInvoice, IInv, HandlersInShape, Shape
<1>2. /\ invoice[i].status \notin {"NONE", "PAID"}
      /\ disturbed' = disturbed \cup (IF Writes(i) # {} THEN {i} ELSE {})
  BY DEF CancelInvoice
<1>3. PICK u \in User : u = invoice[i].user
  BY <1>2 DEF IInv, RowsInShape
<1>4. PICK h : /\ Becomes(p, h) /\ h.step = "cancel" /\ h.user = u /\ h.invoice = i
  <2> DEFINE g == [Idle EXCEPT !.step = "cancel", !.invoice = i, !.user = u]
  <2>1. "cancel" \in Step
    BY DEF Step
  <2>2. g \in Handler
    BY <2>1, RowFacts DEF Handler
  <2>3. g.step = "cancel" /\ g.user = u /\ g.invoice = i
    BY RowFacts DEF Handler
  <2>4. proc' = [proc EXCEPT ![p] = g]
    BY <1>3 DEF CancelInvoice
  <2> HIDE DEF g
  <2> QED
    BY <2>2, <2>3, <2>4 DEF Becomes
<1>5. UNCHANGED <<balance, invoice, txn, wompi, books, awarding, crediting>>
      /\ UNCHANGED <<locked, unseen, faults>>
  BY DEF CancelInvoice, outside
<1>6. /\ locked' \subseteq User /\ unseen' \in [Invoice -> SUBSET WompiStatus]
      /\ disturbed' \subseteq Invoice \cup User /\ faults' \in 0..MaxFaults
      /\ disturbed \subseteq disturbed'
  BY <1>2, <1>5 DEF IInv, TypeOK
<1>7. Shape(h) /\ Holds(h)
  BY <1>2, <1>4 DEF Shape, Holds, Settling, Keyed, Moving
<1>8. OwnKeys(p, h)
  BY <1>2, <1>4, <1>5, NoKeyTaken DEF Keyed
<1>9. i \notin disturbed' /\ OneRow(i) => Writes(i) = {} /\ Rest(i)
  BY <1>2 DEF IInv, InvoiceOK
<1>10. Rest(i) => Knows(h, i)
  BY <1>2, <1>4 DEF Knows, Moving
<1>11. h.step \in Writing /\ h.step \notin Paying \cup Settling
  BY <1>4 DEF Writing, Paying, Settling
<1>12. \A v \in User : UserOK(v)'
  BY <1>4, <1>5, <1>6, <1>11, UsersKept DEF Settling
<1> QED
  BY <1>1, <1>4, <1>5, <1>6, <1>7, <1>8, <1>9, <1>10, <1>11, <1>12, ReadInv

\* A webhook begins a settlement; one that finds another at work marks the row.
LEMMA HandleTransactionUpdatedInv ==
  ASSUME IInv, NEW p \in Request, NEW i \in Invoice, NEW s \in WompiStatus,
         HandleTransactionUpdated(p, i, s), requests' \in 0..MaxRequests
  PROVE  IInv'
<1>1. proc[p].step = "idle" /\ proc[p].invoice = NoInvoice
  BY DEF HandleTransactionUpdated, IInv, HandlersInShape, Shape
<1>2. s \in Sent(wompi[i]) /\ wompi[i] # "NONE" /\ invoice[i].status # "NONE"
  BY SentFacts DEF HandleTransactionUpdated, IInv, RowsInShape
<1>3. PICK u \in User : u = invoice[i].user
  BY <1>2 DEF IInv, RowsInShape
<1>4. PICK cart \in Cart \cup {Plain} : cart = invoice[i].cart
  BY DEF IInv, TypeOK, InvoiceRow
<1>5. PICK h : /\ Becomes(p, h) /\ h.step = "find" /\ h.user = u /\ h.invoice = i
               /\ h.status = s /\ h.cart = cart
  <2> DEFINE g == [Idle EXCEPT !.step = "find", !.user = u, !.invoice = i, !.status = s,
                               !.cart = cart]
  <2>1. "find" \in Step
    BY DEF Step, Settling
  <2>2. g \in Handler
    BY <2>1, RowFacts DEF Handler
  <2>3. g.step = "find" /\ g.user = u /\ g.invoice = i /\ g.status = s /\ g.cart = cart
    BY RowFacts DEF Handler
  <2>4. proc' = [proc EXCEPT ![p] = g]
    BY <1>3, <1>4 DEF HandleTransactionUpdated
  <2> HIDE DEF g
  <2> QED
    BY <2>2, <2>3, <2>4 DEF Becomes
<1>6. UNCHANGED <<balance, invoice, txn, wompi, books, awarding, crediting>> /\ UNCHANGED <<locked, faults>>
  BY DEF HandleTransactionUpdated
<1>7. disturbed' = disturbed \cup (IF Writes(i) # {} \/ Stale(i, s) THEN {i} ELSE {})
                             \cup (IF Settles(u) # {} THEN {u} ELSE {})
  BY <1>3 DEF HandleTransactionUpdated
<1>8. /\ locked' \subseteq User /\ unseen' \in [Invoice -> SUBSET WompiStatus]
      /\ disturbed' \subseteq Invoice \cup User /\ faults' \in 0..MaxFaults
      /\ disturbed \subseteq disturbed'
  BY <1>6, <1>7 DEF HandleTransactionUpdated, IInv, TypeOK
<1>9. Shape(h) /\ Holds(h)
  BY <1>2, <1>3, <1>4, <1>5 DEF Shape, Holds, Settling, Keyed, Moving
<1>10. OwnKeys(p, h)
  BY <1>2, <1>5, <1>6, NoKeyTaken DEF Keyed
<1>11. i \notin disturbed' /\ OneRow(i) => Writes(i) = {} /\ Rest(i) /\ ~Stale(i, s)
  BY <1>7 DEF IInv, InvoiceOK
<1>12. Rest(i) /\ ~Stale(i, s) => Knows(h, i)
  BY <1>5 DEF Knows, Moving
<1>13. h.step \in Writing /\ h.step \notin Paying
  BY <1>5 DEF Writing, Paying, Settling
<1>14. proc'[p] = h /\ \A q \in Request \ {p} : proc'[q] = proc[q]
  BY <1>5 DEF IInv, TypeOK, Becomes
<1>15. ASSUME NEW v \in User PROVE UserOK(v)'
  <2> SUFFICES ASSUME v \notin disturbed' PROVE UserOK(v)'
    BY DEF UserOK
  <2>1. /\ balance[v] >= 0
        /\ \A q, r \in Settles(v) : q = r
        /\ \A q \in Settles(v) : proc[q].step \in {"ledger", "debit"} => balance[v] >= proc[q].cart.points
    BY <1>8 DEF IInv, UserOK
  <2>2. CASE u = v
    <3>1. Settles(v) = {}
      BY <1>7, <2>2
    <3>2. Settles(v)' \subseteq {p}
      BY <1>14, <3>1 DEF Settles
    <3> QED
      BY <1>5, <1>6, <1>14, <2>1, <3>2 DEF UserOK
  <2>3. CASE u # v
    <3>1. Settles(v)' \subseteq Settles(v) \ {p}
      BY <1>1, <1>5, <1>14, <2>3 DEF Settles
    <3>2. \A q \in Settles(v)' : q \in Settles(v) /\ proc'[q] = proc[q]
      BY <1>14, <3>1 DEF Settles
    <3> QED
      BY <1>6, <2>1, <3>2 DEF UserOK
  <2> QED
    BY <2>2, <2>3
<1> QED
  BY <1>1, <1>5, <1>6, <1>8, <1>9, <1>10, <1>11, <1>12, <1>13, <1>15, ReadInv

----------------------------------------------------------------------------
\* The handler that writes an invoice sets its status.
Marks(i, s) == invoice' = [invoice EXCEPT ![i].status = s]

LEMMA MarksFacts ==
  ASSUME IInv, NEW i \in Invoice, NEW s \in {"PAID", "REJECTED", "CANCELED"}, Marks(i, s)
  PROVE  /\ invoice' \in [Invoice -> InvoiceRow] /\ invoice'[i].status = s
         /\ invoice'[i].user = invoice[i].user /\ invoice'[i].cart = invoice[i].cart
         /\ invoice'[i].items = invoice[i].items
         /\ \A j \in Invoice \ {i} : invoice'[j] = invoice[j]
<1>1. invoice \in [Invoice -> InvoiceRow]
  BY DEF IInv, TypeOK
<1>2. PICK a \in InvoiceRow : a = invoice[i]
  BY <1>1
<1> DEFINE g == [a EXCEPT !.status = s]
<1>3. g \in InvoiceRow
  BY DEF InvoiceRow
<1>4. g.status = s /\ g.user = a.user /\ g.cart = a.cart /\ g.items = a.items
  BY DEF InvoiceRow
<1>5. invoice' = [invoice EXCEPT ![i] = g]
  BY <1>2 DEF Marks
<1> HIDE DEF g
<1> QED
  BY <1>1, <1>2, <1>3, <1>4, <1>5

LEMMA StatusInv ==
  ASSUME IInv, NEW p \in Request, NEW i \in Invoice, proc[p].invoice = i,
         proc[p].step \in {"cancel", "reject", "void", "paid"},
         NEW h, Becomes(p, h), Shape(h),
         h = Idle \/ (h.step = "tickets" /\ proc[p].step = "paid" /\ SameJob(proc[p], h)
                      /\ h.txn = proc[p].txn),
         NEW s \in {"PAID", "REJECTED", "CANCELED"}, Marks(i, s),
         UNCHANGED <<locked, balance, txn, wompi, unseen, books, awarding, crediting>>,
         UNCHANGED <<disturbed, faults, requests>>,
         Knows(proc[p], i) => IF h.step \in Writing THEN Knows(h, i)' ELSE Rest(i)'
  PROVE  IInv'
<1>1. /\ invoice' \in [Invoice -> InvoiceRow] /\ invoice'[i].status = s
      /\ invoice'[i].user = invoice[i].user /\ invoice'[i].cart = invoice[i].cart
      /\ invoice'[i].items = invoice[i].items
      /\ \A j \in Invoice \ {i} : invoice'[j] = invoice[j]
  BY MarksFacts
<1>2. p \in Writes(i) /\ proc[p].step \notin {"idle", "items"}
  BY DEF Writes, Settling
<1>3. Shape(proc[p]) /\ Holds(proc[p])
  BY <1>2, AtWork
<1>4. invoice[i].status # "NONE"
  BY <1>3 DEF Holds, Settling
<1>5. TablesOK'
  BY <1>1 DEF IInv, TypeOK, TablesOK
<1>6. Grows(p)
  BY <1>1, <1>4 DEF Grows
<1>7. RowsInShape'
  BY <1>1, <1>4 DEF IInv, RowsInShape, RowsOf
<1>8. h.step \in {"idle", "tickets"} /\ h.invoice \in {i, NoInvoice}
  BY RowFacts DEF SameJob
<1>9. Holds(h)'
  <2>1. CASE h = Idle
    BY <2>1, RowFacts DEF Holds, Settling, Keyed
  <2>2. CASE /\ h.step = "tickets" /\ proc[p].step = "paid" /\ SameJob(proc[p], h)
             /\ h.txn = proc[p].txn
    BY <1>1, <1>3, <2>2 DEF Holds, SameJob, Settling, Keyed
  <2> QED
    BY <2>1, <2>2
<1>10. OwnKeys(p, h)
  BY <1>1, <1>8, NoKeyTaken, NoneAssumption DEF Keyed
<1>11. \A j \in Invoice \ {i} : Frames(j)
  BY <1>1, OthersFramed DEF RowsOf
<1>12. ItemsOK(i)'
  BY <1>1, <1>2, <1>4, <1>8, ItemsKept DEF Paying
<1>13. InvoiceOK(i)'
  <2>1. OneRow(i)' = OneRow(i)
    BY DEF OneRow, RowsOf
  <2>2. h.step \in Writing => h.invoice = i
    BY <1>8, RowFacts DEF SameJob, Writing, Settling
  <2> QED
    BY <1>2, <2>1, <2>2, WriterMoves
<1>14. \A u \in User : UserOK(u)'
  <2>1. proc[p].step = "paid" => proc[p].step \in Settling
    BY DEF Settling
  <2> QED
    BY <1>8, <2>1, RowFacts, UsersKept DEF Settling
<1> QED
  BY <1>5, <1>6, <1>7, <1>8, <1>9, <1>10, <1>11, <1>12, <1>13, <1>14, MoveInv DEF Becomes

LEMMA WriteCanceledInv ==
  ASSUME IInv, NEW p \in Request, WriteCanceled(p)
  PROVE  IInv'
<1>1. proc[p].step = "cancel" /\ Becomes(p, Idle)
  BY Ends DEF WriteCanceled
<1>2. PICK i \in Invoice : i = proc[p].invoice
  BY <1>1, AtWork
<1>3. Marks(i, "CANCELED")
  BY <1>2 DEF WriteCanceled, Marks
<1>4. UNCHANGED <<locked, balance, txn, wompi, unseen, books, awarding, crediting>>
      /\ UNCHANGED <<disturbed, faults, requests>>
  BY DEF WriteCanceled, outside, history
<1>5. invoice'[i].status = "CANCELED" /\ invoice'[i].cart = invoice[i].cart
  BY <1>3, MarksFacts
<1>6. Knows(proc[p], i) => Rest(i)'
  <2> SUFFICES ASSUME Knows(proc[p], i) PROVE Rest(i)'
    OBVIOUS
  <2>1. Rest(i) /\ invoice[i].status # "PAID"
    BY <1>1 DEF Knows, Moving
  <2> QED
    BY <1>4, <1>5, <2>1 DEF Rest, Complete, Whole, Blank, RowsOf
<1> QED
  BY <1>1, <1>2, <1>3, <1>4, <1>6, IdleFacts, RowFacts, StatusInv

LEMMA RejectInvoiceInv ==
  ASSUME IInv, NEW p \in Request, RejectInvoice(p)
  PROVE  IInv'
<1>1. proc[p].step = "reject" /\ Becomes(p, Idle)
  BY Ends DEF RejectInvoice
<1>2. PICK i \in Invoice : i = proc[p].invoice
  BY <1>1, AtWork
<1>3. Marks(i, "REJECTED")
  BY <1>2 DEF RejectInvoice, Marks
<1>4. UNCHANGED <<locked, balance, txn, wompi, unseen, books, awarding, crediting>>
      /\ UNCHANGED <<disturbed, faults, requests>>
  BY DEF RejectInvoice, outside, history
<1>5. invoice'[i].status = "REJECTED" /\ invoice'[i].cart = invoice[i].cart
  BY <1>3, MarksFacts
<1>6. wompi[i] = "DECLINED"
  BY <1>1, <1>2, AtWork, SentFacts DEF Shape, Holds, Settling
<1>7. Knows(proc[p], i) => Rest(i)'
  <2> SUFFICES ASSUME Knows(proc[p], i) PROVE Rest(i)'
    OBVIOUS
  <2>1. Rest(i) /\ Blank(i)
    BY <1>1 DEF Knows, Moving
  <2>2. Complete(i)'
    BY <1>4, <1>5, <2>1 DEF Rest, Complete, Whole
  <2>3. Blank(i)'
    BY <1>4, <1>5, <2>1 DEF Blank
  <2> QED
    BY <1>4, <1>5, <1>6, <2>2, <2>3 DEF Rest, Blank
<1> QED
  BY <1>1, <1>2, <1>3, <1>4, <1>7, IdleFacts, RowFacts, StatusInv

LEMMA VoidInvoiceInv ==
  ASSUME IInv, NEW p \in Request, VoidInvoice(p)
  PROVE  IInv'
<1>1. proc[p].step = "void" /\ Becomes(p, Idle)
  BY Ends DEF VoidInvoice
<1>2. PICK i \in Invoice : i = proc[p].invoice
  BY <1>1, AtWork
<1>3. Marks(i, "CANCELED")
  BY <1>2 DEF VoidInvoice, Marks
<1>4. UNCHANGED <<locked, balance, txn, wompi, unseen, books, awarding, crediting>>
      /\ UNCHANGED <<disturbed, faults, requests>>
  BY DEF VoidInvoice, outside, history
<1>5. invoice'[i].status = "CANCELED" /\ invoice'[i].cart = invoice[i].cart
  BY <1>3, MarksFacts
<1>6. wompi[i] = "VOIDED"
  BY <1>1, <1>2, AtWork, SentFacts DEF Shape, Holds, Settling
<1>7. Knows(proc[p], i) => Rest(i)'
  <2> SUFFICES ASSUME Knows(proc[p], i) PROVE Rest(i)'
    OBVIOUS
  <2>1. Rest(i)
    BY <1>1 DEF Knows, Moving
  <2> QED
    BY <1>4, <1>5, <1>6, <2>1 DEF Rest, Complete, Whole, Blank, RowsOf
<1> QED
  BY <1>1, <1>2, <1>3, <1>4, <1>7, IdleFacts, RowFacts, StatusInv

LEMMA UpdateInvoiceStatusInv ==
  ASSUME IInv, NEW p \in Request, UpdateInvoiceStatus(p)
  PROVE  IInv'
<1>1. proc[p].step = "paid"
  BY DEF UpdateInvoiceStatus
<1>2. PICK i \in Invoice : i = proc[p].invoice
  BY <1>1, AtWork
<1>3. PICK h : Becomes(p, h) /\ h.step = "tickets" /\ SameJob(proc[p], h) /\ h.txn = proc[p].txn
  <2>1. "tickets" \in Step
    BY DEF Step, Settling
  <2> QED
    BY <2>1, GoesTo DEF UpdateInvoiceStatus, IInv
<1>4. Marks(i, "PAID")
  BY <1>2 DEF UpdateInvoiceStatus, Marks
<1>5. UNCHANGED <<locked, balance, txn, wompi, unseen, books, awarding, crediting>>
      /\ UNCHANGED <<disturbed, faults, requests>>
  BY DEF UpdateInvoiceStatus, outside, history
<1>6. invoice'[i].status = "PAID" /\ invoice'[i].cart = invoice[i].cart
  BY <1>4, MarksFacts
<1>7. Shape(h)
  BY <1>1, <1>3, AtWork DEF Shape, SameJob, Settling, Keyed, Moving
<1>8. Knows(proc[p], i) => Knows(h, i)'
  <2> SUFFICES ASSUME Knows(proc[p], i) PROVE Knows(h, i)'
    OBVIOUS
  <2>1. Blank(i) /\ txn[h.txn].status = "APPROVED"
    BY <1>1, <1>3 DEF Knows
  <2>2. Reached(i, h.step)'
    BY <1>3, <1>5, <2>1 DEF Reached, Blank
  <2> QED
    BY <1>3, <1>5, <1>6, <2>1, <2>2 DEF Knows, Moving
<1>9. h.step \in Writing
  BY <1>3 DEF Writing, Settling
<1> QED
  BY <1>1, <1>2, <1>3, <1>4, <1>5, <1>7, <1>8, <1>9, StatusInv

----------------------------------------------------------------------------
\* Handler p writes the row whose key it has, in status s.
WritesRow(p, i, s) == txn' = [txn EXCEPT ![proc[p].txn] = [status |-> s, reference |-> i]]

LEMMA RowWritten ==
  ASSUME IInv, NEW p \in Request, NEW i \in Invoice, proc[p].invoice = i,
         proc[p].step \in {"record", "create", "mark", "error"},
         NEW s \in WompiStatus, WritesRow(p, i, s)
  PROVE  /\ txn' \in [Txn -> TxnRow] /\ proc[p].txn \in Txn
         /\ txn[proc[p].txn].reference = (IF proc[p].step \in Keyed THEN NoInvoice ELSE i)
         /\ txn'[proc[p].txn].status = s /\ txn'[proc[p].txn].reference = i
         /\ \A y \in Txn \ {proc[p].txn} : txn'[y] = txn[y]
         /\ RowsOf(i)' = RowsOf(i) \cup {proc[p].txn}
         /\ \A j \in Invoice \ {i} : RowsOf(j)' = RowsOf(j) /\ proc[p].txn \notin RowsOf(j)
<1>1. Shape(proc[p]) /\ Holds(proc[p])
  BY AtWork
<1>2. PICK x \in Txn : x = proc[p].txn
  BY <1>1 DEF Shape, Keyed, Settling
<1>3. txn[x].reference = (IF proc[p].step \in Keyed THEN NoInvoice ELSE i)
  BY <1>1, <1>2 DEF Holds, Keyed, Settling
<1>4. txn \in [Txn -> TxnRow]
  BY DEF IInv, TypeOK
<1> DEFINE g == [status |-> s, reference |-> i]
<1>5. g \in TxnRow /\ g.status = s /\ g.reference = i
  BY DEF TxnRow
<1>6. txn' = [txn EXCEPT ![x] = g]
  BY <1>2 DEF WritesRow
<1> HIDE DEF g
<1>7. /\ txn' \in [Txn -> TxnRow] /\ txn'[x] = g
      /\ \A y \in Txn \ {x} : txn'[y] = txn[y]
  BY <1>4, <1>5, <1>6
<1>8. RowsOf(i)' = RowsOf(i) \cup {x}
  BY <1>5, <1>7 DEF RowsOf
<1>9. \A j \in Invoice \ {i} : RowsOf(j)' = RowsOf(j) /\ x \notin RowsOf(j)
  BY <1>3, <1>5, <1>7, NoneAssumption DEF RowsOf
<1> QED
  BY <1>2, <1>3, <1>5, <1>7, <1>8, <1>9

LEMMA TxnInv ==
  ASSUME IInv, NEW p \in Request, NEW i \in Invoice, proc[p].invoice = i,
         proc[p].step \in {"record", "create", "mark", "error"},
         NEW s \in WompiStatus, WritesRow(p, i, s), s \in Sent(wompi[i]),
         NEW h, Becomes(p, h), Shape(h),
         h = Idle \/ (/\ SameJob(proc[p], h) /\ h.txn = proc[p].txn
                      /\ \/ proc[p].step = "record" /\ h.step = "unlock"
                         \/ /\ proc[p].step \in {"create", "mark"}
                            /\ h.step \in {"paid", "reject", "void"}),
         UNCHANGED <<locked, balance, invoice, wompi, unseen, books, awarding, crediting>>,
         UNCHANGED <<disturbed, faults, requests>>, InvoiceOK(i)'
  PROVE  IInv'
<1>1. PICK x : x = proc[p].txn
  OBVIOUS
<1>2. /\ txn' \in [Txn -> TxnRow] /\ x \in Txn
      /\ txn[x].reference = (IF proc[p].step \in Keyed THEN NoInvoice ELSE i)
      /\ txn'[x].status = s /\ txn'[x].reference = i
      /\ \A y \in Txn \ {x} : txn'[y] = txn[y]
      /\ RowsOf(i)' = RowsOf(i) \cup {x}
      /\ \A j \in Invoice \ {i} : RowsOf(j)' = RowsOf(j) /\ x \notin RowsOf(j)
  BY <1>1, RowWritten
<1>3. Shape(proc[p]) /\ Holds(proc[p])
  BY AtWork
<1>4. invoice[i].status # "NONE"
  BY <1>3 DEF Holds, Settling
<1>5. TablesOK'
  BY <1>2 DEF IInv, TypeOK, TablesOK
<1>6. Grows(p)
  BY <1>1, <1>2, NoneAssumption DEF Grows
<1>7. RowsInShape'
  <2>1. ASSUME NEW j \in Invoice, NEW y \in RowsOf(j)' PROVE txn'[y].status \in Sent(wompi[j])
    <3>1. CASE y = x
      <4>1. j = i
        BY <1>2, <3>1 DEF RowsOf
      <4> QED
        BY <1>2, <3>1, <4>1
    <3>2. CASE y # x
      <4>1. y \in RowsOf(j) /\ txn'[y] = txn[y]
        BY <1>2, <3>2 DEF RowsOf
      <4> QED
        BY <4>1 DEF IInv, RowsInShape
    <3> QED
      BY <3>1, <3>2
  <2> QED
    BY <2>1 DEF IInv, RowsInShape
<1>8. Holds(h)'
  <2>1. CASE h = Idle
    BY <2>1, RowFacts DEF Holds, Settling, Keyed
  <2>2. CASE SameJob(proc[p], h) /\ proc[p].step = "record" /\ h.step = "unlock"
    BY <1>4, <2>2 DEF Holds, SameJob, Settling, Keyed
  <2>3. CASE /\ SameJob(proc[p], h) /\ h.txn = proc[p].txn
             /\ proc[p].step \in {"create", "mark"} /\ h.step \in {"paid", "reject", "void"}
    BY <1>1, <1>2, <1>3, <1>4, <2>3 DEF Holds, SameJob, Settling, Keyed
  <2> QED
    BY <2>1, <2>2, <2>3
<1>9. h.step \in {"idle", "unlock", "paid", "reject", "void"} /\ h.invoice \in {i, NoInvoice}
  BY RowFacts DEF SameJob
<1>10. OwnKeys(p, h)
  BY <1>4, <1>9, NoKeyTaken, NoneAssumption DEF Keyed
<1>11. \A j \in Invoice \ {i} : Frames(j)
  <2>1. \A j \in Invoice \ {i} : \A y \in RowsOf(j) : txn'[y].status = txn[y].status
    BY <1>2 DEF RowsOf
  <2> QED
    BY <1>2, <2>1, OthersFramed
<1>12. ItemsOK(i)'
  <2>1. h.step \in Paying => i \in disturbed \/ invoice[i].items
    <3>1. h.step \in Paying => proc[p].step = "record"
      BY RowFacts DEF Paying
    <3> QED
      BY <3>1 DEF IInv, ItemsOK, Paying
  <2> QED
    BY <2>1, ItemsKept
<1>13. \A u \in User : UserOK(u)'
  <2>1. h.step \in Settling => proc[p].step \in Settling /\ SameJob(proc[p], h)
    BY RowFacts DEF Settling
  <2> QED
    BY <1>9, <2>1, UsersKept
<1> QED
  BY <1>5, <1>6, <1>7, <1>8, <1>9, <1>10, <1>11, <1>12, <1>13, MoveInv DEF Becomes

LEMMA NoteErrorInv ==
  ASSUME IInv, NEW p \in Request, NoteError(p)
  PROVE  IInv'
<1>1. proc[p].step = "error" /\ Becomes(p, Idle)
  BY Ends DEF NoteError
<1>2. PICK i \in Invoice : i = proc[p].invoice
  BY <1>1, AtWork
<1>3. Shape(proc[p]) /\ Holds(proc[p])
  BY <1>1, AtWork
<1>4. PICK s \in WompiStatus : s = "APPROVED" /\ s = proc[p].status /\ s \in Sent(wompi[i])
  BY <1>1, <1>2, <1>3 DEF Shape, Holds, Moving, Settling, WompiStatus
<1>5. proc[p].txn \in Txn /\ txn[proc[p].txn].reference = i
  BY <1>1, <1>2, <1>3 DEF Shape, Holds, Settling
<1>6. WritesRow(p, i, s)
  <2>1. PICK a \in TxnRow : a = txn[proc[p].txn] /\ a.reference = i
    BY <1>5 DEF IInv, TypeOK
  <2>2. [a EXCEPT !.status = s] = [status |-> s, reference |-> i]
    BY <2>1 DEF TxnRow
  <2>3. txn' = [txn EXCEPT ![proc[p].txn] = [a EXCEPT !.status = s]]
    BY <1>4, <2>1 DEF NoteError
  <2> QED
    BY <2>2, <2>3 DEF WritesRow
<1>7. UNCHANGED <<locked, balance, invoice, wompi, unseen, books, awarding, crediting>>
      /\ UNCHANGED <<disturbed, faults, requests>>
  BY DEF NoteError, outside, history
<1>8. PICK x : x = proc[p].txn
  OBVIOUS
<1>9. x \in RowsOf(i) /\ RowsOf(i)' = RowsOf(i) /\ txn'[x].status = "APPROVED"
  <2>1. x \in RowsOf(i)
    BY <1>5, <1>8 DEF RowsOf
  <2>2. RowsOf(i)' = RowsOf(i) \cup {x} /\ txn'[x].status = s
    BY <1>1, <1>2, <1>6, <1>8, RowWritten
  <2> QED
    BY <1>4, <2>1, <2>2
<1>10. OneRow(i)' = OneRow(i)
  BY <1>9 DEF OneRow
<1>11. Knows(proc[p], i) => Rest(i)'
  <2> SUFFICES ASSUME Knows(proc[p], i) PROVE Rest(i)'
    OBVIOUS
  <2>1. Reached(i, "error") /\ invoice[i].status = "PAID"
    BY <1>1 DEF Knows, Moving
  <2>2. Complete(i)' /\ books'[i].tickets = 1
    BY <1>7, <2>1 DEF Reached, Complete, Whole
  <2> QED
    BY <1>7, <1>9, <2>1, <2>2 DEF Rest
<1>12. InvoiceOK(i)'
  <2>1. p \in Writes(i)
    BY <1>1, <1>2 DEF Writes, Settling
  <2> QED
    BY <1>1, <1>7, <1>10, <1>11, <2>1, IdleFacts, WriterMoves
<1> QED
  BY <1>1, <1>2, <1>4, <1>6, <1>7, <1>12, RowFacts, TxnInv

\* The payment's own INSERT: a row that stays alone had no row before it.
LEMMA RecordTransactionInv ==
  ASSUME IInv, NEW p \in Request, RecordTransaction(p)
  PROVE  IInv'
<1>1. proc[p].step = "record"
  BY DEF RecordTransaction
<1>2. PICK i \in Invoice : i = proc[p].invoice
  BY <1>1, AtWork
<1>3. Shape(proc[p]) /\ Holds(proc[p])
  BY <1>1, AtWork
<1>4. PICK h : Becomes(p, h) /\ h.step = "unlock" /\ SameJob(proc[p], h) /\ h.txn = proc[p].txn
  <2>1. "unlock" \in Step
    BY DEF Step, Paying
  <2> QED
    BY <2>1, GoesTo DEF RecordTransaction, IInv
<1>5. PICK s \in WompiStatus : s = "PENDING" /\ s \in Sent(wompi[i])
  <2>1. wompi[i] \in WompiStatus
    BY <1>1, <1>2, <1>3 DEF Holds, IInv, TypeOK
  <2> QED
    BY <2>1, SentFacts DEF WompiStatus
<1>6. WritesRow(p, i, s)
  BY <1>2, <1>5 DEF RecordTransaction, WritesRow
<1>7. UNCHANGED <<locked, balance, invoice, wompi, unseen, books, awarding, crediting>>
      /\ UNCHANGED <<disturbed, faults, requests>>
  BY DEF RecordTransaction, outside, history
<1>8. PICK x : x = proc[p].txn
  OBVIOUS
<1>9. x \notin RowsOf(i) /\ RowsOf(i)' = RowsOf(i) \cup {x} /\ txn'[x].status = "PENDING"
  <2>1. txn[x].reference = NoInvoice
    BY <1>1, <1>3, <1>8 DEF Holds, Keyed
  <2>2. RowsOf(i)' = RowsOf(i) \cup {x} /\ txn'[x].status = s
    BY <1>1, <1>2, <1>6, <1>8, RowWritten
  <2> QED
    BY <1>5, <2>1, <2>2, NoneAssumption DEF RowsOf
<1>10. Shape(h)
  BY <1>1, <1>3, <1>4 DEF Shape, SameJob, Settling, Keyed, Moving
<1>11. InvoiceOK(i)'
  <2> SUFFICES ASSUME i \notin disturbed, OneRow(i)'
               PROVE  InvoiceOK(i)'
    BY <1>7 DEF InvoiceOK
  <2>1. RowsOf(i) = {}
    BY <1>9 DEF OneRow
  <2>2. /\ \A q, r \in Writes(i) : q = r
        /\ \A q \in Writes(i) : Knows(proc[q], i)
        /\ Writes(i) = {} => Rest(i)
    BY <2>1 DEF IInv, InvoiceOK, OneRow
  <2>3. Rest(i) => Rest(i)' /\ Blank(i)'
    BY <1>7, <2>1 DEF Rest, Complete, Whole, Blank
  <2>4. \A t : ~Stale(i, t)'
    BY <1>9, <2>1 DEF Stale
  <2>5. proc'[p] = h /\ \A q \in Request \ {p} : proc'[q] = proc[q]
    BY <1>4 DEF IInv, TypeOK, Becomes
  <2>6. Writes(i)' = Writes(i) /\ p \notin Writes(i)
    BY <1>1, <1>4, <2>5 DEF Writes, Settling
  <2>7. ASSUME NEW q \in Writes(i)' PROVE Knows(proc[q], i)'
    <3>1. PICK g : g = proc[q] /\ g = proc'[q] /\ Knows(g, i)
      BY <2>2, <2>5, <2>6 DEF Writes
    <3>2. g.step \in {"find", "create", "cancel"}
      BY <2>1, <2>6, <3>1, RowIsOurs DEF Writes, Settling
    <3>3. Rest(i)
      BY <3>1, <3>2 DEF Knows, Moving
    <3>4. Knows(g, i)'
      BY <1>7, <2>3, <2>4, <3>1, <3>2, <3>3 DEF Knows, Moving
    <3> QED
      BY <3>1, <3>4
  <2> QED
    BY <2>2, <2>3, <2>6, <2>7 DEF InvoiceOK
<1> QED
  BY <1>1, <1>2, <1>4, <1>5, <1>6, <1>7, <1>10, <1>11, TxnInv

\* What the event does after its row is written.
LEMMA ActGoes ==
  ASSUME IInv, NEW p \in Request, Act(p)
  PROVE  \E h : /\ Becomes(p, h)
                /\ \/ h = Idle /\ proc[p].status \notin {"APPROVED", "DECLINED", "VOIDED"}
                   \/ /\ SameJob(proc[p], h) /\ h.txn = proc[p].txn
                      /\ \/ h.step = "paid" /\ proc[p].status = "APPROVED"
                         \/ h.step = "reject" /\ proc[p].status = "DECLINED"
                         \/ h.step = "void" /\ proc[p].status = "VOIDED"
<1>1. TypeOK /\ "paid" \in Step /\ "reject" \in Step /\ "void" \in Step
  BY DEF IInv, Step, Settling
<1>2. CASE proc[p].status = "APPROVED"
  <2>1. Goto(p, "paid")
    BY <1>2 DEF Act
  <2> QED
    BY <1>1, <1>2, <2>1, GoesTo
<1>3. CASE proc[p].status = "DECLINED"
  <2>1. Goto(p, "reject")
    BY <1>3 DEF Act
  <2> QED
    BY <1>1, <1>3, <2>1, GoesTo
<1>4. CASE proc[p].status = "VOIDED"
  <2>1. Goto(p, "void")
    BY <1>4 DEF Act
  <2> QED
    BY <1>1, <1>4, <2>1, GoesTo
<1>5. CASE proc[p].status \notin {"APPROVED", "DECLINED", "VOIDED"}
  <2>1. Done(p)
    BY <1>5 DEF Act
  <2> QED
    BY <1>5, <2>1, Ends
<1> QED
  BY <1>2, <1>3, <1>4, <1>5

LEMMA WriteTransactionInv ==
  ASSUME IInv, NEW p \in Request, WriteTransaction(p)
  PROVE  IInv'
<1>1. proc[p].step \in {"create", "mark"}
  BY DEF WriteTransaction
<1>2. PICK i \in Invoice : i = proc[p].invoice
  BY <1>1, AtWork
<1>3. Shape(proc[p]) /\ Holds(proc[p])
  BY <1>1, AtWork
<1>4. PICK s \in WompiStatus : s = proc[p].status /\ s \in Sent(wompi[i])
  BY <1>1, <1>2, <1>3, AtWork DEF Holds, Settling
<1>5. PICK h : /\ Becomes(p, h)
               /\ \/ h = Idle /\ s \notin {"APPROVED", "DECLINED", "VOIDED"}
                  \/ /\ SameJob(proc[p], h) /\ h.txn = proc[p].txn
                     /\ \/ h.step = "paid" /\ s = "APPROVED"
                        \/ h.step = "reject" /\ s = "DECLINED"
                        \/ h.step = "void" /\ s = "VOIDED"
  BY <1>4, ActGoes DEF WriteTransaction
<1>6. WritesRow(p, i, s)
  BY <1>2, <1>4 DEF WriteTransaction, WritesRow
<1>7. UNCHANGED <<locked, balance, invoice, wompi, unseen, books, awarding, crediting>>
      /\ UNCHANGED <<disturbed, faults, requests>>
  BY DEF WriteTransaction, outside, history
<1>8. PICK x : x = proc[p].txn
  OBVIOUS
<1>9. /\ x \in Txn /\ txn[x].reference = (IF proc[p].step = "create" THEN NoInvoice ELSE i)
      /\ RowsOf(i)' = RowsOf(i) \cup {x} /\ txn'[x].status = s
  BY <1>1, <1>2, <1>6, <1>8, RowWritten DEF Keyed
<1>10. Shape(h)
  BY <1>1, <1>3, <1>4, <1>5, RowFacts DEF Shape, SameJob, Settling, Keyed, Moving
<1>11. proc[p].step = "create" => x \notin RowsOf(i)
  BY <1>9, NoneAssumption DEF RowsOf
<1>12. proc[p].step = "mark" => x \in RowsOf(i) /\ RowsOf(i)' = RowsOf(i)
  BY <1>9 DEF RowsOf
<1>13. OneRow(i)' => /\ OneRow(i) /\ RowsOf(i)' = {x}
                     /\ proc[p].step = "create" => RowsOf(i) = {}
                     /\ proc[p].step = "mark" => RowsOf(i) = {x}
  BY <1>1, <1>9, <1>11, <1>12 DEF OneRow
<1>14. OneRow(i)' /\ Knows(proc[p], i) => IF h.step \in Writing THEN Knows(h, i)' ELSE Rest(i)'
  <2> SUFFICES ASSUME OneRow(i)', Knows(proc[p], i)
               PROVE  IF h.step \in Writing THEN Knows(h, i)' ELSE Rest(i)'
    OBVIOUS
  <2>1. /\ Rest(i)
        /\ proc[p].step = "create" => Blank(i)
        /\ proc[p].step = "mark" =>
             ~Stale(i, s) /\ ~(txn[x].status = "APPROVED" /\ s = "APPROVED")
    BY <1>1, <1>4, <1>8 DEF Knows, Moving
  <2>2. s \in {"PENDING", "APPROVED", "DECLINED"} => Blank(i)
    <3>1. CASE proc[p].step = "create"
      BY <2>1, <3>1
    <3>2. CASE proc[p].step = "mark"
      <4>1. RowsOf(i) = {x} /\ txn[x].status \in Sent(wompi[i])
        BY <1>13, <3>2 DEF IInv, RowsInShape
      <4>2. Blank(i) \/ txn[x].status \in {"APPROVED", "VOIDED"}
        BY <2>1, <4>1 DEF Rest
      <4>3. ASSUME s \in {"PENDING", "APPROVED"}
            PROVE  txn[x].status \notin {"APPROVED", "VOIDED"}
        BY <2>1, <3>2, <4>1, <4>3 DEF Stale
      <4>4. s = "DECLINED" => txn[x].status \notin {"APPROVED", "VOIDED"}
        BY <1>4, <4>1, SentFacts
      <4> QED
        BY <4>2, <4>3, <4>4
    <3> QED
      BY <1>1, <3>1, <3>2
  <2>3. Blank(i) => Blank(i)'
    BY <1>7 DEF Blank
  <2>4. Rest(i)'
    <3>1. Complete(i)'
      BY <1>7, <2>1 DEF Rest, Complete, Whole
    <3>2. Blank(i)' \/ \E y \in RowsOf(i)' : txn'[y].status \in {"APPROVED", "VOIDED"}
      <4>1. CASE s = "VOIDED"
        BY <1>9, <4>1
      <4>2. CASE s # "VOIDED"
        BY <2>2, <2>3, <4>2 DEF WompiStatus
      <4> QED
        BY <4>1, <4>2
    <3> QED
      BY <1>7, <2>1, <3>1, <3>2 DEF Rest
  <2>5. CASE h = Idle
    BY <2>4, <2>5, IdleFacts
  <2>6. CASE h.step = "paid" /\ s = "APPROVED" /\ h.txn = proc[p].txn
    <3>1. Blank(i)' /\ txn'[h.txn].status = "APPROVED"
      BY <1>8, <1>9, <2>2, <2>3, <2>6
    <3> QED
      BY <2>4, <2>6, <3>1 DEF Knows, Moving, Writing, Settling
  <2>7. CASE h.step = "reject" /\ s = "DECLINED"
    BY <2>2, <2>3, <2>4, <2>7 DEF Knows, Moving, Writing, Settling
  <2>8. CASE h.step = "void" /\ s = "VOIDED"
    BY <2>4, <2>8 DEF Knows, Moving, Writing, Settling
  <2> QED
    BY <1>5, <2>5, <2>6, <2>7, <2>8
<1>15. InvoiceOK(i)'
  <2>1. p \in Writes(i)
    BY <1>1, <1>2 DEF Writes, Settling
  <2>2. h.step \in Writing => h.invoice = i
    BY <1>2, <1>5, IdleFacts DEF SameJob
  <2> QED
    BY <1>5, <1>7, <1>13, <1>14, <2>1, <2>2, WriterMoves
<1> QED
  BY <1>1, <1>2, <1>4, <1>5, <1>6, <1>7, <1>10, <1>15, TxnInv

----------------------------------------------------------------------------
\* An invoice that is inserted has no row and nothing in the books.
LEMMA FreshInvoiceOK ==
  ASSUME IInv, NEW i \in Invoice, invoice[i].status = "NONE", invoice'[i].status = "ISSUED",
         UNCHANGED <<txn, wompi, books, awarding, crediting>>, disturbed \subseteq disturbed',
         Writes(i) = {}, Writes(i)' = {}
  PROVE  InvoiceOK(i)'
<1> SUFFICES ASSUME i \notin disturbed', OneRow(i)' PROVE InvoiceOK(i)'
  BY DEF InvoiceOK
<1>1. RowsOf(i) = {}
  BY SentFacts DEF IInv, RowsInShape
<1>2. Rest(i)
  BY <1>1 DEF IInv, InvoiceOK, OneRow
<1>3. Blank(i)'
  BY <1>1, <1>2 DEF Rest, Blank
<1>4. Complete(i)'
  BY <1>3 DEF Blank, Complete
<1>5. Rest(i)'
  BY <1>3, <1>4 DEF Rest, Blank
<1> QED
  BY <1>5 DEF InvoiceOK

\* Handler p inserts invoice i, which no other handler has.
LEMMA InsertInv ==
  ASSUME IInv, NEW p \in Request, NEW i \in Invoice, proc[p].invoice = i,
         proc[p].step \in {"invoice", "lock"}, invoice[i].status = "NONE",
         NEW h, Becomes(p, h), SameJob(proc[p], h), h.step \in {"items", "send"},
         NEW r \in InvoiceRow, invoice' = [invoice EXCEPT ![i] = r],
         r.status = "ISSUED", r.user = proc[p].user, h.step = "items" \/ r.items,
         UNCHANGED <<balance, txn, wompi, unseen, books, awarding, crediting>>,
         UNCHANGED <<disturbed, faults, requests>>, locked' \subseteq User
  PROVE  IInv'
<1>1. /\ invoice' \in [Invoice -> InvoiceRow] /\ invoice'[i] = r
      /\ \A j \in Invoice \ {i} : invoice'[j] = invoice[j]
  BY DEF IInv, TypeOK
<1>2. Shape(proc[p]) /\ r.user \in User
  BY AtWork
<1>3. h.invoice = i
  BY DEF SameJob
<1>4. \A q \in Request \ {p} : proc[q].invoice # i
  BY DEF IInv, KeysAreOwn
<1>5. wompi[i] = "NONE"
  BY DEF IInv, RowsInShape
<1>6. Shape(h)
  BY <1>2 DEF Shape, SameJob, Keyed, Settling, Moving
<1>7. Holds(h)'
  BY <1>1, <1>3 DEF Holds, Settling, Keyed
<1>8. TablesOK'
  BY <1>1 DEF IInv, TypeOK, TablesOK
<1>9. RowsInShape'
  <2>1. \A j \in Invoice : RowsOf(j)' = RowsOf(j)
    BY DEF RowsOf
  <2> QED
    BY <1>1, <1>2, <2>1 DEF IInv, RowsInShape
<1>10. Grows(p)
  BY <1>1 DEF Grows
<1>11. OwnKeys(p, h)
  BY <1>1, <1>3, NoKeyTaken DEF Keyed
<1>12. \A j \in Invoice \ {i} : Frames(j)
  BY <1>1, OthersFramed DEF RowsOf
<1>13. proc'[p] = h /\ \A q \in Request \ {p} : proc'[q] = proc[q]
  BY DEF IInv, TypeOK, Becomes
<1>14. ItemsOK(i)'
  <2> SUFFICES ASSUME i \notin disturbed PROVE ItemsOK(i)'
    BY DEF ItemsOK
  <2>1. CASE h.step = "items"
    <3>1. \E q \in Request : proc'[q].step = "items" /\ proc'[q].invoice = i
      BY <1>3, <1>13, <2>1
    <3>2. \A q \in Request : proc'[q].invoice = i => proc'[q].step \notin Paying
      BY <1>4, <1>13, <2>1 DEF Paying
    <3> QED
      BY <1>5, <3>1, <3>2 DEF ItemsOK
  <2>2. CASE r.items
    BY <1>1, <2>2 DEF ItemsOK
  <2> QED
    BY <2>1, <2>2
<1>15. InvoiceOK(i)'
  <2>1. Writes(i) = {} /\ Writes(i)' = {}
    BY <1>4, <1>13 DEF Writes, Settling
  <2> QED
    BY <1>1, <2>1, FreshInvoiceOK
<1>16. \A u \in User : UserOK(u)'
  BY UsersKept DEF Settling
<1> QED
  BY <1>3, <1>6, <1>7, <1>8, <1>9, <1>10, <1>11, <1>12, <1>14, <1>15, <1>16, MoveInv DEF Becomes

LEMMA InsertInvoiceInv ==
  ASSUME IInv, NEW p \in Request, InsertInvoice(p)
  PROVE  IInv'
<1>1. proc[p].step = "invoice"
  BY DEF InsertInvoice
<1>2. PICK i \in Invoice : i = proc[p].invoice
  BY <1>1, AtWork
<1>3. Shape(proc[p]) /\ Holds(proc[p]) /\ proc[p] \in Handler /\ proc[p].user \in User
  BY <1>1, AtWork
<1>4. invoice[i].status = "NONE"
  BY <1>1, <1>2, <1>3 DEF Holds
<1>5. PICK h : Becomes(p, h) /\ h.step = "items" /\ SameJob(proc[p], h) /\ h.txn = proc[p].txn
  <2>1. "items" \in Step
    BY DEF Step
  <2> QED
    BY <2>1, GoesTo DEF InsertInvoice, IInv
<1>6. PICK r \in InvoiceRow : /\ invoice' = [invoice EXCEPT ![i] = r]
                              /\ r.status = "ISSUED" /\ r.user = proc[p].user
  <2> DEFINE g == [status |-> "ISSUED", user |-> proc[p].user, cart |-> proc[p].cart,
                   items |-> FALSE]
  <2>1. proc[p].cart \in Cart \cup {Plain}
    BY <1>3 DEF Handler
  <2>2. g \in InvoiceRow
    BY <1>3, <2>1 DEF InvoiceRow
  <2>3. g.status = "ISSUED" /\ g.user = proc[p].user
    OBVIOUS
  <2>4. invoice' = [invoice EXCEPT ![i] = g]
    BY <1>2 DEF InsertInvoice
  <2> HIDE DEF g
  <2> QED
    BY <2>2, <2>3, <2>4
<1>7. UNCHANGED <<balance, txn, wompi, unseen, books, awarding, crediting>>
      /\ UNCHANGED <<disturbed, faults, requests>> /\ locked' \subseteq User
  BY DEF InsertInvoice, outside, history, IInv, TypeOK
<1> QED
  BY <1>1, <1>2, <1>4, <1>5, <1>6, <1>7, InsertInv

LEMMA LockUserInv ==
  ASSUME IInv, NEW p \in Request, LockUser(p)
  PROVE  IInv'
<1>1. proc[p].step = "lock"
  BY DEF LockUser
<1>2. PICK i \in Invoice : i = proc[p].invoice
  BY <1>1, AtWork
<1>3. Shape(proc[p]) /\ Holds(proc[p]) /\ proc[p].user \in User
  BY <1>1, AtWork
<1>4. UNCHANGED <<balance, txn, wompi, unseen, books, awarding, crediting>>
      /\ UNCHANGED <<disturbed, faults, requests>>
  BY DEF LockUser, outside, history
<1>5. locked' \subseteq User
  <2>1. locked \subseteq User
    BY DEF IInv, TypeOK
  <2> QED
    BY <1>3, <2>1 DEF LockUser
<1>6. /\ unseen' \in [Invoice -> SUBSET WompiStatus] /\ disturbed' \subseteq Invoice \cup User
      /\ faults' \in 0..MaxFaults /\ requests' \in 0..MaxRequests
  BY <1>4 DEF IInv, TypeOK
<1>7. "send" \in Step
  BY DEF Step, Paying
<1>8. p \notin Writes(i)
  BY <1>1 DEF Writes, Settling
<1>9. CASE invoice[i].status = "NONE"
  <2>1. PICK h : Becomes(p, h) /\ h.step = "send" /\ SameJob(proc[p], h)
    BY <1>2, <1>7, <1>9, GoesTo DEF LockUser, IInv
  <2>2. PICK r \in InvoiceRow : /\ invoice' = [invoice EXCEPT ![i] = r]
                                /\ r.status = "ISSUED" /\ r.user = proc[p].user /\ r.items
    <3> DEFINE g == [NoBill EXCEPT !.status = "ISSUED", !.user = proc[p].user, !.items = TRUE]
    <3>1. TRUE \in BOOLEAN
      OBVIOUS
    <3>2. g \in InvoiceRow
      BY <1>3, <3>1, RowFacts DEF InvoiceRow
    <3>3. g.status = "ISSUED" /\ g.user = proc[p].user /\ g.items
      BY RowFacts DEF InvoiceRow
    <3>4. invoice' = [invoice EXCEPT ![i] = g]
      BY <1>2, <1>9 DEF LockUser
    <3> HIDE DEF g
    <3> QED
      BY <3>2, <3>3, <3>4
  <2> QED
    BY <1>1, <1>2, <1>4, <1>5, <1>9, <2>1, <2>2, InsertInv
<1>10. CASE invoice[i].status # "NONE"
  <2>1. invoice' = invoice
    BY <1>2, <1>10 DEF LockUser, IInv, TypeOK
  <2>2. CASE invoice[i].status = "ISSUED"
    <3>1. PICK h : Becomes(p, h) /\ h.step = "send" /\ SameJob(proc[p], h)
      BY <1>2, <1>7, <2>2, GoesTo DEF LockUser, IInv
    <3>2. Shape(h) /\ Holds(h) /\ h.invoice = i
      BY <1>2, <1>3, <1>10, <3>1 DEF Shape, Holds, SameJob, Settling, Keyed, Moving
    <3>3. OwnKeys(p, h)
      BY <1>10, <2>1, <3>1, <3>2, NoKeyTaken DEF Keyed
    <3>4. i \in disturbed \/ invoice[i].items
      BY <1>1, <1>2, <1>10 DEF IInv, ItemsOK, Paying
    <3>5. h.step \notin Settling \cup Writing
      BY <3>1 DEF Settling, Writing
    <3>6. \A u \in User : UserOK(u)'
      BY <1>4, <3>1, <3>5, UsersKept
    <3> QED
      BY <1>1, <1>2, <1>4, <1>5, <1>6, <1>8, <2>1, <3>1, <3>2, <3>3, <3>4, <3>5, <3>6, ReadInv
  <2>3. CASE invoice[i].status # "ISSUED"
    <3>1. Becomes(p, Idle)
      BY <1>2, <1>10, <2>3, Ends DEF LockUser
    <3>2. \A u \in User : UserOK(u)'
      BY <1>4, <3>1, RowFacts, UsersKept DEF Settling
    <3> QED
      BY <1>1, <1>2, <1>4, <1>5, <1>6, <1>8, <2>1, <3>1, <3>2, IdleFacts, RowFacts, ReadInv
  <2> QED
    BY <2>2, <2>3
<1> QED
  BY <1>9, <1>10

LEMMA InsertItemsInv ==
  ASSUME IInv, NEW p \in Request, InsertItems(p)
  PROVE  IInv'
<1>1. proc[p].step = "items" /\ Becomes(p, Idle)
  BY Ends DEF InsertItems
<1>2. PICK i \in Invoice : i = proc[p].invoice
  BY <1>1, AtWork
<1>3. invoice[i].status # "NONE"
  BY <1>1, <1>2, AtWork DEF Holds
<1>4. UNCHANGED <<balance, txn, wompi, unseen, books, awarding, crediting>>
      /\ UNCHANGED <<locked, disturbed, faults, requests>>
  BY DEF InsertItems, outside, history
<1>5. PICK a \in InvoiceRow : a = invoice[i]
  BY DEF IInv, TypeOK
<1>6. PICK r \in InvoiceRow : /\ invoice' = [invoice EXCEPT ![i] = r]
                              /\ r.status = a.status /\ r.user = a.user /\ r.cart = a.cart /\ r.items
  <2> DEFINE g == [a EXCEPT !.items = TRUE]
  <2>1. TRUE \in BOOLEAN
    OBVIOUS
  <2>2. g \in InvoiceRow
    BY <2>1 DEF InvoiceRow
  <2>3. g.status = a.status /\ g.user = a.user /\ g.cart = a.cart /\ g.items
    BY DEF InvoiceRow
  <2>4. invoice' = [invoice EXCEPT ![i] = g]
    BY <1>2, <1>5 DEF InsertItems
  <2> HIDE DEF g
  <2> QED
    BY <2>2, <2>3, <2>4
<1>7. /\ invoice' \in [Invoice -> InvoiceRow] /\ invoice'[i] = r
      /\ \A j \in Invoice \ {i} : invoice'[j] = invoice[j]
  BY <1>6 DEF IInv, TypeOK
<1>8. TablesOK'
  BY <1>4, <1>7 DEF IInv, TypeOK, TablesOK
<1>9. Grows(p)
  BY <1>4, <1>5, <1>6, <1>7 DEF Grows
<1>10. \A j \in Invoice : RowsOf(j)' = RowsOf(j)
  BY <1>4 DEF RowsOf
<1>11. RowsInShape'
  BY <1>4, <1>5, <1>6, <1>7, <1>10 DEF IInv, RowsInShape
<1>12. \A j \in Invoice \ {i} : Frames(j)
  BY <1>4, <1>7, <1>10, OthersFramed
<1>13. ItemsOK(i)'
  BY <1>1, <1>4, <1>5, <1>6, <1>7, IdleFacts, ItemsKept
<1>14. InvoiceOK(i)'
  <2>1. FramesBooks(i)
    BY <1>4, <1>5, <1>6, <1>7, <1>10 DEF FramesBooks
  <2>2. proc'[p] = Idle /\ \A q \in Request \ {p} : proc'[q] = proc[q]
    BY <1>1 DEF IInv, TypeOK, Becomes
  <2>3. Writes(i)' = Writes(i) /\ \A q \in Writes(i) : proc'[q] = proc[q]
    BY <1>1, <2>2, RowFacts DEF Writes, Settling
  <2> QED
    BY <1>4, <2>1, <2>3, InvoiceFramed
<1>15. \A u \in User : UserOK(u)'
  BY <1>1, <1>4, RowFacts, UsersKept DEF Settling
<1>16. Holds(Idle)'
  BY RowFacts DEF Holds, Settling, Keyed
<1> QED
  BY <1>1, <1>2, <1>4, <1>8, <1>9, <1>11, <1>12, <1>13, <1>14, <1>15, <1>16, IdleFacts, RowFacts,
     MoveInv DEF Becomes

\* The first call to Wompi takes the reference: no event and no row of it is there yet.
LEMMA SendInv ==
  ASSUME IInv, NEW p \in Request, NEW i \in Invoice, proc[p].invoice = i, proc[p].step = "send",
         NEW h, Becomes(p, h), SameJob(proc[p], h),
         h.step = "unlock" \/ (h.step = "record" /\ h.txn \in FreeTxn),
         wompi[i] = "NONE", wompi' = [wompi EXCEPT ![i] = "PENDING"],
         unseen' = [unseen EXCEPT ![i] = {"PENDING"}],
         UNCHANGED <<locked, balance, invoice, txn, books, awarding, crediting>>,
         UNCHANGED <<disturbed, faults, requests>>
  PROVE  IInv'
<1>1. Shape(proc[p]) /\ Holds(proc[p])
  BY AtWork
<1>2. invoice[i].status # "NONE"
  BY <1>1 DEF Holds
<1>3. h.invoice = i
  BY DEF SameJob
<1>4. "PENDING" \in WompiStatus
  BY DEF WompiStatus
<1>5. /\ wompi' \in [Invoice -> WompiStatus \cup {"NONE"}] /\ wompi'[i] = "PENDING"
      /\ \A j \in Invoice \ {i} : wompi'[j] = wompi[j]
      /\ unseen' \in [Invoice -> SUBSET WompiStatus]
  BY <1>4 DEF IInv, TypeOK
<1>6. TablesOK'
  BY <1>5 DEF IInv, TypeOK, TablesOK
<1>7. h.step = "record" =>
        /\ h.txn \in Txn /\ txn[h.txn].reference = NoInvoice
        /\ \A q \in Request : proc[q].txn # h.txn
  BY DEF FreeTxn
<1>8. Shape(h)
  BY <1>1, <1>7 DEF Shape, SameJob, Keyed, Settling, Moving
<1>9. Holds(h)'
  BY <1>2, <1>3, <1>5, <1>7 DEF Holds, Keyed, Settling
<1>10. OwnKeys(p, h)
  BY <1>2, <1>3, <1>7 DEF OwnKeys, Keyed
<1>11. Grows(p)
  BY <1>5, SentFacts DEF Grows
<1>12. RowsOf(i) = {} /\ \A j \in Invoice : RowsOf(j)' = RowsOf(j)
  BY SentFacts DEF IInv, RowsInShape, RowsOf
<1>13. RowsInShape'
  BY <1>2, <1>5, <1>12 DEF IInv, RowsInShape
<1>14. \A j \in Invoice \ {i} : Frames(j)
  BY <1>5, <1>12, OthersFramed
<1>15. i \in disturbed \/ invoice[i].items
  BY DEF IInv, ItemsOK, Paying
<1>16. ItemsOK(i)'
  BY <1>15, ItemsKept
<1>17. InvoiceOK(i)'
  <2>1. FramesBooks(i)
    BY <1>5, <1>12 DEF FramesBooks
  <2>2. proc'[p] = h /\ \A q \in Request \ {p} : proc'[q] = proc[q]
    BY DEF IInv, TypeOK, Becomes
  <2>3. Writes(i)' = Writes(i) /\ \A q \in Writes(i) : proc'[q] = proc[q]
    BY <2>2 DEF Writes, Settling
  <2> QED
    BY <2>1, <2>3, InvoiceFramed
<1>18. \A u \in User : UserOK(u)'
  BY UsersKept DEF Settling
<1> QED
  BY <1>3, <1>6, <1>8, <1>9, <1>10, <1>11, <1>13, <1>14, <1>16, <1>17, <1>18, MoveInv DEF Becomes

LEMMA SendTransactionInv ==
  ASSUME IInv, NEW p \in Request, SendTransaction(p)
  PROVE  IInv'
<1>1. proc[p].step = "send"
  BY DEF SendTransaction
<1>2. PICK i \in Invoice : i = proc[p].invoice
  BY <1>1, AtWork
<1>3. Shape(proc[p]) /\ Holds(proc[p])
  BY <1>1, AtWork
<1>4. UNCHANGED <<locked, balance, invoice, txn, books, awarding, crediting>>
      /\ UNCHANGED <<disturbed, faults, requests>>
  BY DEF SendTransaction, history
<1>5. TypeOK /\ "unlock" \in Step /\ "record" \in Step
  BY DEF IInv, Step, Paying
<1>6. ASSUME Goto(p, "unlock")
      PROVE  \E h : Becomes(p, h) /\ SameJob(proc[p], h) /\ h.step = "unlock"
  BY <1>5, <1>6, GoesTo
<1>7. CASE /\ wompi[i] = "NONE" /\ wompi' = [wompi EXCEPT ![i] = "PENDING"]
           /\ unseen' = [unseen EXCEPT ![i] = {"PENDING"}]
           /\ Goto(p, "unlock")
  BY <1>1, <1>2, <1>4, <1>6, <1>7, SendInv
<1>8. CASE /\ wompi[i] = "NONE" /\ wompi' = [wompi EXCEPT ![i] = "PENDING"]
           /\ unseen' = [unseen EXCEPT ![i] = {"PENDING"}]
           /\ \E x \in FreeTxn : Takes(p, "record", x)
  <2>1. PICK x \in FreeTxn : Takes(p, "record", x)
    BY <1>8
  <2>2. x \in Txn
    BY DEF FreeTxn
  <2>3. PICK h : Becomes(p, h) /\ h.step = "record" /\ SameJob(proc[p], h) /\ h.txn = x
    BY <1>5, <2>1, <2>2, TakesKey
  <2> QED
    BY <1>1, <1>2, <1>4, <1>8, <2>3, SendInv
<1>9. CASE Goto(p, "unlock") /\ UNCHANGED outside
  <2>1. PICK h : Becomes(p, h) /\ SameJob(proc[p], h) /\ h.step = "unlock"
    BY <1>6, <1>9
  <2>2. UNCHANGED <<wompi, unseen>>
    BY <1>9 DEF outside
  <2>3. Shape(h) /\ Holds(h) /\ h.invoice = i
    BY <1>1, <1>2, <1>3, <2>1 DEF Shape, Holds, SameJob, Settling, Keyed, Moving
  <2>4. OwnKeys(p, h)
    BY <1>1, <1>2, <1>3, <1>4, <2>1, <2>3, NoKeyTaken DEF Holds, Keyed
  <2>5. h.step \notin Settling \cup Writing /\ p \notin Writes(i)
    BY <1>1, <2>1 DEF Settling, Writing, Writes
  <2>6. i \in disturbed \/ invoice[i].items
    BY <1>1, <1>2 DEF IInv, ItemsOK, Paying
  <2>7. \A u \in User : UserOK(u)'
    BY <1>4, <2>1, <2>5, UsersKept
  <2>8. /\ locked' \subseteq User /\ unseen' \in [Invoice -> SUBSET WompiStatus]
        /\ disturbed' \subseteq Invoice \cup User
        /\ faults' \in 0..MaxFaults /\ requests' \in 0..MaxRequests
    BY <1>4, <2>2 DEF IInv, TypeOK
  <2> QED
    BY <1>1, <1>2, <1>4, <2>1, <2>2, <2>3, <2>4, <2>5, <2>6, <2>7, <2>8, ReadInv
<1> QED
  BY <1>2, <1>7, <1>8, <1>9 DEF SendTransaction, Takes

----------------------------------------------------------------------------
\* Steps of no handler: Wompi decides, an award arrives or is lost.
LEMMA OutsideInv ==
  ASSUME IInv, UNCHANGED <<proc, invoice, txn, locked, requests>>,
         wompi' \in [Invoice -> WompiStatus \cup {"NONE"}], unseen' \in [Invoice -> SUBSET WompiStatus],
         books' \in [Invoice -> Books], awarding' \in [Invoice -> Nat],
         crediting' \in [Invoice -> Nat], balance' \in [User -> Int],
         disturbed \subseteq disturbed', disturbed' \subseteq Invoice \cup User,
         faults' \in 0..MaxFaults,
         \A i \in Invoice : /\ Sent(wompi[i]) \subseteq Sent(wompi'[i])
                            /\ (wompi[i] = "NONE") = (wompi'[i] = "NONE")
                            /\ i \in disturbed' \/ FramesBooks(i),
         \A u \in User : balance'[u] >= balance[u]
  PROVE  IInv'
<1>1. TypeOK'
  BY DEF IInv, TypeOK
<1>2. HandlersInShape' /\ KeysAreOwn'
  BY DEF IInv, HandlersInShape, KeysAreOwn
<1>3. RowsInShape'
  <2>1. \A i \in Invoice : RowsOf(i)' = RowsOf(i)
    BY DEF RowsOf
  <2> QED
    BY <2>1 DEF IInv, RowsInShape
<1>4. ASSUME NEW p \in Request PROVE Holds(proc[p])'
  <2>1. Shape(proc[p]) /\ Holds(proc[p])
    BY DEF IInv, HandlersInShape, HandlersHold
  <2>2. proc[p].step # "idle" => proc[p].invoice \in Invoice
    BY <2>1 DEF Shape
  <2>3. PICK h : h = proc[p]
    OBVIOUS
  <2>4. Holds(h)'
    BY <2>1, <2>2, <2>3 DEF Holds, Settling
  <2> QED
    BY <2>3, <2>4
<1>5. ASSUME NEW i \in Invoice PROVE ItemsOK(i)' /\ InvoiceOK(i)'
  <2>1. ItemsOK(i)'
    BY DEF IInv, ItemsOK
  <2>2. Writes(i)' = Writes(i)
    BY DEF Writes
  <2>3. InvoiceOK(i)'
    <3>1. CASE i \in disturbed'
      BY <3>1 DEF InvoiceOK
    <3>2. CASE FramesBooks(i)
      BY <2>2, <3>2, InvoiceFramed
    <3> QED
      BY <3>1, <3>2
  <2> QED
    BY <2>1, <2>3
<1>6. ASSUME NEW u \in User PROVE UserOK(u)'
  <2> SUFFICES ASSUME u \notin disturbed' PROVE UserOK(u)'
    BY DEF UserOK
  <2>1. Settles(u)' = Settles(u)
    BY DEF Settles
  <2>2. balance[u] \in Int /\ balance'[u] \in Int /\ balance'[u] >= balance[u]
    BY DEF IInv, TypeOK
  <2>3. \A p \in Settles(u) : proc[p].cart.points \in Nat
    BY AtWork DEF Settles, Settling
  <2>4. UserOK(u)
    BY DEF IInv
  <2> QED
    BY <2>1, <2>2, <2>3, <2>4 DEF UserOK
<1> QED
  BY <1>1, <1>2, <1>3, <1>4, <1>5, <1>6 DEF IInv, HandlersHold

LEMMA WompiUpdatesInv ==
  ASSUME IInv, NEW i \in Invoice, NEW s \in WompiStatus, WompiUpdates(i, s)
  PROVE  IInv'
<1>1. UNCHANGED <<proc, invoice, txn, locked, requests>>
      /\ UNCHANGED <<balance, books, awarding, crediting, disturbed, faults>>
  BY DEF WompiUpdates, history
<1>2. TypeOK
  BY DEF IInv
<1>3. /\ wompi' \in [Invoice -> WompiStatus \cup {"NONE"}] /\ wompi'[i] = s
      /\ \A j \in Invoice \ {i} : wompi'[j] = wompi[j]
      /\ unseen' \in [Invoice -> SUBSET WompiStatus]
  BY <1>2 DEF WompiUpdates, TypeOK
<1>4. /\ wompi[i] \in {"PENDING", "APPROVED"} /\ s # "NONE"
      /\ Sent(wompi[i]) \subseteq Sent(s)
  BY DEF WompiUpdates, Sent
<1>5. \A j \in Invoice : FramesBooks(j)
  BY <1>1, <1>3, <1>4 DEF FramesBooks, RowsOf
<1>6. \A u \in User : balance'[u] >= balance[u]
  BY <1>1, <1>2 DEF TypeOK
<1>7. \A j \in Invoice : /\ Sent(wompi[j]) \subseteq Sent(wompi'[j])
                         /\ (wompi[j] = "NONE") = (wompi'[j] = "NONE")
  BY <1>3, <1>4
<1> QED
  BY <1>1, <1>2, <1>3, <1>5, <1>6, <1>7, OutsideInv DEF TypeOK

LEMMA InsertEarnedInv ==
  ASSUME IInv, NEW i \in Invoice, InsertEarned(i)
  PROVE  IInv'
<1>1. UNCHANGED <<proc, invoice, txn, locked, requests>>
      /\ UNCHANGED <<wompi, unseen, disturbed, faults>>
  BY DEF InsertEarned, outside, history
<1>2. TypeOK
  BY DEF IInv
<1>3. PICK b \in Books : b = books[i]
  BY <1>2 DEF TypeOK
<1>4. PICK c \in Books : /\ books' = [books EXCEPT ![i] = c] /\ c.earned = b.earned + 1
                         /\ c.tickets = b.tickets /\ c.sold = b.sold /\ c.redeemed = b.redeemed
                         /\ c.commission = b.commission /\ c.uses = b.uses
  <2> DEFINE g == [b EXCEPT !.earned = @ + 1]
  <2>1. g \in Books
    BY DEF Books
  <2>2. /\ g.earned = b.earned + 1
        /\ g.tickets = b.tickets /\ g.sold = b.sold /\ g.redeemed = b.redeemed
        /\ g.commission = b.commission /\ g.uses = b.uses
    BY DEF Books
  <2>3. books' = [books EXCEPT ![i] = g]
    BY <1>3 DEF InsertEarned
  <2> HIDE DEF g
  <2> QED
    BY <2>1, <2>2, <2>3
<1>5. /\ books' \in [Invoice -> Books] /\ books'[i] = c
      /\ \A j \in Invoice \ {i} : books'[j] = books[j]
  BY <1>2, <1>4 DEF TypeOK
<1>6. /\ awarding' \in [Invoice -> Nat] /\ awarding[i] \in Nat /\ awarding'[i] = awarding[i] - 1
      /\ \A j \in Invoice \ {i} : awarding'[j] = awarding[j]
  BY <1>2 DEF InsertEarned, TypeOK
<1>7. crediting' \in [Invoice -> Nat] /\ UNCHANGED balance
  BY <1>2 DEF InsertEarned, TypeOK
<1>8. \A j \in Invoice : FramesBooks(j)
  <2>1. b.earned \in Nat
    BY DEF Books
  <2> QED
    BY <1>1, <1>3, <1>4, <1>5, <1>6, <2>1 DEF FramesBooks, RowsOf
<1>9. \A u \in User : balance'[u] >= balance[u]
  BY <1>2, <1>7 DEF TypeOK
<1> QED
  BY <1>1, <1>2, <1>5, <1>6, <1>7, <1>8, <1>9, OutsideInv DEF TypeOK

LEMMA CreditPointsInv ==
  ASSUME IInv, NEW i \in Invoice, CreditPoints(i)
  PROVE  IInv'
<1>1. UNCHANGED <<proc, invoice, txn, locked, requests>>
      /\ UNCHANGED <<wompi, unseen, books, awarding, disturbed, faults>>
  BY DEF CreditPoints, outside, history
<1>2. TypeOK
  BY DEF IInv
<1>3. crediting' \in [Invoice -> Nat]
  BY <1>2 DEF CreditPoints, TypeOK
<1>4. balance' \in [User -> Int] /\ \A u \in User : balance'[u] >= balance[u]
  <2>1. PICK w : w = invoice[i].user /\ balance' = [balance EXCEPT ![w] = @ + Earned]
    BY DEF CreditPoints
  <2>2. balance \in [User -> Int] /\ \A u \in User : balance[u] + Earned \in Int
    BY <1>2, PointsAssumption DEF TypeOK
  <2>3. balance' \in [User -> Int]
    BY <2>1, <2>2
  <2>4. ASSUME NEW u \in User PROVE balance'[u] >= balance[u]
    <3>1. balance'[u] = (IF u = w THEN balance[u] + Earned ELSE balance[u])
      BY <2>1, <2>2
    <3> QED
      BY <2>2, <3>1, PointsAssumption
  <2> QED
    BY <2>3, <2>4
<1>5. \A j \in Invoice : FramesBooks(j)
  BY <1>1 DEF FramesBooks, RowsOf
<1> QED
  BY <1>1, <1>2, <1>3, <1>4, <1>5, OutsideInv DEF TypeOK

LEMMA LoseAwardInv ==
  ASSUME IInv, NEW i \in Invoice, LoseAward(i)
  PROVE  IInv'
<1>1. UNCHANGED <<proc, invoice, txn, locked, requests>>
      /\ UNCHANGED <<wompi, unseen, books, balance>> /\ disturbed' = disturbed \cup {i}
  BY DEF LoseAward, outside
<1>2. TypeOK
  BY DEF IInv
<1>3. /\ awarding' \in [Invoice -> Nat] /\ crediting' \in [Invoice -> Nat]
      /\ \A j \in Invoice \ {i} : awarding'[j] = awarding[j]
  BY <1>2 DEF LoseAward, TypeOK
<1>4. \A j \in Invoice : j \in disturbed' \/ FramesBooks(j)
  BY <1>1, <1>3 DEF FramesBooks, RowsOf
<1>5. faults' \in 0..MaxFaults /\ disturbed' \subseteq Invoice \cup User
  BY <1>1, <1>2, BoundsAssumption DEF LoseAward, TypeOK
<1>6. \A u \in User : balance'[u] >= balance[u]
  BY <1>1, <1>2 DEF TypeOK
<1> QED
  BY <1>1, <1>2, <1>3, <1>4, <1>5, <1>6, OutsideInv DEF TypeOK

----------------------------------------------------------------------------
LEMMA BeginInv ==
  ASSUME IInv, NEW p \in Request, Begin(p), requests' \in 0..MaxRequests
  PROVE  IInv'
<1>1. ASSUME NEW u \in User, NEW cart \in Cart, CreateInvoice(p, u, cart) PROVE IInv'
  BY <1>1, CreateInvoiceInv
<1>2. ASSUME NEW i \in Invoice, CancelInvoice(p, i) PROVE IInv'
  BY <1>2, CancelInvoiceInv
<1>3. ASSUME NEW i \in Invoice, NEW u \in User, ProcessTransaction(p, u, i) PROVE IInv'
  BY <1>3, ProcessTransactionInv
<1>4. ASSUME NEW i \in Invoice, NEW s \in WompiStatus, HandleTransactionUpdated(p, i, s)
      PROVE  IInv'
  BY <1>4, HandleTransactionUpdatedInv
<1> QED
  BY <1>1, <1>2, <1>3, <1>4 DEF Begin

LEMMA ContinueInv ==
  ASSUME IInv, NEW p \in Request, Continue(p)
  PROVE  IInv'
<1>1. CASE InsertInvoice(p) \/ InsertItems(p) \/ WriteCanceled(p)
  BY <1>1, InsertInvoiceInv, InsertItemsInv, WriteCanceledInv
<1>2. CASE LockUser(p) \/ SendTransaction(p) \/ RecordTransaction(p) \/ UnlockUser(p)
  BY <1>2, LockUserInv, SendTransactionInv, RecordTransactionInv, UnlockUserInv
<1>3. CASE FindTransaction(p) \/ WriteTransaction(p) \/ RejectInvoice(p) \/ VoidInvoice(p)
  BY <1>3, FindTransactionInv, WriteTransactionInv, RejectInvoiceInv, VoidInvoiceInv
<1>4. CASE UpdateInvoiceStatus(p) \/ CreateTickets(p) \/ IncrementSold(p)
  BY <1>4, UpdateInvoiceStatusInv, CreateTicketsInv, IncrementSoldInv
<1>5. CASE RedeemPoints(p) \/ InsertRedeemed(p) \/ DebitPoints(p)
  BY <1>5, RedeemPointsInv, InsertRedeemedInv, DebitPointsInv
<1>6. CASE InsertCommission(p) \/ IncrementUses(p) \/ NoteError(p)
  BY <1>6, InsertCommissionInv, IncrementUsesInv, NoteErrorInv
<1> QED
  BY <1>1, <1>2, <1>3, <1>4, <1>5, <1>6 DEF Continue

LEMMA NextInv == IInv /\ [Next]_vars => IInv'
<1> SUFFICES ASSUME IInv, [Next]_vars PROVE IInv'
  OBVIOUS
<1>1. requests \in 0..MaxRequests
  BY DEF IInv, TypeOK
<1>2. ASSUME NEW p \in Request, requests < MaxRequests, requests' = requests + 1, Begin(p)
      PROVE  IInv'
  <2>1. requests' \in 0..MaxRequests
    BY <1>1, <1>2, BoundsAssumption
  <2> QED
    BY <1>2, <2>1, BeginInv
<1>3. ASSUME NEW p \in Request, Continue(p) \/ Fail(p) PROVE IInv'
  BY <1>3, ContinueInv, FailInv
<1>4. ASSUME NEW i \in Invoice, NEW s \in WompiStatus, Deliver(i, s) PROVE IInv'
  BY <1>1, <1>4, HandleTransactionUpdatedInv DEF Deliver
<1>5. ASSUME NEW i \in Invoice, NEW s \in WompiStatus, WompiUpdates(i, s) PROVE IInv'
  BY <1>5, WompiUpdatesInv
<1>6. ASSUME NEW i \in Invoice, InsertEarned(i) \/ CreditPoints(i) \/ LoseAward(i) PROVE IInv'
  BY <1>6, InsertEarnedInv, CreditPointsInv, LoseAwardInv
<1>7. CASE UNCHANGED vars
  <2>1. /\ UNCHANGED <<proc, invoice, txn, locked, requests>>
        /\ UNCHANGED <<wompi, unseen, books, awarding, crediting, balance, disturbed, faults>>
    BY <1>7 DEF vars
  <2>2. TypeOK
    BY DEF IInv
  <2>3. \A i \in Invoice : FramesBooks(i)
    BY <2>1 DEF FramesBooks, RowsOf
  <2>4. \A u \in User : balance'[u] >= balance[u]
    BY <2>1, <2>2 DEF TypeOK
  <2> QED
    BY <2>1, <2>2, <2>3, <2>4, OutsideInv DEF TypeOK
<1> QED
  BY <1>2, <1>3, <1>4, <1>5, <1>6, <1>7 DEF Next

----------------------------------------------------------------------------
\* The inductive invariant holds in every state.
THEOREM Invariance == Spec => []IInv
<1>1. Init => IInv
  BY InitInv
<1>2. IInv /\ [Next]_vars => IInv'
  BY NextInv
<1> QED
  BY <1>1, <1>2, PTL DEF Spec

\* Type correctness: every handler, row and counter keeps its shape.
THEOREM TypeCorrect == Spec => []TypeOK
<1>1. IInv => TypeOK
  BY DEF IInv
<1> QED
  BY <1>1, Invariance, PTL

\* Whatever webhooks are lost, repeated or reordered, an invoice whose webhooks came one
\* after the other and found one row is settled once and completely, and has its tickets
\* only if it was paid (createTicketsFromTransaction and what follows it).
THEOREM SettlementCorrect == Spec => []SettledOnce
<1>1. IInv => SettledOnce
  <2> SUFFICES ASSUME IInv, NEW i \in Calm, Writes(i) = {}, OneRow(i)
               PROVE  Rest(i)
    BY DEF SettledOnce, Rest, Complete, Whole
  <2> QED
    BY DEF IInv, InvoiceOK, Calm
<1> QED
  BY <1>1, Invariance, PTL

\* A user whose settlements did not overlap is never overdrawn: the balance that was
\* compared with the points is still there when they are debited, because awards only add.
THEOREM BalanceCorrect == Spec => []NotOverdrawn
<1>1. IInv => NotOverdrawn
  BY DEF IInv, UserOK, NotOverdrawn
<1> QED
  BY <1>1, Invariance, PTL

----------------------------------------------------------------------------
\* The ledger of points.  Its invariant holds whatever overlaps, as long as nothing fails.

\* An invoice that is not inserted yet has no books.
NewHasNoBooks ==
  \A i \in Invoice : invoice[i].status = "NONE" =>
    books[i].redeemed = 0 /\ books[i].earned = 0 /\ awarding[i] = 0 /\ crediting[i] = 0

\* Every balance is what the ledger says and what it is about to be debited.
LedgerAddsUp ==
  faults = 0 => \A u \in User :
    balance[u] = Opening + SumFunctionOnSet(Moved(u), Invoice) + SumFunctionOnSet(Due(u), Request)

Ledger == IInv /\ NewHasNoBooks /\ LedgerAddsUp

\* The summands are integers, so the sums may be rearranged.
LEMMA SummandTypes ==
  ASSUME TypeOK, NEW u \in User
  PROVE  /\ \A i \in Invoice : Moved(u)[i] \in Int
         /\ \A p \in Request : Due(u)[p] \in Int
         /\ IsFiniteSet(Invoice) /\ IsFiniteSet(Request)
         /\ SumFunctionOnSet(Moved(u), Invoice) \in Int
         /\ SumFunctionOnSet(Due(u), Request) \in Int
<1>1. ASSUME NEW i \in Invoice PROVE Moved(u)[i] \in Int
  <2>1. invoice[i].cart.points \in Nat
    BY CartFacts DEF TypeOK, InvoiceRow
  <2>2. books[i].earned - crediting[i] \in Int /\ books[i].redeemed \in Nat
    BY DEF TypeOK, Books
  <2>3. Earned * (books[i].earned - crediting[i]) \in Int /\ invoice[i].cart.points * books[i].redeemed \in Int
    BY <2>1, <2>2, PointsAssumption
  <2> QED
    BY <2>3 DEF Moved
<1>2. ASSUME NEW p \in Request PROVE Due(u)[p] \in Int
  <2>1. proc[p].cart.points \in Nat
    BY CartFacts DEF TypeOK, Handler
  <2> QED
    BY <2>1 DEF Due
<1> QED
  BY <1>1, <1>2, FiniteAssumption, SumInt

LEMMA InitLedger == Init => Ledger
<1> SUFFICES ASSUME Init PROVE Ledger
  OBVIOUS
<1>1. IInv
  BY InitInv
<1>2. NewHasNoBooks
  BY RowFacts DEF Init, NewHasNoBooks
<1>3. ASSUME NEW u \in User
      PROVE  balance[u] = Opening + SumFunctionOnSet(Moved(u), Invoice)
                                  + SumFunctionOnSet(Due(u), Request)
  <2>1. ASSUME NEW i \in Invoice PROVE Moved(u)[i] = 0
    <3>1. books[i].earned = 0 /\ books[i].redeemed = 0 /\ crediting[i] = 0
      BY RowFacts DEF Init
    <3>2. invoice[i].cart.points \in Nat
      BY <1>1, CartFacts DEF IInv, TypeOK, InvoiceRow
    <3>3. Earned * (0 - 0) - invoice[i].cart.points * 0 = 0
      BY <3>2, PointsAssumption
    <3> QED
      BY <3>1, <3>3 DEF Moved
  <2>2. ASSUME NEW p \in Request PROVE Due(u)[p] = 0
    BY RowFacts DEF Init, Due
  <2>3. SumFunctionOnSet(Moved(u), Invoice) = 0 /\ SumFunctionOnSet(Due(u), Request) = 0
    BY <2>1, <2>2, FiniteAssumption, SumZero
  <2>4. balance[u] = Opening
    BY DEF Init
  <2> QED
    BY <2>3, <2>4, PointsAssumption
<1> QED
  BY <1>1, <1>2, <1>3 DEF Ledger, LedgerAddsUp

\* What inserts an invoice, or writes what the ledger does not depend on, keeps it.
BooksKept ==
  \A i \in Invoice :
    /\ books'[i].earned = books[i].earned /\ books'[i].redeemed = books[i].redeemed
    /\ crediting'[i] = crediting[i]
    /\ invoice[i].status # "NONE" =>
         /\ invoice'[i].status # "NONE"
         /\ invoice'[i].user = invoice[i].user /\ invoice'[i].cart = invoice[i].cart
    /\ invoice[i].status = "NONE" => awarding'[i] = awarding[i]

HandsKept ==
  \A p \in Request :
    \/ proc'[p].step # "debit" /\ proc[p].step # "debit"
    \/ proc'[p] = proc[p]

LEMMA MovedKept ==
  ASSUME IInv, IInv', NewHasNoBooks, BooksKept, NEW u \in User
  PROVE  SumFunctionOnSet(Moved(u)', Invoice) = SumFunctionOnSet(Moved(u), Invoice)
<1>1. ASSUME NEW i \in Invoice PROVE Moved(u)'[i] = Moved(u)[i]
  <2>1. CASE invoice[i].status # "NONE"
    BY <2>1 DEF BooksKept, Moved
  <2>2. CASE invoice[i].status = "NONE"
    <3>1. invoice[i].user # u
      BY <2>2, NoneAssumption DEF IInv, RowsInShape
    <3>2. books'[i].earned = 0 /\ books'[i].redeemed = 0 /\ crediting'[i] = 0
      BY <2>2 DEF BooksKept, NewHasNoBooks
    <3>3. invoice'[i].cart.points \in Nat
      BY CartFacts DEF IInv, TypeOK, InvoiceRow
    <3>4. Earned * (0 - 0) - invoice'[i].cart.points * 0 = 0
      BY <3>3, PointsAssumption
    <3> QED
      BY <3>1, <3>2, <3>4 DEF Moved
  <2> QED
    BY <2>1, <2>2
<1>2. \A i \in Invoice : Moved(u)'[i] = Moved(u)[i]
  BY <1>1
<1> QED
  BY <1>2, FiniteAssumption, SumSame

LEMMA DueKept ==
  ASSUME HandsKept, NEW u \in User
  PROVE  SumFunctionOnSet(Due(u)', Request) = SumFunctionOnSet(Due(u), Request)
<1>1. \A p \in Request : Due(u)'[p] = Due(u)[p]
  BY DEF HandsKept, Due
<1> QED
  BY <1>1, FiniteAssumption, SumSame

LEMMA LedgerKept ==
  ASSUME Ledger, IInv', BooksKept, HandsKept, \A u \in User : balance'[u] = balance[u],
         faults' = faults
  PROVE  Ledger'
<1>1. IInv /\ NewHasNoBooks
  BY DEF Ledger
<1>2. NewHasNoBooks'
  BY <1>1 DEF NewHasNoBooks, BooksKept
<1>3. ASSUME faults' = 0, NEW u \in User
      PROVE  balance'[u] = Opening + SumFunctionOnSet(Moved(u)', Invoice)
                                   + SumFunctionOnSet(Due(u)', Request)
  <2>1. balance[u] = Opening + SumFunctionOnSet(Moved(u), Invoice)
                             + SumFunctionOnSet(Due(u), Request)
    BY <1>3 DEF Ledger, LedgerAddsUp
  <2> QED
    BY <1>1, <2>1, MovedKept, DueKept
<1>4. LedgerAddsUp'
  BY <1>3 DEF LedgerAddsUp
<1> QED
  BY <1>2, <1>4 DEF Ledger

\* Handlers that only read, and those that start or end.
LEMMA QuietLedger ==
  ASSUME Ledger, IInv', HandsKept,
         UNCHANGED <<balance, invoice, books, awarding, crediting, faults>>
  PROVE  Ledger'
<1>1. BooksKept
  BY DEF BooksKept
<1> QED
  BY <1>1, LedgerKept

LEMMA BeginLedger ==
  ASSUME Ledger, IInv', NEW p \in Request, Begin(p)
  PROVE  Ledger'
<1>1. proc \in [Request -> Handler]
  BY DEF Ledger, IInv, TypeOK
<1>2. /\ proc'[p].step # "debit" /\ proc[p].step = "idle"
      /\ \A q \in Request \ {p} : proc'[q] = proc[q]
      /\ UNCHANGED <<balance, invoice, books, awarding, crediting, faults>>
  <2>1. CASE \E u \in User, cart \in Cart : CreateInvoice(p, u, cart)
    BY <1>1, <2>1 DEF CreateInvoice, Idle
  <2>2. CASE \E i \in Invoice : CancelInvoice(p, i)
    BY <1>1, <2>2 DEF CancelInvoice, Idle
  <2>3. CASE \E i \in Invoice, u \in User : ProcessTransaction(p, u, i)
    BY <1>1, <2>3 DEF ProcessTransaction, Idle
  <2>4. CASE \E i \in Invoice, s \in WompiStatus : HandleTransactionUpdated(p, i, s)
    BY <1>1, <2>4 DEF HandleTransactionUpdated, Idle
  <2> QED
    BY <2>1, <2>2, <2>3, <2>4 DEF Begin
<1>3. HandsKept
  BY <1>1, <1>2 DEF HandsKept
<1> QED
  BY <1>2, <1>3, QuietLedger

\* Handlers that write the invoice they have, which is in the table afterwards.
LEMMA RowLedger ==
  ASSUME Ledger, IInv', NEW p \in Request, NEW i \in Invoice, NEW r, NEW h,
         invoice' = [invoice EXCEPT ![i] = r], r.status # "NONE",
         invoice[i].status # "NONE" => r.user = invoice[i].user /\ r.cart = invoice[i].cart,
         proc' = [proc EXCEPT ![p] = h], h.step # "debit", proc[p].step # "debit",
         UNCHANGED <<balance, books, awarding, crediting, faults>>
  PROVE  Ledger'
<1>1. TypeOK
  BY DEF Ledger, IInv
<1>2. BooksKept
  BY <1>1 DEF BooksKept, TypeOK
<1>3. HandsKept
  BY <1>1 DEF HandsKept, TypeOK
<1> QED
  BY <1>2, <1>3, LedgerKept

LEMMA InvoiceLedger ==
  ASSUME Ledger, IInv', NEW p \in Request,
         \/ InsertInvoice(p) \/ InsertItems(p) \/ WriteCanceled(p) \/ LockUser(p)
         \/ RejectInvoice(p) \/ VoidInvoice(p) \/ UpdateInvoiceStatus(p)
  PROVE  Ledger'
<1> DEFINE i == proc[p].invoice
<1>1. TypeOK /\ HandlersInShape /\ HandlersHold
  BY DEF Ledger, IInv
<1>2. PICK q \in Handler : q = proc[p]
  BY <1>1 DEF TypeOK
<1>3. PICK r \in InvoiceRow : i \in Invoice => r = invoice[i]
  BY <1>1, RowFacts DEF TypeOK
<1>4. ASSUME NEW s, s # "debit"
      PROVE  [q EXCEPT !.step = s].step # "debit"
  BY <1>2, <1>4 DEF Handler
<1>5. ASSUME NEW s, s # "NONE"
      PROVE  /\ [r EXCEPT !.status = s].status # "NONE"
             /\ [r EXCEPT !.status = s].user = r.user /\ [r EXCEPT !.status = s].cart = r.cart
  BY <1>3, <1>5 DEF InvoiceRow
<1>6. q.step # "idle" => i \in Invoice
  BY <1>1, <1>2 DEF HandlersInShape, Shape
<1>7. CASE InsertInvoice(p)
  <2>1. /\ invoice[i].status = "NONE" /\ i \in Invoice
    BY <1>1, <1>2, <1>6, <1>7 DEF InsertInvoice, HandlersHold, Holds
  <2> DEFINE b == [status |-> "ISSUED", user |-> q.user, cart |-> q.cart, items |-> FALSE]
  <2>2. invoice' = [invoice EXCEPT ![i] = b] /\ proc' = [proc EXCEPT ![p] = [q EXCEPT !.step = "items"]]
        /\ proc[p].step # "debit" /\ UNCHANGED <<balance, books, awarding, crediting, faults>>
    BY <1>2, <1>7 DEF InsertInvoice, Goto, history
  <2>3. b.status # "NONE"
    OBVIOUS
  <2> HIDE DEF b, i
  <2> QED
    BY <1>4, <2>1, <2>2, <2>3, RowLedger
<1>8. CASE InsertItems(p)
  <2>1. i \in Invoice /\ r.status # "NONE"
    BY <1>1, <1>2, <1>3, <1>6, <1>8 DEF InsertItems, HandlersHold, Holds
  <2> DEFINE b == [r EXCEPT !.items = TRUE]
  <2>2. b.status # "NONE" /\ b.user = r.user /\ b.cart = r.cart
    BY <1>3, <2>1 DEF InvoiceRow
  <2>3. invoice' = [invoice EXCEPT ![i] = b] /\ proc' = [proc EXCEPT ![p] = Idle]
        /\ proc[p].step # "debit" /\ UNCHANGED <<balance, books, awarding, crediting, faults>>
    BY <1>3, <1>8, <2>1 DEF InsertItems, Done, history
  <2> HIDE DEF b, i
  <2> QED
    BY <1>3, <2>1, <2>2, <2>3, RowFacts, RowLedger, ZenonT(40)
<1>9. CASE LockUser(p)
  <2>1. i \in Invoice
    BY <1>2, <1>6, <1>9 DEF LockUser
  <2> DEFINE n == [NoBill EXCEPT !.status = "ISSUED", !.user = q.user, !.items = TRUE]
             b == IF r.status = "NONE" THEN n ELSE r
             h == IF invoice[i].status \in {"NONE", "ISSUED"} THEN [q EXCEPT !.step = "send"]
                                                              ELSE Idle
  <2>2. b.status # "NONE" /\ (r.status # "NONE" => b.user = r.user /\ b.cart = r.cart)
    BY DEF NoBill
  <2>3. invoice' = [invoice EXCEPT ![i] = b] /\ proc' = [proc EXCEPT ![p] = h]
        /\ proc[p].step # "debit" /\ UNCHANGED <<balance, books, awarding, crediting, faults>>
    BY <1>2, <1>3, <1>9, <2>1 DEF LockUser, Goto, Done, history
  <2>4. h.step # "debit"
    BY <1>4, RowFacts
  <2>5. invoice[i].status # "NONE" => b.user = invoice[i].user /\ b.cart = invoice[i].cart
    BY <1>3, <2>1, <2>2
  <2> HIDE DEF b, h, i
  <2> QED
    BY <2>1, <2>2, <2>3, <2>4, <2>5, RowLedger, ZenonT(40)
<1>10. CASE WriteCanceled(p) \/ RejectInvoice(p) \/ VoidInvoice(p) \/ UpdateInvoiceStatus(p)
  <2>1. i \in Invoice
    BY <1>2, <1>6, <1>10 DEF WriteCanceled, RejectInvoice, VoidInvoice, UpdateInvoiceStatus
  <2>2. PICK s \in {"CANCELED", "REJECTED", "PAID"} :
          invoice' = [invoice EXCEPT ![i] = [r EXCEPT !.status = s]]
    BY <1>3, <1>10, <2>1 DEF WriteCanceled, RejectInvoice, VoidInvoice, UpdateInvoiceStatus
  <2>3. /\ proc[p].step # "debit" /\ UNCHANGED <<balance, books, awarding, crediting, faults>>
        /\ \/ proc' = [proc EXCEPT ![p] = Idle]
           \/ proc' = [proc EXCEPT ![p] = [q EXCEPT !.step = "tickets"]]
    BY <1>2, <1>10 DEF WriteCanceled, RejectInvoice, VoidInvoice, UpdateInvoiceStatus, Done,
                       Goto, history
  <2>4. PICK h : proc' = [proc EXCEPT ![p] = h] /\ h.step # "debit"
    BY <1>4, <2>3, RowFacts
  <2> DEFINE b == [r EXCEPT !.status = s]
  <2>5. b.status # "NONE" /\ b.user = r.user /\ b.cart = r.cart
    BY <1>5
  <2>6. invoice' = [invoice EXCEPT ![i] = b] /\ r = invoice[i]
    BY <1>3, <2>1, <2>2
  <2>7. invoice[i].status # "NONE" => b.user = invoice[i].user /\ b.cart = invoice[i].cart
    BY <2>5, <2>6
  <2>8. b.status # "NONE" /\ invoice' = [invoice EXCEPT ![i] = b]
    BY <2>5, <2>6
  <2>9. proc[p].step # "debit" /\ UNCHANGED <<balance, books, awarding, crediting, faults>>
    BY <2>3
  <2> HIDE DEF i, b
  <2> QED
    BY <2>1, <2>4, <2>7, <2>8, <2>9, RowLedger
<1> QED
  BY <1>7, <1>8, <1>9, <1>10

\* Handlers that write books the ledger does not look at.
LEMMA OtherBooksLedger ==
  ASSUME Ledger, IInv', NEW p \in Request,
         CreateTickets(p) \/ IncrementSold(p) \/ InsertCommission(p) \/ IncrementUses(p)
  PROVE  Ledger'
<1> DEFINE i == proc[p].invoice
<1>1. TypeOK /\ HandlersInShape /\ HandlersHold
  BY DEF Ledger, IInv
<1>2. PICK q \in Handler : q = proc[p]
  BY <1>1 DEF TypeOK
<1>3. q.step \in {"tickets", "sold", "promoter", "uses"}
  BY <1>2 DEF CreateTickets, IncrementSold, InsertCommission, IncrementUses
<1>4. i \in Invoice /\ invoice[i].status # "NONE"
  BY <1>1, <1>2, <1>3 DEF HandlersInShape, Shape, HandlersHold, Holds, Settling
<1>5. PICK b \in Books : b = books[i]
  BY <1>1, <1>4 DEF TypeOK
<1>6. UNCHANGED <<balance, invoice, crediting, faults>>
  BY DEF CreateTickets, IncrementSold, InsertCommission, IncrementUses, history
<1>7. PICK c : books' = [books EXCEPT ![i] = c] /\ c.earned = b.earned /\ c.redeemed = b.redeemed
  <2>1. ASSUME NEW n
        PROVE  /\ [b EXCEPT !.tickets = n].earned = b.earned
               /\ [b EXCEPT !.tickets = n].redeemed = b.redeemed
               /\ [b EXCEPT !.sold = n].earned = b.earned
               /\ [b EXCEPT !.sold = n].redeemed = b.redeemed
               /\ [b EXCEPT !.commission = n].earned = b.earned
               /\ [b EXCEPT !.commission = n].redeemed = b.redeemed
               /\ [b EXCEPT !.uses = n].earned = b.earned
               /\ [b EXCEPT !.uses = n].redeemed = b.redeemed
    BY DEF Books
  <2>2. CASE CreateTickets(p)
    <3>1. PICK n : books' = [books EXCEPT ![i] = [b EXCEPT !.tickets = n]]
      BY <1>4, <1>5, <2>2 DEF CreateTickets
    <3> QED
      BY <2>1, <3>1
  <2>3. CASE IncrementSold(p)
    <3>1. PICK n : books' = [books EXCEPT ![i] = [b EXCEPT !.sold = n]]
      BY <1>4, <1>5, <2>3 DEF IncrementSold
    <3> QED
      BY <2>1, <3>1
  <2>4. CASE InsertCommission(p)
    <3>1. \/ books' = [books EXCEPT ![i] = [b EXCEPT !.commission = b.commission + 1]]
          \/ books' = books
      BY <1>4, <1>5, <2>4 DEF InsertCommission
    <3>2. books = [books EXCEPT ![i] = b]
      BY <1>1, <1>5 DEF TypeOK
    <3> DEFINE c == [b EXCEPT !.commission = b.commission + 1]
    <3>3. c.earned = b.earned /\ c.redeemed = b.redeemed
      BY <2>1
    <3>4. CASE books' = [books EXCEPT ![i] = c]
      BY <3>3, <3>4
    <3>5. CASE books' = books
      BY <3>2, <3>5
    <3> QED
      BY <3>1, <3>4, <3>5
  <2>5. CASE IncrementUses(p)
    <3>1. PICK n : books' = [books EXCEPT ![i] = [b EXCEPT !.uses = n]]
      BY <1>4, <1>5, <2>5 DEF IncrementUses
    <3> QED
      BY <2>1, <3>1
  <2> HIDE DEF i
  <2> QED
    BY <2>2, <2>3, <2>4, <2>5
<1>8. \A j \in Invoice \ {i} : awarding'[j] = awarding[j]
  BY <1>1, <1>4 DEF CreateTickets, IncrementSold, InsertCommission, IncrementUses, TypeOK
<1>9. PICK h : proc' = [proc EXCEPT ![p] = h] /\ h.step # "debit"
  <2>1. \/ proc' = [proc EXCEPT ![p] = Idle]
        \/ \E s \in {"sold", "redeem", "promoter", "uses"} :
             proc' = [proc EXCEPT ![p] = [q EXCEPT !.step = s]]
    BY <1>2 DEF CreateTickets, IncrementSold, InsertCommission, IncrementUses, Goto, Done
  <2>2. \A s \in {"sold", "redeem", "promoter", "uses"} : [q EXCEPT !.step = s].step # "debit"
    BY DEF Handler
  <2> QED
    BY <2>1, <2>2, RowFacts
<1> HIDE DEF i
<1>10. BooksKept
  BY <1>1, <1>4, <1>5, <1>6, <1>7, <1>8 DEF BooksKept, TypeOK
<1>11. HandsKept
  BY <1>1, <1>2, <1>3, <1>9 DEF HandsKept, TypeOK
<1> QED
  BY <1>6, <1>10, <1>11, LedgerKept

\* Handlers that write neither invoices nor books.
LEMMA CalmLedger ==
  ASSUME Ledger, IInv', NEW p \in Request,
         \/ SendTransaction(p) \/ RecordTransaction(p) \/ UnlockUser(p) \/ FindTransaction(p)
         \/ WriteTransaction(p) \/ RedeemPoints(p) \/ NoteError(p)
  PROVE  Ledger'
<1>1. proc \in [Request -> Handler]
  BY DEF Ledger, IInv, TypeOK
<1>2. PICK q \in Handler : q = proc[p]
  BY <1>1
<1>3. UNCHANGED <<balance, invoice, books, awarding, crediting, faults>> /\ proc[p].step # "debit"
  BY DEF SendTransaction, RecordTransaction, UnlockUser, FindTransaction, WriteTransaction,
         RedeemPoints, NoteError, history
<1>4. PICK h : proc' = [proc EXCEPT ![p] = h] /\ h.step # "debit"
  <2>1. ASSUME NEW s, s # "debit", NEW x
        PROVE  [q EXCEPT !.step = s].step # "debit" /\ [q EXCEPT !.step = s, !.txn = x].step # "debit"
    BY <2>1 DEF Handler
  <2>2. CASE SendTransaction(p) \/ RecordTransaction(p) \/ UnlockUser(p) \/ FindTransaction(p)
    <3>1. CASE SendTransaction(p)
      <4>1. \/ proc' = [proc EXCEPT ![p] = [q EXCEPT !.step = "unlock"]]
            \/ \E x \in Txn : proc' = [proc EXCEPT ![p] = [q EXCEPT !.step = "record", !.txn = x]]
        BY <1>1, <1>2, <3>1 DEF SendTransaction, Goto, FreeTxn
      <4>2. CASE proc' = [proc EXCEPT ![p] = [q EXCEPT !.step = "unlock"]]
        BY <2>1, <4>2
      <4>3. ASSUME NEW x \in Txn,
                   proc' = [proc EXCEPT ![p] = [q EXCEPT !.step = "record", !.txn = x]]
            PROVE  \E h : proc' = [proc EXCEPT ![p] = h] /\ h.step # "debit"
        BY <2>1, <4>3
      <4> QED
        BY <4>1, <4>2, <4>3
    <3>2. CASE RecordTransaction(p) \/ UnlockUser(p)
      <4>1. \/ proc' = [proc EXCEPT ![p] = [q EXCEPT !.step = "unlock"]]
            \/ proc' = [proc EXCEPT ![p] = Idle]
        BY <1>1, <1>2, <3>2 DEF RecordTransaction, UnlockUser, Goto, Done
      <4> QED
        BY <2>1, <4>1, RowFacts
    <3>3. CASE FindTransaction(p)
      <4>1. \/ proc' = [proc EXCEPT ![p] = Idle]
            \/ \E x \in Txn : proc' = [proc EXCEPT ![p] = [q EXCEPT !.step = "create", !.txn = x]]
            \/ \E x \in Txn : proc' = [proc EXCEPT ![p] = [q EXCEPT !.step = "mark", !.txn = x]]
        BY <1>1, <1>2, <3>3, ZenonT(40) DEF FindTransaction, Done, FreeTxn, RowsOf
      <4>2. CASE proc' = [proc EXCEPT ![p] = Idle]
        BY <4>2, RowFacts
      <4>3. ASSUME NEW x \in Txn,
                   proc' = [proc EXCEPT ![p] = [q EXCEPT !.step = "create", !.txn = x]]
            PROVE  \E h : proc' = [proc EXCEPT ![p] = h] /\ h.step # "debit"
        BY <2>1, <4>3
      <4>4. ASSUME NEW x \in Txn,
                   proc' = [proc EXCEPT ![p] = [q EXCEPT !.step = "mark", !.txn = x]]
            PROVE  \E h : proc' = [proc EXCEPT ![p] = h] /\ h.step # "debit"
        BY <2>1, <4>4
      <4> QED
        BY <4>1, <4>2, <4>3, <4>4
    <3> QED
      BY <2>2, <3>1, <3>2, <3>3
  <2>3. CASE WriteTransaction(p) \/ RedeemPoints(p) \/ NoteError(p)
    <3>1. \/ proc' = [proc EXCEPT ![p] = Idle]
          \/ \E s \in {"paid", "reject", "void", "error", "ledger"} :
               proc' = [proc EXCEPT ![p] = [q EXCEPT !.step = s]]
      BY <1>1, <1>2, <2>3 DEF WriteTransaction, RedeemPoints, NoteError, Act, Goto, Done
    <3> QED
      BY <2>1, <3>1, RowFacts
  <2> QED
    BY <2>2, <2>3
<1>5. HandsKept
  BY <1>1, <1>3, <1>4 DEF HandsKept
<1> QED
  BY <1>3, <1>5, QuietLedger

\* The row of the redemption takes from the ledger what is to be debited.
LEMMA InsertRedeemedLedger ==
  ASSUME Ledger, IInv', NEW p \in Request, InsertRedeemed(p)
  PROVE  Ledger'
<1> DEFINE i == proc[p].invoice
<1>1. TypeOK /\ HandlersInShape /\ HandlersHold
  BY DEF Ledger, IInv
<1>2. PICK q \in Handler : q = proc[p] /\ q.step = "ledger"
  BY <1>1 DEF TypeOK, InsertRedeemed
<1>3. /\ i \in Invoice /\ invoice[i].status # "NONE"
      /\ invoice[i].user = q.user /\ invoice[i].cart = q.cart
  BY <1>1, <1>2 DEF HandlersInShape, Shape, HandlersHold, Holds, Settling
<1>4. PICK b \in Books : b = books[i]
  BY <1>1, <1>3 DEF TypeOK
<1>5. PICK c : books' = [books EXCEPT ![i] = c] /\ c.earned = b.earned
               /\ c.redeemed = b.redeemed + 1
  <2> DEFINE c == [b EXCEPT !.redeemed = b.redeemed + 1]
  <2>1. c.earned = b.earned /\ c.redeemed = b.redeemed + 1
    BY DEF Books
  <2>2. books' = [books EXCEPT ![i] = c]
    BY <1>3, <1>4 DEF InsertRedeemed
  <2> HIDE DEF c
  <2> QED
    BY <2>1, <2>2
<1>6. PICK h : /\ proc' = [proc EXCEPT ![p] = h] /\ h.step = "debit"
               /\ h.user = q.user /\ h.cart = q.cart
  <2> DEFINE h == [q EXCEPT !.step = "debit"]
  <2>1. h.step = "debit" /\ h.user = q.user /\ h.cart = q.cart
    BY DEF Handler
  <2>2. proc' = [proc EXCEPT ![p] = h]
    BY <1>2 DEF InsertRedeemed, Goto
  <2> HIDE DEF h
  <2> QED
    BY <2>1, <2>2
<1>7. UNCHANGED <<balance, invoice, awarding, crediting, faults>>
  BY DEF InsertRedeemed, history
<1> HIDE DEF i
<1>8. /\ books'[i] = c /\ \A j \in Invoice \ {i} : books'[j] = books[j]
      /\ proc'[p] = h /\ \A r \in Request \ {p} : proc'[r] = proc[r]
  BY <1>1, <1>3, <1>5, <1>6 DEF TypeOK
<1>9. NewHasNoBooks'
  BY <1>3, <1>7, <1>8 DEF Ledger, NewHasNoBooks
<1>10. ASSUME NEW u \in User
       PROVE  /\ SumFunctionOnSet(Moved(u)', Invoice) + SumFunctionOnSet(Due(u)', Request)
                = SumFunctionOnSet(Moved(u), Invoice) + SumFunctionOnSet(Due(u), Request)
              /\ SumFunctionOnSet(Moved(u)', Invoice) \in Int
              /\ SumFunctionOnSet(Due(u)', Request) \in Int
  <2> DEFINE n == IF q.user = u THEN q.cart.points ELSE 0
  <2>1. q.cart.points \in Nat /\ b.earned \in Nat /\ b.redeemed \in Nat /\ n \in Int
    BY CartFacts DEF Handler, Books
  <2>2. \A j \in Invoice : Moved(u)[j] \in Int
    BY <1>1, SummandTypes
  <2>3. Moved(u)'[i] = Moved(u)[i] - n
    <3>1. CASE q.user = u
      <4>1. /\ Moved(u)'[i] = Earned * (b.earned - crediting[i]) - q.cart.points * (b.redeemed + 1)
            /\ Moved(u)[i] = Earned * (b.earned - crediting[i]) - q.cart.points * b.redeemed
        BY <1>3, <1>4, <1>5, <1>7, <1>8, <3>1 DEF Moved
      <4>2. q.cart.points * (b.redeemed + 1) = q.cart.points * b.redeemed + q.cart.points
        BY <2>1
      <4>3. Earned * (b.earned - crediting[i]) \in Int /\ q.cart.points * b.redeemed \in Int
        BY <1>1, <1>3, <2>1, PointsAssumption DEF TypeOK
      <4> QED
        BY <2>1, <3>1, <4>1, <4>2, <4>3
    <3>2. CASE q.user # u
      BY <1>3, <1>7, <3>2 DEF Moved
    <3> QED
      BY <3>1, <3>2
  <2>4. \A j \in Invoice \ {i} : Moved(u)'[j] = Moved(u)[j]
    BY <1>7, <1>8 DEF Moved
  <2>5. SumFunctionOnSet(Moved(u)', Invoice)
        = SumFunctionOnSet(Moved(u), Invoice) - Moved(u)[i] + (Moved(u)[i] - n)
    <3>1. Moved(u)'[i] \in Int
      BY <1>3, <2>1, <2>2, <2>3
    <3> QED
      BY <1>3, <2>2, <2>3, <2>4, <3>1, FiniteAssumption, SumChange
  <2>6. \A r \in Request : Due(u)[r] \in Int
    BY <1>1, SummandTypes
  <2>7. Due(u)'[p] = n /\ Due(u)[p] = 0
    BY <1>2, <1>6, <1>8 DEF Due
  <2>8. \A r \in Request \ {p} : Due(u)'[r] = Due(u)[r]
    BY <1>8 DEF Due
  <2>9. SumFunctionOnSet(Due(u)', Request) = SumFunctionOnSet(Due(u), Request) - 0 + n
    BY <2>1, <2>6, <2>7, <2>8, FiniteAssumption, SumChange
  <2>10. /\ SumFunctionOnSet(Moved(u), Invoice) \in Int
         /\ SumFunctionOnSet(Due(u), Request) \in Int /\ Moved(u)[i] \in Int
    BY <1>1, <1>3, SummandTypes
  <2> HIDE DEF n
  <2> QED
    BY <2>1, <2>5, <2>9, <2>10
<1>11. ASSUME faults' = 0, NEW u \in User
       PROVE  balance'[u] = Opening + SumFunctionOnSet(Moved(u)', Invoice)
                                    + SumFunctionOnSet(Due(u)', Request)
  <2>1. balance[u] = Opening + SumFunctionOnSet(Moved(u), Invoice)
                             + SumFunctionOnSet(Due(u), Request)
    BY <1>7, <1>11 DEF Ledger, LedgerAddsUp
  <2>2. /\ SumFunctionOnSet(Moved(u), Invoice) \in Int
        /\ SumFunctionOnSet(Due(u), Request) \in Int
    BY <1>1, SummandTypes
  <2> QED
    BY <1>7, <1>10, <2>1, <2>2, PointsAssumption
<1>12. LedgerAddsUp'
  BY <1>11 DEF LedgerAddsUp
<1> QED
  BY <1>9, <1>12 DEF Ledger

\* The debit that the ledger was waiting for.
LEMMA DebitPointsLedger ==
  ASSUME Ledger, IInv', NEW p \in Request, DebitPoints(p)
  PROVE  Ledger'
<1> DEFINE i == proc[p].invoice
<1>1. TypeOK /\ HandlersInShape /\ HandlersHold
  BY DEF Ledger, IInv
<1>2. PICK q \in Handler : q = proc[p] /\ q.step = "debit"
  BY <1>1 DEF TypeOK, DebitPoints
<1>3. i \in Invoice /\ invoice[i].status # "NONE" /\ q.user \in User
  BY <1>1, <1>2 DEF HandlersInShape, Shape, HandlersHold, Holds, Settling
<1>4. PICK h : proc' = [proc EXCEPT ![p] = h] /\ h.step = "promoter"
  <2> DEFINE h == [q EXCEPT !.step = "promoter"]
  <2>1. h.step = "promoter"
    BY DEF Handler
  <2>2. proc' = [proc EXCEPT ![p] = h]
    BY <1>2 DEF DebitPoints, Goto
  <2> HIDE DEF h
  <2> QED
    BY <2>1, <2>2
<1>5. PICK k : awarding' = [awarding EXCEPT ![i] = k]
  BY DEF DebitPoints
<1>6. UNCHANGED <<invoice, books, crediting, faults>>
  BY DEF DebitPoints, history
<1> HIDE DEF i
<1>7. BooksKept
  BY <1>1, <1>3, <1>5, <1>6 DEF BooksKept, TypeOK
<1>8. NewHasNoBooks'
  BY <1>7 DEF Ledger, NewHasNoBooks, BooksKept
<1>9. proc'[p] = h /\ \A r \in Request \ {p} : proc'[r] = proc[r]
  BY <1>1, <1>4 DEF TypeOK
<1>10. ASSUME faults' = 0, NEW u \in User
       PROVE  balance'[u] = Opening + SumFunctionOnSet(Moved(u)', Invoice)
                                    + SumFunctionOnSet(Due(u)', Request)
  <2> DEFINE n == IF q.user = u THEN q.cart.points ELSE 0
  <2>1. n \in Int
    BY CartFacts DEF Handler
  <2>2. balance[u] = Opening + SumFunctionOnSet(Moved(u), Invoice)
                             + SumFunctionOnSet(Due(u), Request)
    BY <1>6, <1>10 DEF Ledger, LedgerAddsUp
  <2>3. SumFunctionOnSet(Moved(u)', Invoice) = SumFunctionOnSet(Moved(u), Invoice)
    BY <1>7, MovedKept DEF Ledger
  <2>4. \A r \in Request : Due(u)[r] \in Int
    BY <1>1, SummandTypes
  <2>5. Due(u)'[p] = 0 /\ Due(u)[p] = n
    BY <1>2, <1>4, <1>9 DEF Due
  <2>6. \A r \in Request \ {p} : Due(u)'[r] = Due(u)[r]
    BY <1>9 DEF Due
  <2>7. SumFunctionOnSet(Due(u)', Request) = SumFunctionOnSet(Due(u), Request) - n + 0
    BY <2>4, <2>5, <2>6, FiniteAssumption, SumChange
  <2>8. /\ SumFunctionOnSet(Moved(u), Invoice) \in Int
        /\ SumFunctionOnSet(Due(u), Request) \in Int
    BY <1>1, SummandTypes
  <2>9. balance'[u] = balance[u] - n
    <3>1. balance \in [User -> Int] /\ balance' = [balance EXCEPT ![q.user] = @ - q.cart.points]
      BY <1>1, <1>2 DEF TypeOK, DebitPoints
    <3>2. balance[u] - 0 = balance[u]
      BY <3>1
    <3> QED
      BY <3>1, <3>2
  <2> HIDE DEF n
  <2> QED
    BY <2>1, <2>2, <2>3, <2>7, <2>8, <2>9, PointsAssumption
<1>11. LedgerAddsUp'
  BY <1>10 DEF LedgerAddsUp
<1> QED
  BY <1>8, <1>11 DEF Ledger

\* The row of an award is not in the balance before its credit.
LEMMA InsertEarnedLedger ==
  ASSUME Ledger, IInv', NEW i \in Invoice, InsertEarned(i)
  PROVE  Ledger'
<1>1. TypeOK
  BY DEF Ledger, IInv
<1>2. PICK b \in Books : b = books[i]
  BY <1>1 DEF TypeOK
<1>3. PICK c : books' = [books EXCEPT ![i] = c] /\ c.earned = b.earned + 1
               /\ c.redeemed = b.redeemed
  <2> DEFINE c == [b EXCEPT !.earned = b.earned + 1]
  <2>1. c.earned = b.earned + 1 /\ c.redeemed = b.redeemed
    BY DEF Books
  <2>2. books' = [books EXCEPT ![i] = c]
    BY <1>2 DEF InsertEarned
  <2> HIDE DEF c
  <2> QED
    BY <2>1, <2>2
<1>4. /\ UNCHANGED <<balance, invoice, proc, faults>> /\ awarding[i] > 0
      /\ crediting'[i] = crediting[i] + 1
      /\ \A j \in Invoice \ {i} : awarding'[j] = awarding[j] /\ crediting'[j] = crediting[j]
  BY <1>1 DEF InsertEarned, history, TypeOK
<1>5. books'[i] = c /\ \A j \in Invoice \ {i} : books'[j] = books[j]
  BY <1>1, <1>3 DEF TypeOK
<1>6. NewHasNoBooks'
  <2>1. invoice[i].status # "NONE"
    BY <1>4 DEF Ledger, NewHasNoBooks
  <2> QED
    BY <1>4, <1>5, <2>1 DEF Ledger, NewHasNoBooks
<1>7. ASSUME NEW u \in User
      PROVE  SumFunctionOnSet(Moved(u)', Invoice) = SumFunctionOnSet(Moved(u), Invoice)
  <2>1. b.earned \in Nat /\ crediting[i] \in Nat
    BY <1>1 DEF Books, TypeOK
  <2>2. c.earned - (crediting[i] + 1) = b.earned - crediting[i]
    BY <1>3, <2>1
  <2>3. \A j \in Invoice : Moved(u)'[j] = Moved(u)[j]
    BY <1>2, <1>3, <1>4, <1>5, <2>2 DEF Moved
  <2> QED
    BY <2>3, FiniteAssumption, SumSame
<1>8. ASSUME NEW u \in User PROVE Due(u)' = Due(u)
  BY <1>4 DEF Due
<1>9. LedgerAddsUp'
  BY <1>4, <1>7, <1>8 DEF Ledger, LedgerAddsUp
<1> QED
  BY <1>6, <1>9 DEF Ledger

\* The credit that the row of the award was waiting for.
LEMMA CreditPointsLedger ==
  ASSUME Ledger, IInv', NEW i \in Invoice, CreditPoints(i)
  PROVE  Ledger'
<1>1. TypeOK
  BY DEF Ledger, IInv
<1>2. PICK b \in Books : b = books[i]
  BY <1>1 DEF TypeOK
<1>3. /\ UNCHANGED <<invoice, books, awarding, proc, faults>> /\ crediting[i] > 0
      /\ crediting'[i] = crediting[i] - 1
      /\ \A j \in Invoice \ {i} : crediting'[j] = crediting[j]
  BY <1>1 DEF CreditPoints, history, TypeOK
<1>7. NewHasNoBooks'
  <2>1. invoice[i].status # "NONE"
    BY <1>3 DEF Ledger, NewHasNoBooks
  <2> QED
    BY <1>3, <2>1 DEF Ledger, NewHasNoBooks
<1>8. ASSUME faults' = 0, NEW u \in User
      PROVE  balance'[u] = Opening + SumFunctionOnSet(Moved(u)', Invoice)
                                   + SumFunctionOnSet(Due(u)', Request)
  <2> DEFINE n == IF invoice[i].user = u THEN Earned ELSE 0
  <2>1. n \in Int
    BY PointsAssumption
  <2>2. balance[u] = Opening + SumFunctionOnSet(Moved(u), Invoice)
                             + SumFunctionOnSet(Due(u), Request)
    BY <1>3, <1>8 DEF Ledger, LedgerAddsUp
  <2>3. \A j \in Invoice : Moved(u)[j] \in Int
    BY <1>1, SummandTypes
  <2>4. Moved(u)'[i] = Moved(u)[i] + n
    <3>1. CASE invoice[i].user = u
      <4>1. /\ Moved(u)'[i] = Earned * (b.earned - (crediting[i] - 1))
                               - invoice[i].cart.points * b.redeemed
            /\ Moved(u)[i] = Earned * (b.earned - crediting[i])
                               - invoice[i].cart.points * b.redeemed
        BY <1>2, <1>3, <3>1 DEF Moved
      <4>2. /\ b.earned \in Nat /\ b.redeemed \in Nat /\ invoice[i].cart.points \in Nat
            /\ crediting[i] \in Nat
        BY <1>1, CartFacts DEF Books, TypeOK, InvoiceRow
      <4>3. PICK d \in Int : d = b.earned - crediting[i]
        BY <4>2
      <4>4. b.earned - (crediting[i] - 1) = d + 1
        BY <4>2, <4>3
      <4>5. Earned * (d + 1) = Earned * d + Earned
        BY PointsAssumption
      <4>6. Earned * d \in Int /\ invoice[i].cart.points * b.redeemed \in Int
        BY <4>2, PointsAssumption
      <4> QED
        BY <3>1, <4>1, <4>3, <4>4, <4>5, <4>6, PointsAssumption
    <3>2. CASE invoice[i].user # u
      BY <1>3, <3>2 DEF Moved
    <3> QED
      BY <3>1, <3>2
  <2>5. \A j \in Invoice \ {i} : Moved(u)'[j] = Moved(u)[j]
    BY <1>3 DEF Moved
  <2>6. SumFunctionOnSet(Moved(u)', Invoice)
        = SumFunctionOnSet(Moved(u), Invoice) - Moved(u)[i] + (Moved(u)[i] + n)
    <3>1. Moved(u)'[i] \in Int
      BY <2>1, <2>3, <2>4
    <3> QED
      BY <2>3, <2>4, <2>5, <3>1, FiniteAssumption, SumChange
  <2>7. Due(u)' = Due(u)
    BY <1>3 DEF Due
  <2>8. /\ SumFunctionOnSet(Moved(u), Invoice) \in Int
        /\ SumFunctionOnSet(Due(u), Request) \in Int /\ Moved(u)[i] \in Int
    BY <1>1, SummandTypes
  <2>9. balance'[u] = balance[u] + n
    <3>1. PICK w : w = invoice[i].user /\ balance' = [balance EXCEPT ![w] = @ + Earned]
      BY DEF CreditPoints
    <3>2. balance \in [User -> Int] /\ balance[u] + 0 = balance[u]
      BY <1>1 DEF TypeOK
    <3> QED
      BY <3>1, <3>2
  <2> HIDE DEF n
  <2> QED
    BY <2>1, <2>2, <2>6, <2>7, <2>8, <2>9, PointsAssumption
<1>9. LedgerAddsUp'
  BY <1>8 DEF LedgerAddsUp
<1> QED
  BY <1>7, <1>9 DEF Ledger

\* After a failure the invariant says nothing of the balances.
LEMMA FailureLedger ==
  ASSUME Ledger, IInv', faults' = faults + 1, UNCHANGED <<invoice, books>>,
         \A i \in Invoice : /\ awarding[i] = 0 => awarding'[i] = 0
                            /\ crediting[i] = 0 => crediting'[i] = 0
  PROVE  Ledger'
<1>1. faults' # 0
  BY DEF Ledger, IInv, TypeOK
<1>2. NewHasNoBooks'
  BY DEF Ledger, NewHasNoBooks
<1> QED
  BY <1>1, <1>2 DEF Ledger, LedgerAddsUp

LEMMA NextLedger == Ledger /\ [Next]_vars => Ledger'
<1> SUFFICES ASSUME Ledger, [Next]_vars PROVE Ledger'
  OBVIOUS
<1>1. IInv'
  BY NextInv DEF Ledger
<1>2. ASSUME NEW p \in Request, Begin(p) PROVE Ledger'
  BY <1>1, <1>2, BeginLedger
<1>3. ASSUME NEW p \in Request, Continue(p) PROVE Ledger'
  <2>1. CASE \/ InsertInvoice(p) \/ InsertItems(p) \/ WriteCanceled(p) \/ LockUser(p)
             \/ RejectInvoice(p) \/ VoidInvoice(p) \/ UpdateInvoiceStatus(p)
    BY <1>1, <2>1, InvoiceLedger
  <2>2. CASE \/ SendTransaction(p) \/ RecordTransaction(p) \/ UnlockUser(p)
             \/ FindTransaction(p) \/ WriteTransaction(p) \/ RedeemPoints(p) \/ NoteError(p)
    BY <1>1, <2>2, CalmLedger
  <2>3. CASE CreateTickets(p) \/ IncrementSold(p) \/ InsertCommission(p) \/ IncrementUses(p)
    BY <1>1, <2>3, OtherBooksLedger
  <2>4. CASE InsertRedeemed(p) \/ DebitPoints(p)
    BY <1>1, <2>4, InsertRedeemedLedger, DebitPointsLedger
  <2> QED
    BY <1>3, <2>1, <2>2, <2>3, <2>4 DEF Continue
<1>4. ASSUME NEW p \in Request, Fail(p) PROVE Ledger'
  BY <1>1, <1>4, FailureLedger DEF Fail
<1>5. ASSUME NEW i \in Invoice, NEW s \in WompiStatus, Deliver(i, s) PROVE Ledger'
  <2>1. PICK p \in Request : HandleTransactionUpdated(p, i, s)
    BY <1>5 DEF Deliver
  <2>2. /\ proc[p].step = "idle" /\ UNCHANGED <<balance, invoice, books, awarding, crediting, faults>>
        /\ proc \in [Request -> Handler]
    BY <2>1 DEF HandleTransactionUpdated, Ledger, IInv, TypeOK
  <2>3. proc'[p].step = "find" /\ \A q \in Request \ {p} : proc'[q] = proc[q]
    BY <2>1, <2>2 DEF HandleTransactionUpdated, Idle
  <2>4. HandsKept
    BY <2>2, <2>3 DEF HandsKept
  <2> QED
    BY <1>1, <2>2, <2>4, QuietLedger
<1>6. ASSUME NEW i \in Invoice, NEW s \in WompiStatus, WompiUpdates(i, s) PROVE Ledger'
  <2>1. UNCHANGED <<balance, invoice, books, awarding, crediting, faults>> /\ HandsKept
    BY <1>6 DEF WompiUpdates, history, HandsKept
  <2> QED
    BY <1>1, <2>1, QuietLedger
<1>7. ASSUME NEW i \in Invoice, InsertEarned(i) \/ CreditPoints(i) PROVE Ledger'
  BY <1>1, <1>7, InsertEarnedLedger, CreditPointsLedger
<1>8. ASSUME NEW i \in Invoice, LoseAward(i) PROVE Ledger'
  <2>1. \A j \in Invoice : /\ awarding[j] = 0 => awarding'[j] = 0
                           /\ crediting[j] = 0 => crediting'[j] = 0
    BY <1>8 DEF LoseAward, Ledger, IInv, TypeOK
  <2> QED
    BY <1>1, <1>8, <2>1, FailureLedger DEF LoseAward
<1>9. CASE UNCHANGED vars
  <2>1. UNCHANGED <<balance, invoice, books, awarding, crediting, faults>> /\ HandsKept
    BY <1>9 DEF vars, HandsKept
  <2> QED
    BY <1>1, <2>1, QuietLedger
<1> QED
  BY <1>2, <1>3, <1>4, <1>5, <1>6, <1>7, <1>8, <1>9 DEF Next

\* Without faults every balance is the opening balance and what the ledger rows add up to,
\* but for the movements that are between their two statements, whatever settlements, awards
\* and redemptions overlap: each increments or decrements the row in the database and none
\* writes back what it read (redeemPointsForPurchase, awardPointsForPurchase).
THEOREM LedgerCorrect == Spec => []BalanceMatchesLedger
<1>1. Ledger => BalanceMatchesLedger
  <2>1. \A u \in User : /\ SumFunction(Moved(u)) = SumFunctionOnSet(Moved(u), Invoice)
                        /\ SumFunction(Due(u)) = SumFunctionOnSet(Due(u), Request)
    BY DEF SumFunction, Moved, Due
  <2> QED
    BY <2>1 DEF Ledger, LedgerAddsUp, BalanceMatchesLedger
<1> QED
  BY <1>1, InitLedger, NextLedger, PTL DEF Spec

=============================================================================
