------------------------------ MODULE Payment ------------------------------
(***************************************************************************)
(* Payment of invoices: the checkout invoice, POST /transactions/process   *)
(* with its lock on the user, Wompi (external), the webhooks it sends at   *)
(* least once and in any order, and the settlement they start: tickets,    *)
(* counters, points and the promoter's commission.  A handler is a process *)
(* that makes one database call, or one call to Wompi, at a time.  Resale  *)
(* invoices are settled in TicketResale.                                   *)
(***************************************************************************)
EXTENDS Integers, FiniteSets, Functions

CONSTANTS
  User,        \* customers
  Invoice,     \* ids of Invoice rows; num_invoice is the reference Wompi knows
  Txn,         \* ids of Transactions rows
  Request,     \* slots for HTTP requests and webhooks in flight
  Cart,        \* what may be bought: [points |-> how many are used, code |-> a promoter's]
  Earned,      \* the points a purchase earns
  Opening,     \* the balance of points every user starts with
  NoUser, NoInvoice, NoTxn,
  MaxFaults,   \* bound on failed handlers
  MaxRequests  \* bound on the requests and repeated webhooks

ASSUME CartAssumption == Cart \subseteq [points : Nat, code : BOOLEAN]
ASSUME PointsAssumption == Earned \in Nat /\ Opening \in Nat
ASSUME NoneAssumption == NoUser \notin User /\ NoInvoice \notin Invoice /\ NoTxn \notin Txn
\* Ids are integers of bounded width, and a process has so many handlers in flight.
ASSUME FiniteAssumption == IsFiniteSet(Invoice) /\ IsFiniteSet(Request)
ASSUME BoundsAssumption == MaxFaults \in Nat /\ MaxRequests \in Nat

VARIABLES
  locked,     \* the users whose status is 99
  balance,    \* UserPointsBalance.current_balance
  invoice,    \* the Invoice table
  txn,        \* the Transactions table
  wompi,      \* external: the payment of each reference at Wompi
  unseen,     \* external: the events of a reference not delivered yet
  books,      \* what the settlements of an invoice have written
  awarding,   \* awards started and not awaited, by invoice
  crediting,  \* awards that are entered in the ledger, and not in the balance yet
  proc,       \* what every handler in flight has read and where it is
  disturbed,  \* history: invoices and users on which handlers overlapped or failed
  faults,     \* history: number of faults so far
  requests    \* history: number of requests so far

vars == <<locked, balance, invoice, txn, wompi, unseen, books, awarding,
          crediting, proc, disturbed, faults, requests>>
history == <<disturbed, faults, requests>>
outside == <<wompi, unseen>>

----------------------------------------------------------------------------
\* The tables.

Plain == [points |-> 0, code |-> FALSE]

InvoiceRow == [status: {"NONE", "ISSUED", "PAID", "REJECTED", "CANCELED"},
               user: User \cup {NoUser}, cart: Cart \cup {Plain}, items: BOOLEAN]

NoBill == [status |-> "NONE", user |-> NoUser, cart |-> Plain, items |-> FALSE]

\* ERROR is handled as DECLINED is.
WompiStatus == {"PENDING", "APPROVED", "DECLINED", "VOIDED"}

TxnRow == [status: WompiStatus \cup {"NONE"}, reference: Invoice \cup {NoInvoice}]

NoPayment == [status |-> "NONE", reference |-> NoInvoice]

\* How often each part of a settlement was written: batches of tickets, sold counters,
\* REDEEMED and EARNED rows, promoter balances and uses of the code.
Books == [tickets: Nat, sold: Nat, redeemed: Nat, earned: Nat, commission: Nat, uses: Nat]

NoBooks == [tickets |-> 0, sold |-> 0, redeemed |-> 0, earned |-> 0, commission |-> 0,
            uses |-> 0]

Paying   == {"lock", "send", "record", "unlock"}
Settling == {"find", "create", "mark", "reject", "void", "paid", "tickets", "sold", "redeem",
             "ledger", "debit", "promoter", "uses", "error"}
Step     == Paying \cup Settling \cup {"idle", "invoice", "items", "cancel"}

\* step is the next call of the handler; txn is the row it found, or the key its INSERT
\* will get; status is that of the event.
Handler == [step: Step, user: User \cup {NoUser}, invoice: Invoice \cup {NoInvoice},
            txn: Txn \cup {NoTxn}, status: WompiStatus, cart: Cart \cup {Plain}]

Idle == [step |-> "idle", user |-> NoUser, invoice |-> NoInvoice, txn |-> NoTxn,
         status |-> "PENDING", cart |-> Plain]

RowsOf(i) == {x \in Txn : txn[x].reference = i}
FreeTxn == {x \in Txn : txn[x].reference = NoInvoice /\ \A p \in Request : proc[p].txn # x}
FreeInvoice == {i \in Invoice : invoice[i].status = "NONE"
                                /\ \A p \in Request : proc[p].invoice # i}

\* The handlers that may change the status of invoice i, or settle for user u.
Writes(i)  == {p \in Request : proc[p].invoice = i /\ proc[p].step \in Settling \cup {"cancel"}}
Settles(u) == {p \in Request : proc[p].user = u /\ proc[p].step \in Settling}

----------------------------------------------------------------------------
\* Some invoices were created before, and not paid.
Init ==
  /\ locked = {}
  /\ balance = [u \in User |-> Opening]
  /\ invoice \in [Invoice -> {NoBill} \cup
                   [status : {"ISSUED"}, user : User,
                    cart : {c \in Cart : c.points <= Opening}, items : {TRUE}]]
  /\ txn = [x \in Txn |-> NoPayment]
  /\ wompi = [i \in Invoice |-> "NONE"]
  /\ unseen = [i \in Invoice |-> {}]
  /\ books = [i \in Invoice |-> NoBooks]
  /\ awarding = [i \in Invoice |-> 0]
  /\ crediting = [i \in Invoice |-> 0]
  /\ proc = [p \in Request |-> Idle]
  /\ disturbed = {}
  /\ faults = 0
  /\ requests = 0

Goto(p, s) == proc' = [proc EXCEPT ![p].step = s]
Done(p) == proc' = [proc EXCEPT ![p] = Idle]

----------------------------------------------------------------------------
\* POST /invoices.  The points are compared with the balance and not reserved.

CreateInvoice(p, u, cart) ==
  /\ proc[p].step = "idle"
  /\ balance[u] >= cart.points
  /\ \E i \in FreeInvoice :
       proc' = [proc EXCEPT ![p] = [Idle EXCEPT !.step = "invoice", !.user = u, !.invoice = i,
                                                !.cart = cart]]
  /\ UNCHANGED <<locked, balance, invoice, txn, outside, books, awarding, crediting, disturbed, faults>>

InsertInvoice(p) ==
  LET h == proc[p] IN
  /\ h.step = "invoice"
  /\ invoice' = [invoice EXCEPT ![h.invoice] =
                   [status |-> "ISSUED", user |-> h.user, cart |-> h.cart, items |-> FALSE]]
  /\ Goto(p, "items")
  /\ UNCHANGED <<locked, balance, txn, outside, books, awarding, crediting, history>>

InsertItems(p) ==
  /\ proc[p].step = "items"
  /\ invoice' = [invoice EXCEPT ![proc[p].invoice].items = TRUE]
  /\ Done(p)
  /\ UNCHANGED <<locked, balance, txn, outside, books, awarding, crediting, history>>

\* PATCH /invoices/:id/cancel.
CancelInvoice(p, i) ==
  /\ proc[p].step = "idle"
  /\ invoice[i].status \notin {"NONE", "PAID"}
  /\ proc' = [proc EXCEPT ![p] = [Idle EXCEPT !.step = "cancel", !.invoice = i,
                                              !.user = invoice[i].user]]
  /\ disturbed' = disturbed \cup (IF Writes(i) # {} THEN {i} ELSE {})
  /\ UNCHANGED <<locked, balance, invoice, txn, outside, books, awarding, crediting, faults>>

WriteCanceled(p) ==
  /\ proc[p].step = "cancel"
  /\ invoice' = [invoice EXCEPT ![proc[p].invoice].status = "CANCELED"]
  /\ Done(p)
  /\ UNCHANGED <<locked, balance, txn, outside, books, awarding, crediting, history>>

----------------------------------------------------------------------------
\* POST /transactions/process.  User and invoice are read and written in one database
\* transaction at READ COMMITTED: two of them may both have read the user unlocked, and
\* the write of the second waits for the commit of the first.  A customer pays an invoice
\* whose creation was answered.

ProcessTransaction(p, u, i) ==
  /\ proc[p].step = "idle"
  /\ u \notin locked
  /\ \/ /\ invoice[i].user = u
        /\ \A q \in Request : proc[q].invoice = i => proc[q].step \notin {"invoice", "items"}
     \/ i \in FreeInvoice
  /\ proc' = [proc EXCEPT ![p] = [Idle EXCEPT !.step = "lock", !.user = u, !.invoice = i]]
  /\ UNCHANGED <<locked, balance, invoice, txn, outside, books, awarding, crediting, disturbed, faults>>

\* An invoice that is not ISSUED rolls the lock back.  Without an invoice_id the legacy
\* flow inserts the invoice and its items here.
LockUser(p) ==
  LET h == proc[p] IN
  /\ h.step = "lock"
  /\ IF invoice[h.invoice].status \in {"NONE", "ISSUED"}
     THEN locked' = locked \cup {h.user} /\ Goto(p, "send")
     ELSE Done(p) /\ UNCHANGED locked
  /\ invoice' = [invoice EXCEPT ![h.invoice] =
                   IF @.status = "NONE"
                   THEN [NoBill EXCEPT !.status = "ISSUED", !.user = h.user, !.items = TRUE]
                   ELSE @]
  /\ UNCHANGED <<balance, txn, outside, books, awarding, crediting, history>>

\* Variant: a failed answer is thrown outside the try block.
SendTransactionThrows(p) ==
  LET h == proc[p] IN
  /\ h.step = "send"
  /\ \/ /\ wompi[h.invoice] = "NONE"
        /\ wompi' = [wompi EXCEPT ![h.invoice] = "PENDING"]
        /\ unseen' = [unseen EXCEPT ![h.invoice] = {"PENDING"}]
        /\ \E x \in FreeTxn : proc' = [proc EXCEPT ![p].step = "record", ![p].txn = x]
     \/ Done(p) /\ UNCHANGED outside
  /\ UNCHANGED <<locked, balance, invoice, txn, books, awarding, crediting, history>>

\* Wompi takes a reference once.  It may have created the payment although the call, or
\* the polling after it, failed.
SendTransaction(p) ==
  LET h == proc[p] IN
  /\ h.step = "send"
  /\ \/ /\ wompi[h.invoice] = "NONE"
        /\ wompi' = [wompi EXCEPT ![h.invoice] = "PENDING"]
        /\ unseen' = [unseen EXCEPT ![h.invoice] = {"PENDING"}]
        /\ \/ Goto(p, "unlock")
           \/ \E x \in FreeTxn : proc' = [proc EXCEPT ![p].step = "record", ![p].txn = x]
     \/ Goto(p, "unlock") /\ UNCHANGED outside
  /\ UNCHANGED <<locked, balance, invoice, txn, books, awarding, crediting, history>>

RecordTransaction(p) ==
  LET h == proc[p] IN
  /\ h.step = "record"
  /\ txn' = [txn EXCEPT ![h.txn] = [status |-> "PENDING", reference |-> h.invoice]]
  /\ Goto(p, "unlock")
  /\ UNCHANGED <<locked, balance, invoice, outside, books, awarding, crediting, history>>

UnlockUser(p) ==
  /\ proc[p].step = "unlock"
  /\ locked' = locked \ {proc[p].user}
  /\ Done(p)
  /\ UNCHANGED <<balance, invoice, txn, outside, books, awarding, crediting, history>>

----------------------------------------------------------------------------
\* Wompi decides on a payment, and may void an approved one.  Each change of status is
\* an event, delivered at least once, in any order.

WompiUpdates(i, s) ==
  /\ \/ wompi[i] = "PENDING" /\ s \in {"APPROVED", "DECLINED"}
     \/ wompi[i] = "APPROVED" /\ s = "VOIDED"
  /\ wompi' = [wompi EXCEPT ![i] = s]
  /\ unseen' = [unseen EXCEPT ![i] = @ \cup {s}]
  /\ UNCHANGED <<locked, balance, invoice, txn, books, awarding, crediting, proc, history>>

\* The events a payment in status s has caused so far.
Sent(s) ==
  CASE s = "NONE" -> {}
    [] s = "VOIDED" -> {"PENDING", "APPROVED", "VOIDED"}
    [] OTHER -> {"PENDING", s}

\* The row of reference i has moved past status s: the event is stale.
Stale(i, s) ==
  \E x \in RowsOf(i) :
    \/ s = "PENDING" /\ txn[x].status # "PENDING"
    \/ s = "APPROVED" /\ txn[x].status = "VOIDED"

HandleTransactionUpdated(p, i, s) ==
  LET u == invoice[i].user IN
  /\ proc[p].step = "idle"
  /\ s \in Sent(wompi[i])
  /\ unseen' = [unseen EXCEPT ![i] = @ \ {s}]
  /\ proc' = [proc EXCEPT ![p] = [Idle EXCEPT !.step = "find", !.user = u, !.invoice = i,
                !.status = s, !.cart = invoice[i].cart]]
  /\ disturbed' = disturbed \cup (IF Writes(i) # {} \/ Stale(i, s) THEN {i} ELSE {})
                            \cup (IF Settles(u) # {} THEN {u} ELSE {})
  /\ UNCHANGED <<locked, balance, invoice, txn, wompi, books, awarding, crediting, faults>>

\* Variant: a repeated webhook is not detected.
FindTransactionAgain(p) ==
  LET h == proc[p] IN
  /\ h.step = "find"
  /\ \/ /\ RowsOf(h.invoice) = {}
        /\ \E x \in FreeTxn : proc' = [proc EXCEPT ![p].step = "create", ![p].txn = x]
     \/ \E x \in RowsOf(h.invoice) : proc' = [proc EXCEPT ![p].step = "mark", ![p].txn = x]
  /\ UNCHANGED <<locked, balance, invoice, txn, outside, books, awarding, crediting, history>>

\* Variant: a webhook that comes before the Transactions row is dropped.
FindTransactionOrDrop(p) ==
  LET h == proc[p] IN
  /\ h.step = "find"
  /\ \/ RowsOf(h.invoice) = {} /\ Done(p)
     \/ \E x \in RowsOf(h.invoice) :
          IF txn[x].status = "APPROVED" /\ h.status = "APPROVED"
          THEN Done(p)
          ELSE proc' = [proc EXCEPT ![p].step = "mark", ![p].txn = x]
  /\ UNCHANGED <<locked, balance, invoice, txn, outside, books, awarding, crediting, history>>

\* findFirst by reference, in no order; reference is not unique.
FindTransaction(p) ==
  LET h == proc[p] IN
  /\ h.step = "find"
  /\ \/ /\ RowsOf(h.invoice) = {}
        /\ \E x \in FreeTxn : proc' = [proc EXCEPT ![p].step = "create", ![p].txn = x]
     \/ \E x \in RowsOf(h.invoice) :
          IF txn[x].status = "APPROVED" /\ h.status = "APPROVED"
          THEN Done(p)
          ELSE proc' = [proc EXCEPT ![p].step = "mark", ![p].txn = x]
  /\ UNCHANGED <<locked, balance, invoice, txn, outside, books, awarding, crediting, history>>

\* What follows the write of the transaction.
Act(p) ==
  CASE proc[p].status = "APPROVED" -> Goto(p, "paid")
    [] proc[p].status = "DECLINED" -> Goto(p, "reject")
    [] proc[p].status = "VOIDED" -> Goto(p, "void")
    [] OTHER -> Done(p)

WriteTransaction(p) ==
  LET h == proc[p] IN
  /\ h.step \in {"create", "mark"}
  /\ txn' = [txn EXCEPT ![h.txn] = [status |-> h.status, reference |-> h.invoice]]
  /\ Act(p)
  /\ UNCHANGED <<locked, balance, invoice, outside, books, awarding, crediting, history>>

RejectInvoice(p) ==
  /\ proc[p].step = "reject"
  /\ invoice' = [invoice EXCEPT ![proc[p].invoice].status = "REJECTED"]
  /\ Done(p)
  /\ UNCHANGED <<locked, balance, txn, outside, books, awarding, crediting, history>>

VoidInvoice(p) ==
  /\ proc[p].step = "void"
  /\ invoice' = [invoice EXCEPT ![proc[p].invoice].status = "CANCELED"]
  /\ Done(p)
  /\ UNCHANGED <<locked, balance, txn, outside, books, awarding, crediting, history>>

----------------------------------------------------------------------------
\* The settlement of an approved payment.

UpdateInvoiceStatus(p) ==
  /\ proc[p].step = "paid"
  /\ invoice' = [invoice EXCEPT ![proc[p].invoice].status = "PAID"]
  /\ Goto(p, "tickets")
  /\ UNCHANGED <<locked, balance, txn, outside, books, awarding, crediting, history>>

CreateTickets(p) ==
  LET i == proc[p].invoice IN
  /\ proc[p].step = "tickets"
  /\ books' = [books EXCEPT ![i].tickets = IF invoice[i].items THEN @ + 1 ELSE @]
  /\ Goto(p, "sold")
  /\ UNCHANGED <<locked, balance, invoice, txn, outside, awarding, crediting, history>>

\* The award of points is started and not awaited.
IncrementSold(p) ==
  LET h == proc[p] IN
  /\ h.step = "sold"
  /\ books' = [books EXCEPT ![h.invoice].sold = @ + 1]
  /\ IF h.cart.points > 0
     THEN Goto(p, "redeem") /\ UNCHANGED awarding
     ELSE Goto(p, "promoter") /\ awarding' = [awarding EXCEPT ![h.invoice] = @ + 1]
  /\ UNCHANGED <<locked, balance, invoice, txn, outside, crediting, history>>

\* Variant: the balance is not compared with the points.
RedeemPointsUnchecked(p) ==
  /\ proc[p].step = "redeem"
  /\ Goto(p, "ledger")
  /\ UNCHANGED <<locked, balance, invoice, txn, outside, books, awarding, crediting, history>>

\* The balance is read; one too small ends the settlement.
RedeemPoints(p) ==
  LET h == proc[p] IN
  /\ h.step = "redeem"
  /\ Goto(p, IF balance[h.user] < h.cart.points THEN "error" ELSE "ledger")
  /\ UNCHANGED <<locked, balance, invoice, txn, outside, books, awarding, crediting, history>>

InsertRedeemed(p) ==
  /\ proc[p].step = "ledger"
  /\ books' = [books EXCEPT ![proc[p].invoice].redeemed = @ + 1]
  /\ Goto(p, "debit")
  /\ UNCHANGED <<locked, balance, invoice, txn, outside, awarding, crediting, history>>

\* Variant: the row is skipped when the balance would become negative.
DebitPointsIfEnough(p) ==
  LET h == proc[p] IN
  /\ h.step = "debit"
  /\ balance' = [balance EXCEPT ![h.user] = IF @ >= h.cart.points THEN @ - h.cart.points ELSE 0]
  /\ awarding' = [awarding EXCEPT ![h.invoice] = @ + 1]
  /\ Goto(p, "promoter")
  /\ UNCHANGED <<locked, invoice, txn, outside, books, crediting, history>>

DebitPoints(p) ==
  LET h == proc[p] IN
  /\ h.step = "debit"
  /\ balance' = [balance EXCEPT ![h.user] = @ - h.cart.points]
  /\ awarding' = [awarding EXCEPT ![h.invoice] = @ + 1]
  /\ Goto(p, "promoter")
  /\ UNCHANGED <<locked, invoice, txn, outside, books, crediting, history>>

\* An award goes on beside the handler that started it: the ledger row, then the balance.
InsertEarned(i) ==
  /\ awarding[i] > 0
  /\ awarding' = [awarding EXCEPT ![i] = @ - 1]
  /\ crediting' = [crediting EXCEPT ![i] = @ + 1]
  /\ books' = [books EXCEPT ![i].earned = @ + 1]
  /\ UNCHANGED <<locked, balance, invoice, txn, outside, proc, history>>

CreditPoints(i) ==
  /\ crediting[i] > 0
  /\ crediting' = [crediting EXCEPT ![i] = @ - 1]
  /\ balance' = [balance EXCEPT ![invoice[i].user] = @ + Earned]
  /\ UNCHANGED <<locked, invoice, txn, outside, books, awarding, proc, history>>

InsertCommission(p) ==
  LET h == proc[p] IN
  /\ h.step = "promoter"
  /\ IF h.cart.code
     THEN /\ books' = [books EXCEPT ![h.invoice].commission = @ + 1]
          /\ Goto(p, "uses")
     ELSE Done(p) /\ UNCHANGED books
  /\ UNCHANGED <<locked, balance, invoice, txn, outside, awarding, crediting, history>>

IncrementUses(p) ==
  /\ proc[p].step = "uses"
  /\ books' = [books EXCEPT ![proc[p].invoice].uses = @ + 1]
  /\ Done(p)
  /\ UNCHANGED <<locked, balance, invoice, txn, outside, awarding, crediting, history>>

\* The error is noted on the transaction, whose status is written again as it was.
NoteError(p) ==
  /\ proc[p].step = "error"
  /\ txn' = [txn EXCEPT ![proc[p].txn].status = proc[p].status]
  /\ Done(p)
  /\ UNCHANGED <<locked, balance, invoice, outside, books, awarding, crediting, history>>

----------------------------------------------------------------------------
\* A restart or a database error.  What fails inside a try block goes on in its catch:
\* the payment unlocks the user, the settlement notes the error.  An award that is lost
\* is only logged.
Fail(p) ==
  LET h == proc[p] IN
  /\ h.step # "idle"
  /\ faults < MaxFaults
  /\ faults' = faults + 1
  /\ disturbed' = disturbed \cup ({h.invoice, h.user} \ {NoInvoice})
  /\ \/ Done(p)
     \/ h.step \in {"send", "record"} /\ Goto(p, "unlock")
     \/ h.step \in {"paid", "tickets", "sold", "redeem", "ledger", "debit"} /\ Goto(p, "error")
  /\ UNCHANGED <<locked, balance, invoice, txn, outside, books, awarding, crediting, requests>>

LoseAward(i) ==
  /\ faults < MaxFaults
  /\ faults' = faults + 1
  /\ disturbed' = disturbed \cup {i}
  /\ \/ /\ awarding[i] > 0
        /\ awarding' = [awarding EXCEPT ![i] = @ - 1]
        /\ UNCHANGED crediting
     \/ /\ crediting[i] > 0
        /\ crediting' = [crediting EXCEPT ![i] = @ - 1]
        /\ UNCHANGED awarding
  /\ UNCHANGED <<locked, balance, invoice, txn, outside, books, proc, requests>>

----------------------------------------------------------------------------
Begin(p) ==
  \/ \E u \in User, cart \in Cart : CreateInvoice(p, u, cart)
  \/ \E i \in Invoice : CancelInvoice(p, i)
  \/ \E i \in Invoice, u \in User : ProcessTransaction(p, u, i)
  \/ \E i \in Invoice, s \in WompiStatus : s \notin unseen[i] /\ HandleTransactionUpdated(p, i, s)

Continue(p) ==
  \/ InsertInvoice(p) \/ InsertItems(p) \/ WriteCanceled(p)
  \/ LockUser(p) \/ SendTransaction(p) \/ RecordTransaction(p) \/ UnlockUser(p)
  \/ FindTransaction(p) \/ WriteTransaction(p) \/ RejectInvoice(p) \/ VoidInvoice(p)
  \/ UpdateInvoiceStatus(p) \/ CreateTickets(p) \/ IncrementSold(p)
  \/ RedeemPoints(p) \/ InsertRedeemed(p) \/ DebitPoints(p)
  \/ InsertCommission(p) \/ IncrementUses(p) \/ NoteError(p)

\* The first delivery of an event.
Deliver(i, s) ==
  /\ s \in unseen[i]
  /\ \E p \in Request : HandleTransactionUpdated(p, i, s)
  /\ UNCHANGED requests

Next ==
  \/ /\ requests < MaxRequests
     /\ requests' = requests + 1
     /\ \E p \in Request : Begin(p)
  \/ \E p \in Request : Continue(p) \/ Fail(p)
  \/ \E i \in Invoice, s \in WompiStatus : Deliver(i, s) \/ WompiUpdates(i, s)
  \/ \E i \in Invoice : InsertEarned(i) \/ CreditPoints(i) \/ LoseAward(i)

Spec == Init /\ [][Next]_vars

\* A handler in flight goes on, and Wompi delivers every event at least once.
FairSpec ==
  /\ Spec
  /\ \A p \in Request : WF_vars(Continue(p))
  /\ \A i \in Invoice, s \in WompiStatus : WF_vars(Deliver(i, s))

----------------------------------------------------------------------------
TypeOK ==
  /\ locked \subseteq User
  /\ balance \in [User -> Int]
  /\ invoice \in [Invoice -> InvoiceRow]
  /\ txn \in [Txn -> TxnRow]
  /\ wompi \in [Invoice -> WompiStatus \cup {"NONE"}]
  /\ unseen \in [Invoice -> SUBSET WompiStatus]
  /\ books \in [Invoice -> Books]
  /\ awarding \in [Invoice -> Nat]
  /\ crediting \in [Invoice -> Nat]
  /\ proc \in [Request -> Handler]
  /\ disturbed \subseteq Invoice \cup User
  /\ faults \in 0..MaxFaults
  /\ requests \in 0..MaxRequests

Calm == Invoice \ disturbed

\* Webhooks and the payment itself made one Transactions row of reference i at most.
OneRow(i) == \A x, y \in RowsOf(i) : x = y

\* What a payment at Wompi brings about, when its webhooks came one after the other and
\* found one Transactions row: a paid invoice has its tickets, counted once, tickets are
\* of an invoice that is paid or whose payment was voided, a rejected invoice was never
\* charged, and points, commission and uses are written once and only together.
SettledOnce ==
  \A i \in Calm : Writes(i) = {} /\ OneRow(i) =>
    LET b == books[i]
        whole == invoice[i].cart.points > 0 => b.redeemed = 1
        done == IF b.tickets = 1 /\ whole THEN 1 ELSE 0 IN
    /\ b.sold = b.tickets /\ b.tickets <= 1
    /\ invoice[i].status = "PAID" => b.tickets = 1
    /\ b.tickets = 1 => invoice[i].status = "PAID" \/ wompi[i] = "VOIDED"
    /\ invoice[i].status = "REJECTED" => wompi[i] = "DECLINED"
    /\ b.redeemed <= b.tickets /\ b.earned + awarding[i] = done
    /\ b.commission = (IF invoice[i].cart.code THEN done ELSE 0) /\ b.uses = b.commission

\* A user whose settlements did not overlap is never overdrawn, however many invoices
\* were created on the same points.
NotOverdrawn == \A u \in User \ disturbed : balance[u] >= 0

\* What the ledger rows of each invoice bring user u, without the awards that are entered
\* and not credited yet.
Moved(u) ==
  [i \in Invoice |->
     IF invoice[i].user # u THEN 0
     ELSE Earned * (books[i].earned - crediting[i]) - invoice[i].cart.points * books[i].redeemed]

\* What handler p has entered in the ledger for user u and not debited yet.
Due(u) ==
  [p \in Request |->
     IF proc[p].step = "debit" /\ proc[p].user = u THEN proc[p].cart.points ELSE 0]

\* Without faults, and at every moment, the balance is what the ledger says but for the
\* redemptions and awards that are between their two statements: settlements and awards of
\* one user that overlap do not lose a movement or make it twice.
BalanceMatchesLedger ==
  faults = 0 =>
    \A u \in User : balance[u] = Opening + SumFunction(Moved(u)) + SumFunction(Due(u))

\* Without faults an approved payment ends in tickets, unless Wompi voids it.
ApprovedIsSettled ==
  \A i \in Invoice :
    wompi[i] = "APPROVED" ~> books[i].tickets > 0 \/ wompi[i] = "VOIDED" \/ faults > 0

\* Without faults a user locked by a payment is unlocked again, whatever Wompi answers.
LockIsReleased == \A u \in User : u \in locked ~> u \notin locked \/ faults > 0

\* The comment of the lock: the user is locked while a payment is processed, against
\* double spending.  So one user has one payment in process.  The code does not keep this,
\* nor the two that follow (README, section 7).
OnePaymentAtATime ==
  \A p, q \in Request :
    {proc[p].step, proc[q].step} \subseteq Paying \ {"lock"} /\ proc[p].user = proc[q].user
      => p = q

\* The comment of the redemption: it must be complete before the purchase is confirmed.
\* So an invoice whose settlement has ended as PAID has its points redeemed.
PointsBeforeConfirm ==
  \A i \in Calm :
    invoice[i].status = "PAID" /\ invoice[i].cart.points > 0 /\ Writes(i) = {} =>
      books[i].redeemed > 0

\* The test instructions for webhooks: an APPROVED event sent again is detected and does
\* not duplicate the tickets.
ResentIsIgnored == \A i \in Calm : books[i].tickets <= 1

=============================================================================
