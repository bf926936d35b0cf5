---------------------------- MODULE TicketResale ----------------------------
(***************************************************************************)
(* Resale of tickets between customers: fixed-price listings and auctions, *)
(* the purchase invoice, the paid webhook that hands the ticket over and   *)
(* the job that resolves listings past their date.  As in TicketTransfer,  *)
(* a handler is a process that reads and writes one database call at a     *)
(* time, and nothing it read is locked.  The one constraint the database   *)
(* itself enforces is the unique index on ticket_id: a Ticket row is       *)
(* listed at most once, so a listing is known by its row.                  *)
(***************************************************************************)
EXTENDS Naturals, FiniteSets

CONSTANTS
  User,       \* customers
  Ticket,     \* ids of Ticket rows
  Sold,       \* the rows that were bought; the others do not exist yet
  Offer,      \* ids of TicketSaleOffer rows
  Invoice,    \* ids of resale Invoice rows (RSL-)
  Amount,     \* the amounts one may bid, the minimum price and above
  Request,    \* slots for HTTP requests and webhooks in flight
  Cron,       \* the slot of the sale-expiry job
  NoUser, NoTicket, NoOffer, NoInvoice,
  Overrides,  \* the statuses PAYPAC sets by hand (any, in the code)
  MaxFaults,  \* bound on failed handlers and overrides
  MaxRequests \* bound on the requests and webhooks that pass their first check

ASSUME SoldAssumption == Sold \subseteq Ticket
ASSUME AmountAssumption == Amount \subseteq Nat \ {0}
ASSUME NoneAssumption ==
  /\ NoUser \notin User /\ NoTicket \notin Ticket
  /\ NoOffer \notin Offer /\ NoInvoice \notin Invoice
ASSUME BoundsAssumption == MaxFaults \in Nat /\ MaxRequests \in Nat

VARIABLES
  ticket,     \* the Ticket table
  listing,    \* the TicketSaleListing table, by ticket_id
  offer,      \* the TicketSaleOffer table
  invoice,    \* the resale invoices, each with its payment at Wompi
  proc,       \* what every handler in flight has read and where it is
  disturbed,  \* history: rows on which two handlers overlapped, or one failed
  faults,     \* history: number of faults so far
  requests    \* history: number of requests so far

vars == <<ticket, listing, offer, invoice, proc, disturbed, faults, requests>>
tables == <<ticket, listing, offer, invoice>>

Process == Request \cup {Cron}

ASSUME OverridesAssumption ==
  Overrides \subseteq {"PENDING", "PAID", "ACTIVE", "USED", "FROZEN", "TRANSFERRED", "CANCELED",
                       "EXPIRED", "ON_SALE"}

----------------------------------------------------------------------------
\* The tables.  "NONE" is the status of a row that has not been inserted.

TicketStatus == {"NONE", "PENDING", "PAID", "ACTIVE", "USED", "FROZEN", "TRANSFERRED",
                 "CANCELED", "EXPIRED", "ON_SALE"}

\* from is the sender in the PENDING TicketTransaction of the row, if it has one.  copyOf
\* and issuedTo are history: the row this one was issued to replace, and for whom.
TicketRow == [status: TicketStatus, owner: User \cup {NoUser}, unused: BOOLEAN,
              from: User \cup {NoUser}, copyOf: Ticket \cup {NoTicket},
              issuedTo: User \cup {NoUser}]

NoRow == [status |-> "NONE", owner |-> NoUser, unused |-> TRUE, from |-> NoUser,
          copyOf |-> NoTicket, issuedTo |-> NoUser]

\* A row that was just issued.
Issued(u, original) == [status |-> "ACTIVE", owner |-> u, unused |-> TRUE, from |-> NoUser,
                        copyOf |-> original, issuedTo |-> u]

\* due: expires_at has passed.
ListingRow == [status: {"NONE", "ACTIVE", "SOLD", "CANCELLED", "EXPIRED"},
               type: {"FIXED", "AUCTION"}, seller: User \cup {NoUser},
               buyer: User \cup {NoUser}, due: BOOLEAN]

NoListing == [status |-> "NONE", type |-> "FIXED", seller |-> NoUser, buyer |-> NoUser,
              due |-> FALSE]

\* late: the payment window that opened at notified_to_pay_at has closed.
OfferRow == [status: {"NONE", "PENDING", "ACCEPTED", "REJECTED", "EXPIRED"},
             row: Ticket \cup {NoTicket}, buyer: User \cup {NoUser}, amount: Amount \cup {0},
             late: BOOLEAN]

NoBid == [status |-> "NONE", row |-> NoTicket, buyer |-> NoUser, amount |-> 0,
          late |-> FALSE]

\* approved: the Transactions row of this reference is APPROVED.
InvoiceRow == [status: {"NONE", "ISSUED", "PAID"}, row: Ticket \cup {NoTicket},
               buyer: User \cup {NoUser}, approved: BOOLEAN]

NoBill == [status |-> "NONE", row |-> NoTicket, buyer |-> NoUser, approved |-> FALSE]

Step == {"idle", "list", "restore", "withdraw", "mine", "bid", "offer", "previous",
         "lapse", "accept", "reject", "listing", "winner", "best", "expire", "deadline",
         "late", "existing", "issue", "approve", "paid", "confirm", "sell"}

\* step is the next database call of the handler; id is the key its INSERT will get;
\* todo is what the job has still to go through.
Handler == [step: Step, row: Ticket \cup {NoTicket}, offer: Offer \cup {NoOffer},
            previous: Offer \cup {NoOffer}, invoice: Invoice \cup {NoInvoice},
            copy: Ticket \cup {NoTicket}, by: User \cup {NoUser},
            amount: Amount \cup {0}, type: {"FIXED", "AUCTION"}, todo: SUBSET Ticket]

Idle == [step |-> "idle", row |-> NoTicket, offer |-> NoOffer, previous |-> NoOffer,
         invoice |-> NoInvoice, copy |-> NoTicket, by |-> NoUser, amount |-> 0,
         type |-> "FIXED", todo |-> {}]

\* The rows handler p works on.
Touches(p) == (proc[p].todo \cup {proc[p].row}) \ {NoTicket}

Busy(t) == \E p \in Process : t \in Touches(p)

FreeTicket  == {t \in Ticket : ticket[t].status = "NONE" /\ \A p \in Process : proc[p].copy # t}
FreeOffer   == {o \in Offer : offer[o].status = "NONE" /\ \A p \in Process : proc[p].offer # o}
FreeInvoice == {i \in Invoice : invoice[i].status = "NONE" /\ \A p \in Process : proc[p].invoice # i}

Bids(t, s) == {o \in Offer : offer[o].row = t /\ offer[o].status = s}
Outbids(a, t) == \A o \in Bids(t, "PENDING") : offer[o].amount < a
CopiesOf(t) == {c \in Ticket : ticket[c].copyOf = t}

----------------------------------------------------------------------------
Init ==
  /\ ticket \in [Ticket -> {NoRow} \cup {Issued(u, NoTicket) : u \in User}]
  /\ \A t \in Ticket : ticket[t] = NoRow <=> t \notin Sold
  /\ listing = [t \in Ticket |-> NoListing]
  /\ offer = [o \in Offer |-> NoBid]
  /\ invoice = [i \in Invoice |-> NoBill]
  /\ proc = [p \in Process |-> Idle]
  /\ disturbed = {}
  /\ faults = 0
  /\ requests = 0

\* Process p passed its first check and goes on.  Its rows are disturbed when another
\* handler is working on them.
Start(p, h, rows) ==
  /\ proc[p].step = "idle"
  /\ proc' = [proc EXCEPT ![p] = h]
  /\ disturbed' = disturbed \cup {t \in rows : Busy(t)}
  /\ UNCHANGED <<tables, faults>>

Goto(p, s) == proc' = [proc EXCEPT ![p].step = s]

\* The handler of row t answers, or throws; the job goes on with the rest of its list.
DoneWith(p, t) ==
  LET rest == proc[p].todo \ {t} IN
  proc' = [proc EXCEPT ![p] = IF rest = {} THEN Idle
                              ELSE [Idle EXCEPT !.step = "listing", !.todo = rest]]

Done(p) == DoneWith(p, proc[p].row)

\* A step that only reads.
Reads == UNCHANGED <<tables, disturbed, faults, requests>>

----------------------------------------------------------------------------
\* POST /tickets/:id/sell.  Ticket and listing are written in one database transaction,
\* which the unique index on ticket_id makes fail when the row was ever listed.

CreateListing(p, t, u, type) ==
  /\ ticket[t].owner = u
  /\ ticket[t].status \in {"PAID", "ACTIVE"}
  /\ ticket[t].unused
  /\ listing[t].status # "ACTIVE"
  /\ Start(p, [Idle EXCEPT !.step = "list", !.row = t, !.by = u, !.type = type], {t})

CommitListing(p) ==
  LET h == proc[p] IN
  /\ h.step = "list"
  /\ IF listing[h.row].status = "NONE"
     THEN /\ ticket' = [ticket EXCEPT ![h.row].status = "ON_SALE"]
          /\ listing' = [listing EXCEPT ![h.row] = [NoListing EXCEPT
                           !.status = "ACTIVE", !.type = h.type, !.seller = h.by]]
     ELSE UNCHANGED <<ticket, listing>>
  /\ Done(p)
  /\ UNCHANGED <<offer, invoice, disturbed, faults, requests>>

\* The seller withdraws the listing: the ticket first, then the listing.
CancelListing(p, t, u) ==
  /\ listing[t].status = "ACTIVE"
  /\ listing[t].seller = u
  /\ Start(p, [Idle EXCEPT !.step = "restore", !.row = t], {t})

\* Variant: the listing is left as it is.
RestoreTicketOnly(p) ==
  /\ proc[p].step = "restore"
  /\ ticket' = [ticket EXCEPT ![proc[p].row].status = "ACTIVE"]
  /\ Done(p)
  /\ UNCHANGED <<listing, offer, invoice, disturbed, faults, requests>>

RestoreTicket(p) ==
  /\ proc[p].step = "restore"
  /\ ticket' = [ticket EXCEPT ![proc[p].row].status = "ACTIVE"]
  /\ Goto(p, "withdraw")
  /\ UNCHANGED <<listing, offer, invoice, disturbed, faults, requests>>

WithdrawListing(p) ==
  /\ proc[p].step = "withdraw"
  /\ listing' = [listing EXCEPT ![proc[p].row].status = "CANCELLED"]
  /\ Done(p)
  /\ UNCHANGED <<ticket, offer, invoice, disturbed, faults, requests>>

----------------------------------------------------------------------------
\* A bid must beat every pending one.  A buyer's own pending offer is raised.

\* Variant: a bid may equal the best one.
PlaceOfferEqual(p, t, u, a) ==
  /\ listing[t].status = "ACTIVE"
  /\ listing[t].type = "AUCTION"
  /\ listing[t].seller # u
  /\ ~listing[t].due
  /\ \A o \in Bids(t, "PENDING") : offer[o].amount <= a
  /\ Start(p, [Idle EXCEPT !.step = "mine", !.row = t, !.by = u, !.amount = a], {t})

PlaceOffer(p, t, u, a) ==
  /\ listing[t].status = "ACTIVE"
  /\ listing[t].type = "AUCTION"
  /\ listing[t].seller # u
  /\ ~listing[t].due
  /\ Outbids(a, t)
  /\ Start(p, [Idle EXCEPT !.step = "mine", !.row = t, !.by = u, !.amount = a], {t})

FindMyOffer(p) ==
  LET h == proc[p]
      mine == {o \in Bids(h.row, "PENDING") : offer[o].buyer = h.by} IN
  /\ h.step = "mine"
  /\ \E o \in IF mine # {} THEN mine ELSE FreeOffer :
       proc' = [proc EXCEPT ![p].step = "bid", ![p].offer = o]
  /\ Reads

WriteOffer(p) ==
  LET h == proc[p] IN
  /\ h.step = "bid"
  /\ offer' = [offer EXCEPT ![h.offer] =
                 IF @.status # "NONE" THEN [@ EXCEPT !.amount = h.amount]
                 ELSE [NoBid EXCEPT !.status = "PENDING", !.row = h.row, !.buyer = h.by,
                                    !.amount = h.amount]]
  /\ Done(p)
  /\ UNCHANGED <<ticket, listing, invoice, disturbed, faults, requests>>

----------------------------------------------------------------------------
\* The seller accepts an offer, or the job accepts the best one: an earlier winner who
\* let his window pass is expired, one who may still pay is an error.

AcceptOffer(p, t, o, u) ==
  /\ listing[t].status = "ACTIVE"
  /\ listing[t].seller = u
  /\ Start(p, [Idle EXCEPT !.step = "offer", !.row = t, !.offer = o], {t})

ReadOffer(p) ==
  LET o == proc[p].offer IN
  /\ proc[p].step = "offer"
  /\ IF offer[o].row = proc[p].row /\ offer[o].status = "PENDING"
     THEN Goto(p, "previous") ELSE Done(p)
  /\ Reads

\* Variant: an earlier winner is not looked for.
ReadPreviousNot(p) ==
  /\ proc[p].step = "previous"
  /\ Goto(p, "accept")
  /\ Reads

ReadPrevious(p) ==
  LET h == proc[p]
      winners == Bids(h.row, "ACCEPTED") \ {h.offer} IN
  /\ h.step = "previous"
  /\ \/ winners = {} /\ Goto(p, "accept")
     \/ \E w \in winners :
          IF offer[w].late
          THEN proc' = [proc EXCEPT ![p].step = "lapse", ![p].previous = w]
          ELSE Done(p)
  /\ Reads

ExpirePrevious(p) ==
  /\ proc[p].step = "lapse"
  /\ offer' = [offer EXCEPT ![proc[p].previous].status = "EXPIRED"]
  /\ Goto(p, "accept")
  /\ UNCHANGED <<ticket, listing, invoice, disturbed, faults, requests>>

AcceptWinner(p) ==
  /\ proc[p].step = "accept"
  /\ offer' = [offer EXCEPT ![proc[p].offer].status = "ACCEPTED",
                            ![proc[p].offer].late = FALSE]
  /\ Goto(p, "reject")
  /\ UNCHANGED <<ticket, listing, invoice, disturbed, faults, requests>>

RejectOthers(p) ==
  LET h == proc[p] IN
  /\ h.step = "reject"
  /\ offer' = [o \in Offer |->
                 IF o \in Bids(h.row, "PENDING") \ {h.offer}
                 THEN [offer[o] EXCEPT !.status = "REJECTED"] ELSE offer[o]]
  /\ Done(p)
  /\ UNCHANGED <<ticket, listing, invoice, disturbed, faults, requests>>

----------------------------------------------------------------------------
\* The job: one findMany of the ACTIVE listings past their date, then each in turn is
\* read again; a listing with a winner is left alone, else the best offer wins.

ExpireSales ==
  LET overdue == {t \in Ticket : listing[t].status = "ACTIVE" /\ listing[t].due} IN
  /\ overdue # {}
  /\ Start(Cron, [Idle EXCEPT !.step = "listing", !.todo = overdue], overdue)
  /\ UNCHANGED requests

ReadListing(p) ==
  /\ proc[p].step = "listing"
  /\ \E t \in proc[p].todo :
       IF listing[t].status = "ACTIVE"
       THEN proc' = [proc EXCEPT ![p].row = t, ![p].step = "winner"]
       ELSE DoneWith(p, t)
  /\ Reads

ReadWinner(p) ==
  /\ proc[p].step = "winner"
  /\ IF Bids(proc[p].row, "ACCEPTED") # {} THEN Done(p) ELSE Goto(p, "best")
  /\ Reads

\* Variant: the first pending offer found, in no order.
ReadAnyBid(p) ==
  LET pending == Bids(proc[p].row, "PENDING") IN
  /\ proc[p].step = "best"
  /\ \/ pending = {} /\ Goto(p, "expire")
     \/ \E o \in pending : proc' = [proc EXCEPT ![p].step = "previous", ![p].offer = o]
  /\ Reads

\* Variant: a listing without offers is passed over.
ReadBestOrSkip(p) ==
  LET pending == Bids(proc[p].row, "PENDING") IN
  /\ proc[p].step = "best"
  /\ \/ pending = {} /\ Done(p)
     \/ \E best \in pending :
          /\ \A o \in pending : offer[o].amount <= offer[best].amount
          /\ proc' = [proc EXCEPT ![p].step = "previous", ![p].offer = best]
  /\ Reads

ReadBest(p) ==
  LET pending == Bids(proc[p].row, "PENDING") IN
  /\ proc[p].step = "best"
  /\ \/ pending = {} /\ Goto(p, "expire")
     \/ \E best \in pending :
          /\ \A o \in pending : offer[o].amount <= offer[best].amount
          /\ proc' = [proc EXCEPT ![p].step = "previous", ![p].offer = best]
  /\ Reads

\* Only the listing is written: the ticket stays ON_SALE.
ExpireListing(p) ==
  /\ proc[p].step = "expire"
  /\ listing' = [listing EXCEPT ![proc[p].row].status = "EXPIRED"]
  /\ Done(p)
  /\ UNCHANGED <<ticket, offer, invoice, disturbed, faults, requests>>

----------------------------------------------------------------------------
\* POST /listings/:id/purchase.  A winner past his window has his offer expired, as
\* GET /resale/won-auctions does.

PurchaseListing(p, t, u) ==
  /\ listing[t].status = "ACTIVE"
  /\ listing[t].seller # u
  /\ listing[t].type = "FIXED" => ~listing[t].due
  /\ Start(p, [Idle EXCEPT !.row = t, !.by = u,
                           !.step = IF listing[t].type = "FIXED" THEN "existing" ELSE "deadline"],
           {t})

CheckDeadline(p) ==
  LET h == proc[p]
      won == {o \in Bids(h.row, "ACCEPTED") : offer[o].buyer = h.by} IN
  /\ h.step = "deadline"
  /\ \/ won = {} /\ Done(p)
     \/ \E o \in won :
          proc' = [proc EXCEPT ![p].step = IF offer[o].late THEN "late" ELSE "existing",
                               ![p].offer = o]
  /\ Reads

\* Also the entry point of getMyWonAuctions for one offer of its list.
WonAuctions(p, o) ==
  /\ offer[o].status = "ACCEPTED"
  /\ offer[o].late
  /\ Start(p, [Idle EXCEPT !.step = "late", !.row = offer[o].row, !.offer = o],
           {offer[o].row})

ExpireWon(p) ==
  /\ proc[p].step = "late"
  /\ offer' = [offer EXCEPT ![proc[p].offer].status = "EXPIRED"]
  /\ Done(p)
  /\ UNCHANGED <<ticket, listing, invoice, disturbed, faults, requests>>

\* An unpaid invoice of this buyer for this listing is handed out again.
FindInvoice(p) ==
  LET h == proc[p] IN
  /\ h.step = "existing"
  /\ IF \E i \in Invoice : invoice[i].status = "ISSUED" /\ invoice[i].row = h.row
                                                     /\ invoice[i].buyer = h.by
     THEN Done(p)
     ELSE \E i \in FreeInvoice : proc' = [proc EXCEPT ![p].step = "issue", ![p].invoice = i]
  /\ Reads

IssueInvoice(p) ==
  LET h == proc[p] IN
  /\ h.step = "issue"
  /\ invoice' = [invoice EXCEPT ![h.invoice] =
                   [NoBill EXCEPT !.status = "ISSUED", !.row = h.row, !.buyer = h.by]]
  /\ Done(p)
  /\ UNCHANGED <<ticket, listing, offer, disturbed, faults, requests>>

----------------------------------------------------------------------------
\* Wompi approves the payment of an invoice, once or several times, and at any time
\* after it was issued; the webhook is dropped when the transaction is APPROVED already.

PaymentApproved(p, i) ==
  /\ invoice[i].status = "ISSUED"
  /\ ~invoice[i].approved
  /\ Start(p, [Idle EXCEPT !.step = "approve", !.row = invoice[i].row, !.invoice = i,
                           !.by = invoice[i].buyer], {invoice[i].row})

ApproveTransaction(p) ==
  /\ proc[p].step = "approve"
  /\ invoice' = [invoice EXCEPT ![proc[p].invoice].approved = TRUE]
  /\ Goto(p, "paid")
  /\ UNCHANGED <<ticket, listing, offer, disturbed, faults, requests>>

PayInvoice(p) ==
  /\ proc[p].step = "paid"
  /\ invoice' = [invoice EXCEPT ![proc[p].invoice].status = "PAID"]
  /\ Goto(p, "confirm")
  /\ UNCHANGED <<ticket, listing, offer, disturbed, faults, requests>>

\* confirmSalePayment reads the listing: SOLD is taken for a repeated webhook, any other
\* status but ACTIVE is an error that the webhook swallows.
ConfirmSale(p) ==
  /\ proc[p].step = "confirm"
  /\ IF listing[proc[p].row].status = "ACTIVE"
     THEN \E c \in FreeTicket : proc' = [proc EXCEPT ![p].step = "sell", ![p].copy = c]
     ELSE Done(p)
  /\ Reads

\* Variant: the listing is not marked SOLD.
CommitSaleStaysActive(p) ==
  LET h == proc[p] IN
  /\ h.step = "sell"
  /\ ticket' = [ticket EXCEPT
                  ![h.row].status = "TRANSFERRED",
                  ![h.copy] = Issued(h.by, h.row)]
  /\ listing' = [listing EXCEPT ![h.row].buyer = h.by]
  /\ Done(p)
  /\ UNCHANGED <<offer, invoice, disturbed, faults, requests>>

CommitSale(p) ==
  LET h == proc[p] IN
  /\ h.step = "sell"
  /\ ticket' = [ticket EXCEPT
                  ![h.row].status = "TRANSFERRED",
                  ![h.copy] = Issued(h.by, h.row)]
  /\ listing' = [listing EXCEPT ![h.row].status = "SOLD", ![h.row].buyer = h.by]
  /\ Done(p)
  /\ UNCHANGED <<offer, invoice, disturbed, faults, requests>>

----------------------------------------------------------------------------
\* The rest of the system (TicketTransfer has the steps of the first three).  Between two
\* handlers of the resale a transfer is offered (FROZEN) or made at once (TRANSFERRED, in
\* the hands of v, and PENDING when it is a sale), it is accepted, which looks at the
\* transfer only, or given back; the door admits; DELETE /tickets/:id cancels the row.

SendTransfer(t, row) ==
  /\ row.status \in {"PAID", "ACTIVE"} /\ row.unused
  /\ ticket' = [ticket EXCEPT ![t].status = "FROZEN", ![t].from = row.owner]

TransferTicket(t, row, v) ==
  /\ row.status \in {"PAID", "ACTIVE"} /\ row.unused
  /\ \E from \in {NoUser, row.owner} :
       ticket' = [ticket EXCEPT ![t].status = "TRANSFERRED", ![t].owner = v, ![t].from = from]

SettleTransfer(t, row) ==
  /\ row.from # NoUser
  /\ \/ ticket' = [ticket EXCEPT ![t].status = "TRANSFERRED", ![t].from = NoUser]
     \/ ticket' = [ticket EXCEPT ![t].status = "ACTIVE", ![t].owner = row.from,
                                 ![t].from = NoUser]

ScanOrCancel(t, row) ==
  /\ row.unused
  /\ \/ /\ row.status \in {"PAID", "ACTIVE", "TRANSFERRED"}
        /\ ticket' = [ticket EXCEPT ![t].status = "USED", ![t].unused = FALSE]
     \/ ticket' = [ticket EXCEPT ![t].status = "CANCELED"]

Elsewhere(t) ==
  /\ ticket[t].status # "NONE"
  /\ \/ SendTransfer(t, ticket[t])
     \/ \E v \in User : TransferTicket(t, ticket[t], v)
     \/ SettleTransfer(t, ticket[t])
     \/ ScanOrCancel(t, ticket[t])
  /\ disturbed' = disturbed \cup (IF Busy(t) THEN {t} ELSE {})
  /\ UNCHANGED <<listing, offer, invoice, proc, faults>>

\* PAYPAC's overrides look at nothing, PATCH /tickets/admin/:id/status and POST
\* /tickets/admin/:id/transfer; so does the write of a transfer, a cancellation or a scan
\* that checked the row before it was listed.  They count as faults.

Override(t) ==
  /\ ticket[t].status # "NONE"
  /\ faults < MaxFaults
  /\ faults' = faults + 1
  /\ disturbed' = disturbed \cup {t}
  /\ UNCHANGED <<listing, offer, invoice, proc, requests>>

AdminSetStatus(t, s) ==
  /\ Override(t)
  /\ ticket' = [ticket EXCEPT ![t].status = s]

AdminTransfer(t, v) ==
  /\ Override(t)
  /\ ticket' = [ticket EXCEPT ![t].owner = v, ![t].status = "TRANSFERRED"]

\* Time: a listing passes its date, a payment window closes.
FallDue(t) ==
  /\ listing[t].status = "ACTIVE" /\ ~listing[t].due
  /\ listing' = [listing EXCEPT ![t].due = TRUE]
  /\ UNCHANGED <<ticket, offer, invoice, proc, disturbed, faults, requests>>

WindowCloses(o) ==
  /\ offer[o].status = "ACCEPTED" /\ ~offer[o].late
  /\ offer' = [offer EXCEPT ![o].late = TRUE]
  /\ UNCHANGED <<ticket, listing, invoice, proc, disturbed, faults, requests>>

\* A database error or a restart stops a handler; the job goes on with its other
\* listings.
Fail(p) ==
  /\ proc[p].step # "idle"
  /\ faults < MaxFaults
  /\ faults' = faults + 1
  /\ disturbed' = disturbed \cup Touches(p)
  /\ \/ proc' = [proc EXCEPT ![p] = Idle]
     \/ \E t \in proc[p].todo : proc[p].row \in {t, NoTicket} /\ DoneWith(p, t)
  /\ UNCHANGED <<tables, requests>>

----------------------------------------------------------------------------
Begin(p) ==
  \/ \E t \in Ticket, u \in User, type \in {"FIXED", "AUCTION"} : CreateListing(p, t, u, type)
  \/ \E t \in Ticket, u \in User : CancelListing(p, t, u)
  \/ \E t \in Ticket, u \in User, a \in Amount : PlaceOffer(p, t, u, a)
  \/ \E t \in Ticket, o \in Offer, u \in User : AcceptOffer(p, t, o, u)
  \/ \E t \in Ticket, u \in User : PurchaseListing(p, t, u)
  \/ \E o \in Offer : WonAuctions(p, o)
  \/ \E i \in Invoice : PaymentApproved(p, i)

Continue(p) ==
  \/ CommitListing(p) \/ RestoreTicket(p) \/ WithdrawListing(p)
  \/ FindMyOffer(p) \/ WriteOffer(p)
  \/ ReadOffer(p) \/ ReadPrevious(p) \/ ExpirePrevious(p) \/ AcceptWinner(p) \/ RejectOthers(p)
  \/ ReadListing(p) \/ ReadWinner(p) \/ ReadBest(p) \/ ExpireListing(p)
  \/ CheckDeadline(p) \/ ExpireWon(p) \/ FindInvoice(p) \/ IssueInvoice(p)
  \/ ApproveTransaction(p) \/ PayInvoice(p) \/ ConfirmSale(p) \/ CommitSale(p)

Next ==
  \/ /\ requests < MaxRequests
     /\ requests' = requests + 1
     /\ (\E p \in Request : Begin(p)) \/ (\E t \in Ticket : Elsewhere(t))
  \/ ExpireSales
  \/ \E p \in Process : Continue(p) \/ Fail(p)
  \/ \E t \in Ticket, s \in Overrides : AdminSetStatus(t, s)
  \/ \E t \in Ticket, v \in User : AdminTransfer(t, v)
  \/ \E t \in Ticket : FallDue(t)
  \/ \E o \in Offer : WindowCloses(o)

Spec == Init /\ [][Next]_vars

\* A handler in flight goes on, time passes, and the job runs every ten minutes.
FairSpec ==
  /\ Spec
  /\ \A p \in Process : WF_vars(Continue(p))
  /\ \A t \in Ticket : WF_vars(FallDue(t))
  /\ \A o \in Offer : WF_vars(WindowCloses(o))
  /\ WF_vars(ExpireSales)

----------------------------------------------------------------------------
TypeOK ==
  /\ ticket \in [Ticket -> TicketRow]
  /\ listing \in [Ticket -> ListingRow]
  /\ offer \in [Offer -> OfferRow]
  /\ invoice \in [Invoice -> InvoiceRow]
  /\ proc \in [Process -> Handler]
  /\ disturbed \subseteq Ticket
  /\ faults \in 0..MaxFaults
  /\ requests \in 0..MaxRequests

Calm == Ticket \ disturbed

\* What is offered for sale is there to be handed over: an active listing holds its
\* ticket ON_SALE in the seller's name, unless its owner cancelled the ticket.  Transfers
\* before and after, offered, made, accepted and given back, and withdrawals do not
\* change that; PAYPAC's overrides do, and the row is disturbed by them.
ListingHoldsTicket ==
  \A t \in Calm :
    listing[t].status = "ACTIVE" /\ ~Busy(t) =>
      /\ ticket[t].status \in {"ON_SALE", "CANCELED"}
      /\ ticket[t].owner = listing[t].seller
      /\ CopiesOf(t) = {}

\* A ticket is sold once, to the buyer the listing names: payments of several buyers,
\* late or repeated webhooks and withdrawals leave one replacement of the row, issued to him.
SoldOnce ==
  \A t \in Calm :
    /\ \A c, d \in CopiesOf(t) : c = d
    /\ listing[t].status = "SOLD" <=> CopiesOf(t) # {}
    /\ \A c \in CopiesOf(t) : ticket[c].issuedTo = listing[t].buyer

\* An auction has one winner with a payment window at a time.
OneWinner ==
  \A t \in Calm : \A o, w \in Bids(t, "ACCEPTED") : o = w

\* Bids rise: two pending offers on one listing have two buyers and two amounts.
BidsRise ==
  \A t \in Calm : \A o, w \in Bids(t, "PENDING") :
    o # w => offer[o].buyer # offer[w].buyer /\ offer[o].amount # offer[w].amount

\* When the job writes the winner, the offer is still the highest one pending.
BestBidWins ==
  \A p \in Process :
    proc[p].step = "accept" /\ proc[p].todo # {} /\ proc[p].row \in Calm =>
      /\ proc[p].offer \in Bids(proc[p].row, "PENDING")
      /\ \A o \in Bids(proc[p].row, "PENDING") :
           offer[o].amount <= offer[proc[p].offer].amount

\* With no fault, a listing past its date does not stay active with nobody to pay for
\* it: it is sold, withdrawn or expired, or an offer is accepted.
DueIsResolved ==
  \A t \in Ticket :
    listing[t].status = "ACTIVE" /\ listing[t].due ~>
      listing[t].status # "ACTIVE" \/ Bids(t, "ACCEPTED") # {}

\* The log line of confirmSalePayment: a payment for a listing that is SOLD is a
\* repeated webhook, to be ignored.  So the payment is that of the listing's buyer.  The
\* code does not keep this (README, section 7).
IgnoredIsDuplicate ==
  \A p \in Process :
    proc[p].step = "confirm" /\ proc[p].row \in Calm /\ listing[proc[p].row].status = "SOLD" =>
      proc[p].by = listing[proc[p].row].buyer

=============================================================================
