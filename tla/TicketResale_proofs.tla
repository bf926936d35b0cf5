------------------------- MODULE TicketResale_proofs -------------------------
(***************************************************************************)
(* Proofs about TicketResale: for any number of customers, tickets,        *)
(* offers, invoices, handlers and faults, a listing on which no handlers   *)
(* overlapped is sold once, to the buyer it names, holds its ticket while  *)
(* it is active, and its auction has one winner, the best bid.  Everything *)
(* about a row depends on the row, its copies, its offers and the handler  *)
(* at work on it; a step writes one row, or makes a new one, and frames    *)
(* every other.                                                            *)
(***************************************************************************)
EXTENDS TicketResale, TLAPS

Exists(t) == ticket[t].status # "NONE"

\* What a handler carries at each step.
Shape(h) ==
  /\ h.step \in {"idle", "listing"} => h.row = NoTicket
  /\ h.step = "idle" => h.todo = {}
  /\ h.step \notin {"idle", "listing"} => h.row \in Ticket /\ (h.todo = {} \/ h.row \in h.todo)
  /\ h.step \in {"bid", "offer", "previous", "lapse", "accept", "late"} => h.offer \in Offer
  /\ h.step = "offer" => h.todo = {}
  /\ h.step = "lapse" => h.previous \in Offer \ {h.offer}
  /\ h.step \in {"issue", "approve", "paid"} => h.invoice \in Invoice
  /\ h.step = "sell" => h.copy \in Ticket

HandlersInShape == \A p \in Process : Shape(proc[p])

\* Listings, offers and invoices are of tickets that were issued.
RowsInShape ==
  /\ \A t \in Ticket :
       /\ ~Exists(t) => ticket[t].copyOf = NoTicket /\ listing[t].status = "NONE"
       /\ ticket[t].copyOf \in Ticket => Exists(ticket[t].copyOf)
  /\ \A o \in Offer : IF offer[o].status = "NONE" THEN offer[o].row = NoTicket
                      ELSE offer[o].row \in Ticket /\ Exists(offer[o].row)
  /\ \A i \in Invoice : invoice[i].status # "NONE" =>
                          invoice[i].row \in Ticket /\ Exists(invoice[i].row)

\* The rows a handler holds are there, the offers it writes are of its row, and the keys
\* of its INSERTs are its own.
Holds(h) ==
  /\ \A t \in Ticket : t \in h.todo \/ t = h.row => Exists(t)
  /\ h.step \in {"previous", "lapse", "accept", "late"} => offer[h.offer].row = h.row
  /\ h.step = "lapse" => offer[h.previous].row = h.row
  /\ h.step = "bid" => offer[h.offer].status = "NONE" \/ offer[h.offer].row = h.row
  /\ h.step = "sell" => ~Exists(h.copy)
  /\ h.step \in {"approve", "paid"} => invoice[h.invoice].status # "NONE"

HandlersHold == \A p \in Process : Holds(proc[p])

KeysAreOwn ==
  \A p, q \in Process :
    /\ proc[p].step = "bid" /\ proc[q].step = "bid" /\ proc[p].offer = proc[q].offer
       /\ offer[proc[p].offer].status = "NONE" => p = q
    /\ proc[p].step = "sell" /\ proc[q].step = "sell" /\ proc[p].copy = proc[q].copy => p = q

\* The handlers that hold row t, and those at work on it.
Holding(t) == {p \in Process : t \in proc[p].todo \/ t = proc[p].row}
WorkingOn(t) == {p \in Process : proc[p].row = t}

\* Offer o has the highest amount pending on row t.
Best(o, t) == \A b \in Bids(t, "PENDING") : offer[b].amount <= offer[o].amount

\* What the handler at work on a calm row t still knows of it.
Knows(h, t) ==
  /\ h.step = "list" => ticket[t].owner = h.by /\ ticket[t].from = NoUser
  /\ h.step \in {"restore", "withdraw", "winner", "best", "expire", "sell"} =>
       listing[t].status = "ACTIVE"
  /\ h.step = "mine" => Outbids(h.amount, t)
  /\ h.step = "bid" =>
       /\ \A o \in Bids(t, "PENDING") \ {h.offer} :
            offer[o].amount < h.amount /\ offer[o].buyer # h.by
       /\ offer[h.offer].status # "NONE" =>
            h.offer \in Bids(t, "PENDING") /\ offer[h.offer].buyer = h.by
  /\ h.step \in {"previous", "lapse", "accept"} =>
       h.offer \in Bids(t, "PENDING") /\ (h.todo # {} => Best(h.offer, t))
  /\ h.step = "lapse" => Bids(t, "ACCEPTED") \subseteq {h.previous}
  /\ h.step = "accept" => Bids(t, "ACCEPTED") = {}

\* What the properties say of row t, and that an active listing holds its ticket unless it
\* is being withdrawn.
SoldOK(t) ==
  /\ \A c, d \in CopiesOf(t) : c = d
  /\ listing[t].status = "SOLD" <=> CopiesOf(t) # {}
  /\ \A c \in CopiesOf(t) : ticket[c].issuedTo = listing[t].buyer

\* No transfer is open of a row in a wallet or on sale.
ListedOK(t) ==
  /\ ticket[t].status \in {"PAID", "ACTIVE"} => ticket[t].from = NoUser
  /\ listing[t].status = "ACTIVE" =>
       /\ ticket[t].owner = listing[t].seller
       /\ ticket[t].from = NoUser
       /\ \/ ticket[t].status \in {"ON_SALE", "CANCELED"}
          \/ \E p \in WorkingOn(t) : proc[p].step = "withdraw"

BidsOK(t) ==
  /\ \A o, w \in Bids(t, "ACCEPTED") : o = w
  /\ \A o, w \in Bids(t, "PENDING") :
       o # w => offer[o].buyer # offer[w].buyer /\ offer[o].amount # offer[w].amount

RowOK(t) ==
  t \notin disturbed =>
    /\ \A p, q \in Holding(t) : p = q
    /\ \A p \in WorkingOn(t) : Knows(proc[p], t)
    /\ SoldOK(t) /\ ListedOK(t) /\ BidsOK(t)

IInv ==
  /\ TypeOK
  /\ HandlersInShape
  /\ RowsInShape
  /\ HandlersHold
  /\ KeysAreOwn
  /\ \A t \in Ticket : RowOK(t)

----------------------------------------------------------------------------
LEMMA RowFacts ==
  /\ Idle \in Handler /\ Shape(Idle) /\ Idle.step = "idle"
  /\ Idle.row = NoTicket /\ Idle.todo = {}
  /\ NoRow \in TicketRow /\ NoRow.status = "NONE" /\ NoRow.copyOf = NoTicket
  /\ NoRow.from = NoUser
  /\ NoListing \in ListingRow /\ NoListing.status = "NONE"
  /\ NoBid \in OfferRow /\ NoBid.status = "NONE" /\ NoBid.row = NoTicket
  /\ NoBill \in InvoiceRow /\ NoBill.status = "NONE"
<1>1. /\ Idle \in Handler /\ Idle.step = "idle" /\ Idle.row = NoTicket /\ Idle.todo = {}
  BY DEF Idle, Handler, Step
<1>2. /\ NoRow \in TicketRow /\ NoRow.status = "NONE" /\ NoRow.copyOf = NoTicket
      /\ NoRow.from = NoUser
      /\ NoListing \in ListingRow /\ NoListing.status = "NONE"
  BY DEF NoRow, TicketRow, TicketStatus, NoListing, ListingRow
<1>3. /\ NoBid \in OfferRow /\ NoBid.status = "NONE" /\ NoBid.row = NoTicket
      /\ NoBill \in InvoiceRow /\ NoBill.status = "NONE"
  BY DEF NoBid, OfferRow, NoBill, InvoiceRow
<1> QED
  BY <1>1, <1>2, <1>3 DEF Shape

LEMMA IssuedRow ==
  ASSUME NEW u \in User \cup {NoUser}, NEW t \in Ticket \cup {NoTicket}
  PROVE  /\ Issued(u, t) \in TicketRow /\ Issued(u, t).status = "ACTIVE"
         /\ Issued(u, t).owner = u /\ Issued(u, t).issuedTo = u
         /\ Issued(u, t).from = NoUser /\ Issued(u, t).copyOf = t
<1>1. TRUE \in BOOLEAN /\ "ACTIVE" \in TicketStatus
  BY DEF TicketStatus
<1>2. Issued(u, t) \in TicketRow
  BY <1>1 DEF Issued, TicketRow
<1> QED
  BY <1>2 DEF Issued

LEMMA InitInv == Init => IInv
<1> SUFFICES ASSUME Init PROVE IInv
  OBVIOUS
<1>1. ASSUME NEW t \in Ticket
      PROVE  /\ ticket[t] \in TicketRow /\ ticket[t].copyOf = NoTicket
             /\ ticket[t].from = NoUser
  <2>1. ticket[t] = NoRow \/ \E u \in User : ticket[t] = Issued(u, NoTicket)
    BY DEF Init
  <2> QED
    BY <2>1, RowFacts, IssuedRow
<1>2. ticket \in [Ticket -> TicketRow]
  <2>1. ticket = [t \in Ticket |-> ticket[t]]
    BY DEF Init
  <2> QED
    BY <1>1, <2>1
<1>3. TypeOK
  <2>1. listing \in [Ticket -> ListingRow]
    BY RowFacts DEF Init
  <2>2. offer \in [Offer -> OfferRow]
    BY RowFacts DEF Init
  <2>3. invoice \in [Invoice -> InvoiceRow]
    BY RowFacts DEF Init
  <2>4. proc \in [Process -> Handler]
    BY RowFacts DEF Init
  <2>5. disturbed = {} /\ faults = 0 /\ requests = 0
    BY DEF Init
  <2>6. disturbed \subseteq Ticket /\ faults \in 0..MaxFaults /\ requests \in 0..MaxRequests
    BY <2>5, BoundsAssumption
  <2> QED
    BY <1>2, <2>1, <2>2, <2>3, <2>4, <2>6 DEF TypeOK
<1> USE DEF Init
<1>4. HandlersInShape /\ HandlersHold /\ KeysAreOwn
  BY RowFacts, NoneAssumption DEF HandlersInShape, HandlersHold, Holds, KeysAreOwn
<1>5. RowsInShape
  BY <1>1, RowFacts, NoneAssumption DEF RowsInShape
<1>6. ASSUME NEW t \in Ticket PROVE RowOK(t)
  <2>1. Holding(t) = {} /\ WorkingOn(t) = {} /\ CopiesOf(t) = {}
    BY <1>1, RowFacts, NoneAssumption DEF Holding, WorkingOn, CopiesOf
  <2>2. Bids(t, "PENDING") = {} /\ Bids(t, "ACCEPTED") = {} /\ listing[t].status = "NONE"
    BY RowFacts DEF Bids
  <2> QED
    BY <1>1, <2>1, <2>2 DEF RowOK, SoldOK, ListedOK, BidsOK
<1> QED
  BY <1>3, <1>4, <1>5, <1>6 DEF IInv

----------------------------------------------------------------------------
\* A step leaves the listing, the copies and the offers of row t, and the ticket unless it
\* is just issued: neither listed, nor held, nor under offer.
Frames(t) ==
  /\ listing'[t].status = listing[t].status /\ listing'[t].seller = listing[t].seller
  /\ listing'[t].buyer = listing[t].buyer
  /\ CopiesOf(t)' = CopiesOf(t)
  /\ \A c \in CopiesOf(t) : ticket'[c].issuedTo = ticket[c].issuedTo
  /\ \/ /\ ticket'[t].owner = ticket[t].owner /\ ticket'[t].status = ticket[t].status
        /\ ticket'[t].from = ticket[t].from
     \/ listing[t].status # "ACTIVE" /\ WorkingOn(t) = {} /\ ticket'[t].from = NoUser
  /\ \A o \in Offer : offer[o].row = t \/ offer'[o].row = t =>
       /\ offer'[o].row = offer[o].row /\ offer'[o].status = offer[o].status
       /\ offer'[o].buyer = offer[o].buyer /\ offer'[o].amount = offer[o].amount

LEMMA FramesBids ==
  ASSUME NEW t, Frames(t)
  PROVE  /\ \A s : Bids(t, s)' = Bids(t, s)
         /\ \A s : \A o \in Bids(t, s) : /\ offer'[o].status = offer[o].status
                                         /\ offer'[o].buyer = offer[o].buyer
                                         /\ offer'[o].amount = offer[o].amount
BY DEF Frames, Bids

LEMMA KnowsFramed ==
  ASSUME NEW t \in Ticket, NEW h, h.row = t, Knows(h, t), Shape(h), Holds(h), Holds(h)',
         Frames(t), ticket'[t].owner = ticket[t].owner, ticket'[t].from = ticket[t].from
  PROVE  Knows(h, t)'
<1>1. \A s : Bids(t, s)' = Bids(t, s)
  BY FramesBids
<1>2. \A s : \A o \in Bids(t, s) : /\ offer'[o].status = offer[o].status
                                   /\ offer'[o].buyer = offer[o].buyer
                                   /\ offer'[o].amount = offer[o].amount
  BY FramesBids
<1>3. h.step = "list" => ticket'[t].owner = h.by /\ ticket'[t].from = NoUser
  BY DEF Knows
<1>4. h.step \in {"restore", "withdraw", "winner", "best", "expire", "sell"} =>
        listing'[t].status = "ACTIVE"
  BY DEF Knows, Frames
<1>5. h.step = "mine" => Outbids(h.amount, t)'
  BY <1>1, <1>2 DEF Knows, Outbids
<1>6. h.step = "bid" =>
        /\ \A o \in Bids(t, "PENDING")' \ {h.offer} :
             offer'[o].amount < h.amount /\ offer'[o].buyer # h.by
        /\ offer'[h.offer].status # "NONE" =>
             h.offer \in Bids(t, "PENDING")' /\ offer'[h.offer].buyer = h.by
  <2> SUFFICES ASSUME h.step = "bid"
               PROVE  /\ \A o \in Bids(t, "PENDING")' \ {h.offer} :
                           offer'[o].amount < h.amount /\ offer'[o].buyer # h.by
                      /\ offer'[h.offer].status # "NONE" =>
                           h.offer \in Bids(t, "PENDING")' /\ offer'[h.offer].buyer = h.by
    OBVIOUS
  <2>1. \A o \in Bids(t, "PENDING")' \ {h.offer} :
          offer'[o].amount < h.amount /\ offer'[o].buyer # h.by
    BY <1>1, <1>2 DEF Knows
  <2>2. ASSUME offer'[h.offer].status # "NONE"
        PROVE  h.offer \in Bids(t, "PENDING")' /\ offer'[h.offer].buyer = h.by
    <3>1. h.offer \in Offer /\ offer'[h.offer].row = t
      BY <2>2 DEF Shape, Holds
    <3>2. offer[h.offer].status # "NONE"
      BY <2>2, <3>1 DEF Frames
    <3>3. h.offer \in Bids(t, "PENDING") /\ offer[h.offer].buyer = h.by
      BY <3>2 DEF Knows
    <3> QED
      BY <1>1, <1>2, <3>3
  <2> QED
    BY <2>1, <2>2
<1>7. h.step \in {"previous", "lapse", "accept"} =>
        h.offer \in Bids(t, "PENDING")' /\ (h.todo # {} => Best(h.offer, t)')
  BY <1>1, <1>2 DEF Knows, Best
<1>8. /\ h.step = "lapse" => Bids(t, "ACCEPTED")' \subseteq {h.previous}
      /\ h.step = "accept" => Bids(t, "ACCEPTED")' = {}
  BY <1>1 DEF Knows
<1> QED
  BY <1>3, <1>4, <1>5, <1>6, <1>7, <1>8 DEF Knows

LEMMA RowFramed ==
  ASSUME NEW t \in Ticket, RowOK(t), Frames(t), disturbed \subseteq disturbed',
         t \notin disturbed' => \A p, q \in Holding(t)' : p = q,
         WorkingOn(t)' = WorkingOn(t),
         \A p \in WorkingOn(t) : /\ proc'[p] = proc[p] /\ Shape(proc[p])
                                 /\ Holds(proc[p]) /\ Holds(proc[p])'
  PROVE  RowOK(t)'
<1> SUFFICES ASSUME t \notin disturbed'
             PROVE  RowOK(t)'
  BY DEF RowOK
<1>1. /\ \A p \in WorkingOn(t) : Knows(proc[p], t)
      /\ SoldOK(t) /\ ListedOK(t) /\ BidsOK(t)
  BY DEF RowOK
<1>2. ASSUME NEW p \in WorkingOn(t)' PROVE Knows(proc[p], t)'
  <2>1. PICK h : /\ h = proc[p] /\ h = proc'[p] /\ h.row = t
                 /\ Knows(h, t) /\ Shape(h) /\ Holds(h) /\ Holds(h)'
    BY <1>1 DEF WorkingOn
  <2>2. ticket'[t].owner = ticket[t].owner /\ ticket'[t].from = ticket[t].from
    BY DEF Frames
  <2>3. Knows(h, t)'
    BY <2>1, <2>2, KnowsFramed
  <2> QED
    BY <2>1, <2>3
<1>3. SoldOK(t)'
  BY <1>1 DEF SoldOK, Frames
<1>4. ListedOK(t)'
  BY <1>1 DEF ListedOK, Frames
<1>5. BidsOK(t)'
  BY <1>1, FramesBids DEF BidsOK
<1> QED
  BY <1>2, <1>3, <1>4, <1>5 DEF RowOK

----------------------------------------------------------------------------
TablesOK ==
  /\ ticket \in [Ticket -> TicketRow]
  /\ listing \in [Ticket -> ListingRow]
  /\ offer \in [Offer -> OfferRow]
  /\ invoice \in [Invoice -> InvoiceRow]
  /\ disturbed \subseteq Ticket
  /\ faults \in 0..MaxFaults
  /\ requests \in 0..MaxRequests

\* Rows are inserted and never deleted, and only handler p inserts, under its own key.
Grows(p) ==
  /\ \A t \in Ticket : Exists(t) => Exists(t)'
  /\ \A t \in Ticket : Exists(t)' => Exists(t) \/ (proc[p].step = "sell" /\ proc[p].copy = t)
  /\ \A o \in Offer :
       offer[o].status # "NONE" => offer'[o].status # "NONE" /\ offer'[o].row = offer[o].row
  /\ \A o \in Offer :
       offer'[o].status # "NONE" =>
         offer[o].status # "NONE" \/ (proc[p].step = "bid" /\ proc[p].offer = o)
  /\ \A i \in Invoice : invoice[i].status # "NONE" => invoice'[i].status # "NONE"

\* The key that handler p is to insert is not another's.
OwnKeys(p, h) ==
  \A q \in Process \ {p} :
    /\ ~(h.step = "bid" /\ proc[q].step = "bid" /\ proc[q].offer = h.offer
         /\ offer'[h.offer].status = "NONE")
    /\ ~(h.step = "sell" /\ proc[q].step = "sell" /\ proc[q].copy = h.copy)

\* Another handler holds on to what it holds.
LEMMA HoldsGrows ==
  ASSUME IInv, NEW p \in Process, NEW q \in Process, q # p, Grows(p), NEW h, h = proc[q]
  PROVE  Holds(h)'
<1>1. Holds(h) /\ Shape(h)
  BY DEF IInv, HandlersHold, HandlersInShape
<1>2. \A t \in Ticket : t \in h.todo \/ t = h.row => Exists(t)'
  BY <1>1 DEF Holds, Grows
<1>3. ASSUME NEW o \in Offer, offer[o].row = h.row, h.row \in Ticket
      PROVE  offer'[o].row = h.row
  <2>1. offer[o].status # "NONE"
    BY <1>3, NoneAssumption DEF IInv, RowsInShape
  <2> QED
    BY <1>3, <2>1 DEF Grows
<1>4. h.step \in {"previous", "lapse", "accept", "late"} => offer'[h.offer].row = h.row
  BY <1>1, <1>3 DEF Holds, Shape
<1>5. h.step = "lapse" => offer'[h.previous].row = h.row
  BY <1>1, <1>3 DEF Holds, Shape
<1>6. h.step = "bid" => offer'[h.offer].status = "NONE" \/ offer'[h.offer].row = h.row
  <2> SUFFICES ASSUME h.step = "bid", offer'[h.offer].status # "NONE"
               PROVE  offer'[h.offer].row = h.row
    OBVIOUS
  <2>1. h.offer \in Offer
    BY <1>1 DEF Shape
  <2>2. offer[h.offer].status # "NONE"
    BY <2>1 DEF Grows, IInv, KeysAreOwn
  <2> QED
    BY <1>1, <2>1, <2>2 DEF Holds, Grows
<1>7. h.step = "sell" => ~Exists(h.copy)'
  <2> SUFFICES ASSUME h.step = "sell", Exists(h.copy)'
               PROVE  FALSE
    OBVIOUS
  <2>1. h.copy \in Ticket /\ ~Exists(h.copy)
    BY <1>1 DEF Shape, Holds
  <2> QED
    BY <2>1 DEF Grows, IInv, KeysAreOwn
<1>8. h.step \in {"approve", "paid"} => invoice'[h.invoice].status # "NONE"
  BY <1>1 DEF Holds, Shape, Grows
<1> QED
  BY <1>2, <1>4, <1>5, <1>6, <1>7, <1>8 DEF Holds

\* Handler p goes on to h and leaves every row but r.
LEMMA MoveInv ==
  ASSUME IInv, NEW p \in Process, NEW h \in Handler, NEW r,
         proc' = [proc EXCEPT ![p] = h], Shape(h), Holds(h)', OwnKeys(p, h),
         TablesOK', RowsInShape', Grows(p), disturbed \subseteq disturbed',
         proc[p].row \in {r, NoTicket}, h.row \in {r, NoTicket},
         \A t \in Ticket \ {r} :
           Frames(t) /\ (t \in h.todo \ (proc[p].todo \cup disturbed') => Holding(t) = {}),
         r \in Ticket \ disturbed' =>
           /\ Holding(r) \subseteq {p}
           /\ h.row = r => Knows(h, r)'
           /\ SoldOK(r)' /\ ListedOK(r)' /\ BidsOK(r)'
  PROVE  IInv'
<1>1. /\ proc'[p] = h /\ proc' \in [Process -> Handler]
      /\ \A q \in Process \ {p} : proc'[q] = proc[q]
  BY DEF IInv, TypeOK
<1>2. TypeOK'
  BY <1>1 DEF TypeOK, TablesOK
<1>3. HandlersInShape'
  BY <1>1 DEF IInv, HandlersInShape
<1>4. ASSUME NEW q \in Process \ {p}
      PROVE  Shape(proc[q]) /\ Holds(proc[q]) /\ Holds(proc[q])'
  <2>1. PICK g : g = proc[q] /\ g = proc'[q]
    BY <1>1
  <2>2. Holds(g)'
    BY <2>1, HoldsGrows
  <2> QED
    BY <2>1, <2>2 DEF IInv, HandlersInShape, HandlersHold
<1>5. HandlersHold'
  <2>1. Holds(proc[p])'
    BY <1>1
  <2> QED
    BY <1>4, <2>1 DEF HandlersHold
<1>6. KeysAreOwn'
  <2> SUFFICES ASSUME NEW q \in Process, NEW s \in Process, q # s
               PROVE  /\ ~(/\ proc'[q].step = "bid" /\ proc'[s].step = "bid"
                           /\ proc'[q].offer = proc'[s].offer
                           /\ offer'[proc'[q].offer].status = "NONE")
                      /\ ~(/\ proc'[q].step = "sell" /\ proc'[s].step = "sell"
                           /\ proc'[q].copy = proc'[s].copy)
    BY DEF KeysAreOwn
  <2>1. CASE q = p
    BY <1>1, <2>1 DEF OwnKeys
  <2>2. CASE s = p
    BY <1>1, <2>2 DEF OwnKeys
  <2>3. CASE q # p /\ s # p
    <3>1. Shape(proc[q])
      BY <1>4, <2>3
    <3>2. proc[q].step = "bid" /\ offer'[proc[q].offer].status = "NONE" =>
            offer[proc[q].offer].status = "NONE"
      BY <3>1 DEF Shape, Grows
    <3> QED
      BY <1>1, <2>3, <3>2 DEF IInv, KeysAreOwn
  <2> QED
    BY <2>1, <2>2, <2>3
<1>7. ASSUME NEW t \in Ticket, t # r
      PROVE  RowOK(t)'
  <2>1. RowOK(t) /\ Frames(t)
    BY <1>7 DEF IInv
  <2>2. proc[p].row # t /\ h.row # t
    BY <1>7, NoneAssumption
  <2>3. WorkingOn(t)' = WorkingOn(t) /\ p \notin WorkingOn(t)
    BY <1>1, <2>2 DEF WorkingOn
  <2>4. ASSUME t \notin disturbed'
        PROVE  \A q, s \in Holding(t)' : q = s
    <3>1. \A q, s \in Holding(t) : q = s
      BY <2>1, <2>4 DEF RowOK
    <3>2. Holding(t)' \subseteq Holding(t) \cup (IF t \in h.todo THEN {p} ELSE {})
      BY <1>1, <2>2 DEF Holding
    <3>3. CASE t \in h.todo /\ t \notin proc[p].todo
      BY <1>7, <2>4, <3>2, <3>3
    <3>4. CASE t \in h.todo => t \in proc[p].todo
      <4>1. Holding(t)' \subseteq Holding(t)
        BY <3>2, <3>4 DEF Holding
      <4> QED
        BY <3>1, <4>1
    <3> QED
      BY <3>3, <3>4
  <2>5. ASSUME NEW q \in WorkingOn(t)
        PROVE  proc'[q] = proc[q] /\ Shape(proc[q]) /\ Holds(proc[q]) /\ Holds(proc[q])'
    <3>1. q \in Process \ {p}
      BY <2>3 DEF WorkingOn
    <3> QED
      BY <1>1, <1>4, <3>1
  <2> QED
    BY <2>1, <2>3, <2>4, <2>5, RowFramed
<1>8. ASSUME r \in Ticket
      PROVE  RowOK(r)'
  <2> SUFFICES ASSUME r \notin disturbed'
               PROVE  RowOK(r)'
    BY DEF RowOK
  <2>1. Holding(r)' \subseteq {p} /\ WorkingOn(r)' \subseteq {p}
    BY <1>1, <1>8 DEF Holding, WorkingOn
  <2>2. \A q \in WorkingOn(r)' : Knows(proc[q], r)'
    <3>1. ASSUME p \in WorkingOn(r)' PROVE Knows(proc[p], r)'
      <4>1. Knows(h, r)'
        BY <1>1, <1>8, <3>1 DEF WorkingOn
      <4> QED
        BY <1>1, <4>1
    <3> QED
      BY <2>1, <3>1
  <2> QED
    BY <1>8, <2>1, <2>2 DEF RowOK
<1> QED
  BY <1>2, <1>3, <1>5, <1>6, <1>7, <1>8 DEF IInv

----------------------------------------------------------------------------
\* An invoice may be added or marked.
InvoicesKept ==
  /\ invoice' \in [Invoice -> InvoiceRow]
  /\ \A i \in Invoice : invoice[i].status # "NONE" => invoice'[i].status # "NONE"
  /\ \A i \in Invoice : invoice'[i].status # "NONE" =>
                          invoice'[i].row \in Ticket /\ Exists(invoice'[i].row)

\* A step of handler p, which holds row r, that writes nothing but an invoice.
LEMMA ReadInv ==
  ASSUME IInv, NEW p \in Process, NEW h \in Handler, NEW r \in Ticket,
         proc' = [proc EXCEPT ![p] = h], Shape(h), Holds(h)', OwnKeys(p, h),
         UNCHANGED <<ticket, listing, offer, disturbed, faults, requests>>, InvoicesKept,
         proc[p].step # "withdraw", p \in Holding(r),
         proc[p].row \in {r, NoTicket}, h.row \in {r, NoTicket}, h.todo \subseteq proc[p].todo,
         r \notin disturbed /\ h.row = r => Knows(h, r)
  PROVE  IInv'
<1>1. TablesOK' /\ RowsInShape' /\ Grows(p)
  <2>1. TablesOK'
    BY DEF IInv, TypeOK, TablesOK, InvoicesKept
  <2>2. RowsInShape'
    BY DEF IInv, RowsInShape, InvoicesKept, Exists
  <2>3. Grows(p)
    BY DEF Grows, InvoicesKept, Exists
  <2> QED
    BY <2>1, <2>2, <2>3
<1>2. ASSUME NEW t \in Ticket PROVE Frames(t)
  BY DEF Frames, CopiesOf
<1>3. ASSUME r \notin disturbed
      PROVE  /\ Holding(r) \subseteq {p}
             /\ h.row = r => Knows(h, r)'
             /\ SoldOK(r)' /\ ListedOK(r)' /\ BidsOK(r)'
  <2>1. /\ \A q, s \in Holding(r) : q = s
        /\ SoldOK(r) /\ ListedOK(r) /\ BidsOK(r)
    BY <1>3 DEF IInv, RowOK
  <2>2. h.row = r => Knows(h, r)'
    BY <1>3 DEF Knows, Outbids, Best, Bids
  <2>3. SoldOK(r)' /\ BidsOK(r)'
    BY <2>1 DEF SoldOK, BidsOK, CopiesOf, Bids
  <2>4. ListedOK(r)'
    BY <2>1 DEF ListedOK, WorkingOn, Holding
  <2> QED
    BY <2>1, <2>2, <2>3, <2>4
<1> QED
  BY <1>1, <1>2, <1>3, MoveInv

\* The answer: no row, and the rest of the job's list.
LEMMA DoneFacts ==
  ASSUME IInv, NEW p \in Process, NEW t \in Ticket, DoneWith(p, t)
  PROVE  \E h \in Handler :
           /\ proc' = [proc EXCEPT ![p] = h] /\ Shape(h)
           /\ h.row = NoTicket /\ h.todo = proc[p].todo \ {t} /\ h.step \in {"idle", "listing"}
<1> DEFINE rest == proc[p].todo \ {t}
           g == [Idle EXCEPT !.step = "listing", !.todo = rest]
<1>1. proc[p] \in Handler
  BY DEF IInv, TypeOK
<1>2. rest \in SUBSET Ticket
  BY <1>1 DEF Handler
<1>3. g \in Handler /\ g.step = "listing" /\ g.row = NoTicket /\ g.todo = rest
  BY <1>2, RowFacts, ZenonT(30) DEF Handler, Step
<1>4. Shape(g)
  BY <1>3 DEF Shape
<1>5. CASE rest = {}
  BY <1>5, RowFacts DEF DoneWith
<1>6. CASE rest # {}
  BY <1>3, <1>4, <1>6 DEF DoneWith
<1> QED
  BY <1>5, <1>6

LEMMA GotoFacts ==
  ASSUME IInv, NEW p \in Process, NEW s \in Step, Goto(p, s)
  PROVE  \E h \in Handler :
           /\ proc' = [proc EXCEPT ![p] = h] /\ h.step = s
           /\ h.row = proc[p].row /\ h.offer = proc[p].offer /\ h.previous = proc[p].previous
           /\ h.invoice = proc[p].invoice /\ h.copy = proc[p].copy /\ h.by = proc[p].by
           /\ h.amount = proc[p].amount /\ h.todo = proc[p].todo
<1> DEFINE g == [proc[p] EXCEPT !.step = s]
<1>1. proc[p] \in Handler /\ proc \in [Process -> Handler]
  BY DEF IInv, TypeOK
<1>2. /\ g \in Handler /\ g.step = s
      /\ g.row = proc[p].row /\ g.offer = proc[p].offer /\ g.previous = proc[p].previous
      /\ g.invoice = proc[p].invoice /\ g.copy = proc[p].copy /\ g.by = proc[p].by
      /\ g.amount = proc[p].amount /\ g.todo = proc[p].todo
  BY <1>1 DEF Handler
<1>3. proc' = [proc EXCEPT ![p] = g]
  BY DEF Goto
<1> QED
  BY <1>2, <1>3

\* What IInv says of handler p while it works on a row.
LEMMA AtWork ==
  ASSUME IInv, NEW p \in Process, proc[p].step \notin {"idle", "listing"}
  PROVE  /\ proc[p] \in Handler /\ Shape(proc[p]) /\ Holds(proc[p])
         /\ proc[p].row \in Ticket /\ p \in Holding(proc[p].row) /\ p \in WorkingOn(proc[p].row)
         /\ RowOK(proc[p].row)
         /\ proc[p].row \notin disturbed =>
              Holding(proc[p].row) \subseteq {p} /\ Knows(proc[p], proc[p].row)
<1>1. proc[p] \in Handler /\ Shape(proc[p]) /\ Holds(proc[p])
  BY DEF IInv, TypeOK, HandlersInShape, HandlersHold
<1>2. proc[p].row \in Ticket
  BY <1>1 DEF Shape
<1>3. p \in Holding(proc[p].row) /\ p \in WorkingOn(proc[p].row) /\ RowOK(proc[p].row)
  BY <1>2 DEF IInv, Holding, WorkingOn
<1> QED
  BY <1>1, <1>2, <1>3 DEF RowOK

\* A read that ends the handler of row r, or passes over it.
LEMMA ReadEnds ==
  ASSUME IInv, NEW p \in Process, NEW r \in Ticket, DoneWith(p, r),
         UNCHANGED <<ticket, listing, offer, disturbed, faults, requests>>, InvoicesKept,
         proc[p].step # "withdraw", p \in Holding(r), proc[p].row \in {r, NoTicket}
  PROVE  IInv'
<1>1. PICK h \in Handler :
        /\ proc' = [proc EXCEPT ![p] = h] /\ Shape(h)
        /\ h.row = NoTicket /\ h.todo = proc[p].todo \ {r} /\ h.step \in {"idle", "listing"}
  BY DoneFacts
<1>2. Holds(h)'
  BY <1>1, NoneAssumption DEF IInv, HandlersHold, Holds, Exists
<1>3. OwnKeys(p, h)
  BY <1>1 DEF OwnKeys
<1> QED
  BY <1>1, <1>2, <1>3, NoneAssumption, ReadInv

LEMMA NothingInvoiced ==
  ASSUME IInv, UNCHANGED <<ticket, invoice>>
  PROVE  InvoicesKept
BY DEF IInv, TypeOK, RowsInShape, InvoicesKept, Exists

\* A read after which the handler of a row goes on to step s.
LEMMA ReadGoes ==
  ASSUME IInv, NEW p \in Process, NEW h \in Handler, Reads, proc' = [proc EXCEPT ![p] = h],
         proc[p].step \notin {"idle", "listing", "withdraw"},
         h.row = proc[p].row, h.todo = proc[p].todo,
         Shape(h), Holds(h), OwnKeys(p, h), h.row \notin disturbed => Knows(h, h.row)
  PROVE  IInv'
<1>1. Holds(h)'
  BY DEF Reads, tables, Holds, Exists
<1>2. InvoicesKept
  BY NothingInvoiced DEF Reads, tables
<1>3. UNCHANGED <<ticket, listing, offer, disturbed, faults, requests>>
  BY DEF Reads, tables
<1>4. proc[p].row \in Ticket /\ p \in Holding(proc[p].row)
  BY AtWork
<1> QED
  BY <1>1, <1>2, <1>3, <1>4, ReadInv

LEMMA DoneInv ==
  ASSUME IInv, NEW p \in Process, Reads, Done(p),
         proc[p].step \notin {"idle", "listing", "withdraw"}
  PROVE  IInv'
<1>1. UNCHANGED <<ticket, listing, offer, disturbed, faults, requests>> /\ InvoicesKept
  BY NothingInvoiced DEF Reads, tables
<1> QED
  BY <1>1, AtWork, ReadEnds DEF Done

----------------------------------------------------------------------------
\* A handler starts on a row nobody works on, or the row is disturbed from now on.
LEMMA StartInv ==
  ASSUME IInv, NEW p \in Process, NEW h \in Handler, NEW rows,
         Start(p, h, rows), requests' \in 0..MaxRequests,
         rows \subseteq Ticket, \A t \in Ticket : t = h.row \/ t \in h.todo => t \in rows,
         Shape(h), Holds(h), h.step \notin {"bid", "sell"},
         h.row \in Ticket \ disturbed => Knows(h, h.row)
  PROVE  IInv'
<1>1. /\ proc' = [proc EXCEPT ![p] = h] /\ proc[p].step = "idle"
      /\ UNCHANGED <<ticket, listing, offer, invoice, faults>>
      /\ disturbed \subseteq disturbed' /\ disturbed' \subseteq Ticket
      /\ \A t \in rows : t \notin disturbed' => ~Busy(t)
  BY DEF Start, tables, IInv, TypeOK
<1>2. proc[p].row = NoTicket /\ proc[p].todo = {}
  BY <1>1 DEF IInv, HandlersInShape, Shape
<1>3. Holds(h)' /\ OwnKeys(p, h)
  BY <1>1 DEF Holds, Exists, OwnKeys
<1>4. TablesOK' /\ RowsInShape' /\ Grows(p)
  BY <1>1 DEF IInv, TypeOK, TablesOK, RowsInShape, Grows, Exists
<1>5. ASSUME NEW t \in Ticket PROVE Frames(t)
  BY <1>1 DEF Frames, CopiesOf
<1>6. ASSUME NEW t \in Ticket, t \notin disturbed', t = h.row \/ t \in h.todo
      PROVE  Holding(t) = {}
  <2>1. ~Busy(t)
    BY <1>1, <1>6
  <2> QED
    BY <2>1, NoneAssumption DEF Busy, Touches, Holding
<1>7. ASSUME h.row \in Ticket, h.row \notin disturbed'
      PROVE  Knows(h, h.row)' /\ SoldOK(h.row)' /\ ListedOK(h.row)' /\ BidsOK(h.row)'
  <2>1. PICK r \in Ticket : r = h.row
    BY <1>7
  <2>2. Holding(r) = {} /\ r \notin disturbed
    BY <1>1, <1>6, <1>7, <2>1
  <2>3. Knows(h, r) /\ SoldOK(r) /\ ListedOK(r) /\ BidsOK(r)
    BY <2>1, <2>2 DEF IInv, RowOK
  <2>4. Knows(h, r)'
    BY <1>1, <2>3 DEF Knows, Outbids, Best, Bids
  <2>5. SoldOK(r)' /\ BidsOK(r)'
    BY <1>1, <2>3 DEF SoldOK, BidsOK, CopiesOf, Bids
  <2>6. ListedOK(r)'
    BY <1>1, <2>2, <2>3 DEF ListedOK, WorkingOn, Holding
  <2> QED
    BY <2>1, <2>4, <2>5, <2>6
<1>8. PICK r : r = h.row
  OBVIOUS
<1> QED
  BY <1>1, <1>2, <1>3, <1>4, <1>5, <1>6, <1>7, <1>8, MoveInv

LEMMA CreateListingInv ==
  ASSUME IInv, NEW p \in Process, NEW t \in Ticket, NEW u \in User,
         NEW type \in {"FIXED", "AUCTION"},
         CreateListing(p, t, u, type), requests' \in 0..MaxRequests
  PROVE  IInv'
<1> DEFINE g == [Idle EXCEPT !.step = "list", !.row = t, !.by = u, !.type = type]
<1>1. g \in Handler /\ g.step = "list" /\ g.row = t /\ g.by = u /\ g.todo = {}
  BY RowFacts, ZenonT(30) DEF Handler, Step
<1>2. /\ Start(p, g, {t}) /\ ticket[t].owner = u /\ Exists(t)
      /\ ticket[t].status \in {"PAID", "ACTIVE"}
  BY DEF CreateListing, Exists
<1> HIDE DEF g
<1>3. t \notin disturbed => ticket[t].from = NoUser
  BY <1>2 DEF IInv, RowOK, ListedOK
<1>4. Shape(g) /\ Holds(g) /\ (t \notin disturbed => Knows(g, t))
  BY <1>1, <1>2, <1>3 DEF Shape, Holds, Knows
<1> QED
  BY <1>1, <1>2, <1>4, StartInv

\* A listed row was issued.
LEMMA ListedExists ==
  ASSUME IInv, NEW t \in Ticket, listing[t].status # "NONE"
  PROVE  Exists(t)
BY DEF IInv, RowsInShape

LEMMA CancelListingInv ==
  ASSUME IInv, NEW p \in Process, NEW t \in Ticket, NEW u \in User,
         CancelListing(p, t, u), requests' \in 0..MaxRequests
  PROVE  IInv'
<1> DEFINE g == [Idle EXCEPT !.step = "restore", !.row = t]
<1>1. g \in Handler /\ g.step = "restore" /\ g.row = t /\ g.todo = {}
  BY RowFacts, ZenonT(30) DEF Handler, Step
<1>2. Start(p, g, {t}) /\ listing[t].status = "ACTIVE" /\ Exists(t)
  BY ListedExists DEF CancelListing
<1> HIDE DEF g
<1>3. Shape(g) /\ Holds(g) /\ Knows(g, t)
  BY <1>1, <1>2 DEF Shape, Holds, Knows
<1> QED
  BY <1>1, <1>2, <1>3, StartInv

LEMMA PlaceOfferInv ==
  ASSUME IInv, NEW p \in Process, NEW t \in Ticket, NEW u \in User, NEW a \in Amount,
         PlaceOffer(p, t, u, a), requests' \in 0..MaxRequests
  PROVE  IInv'
<1> DEFINE g == [Idle EXCEPT !.step = "mine", !.row = t, !.by = u, !.amount = a]
<1>1. g \in Handler /\ g.step = "mine" /\ g.row = t /\ g.amount = a /\ g.todo = {}
  BY RowFacts, ZenonT(30) DEF Handler, Step
<1>2. Start(p, g, {t}) /\ Outbids(a, t) /\ Exists(t)
  BY ListedExists DEF PlaceOffer
<1> HIDE DEF g
<1>3. Shape(g) /\ Holds(g) /\ Knows(g, t)
  BY <1>1, <1>2 DEF Shape, Holds, Knows
<1> QED
  BY <1>1, <1>2, <1>3, StartInv

LEMMA AcceptOfferInv ==
  ASSUME IInv, NEW p \in Process, NEW t \in Ticket, NEW o \in Offer, NEW u \in User,
         AcceptOffer(p, t, o, u), requests' \in 0..MaxRequests
  PROVE  IInv'
<1> DEFINE g == [Idle EXCEPT !.step = "offer", !.row = t, !.offer = o]
<1>1. g \in Handler /\ g.step = "offer" /\ g.row = t /\ g.offer = o /\ g.todo = {}
  BY RowFacts DEF Handler, Step
<1>2. Start(p, g, {t}) /\ Exists(t)
  BY ListedExists DEF AcceptOffer
<1> HIDE DEF g
<1>3. Shape(g) /\ Holds(g) /\ Knows(g, t)
  BY <1>1, <1>2 DEF Shape, Holds, Knows
<1> QED
  BY <1>1, <1>2, <1>3, StartInv

LEMMA PurchaseListingInv ==
  ASSUME IInv, NEW p \in Process, NEW t \in Ticket, NEW u \in User,
         PurchaseListing(p, t, u), requests' \in 0..MaxRequests
  PROVE  IInv'
<1>1. PICK s \in {"existing", "deadline"} :
        Start(p, [Idle EXCEPT !.row = t, !.by = u, !.step = s], {t})
  BY DEF PurchaseListing
<1> DEFINE g == [Idle EXCEPT !.row = t, !.by = u, !.step = s]
<1>2. g \in Handler /\ g.step = s /\ g.row = t /\ g.todo = {}
  BY RowFacts, ZenonT(30) DEF Handler, Step
<1>3. Start(p, g, {t}) /\ Exists(t)
  BY <1>1, ListedExists DEF PurchaseListing
<1> HIDE DEF g
<1>4. Shape(g) /\ Holds(g) /\ Knows(g, t)
  BY <1>2, <1>3 DEF Shape, Holds, Knows
<1> QED
  BY <1>2, <1>3, <1>4, StartInv

LEMMA WonAuctionsInv ==
  ASSUME IInv, NEW p \in Process, NEW o \in Offer,
         WonAuctions(p, o), requests' \in 0..MaxRequests
  PROVE  IInv'
<1>1. PICK t \in Ticket : offer[o].row = t /\ Exists(t)
  BY DEF WonAuctions, IInv, RowsInShape
<1> DEFINE g == [Idle EXCEPT !.step = "late", !.row = t, !.offer = o]
<1>2. g \in Handler /\ g.step = "late" /\ g.row = t /\ g.offer = o /\ g.todo = {}
  BY RowFacts DEF Handler, Step
<1>3. Start(p, g, {t})
  BY <1>1 DEF WonAuctions
<1> HIDE DEF g
<1>4. Shape(g) /\ Holds(g) /\ Knows(g, t)
  BY <1>1, <1>2 DEF Shape, Holds, Knows
<1> QED
  BY <1>2, <1>3, <1>4, StartInv

LEMMA PaymentApprovedInv ==
  ASSUME IInv, NEW p \in Process, NEW i \in Invoice,
         PaymentApproved(p, i), requests' \in 0..MaxRequests
  PROVE  IInv'
<1>1. PICK t \in Ticket, u \in User \cup {NoUser} :
        invoice[i].row = t /\ invoice[i].buyer = u /\ Exists(t) /\ invoice[i].status = "ISSUED"
  BY DEF PaymentApproved, IInv, RowsInShape, TypeOK, InvoiceRow
<1> DEFINE g == [Idle EXCEPT !.step = "approve", !.row = t, !.invoice = i, !.by = u]
<1>2. g \in Handler /\ g.step = "approve" /\ g.row = t /\ g.invoice = i /\ g.todo = {}
  BY RowFacts, ZenonT(30) DEF Handler, Step
<1>3. Start(p, g, {t})
  BY <1>1 DEF PaymentApproved
<1> HIDE DEF g
<1>4. Shape(g) /\ Holds(g) /\ Knows(g, t)
  BY <1>1, <1>2 DEF Shape, Holds, Knows
<1> QED
  BY <1>2, <1>3, <1>4, StartInv

LEMMA ExpireSalesInv ==
  ASSUME IInv, ExpireSales
  PROVE  IInv'
<1> DEFINE overdue == {t \in Ticket : listing[t].status = "ACTIVE" /\ listing[t].due}
           g == [Idle EXCEPT !.step = "listing", !.todo = overdue]
<1>1. PICK h \in Handler : h = g
  BY RowFacts, ZenonT(30) DEF Handler, Step
<1>2. h.step = "listing" /\ h.row = NoTicket /\ h.todo = overdue
  BY <1>1, RowFacts DEF Handler
<1>3. Start(Cron, h, overdue) /\ requests' \in 0..MaxRequests /\ Cron \in Process
  BY <1>1 DEF ExpireSales, IInv, TypeOK, Process
<1>4. Shape(h) /\ Holds(h)
  BY <1>2, NoneAssumption, ListedExists DEF Shape, Holds
<1> HIDE DEF g
<1> QED
  BY <1>2, <1>3, <1>4, NoneAssumption, StartInv

----------------------------------------------------------------------------
\* The reads of a handler at work.
LEMMA FindMyOfferInv ==
  ASSUME IInv, NEW p \in Process, FindMyOffer(p)
  PROVE  IInv'
<1> DEFINE k == proc[p]
           mine == {o \in Bids(k.row, "PENDING") : offer[o].buyer = k.by}
<1>1. PICK o \in IF mine # {} THEN mine ELSE FreeOffer :
        proc' = [proc EXCEPT ![p].step = "bid", ![p].offer = o]
  BY DEF FindMyOffer
<1>2. Reads /\ k.step = "mine"
  BY DEF FindMyOffer
<1>3. o \in Offer /\ (o \in mine \/ (mine = {} /\ o \in FreeOffer))
  BY <1>1 DEF Bids, FreeOffer
<1>4. k \in Handler /\ Shape(k) /\ Holds(k) /\ k.row \in Ticket /\ RowOK(k.row)
  BY <1>2, AtWork
<1>5. k.row \notin disturbed => Knows(k, k.row)
  BY <1>2, AtWork
<1> DEFINE g == [k EXCEPT !.step = "bid", !.offer = o]
<1>6. PICK h \in Handler :
        /\ proc' = [proc EXCEPT ![p] = h] /\ h.step = "bid" /\ h.offer = o
        /\ h.row = k.row /\ h.todo = k.todo /\ h.by = k.by /\ h.amount = k.amount
  <2>1. /\ g \in Handler /\ g.step = "bid" /\ g.offer = o
        /\ g.row = k.row /\ g.todo = k.todo /\ g.by = k.by /\ g.amount = k.amount
    BY <1>3, <1>4, ZenonT(30) DEF Handler, Step
  <2>2. proc' = [proc EXCEPT ![p] = g]
    BY <1>1
  <2> QED
    BY <2>1, <2>2
<1> HIDE DEF g
<1>7. Shape(h)
  BY <1>2, <1>3, <1>4, <1>6 DEF Shape
<1>8. Holds(h)
  BY <1>2, <1>3, <1>4, <1>6 DEF Holds, Bids, FreeOffer
<1>9. OwnKeys(p, h)
  <2>1. o \in mine => offer'[o].status # "NONE"
    BY <1>2 DEF Reads, tables, Bids
  <2>2. o \in FreeOffer => \A q \in Process : proc[q].offer # o
    BY DEF FreeOffer
  <2> QED
    BY <1>3, <1>6, <2>1, <2>2 DEF OwnKeys
<1>10. h.row \notin disturbed => Knows(h, h.row)
  <2> SUFFICES ASSUME k.row \notin disturbed
               PROVE  Knows(h, k.row)
    BY <1>6
  <2>1. Outbids(k.amount, k.row) /\ BidsOK(k.row)
    BY <1>2, <1>4, <1>5 DEF Knows, RowOK
  <2>2. \A b \in Bids(k.row, "PENDING") \ {o} : offer[b].amount < k.amount /\ offer[b].buyer # k.by
    BY <1>3, <2>1 DEF Outbids, BidsOK
  <2>3. offer[o].status # "NONE" => o \in Bids(k.row, "PENDING") /\ offer[o].buyer = k.by
    BY <1>3 DEF FreeOffer
  <2> QED
    BY <1>6, <2>2, <2>3 DEF Knows
<1> HIDE DEF k, mine
<1> QED
  BY <1>2, <1>6, <1>7, <1>8, <1>9, <1>10, ReadGoes DEF k

LEMMA GoesTo ==
  ASSUME IInv, NEW p \in Process, NEW s \in Step, Reads, Goto(p, s),
         proc[p].step \notin {"idle", "listing", "withdraw"},
         s \in {"previous", "accept", "best", "expire"},
         s \in {"previous", "accept"} =>
           proc[p].offer \in Offer /\ offer[proc[p].offer].row = proc[p].row,
         proc[p].row \notin disturbed =>
           /\ s \in {"best", "expire"} => listing[proc[p].row].status = "ACTIVE"
           /\ s \in {"previous", "accept"} =>
                /\ proc[p].offer \in Bids(proc[p].row, "PENDING")
                /\ proc[p].todo # {} => Best(proc[p].offer, proc[p].row)
           /\ s = "accept" => Bids(proc[p].row, "ACCEPTED") = {}
  PROVE  IInv'
<1>1. Shape(proc[p]) /\ Holds(proc[p]) /\ proc[p].row \in Ticket
  BY AtWork
<1>2. PICK h \in Handler :
        /\ proc' = [proc EXCEPT ![p] = h] /\ h.step = s
        /\ h.row = proc[p].row /\ h.offer = proc[p].offer /\ h.todo = proc[p].todo
  BY GotoFacts
<1>3. Shape(h) /\ Holds(h)
  BY <1>1, <1>2 DEF Shape, Holds
<1>4. OwnKeys(p, h)
  BY <1>2 DEF OwnKeys
<1>5. h.row \notin disturbed => Knows(h, h.row)
  BY <1>2 DEF Knows
<1> QED
  BY <1>2, <1>3, <1>4, <1>5, ReadGoes

LEMMA ReadOfferInv ==
  ASSUME IInv, NEW p \in Process, ReadOffer(p)
  PROVE  IInv'
<1>1. Reads /\ proc[p].step = "offer"
  BY DEF ReadOffer
<1>2. proc[p].offer \in Offer /\ proc[p].todo = {}
  BY <1>1, AtWork DEF Shape
<1>3. CASE offer[proc[p].offer].row = proc[p].row /\ offer[proc[p].offer].status = "PENDING"
  <2>1. Goto(p, "previous") /\ proc[p].offer \in Bids(proc[p].row, "PENDING")
    BY <1>2, <1>3 DEF ReadOffer, Bids
  <2> QED
    BY <1>1, <1>2, <1>3, <2>1, GoesTo DEF Step
<1>4. CASE ~(offer[proc[p].offer].row = proc[p].row /\ offer[proc[p].offer].status = "PENDING")
  <2>1. Done(p)
    BY <1>4 DEF ReadOffer
  <2> QED
    BY <1>1, <2>1, DoneInv
<1> QED
  BY <1>3, <1>4

LEMMA ReadPreviousInv ==
  ASSUME IInv, NEW p \in Process, ReadPrevious(p)
  PROVE  IInv'
<1> DEFINE k == proc[p]
           winners == Bids(k.row, "ACCEPTED") \ {k.offer}
<1>1. Reads /\ k.step = "previous"
  BY DEF ReadPrevious
<1>2. /\ k \in Handler /\ Shape(k) /\ Holds(k) /\ k.row \in Ticket /\ RowOK(k.row)
      /\ k.row \notin disturbed => Knows(k, k.row)
  BY <1>1, AtWork
<1>3. k.offer \in Offer /\ offer[k.offer].row = k.row
  BY <1>1, <1>2 DEF Shape, Holds
<1>4. ASSUME k.row \notin disturbed
      PROVE  /\ k.offer \in Bids(k.row, "PENDING") /\ (k.todo # {} => Best(k.offer, k.row))
             /\ Bids(k.row, "ACCEPTED") = winners /\ BidsOK(k.row)
  <2>1. k.offer \in Bids(k.row, "PENDING") /\ (k.todo # {} => Best(k.offer, k.row))
    BY <1>1, <1>2, <1>4 DEF Knows
  <2>2. k.offer \notin Bids(k.row, "ACCEPTED")
    BY <2>1 DEF Bids
  <2> QED
    BY <1>2, <1>4, <2>1, <2>2 DEF RowOK
<1>5. CASE winners = {} /\ Goto(p, "accept")
  BY <1>1, <1>3, <1>4, <1>5, GoesTo DEF Step
<1>6. ASSUME NEW w \in winners,
             IF offer[w].late
             THEN proc' = [proc EXCEPT ![p].step = "lapse", ![p].previous = w]
             ELSE Done(p)
      PROVE  IInv'
  <2>1. CASE ~offer[w].late
    BY <1>1, <1>6, <2>1, DoneInv
  <2>2. CASE offer[w].late
    <3>1. w \in Offer \ {k.offer} /\ offer[w].row = k.row /\ "lapse" \in Step
      BY DEF Bids, Step
    <3> DEFINE g == [k EXCEPT !.step = "lapse", !.previous = w]
    <3>2. PICK h \in Handler :
            /\ proc' = [proc EXCEPT ![p] = h] /\ h.step = "lapse" /\ h.previous = w
            /\ h.row = k.row /\ h.todo = k.todo /\ h.offer = k.offer
      <4>1. /\ g \in Handler /\ g.step = "lapse" /\ g.previous = w
            /\ g.row = k.row /\ g.todo = k.todo /\ g.offer = k.offer
        BY <1>2, <3>1 DEF Handler
      <4>2. proc' = [proc EXCEPT ![p] = g]
        BY <1>6, <2>2
      <4> QED
        BY <4>1, <4>2
    <3> HIDE DEF g
    <3>3. Shape(h) /\ Holds(h)
      BY <1>1, <1>2, <1>3, <3>1, <3>2 DEF Shape, Holds
    <3>4. h.row \notin disturbed => Knows(h, h.row)
      BY <1>4, <3>2 DEF Knows, BidsOK
    <3>5. OwnKeys(p, h)
      BY <3>2 DEF OwnKeys
    <3> HIDE DEF winners
    <3> QED
      BY <1>1, <3>2, <3>3, <3>4, <3>5, ReadGoes
  <2> QED
    BY <2>1, <2>2
<1> QED
  BY <1>5, <1>6 DEF ReadPrevious

LEMMA ReadListingInv ==
  ASSUME IInv, NEW p \in Process, ReadListing(p)
  PROVE  IInv'
<1> DEFINE k == proc[p]
<1>1. PICK t \in k.todo :
        IF listing[t].status = "ACTIVE"
        THEN proc' = [proc EXCEPT ![p].row = t, ![p].step = "winner"]
        ELSE DoneWith(p, t)
  BY DEF ReadListing
<1>2. Reads /\ k.step = "listing"
  BY DEF ReadListing
<1>3. /\ k \in Handler /\ k.row = NoTicket /\ t \in Ticket /\ p \in Holding(t) /\ Holds(k)
  BY <1>2 DEF IInv, TypeOK, HandlersInShape, HandlersHold, Shape, Handler, Holding
<1>4. UNCHANGED <<ticket, listing, offer, disturbed, faults, requests>> /\ InvoicesKept
  BY <1>2, NothingInvoiced DEF Reads, tables
<1>5. CASE listing[t].status = "ACTIVE"
  <2> DEFINE g == [k EXCEPT !.row = t, !.step = "winner"]
  <2>1. PICK h \in Handler :
          /\ proc' = [proc EXCEPT ![p] = h] /\ h.step = "winner" /\ h.row = t /\ h.todo = k.todo
    <3>1. g \in Handler /\ g.step = "winner" /\ g.row = t /\ g.todo = k.todo
      BY <1>3, ZenonT(30) DEF Handler, Step
    <3>2. proc' = [proc EXCEPT ![p] = g]
      BY <1>1, <1>5
    <3> QED
      BY <3>1, <3>2
  <2>2. Shape(h) /\ OwnKeys(p, h)
    BY <1>3, <2>1 DEF Shape, OwnKeys
  <2>3. Holds(h)'
    BY <1>3, <1>4, <2>1 DEF Holds, Exists
  <2>4. Knows(h, t)
    BY <1>5, <2>1 DEF Knows
  <2> HIDE DEF g
  <2> QED
    BY <1>2, <1>3, <1>4, <2>1, <2>2, <2>3, <2>4, ReadInv
<1>6. CASE listing[t].status # "ACTIVE"
  BY <1>1, <1>2, <1>3, <1>4, <1>6, ReadEnds
<1> QED
  BY <1>5, <1>6

LEMMA ReadWinnerInv ==
  ASSUME IInv, NEW p \in Process, ReadWinner(p)
  PROVE  IInv'
<1>1. Reads /\ proc[p].step = "winner"
  BY DEF ReadWinner
<1>2. proc[p].row \notin disturbed => listing[proc[p].row].status = "ACTIVE"
  BY <1>1, AtWork DEF Knows
<1>3. Done(p) \/ Goto(p, "best")
  BY DEF ReadWinner
<1> QED
  BY <1>1, <1>2, <1>3, DoneInv, GoesTo DEF Step

LEMMA ReadBestInv ==
  ASSUME IInv, NEW p \in Process, ReadBest(p)
  PROVE  IInv'
<1> DEFINE k == proc[p]
<1>1. Reads /\ k.step = "best"
  BY DEF ReadBest
<1>2. /\ k \in Handler /\ Shape(k) /\ Holds(k) /\ k.row \in Ticket
      /\ k.row \notin disturbed => listing[k.row].status = "ACTIVE"
  BY <1>1, AtWork DEF Knows
<1>3. CASE Goto(p, "expire")
  BY <1>1, <1>2, <1>3, GoesTo DEF Step
<1>4. ASSUME NEW best \in Bids(k.row, "PENDING"), Best(best, k.row),
             proc' = [proc EXCEPT ![p].step = "previous", ![p].offer = best]
      PROVE  IInv'
  <2>1. best \in Offer /\ offer[best].row = k.row
    BY DEF Bids
  <2> DEFINE g == [k EXCEPT !.step = "previous", !.offer = best]
  <2>2. PICK h \in Handler :
          /\ proc' = [proc EXCEPT ![p] = h] /\ h.step = "previous" /\ h.offer = best
          /\ h.row = k.row /\ h.todo = k.todo
    <3>1. /\ g \in Handler /\ g.step = "previous" /\ g.offer = best
          /\ g.row = k.row /\ g.todo = k.todo
      BY <1>2, <2>1, ZenonT(30) DEF Handler, Step
    <3>2. proc' = [proc EXCEPT ![p] = g]
      BY <1>4
    <3> QED
      BY <3>1, <3>2
  <2> HIDE DEF g
  <2>3. Shape(h) /\ Holds(h) /\ OwnKeys(p, h)
    BY <1>1, <1>2, <2>1, <2>2 DEF Shape, Holds, OwnKeys
  <2>4. Knows(h, h.row)
    BY <1>4, <2>2 DEF Knows
  <2> QED
    BY <1>1, <2>2, <2>3, <2>4, ReadGoes
<1> QED
  BY <1>3, <1>4 DEF ReadBest, Best

LEMMA CheckDeadlineInv ==
  ASSUME IInv, NEW p \in Process, CheckDeadline(p)
  PROVE  IInv'
<1> DEFINE k == proc[p]
           won == {o \in Bids(k.row, "ACCEPTED") : offer[o].buyer = k.by}
<1>1. Reads /\ k.step = "deadline"
  BY DEF CheckDeadline
<1>2. k \in Handler /\ Shape(k) /\ Holds(k) /\ k.row \in Ticket
  BY <1>1, AtWork
<1>3. CASE Done(p)
  BY <1>1, <1>3, DoneInv
<1>4. ASSUME NEW o \in won, NEW s \in {"late", "existing"},
             proc' = [proc EXCEPT ![p].step = s, ![p].offer = o]
      PROVE  IInv'
  <2>1. o \in Offer /\ offer[o].row = k.row /\ s \in Step
    BY DEF Bids, Step
  <2> DEFINE g == [k EXCEPT !.step = s, !.offer = o]
  <2>2. PICK h \in Handler :
          /\ proc' = [proc EXCEPT ![p] = h] /\ h.step = s /\ h.offer = o
          /\ h.row = k.row /\ h.todo = k.todo
    <3>1. g \in Handler /\ g.step = s /\ g.offer = o /\ g.row = k.row /\ g.todo = k.todo
      BY <1>2, <2>1 DEF Handler
    <3>2. proc' = [proc EXCEPT ![p] = g]
      BY <1>4
    <3> QED
      BY <3>1, <3>2
  <2> HIDE DEF g
  <2>3. Shape(h) /\ Holds(h) /\ OwnKeys(p, h)
    BY <1>1, <1>2, <2>1, <2>2 DEF Shape, Holds, OwnKeys
  <2>4. Knows(h, h.row)
    BY <2>2 DEF Knows
  <2> QED
    BY <1>1, <2>2, <2>3, <2>4, ReadGoes
<1>5. ASSUME NEW o \in won,
             proc' = [proc EXCEPT ![p].step = IF offer[o].late THEN "late" ELSE "existing",
                                  ![p].offer = o]
      PROVE  IInv'
  <2>1. PICK s \in {"late", "existing"} : s = IF offer[o].late THEN "late" ELSE "existing"
    OBVIOUS
  <2>2. proc' = [proc EXCEPT ![p].step = s, ![p].offer = o]
    BY <1>5, <2>1
  <2> QED
    BY <1>4, <2>2
<1> QED
  BY <1>3, <1>5 DEF CheckDeadline

LEMMA FindInvoiceInv ==
  ASSUME IInv, NEW p \in Process, FindInvoice(p)
  PROVE  IInv'
<1> DEFINE k == proc[p]
<1>1. Reads /\ k.step = "existing"
  BY DEF FindInvoice
<1>2. k \in Handler /\ Shape(k) /\ Holds(k) /\ k.row \in Ticket
  BY <1>1, AtWork
<1>3. CASE Done(p)
  BY <1>1, <1>3, DoneInv
<1>4. ASSUME NEW i \in FreeInvoice,
             proc' = [proc EXCEPT ![p].step = "issue", ![p].invoice = i]
      PROVE  IInv'
  <2>1. i \in Invoice /\ "issue" \in Step
    BY DEF FreeInvoice, Step
  <2> DEFINE g == [k EXCEPT !.step = "issue", !.invoice = i]
  <2>2. PICK h \in Handler :
          /\ proc' = [proc EXCEPT ![p] = h] /\ h.step = "issue" /\ h.invoice = i
          /\ h.row = k.row /\ h.todo = k.todo
    <3>1. g \in Handler /\ g.step = "issue" /\ g.invoice = i /\ g.row = k.row /\ g.todo = k.todo
      BY <1>2, <2>1 DEF Handler
    <3>2. proc' = [proc EXCEPT ![p] = g]
      BY <1>4
    <3> QED
      BY <3>1, <3>2
  <2> HIDE DEF g
  <2>3. Shape(h) /\ Holds(h) /\ OwnKeys(p, h)
    BY <1>1, <1>2, <2>1, <2>2 DEF Shape, Holds, OwnKeys
  <2>4. Knows(h, h.row)
    BY <2>2 DEF Knows
  <2> QED
    BY <1>1, <2>2, <2>3, <2>4, ReadGoes
<1> QED
  BY <1>3, <1>4 DEF FindInvoice

LEMMA ConfirmSaleInv ==
  ASSUME IInv, NEW p \in Process, ConfirmSale(p)
  PROVE  IInv'
<1> DEFINE k == proc[p]
<1>1. Reads /\ k.step = "confirm"
  BY DEF ConfirmSale
<1>2. k \in Handler /\ Shape(k) /\ Holds(k) /\ k.row \in Ticket
  BY <1>1, AtWork
<1>3. CASE Done(p)
  BY <1>1, <1>3, DoneInv
<1>4. ASSUME listing[k.row].status = "ACTIVE", NEW c \in FreeTicket,
             proc' = [proc EXCEPT ![p].step = "sell", ![p].copy = c]
      PROVE  IInv'
  <2>1. c \in Ticket /\ ~Exists(c) /\ (\A q \in Process : proc[q].copy # c) /\ "sell" \in Step
    BY DEF FreeTicket, Exists, Step
  <2> DEFINE g == [k EXCEPT !.step = "sell", !.copy = c]
  <2>2. PICK h \in Handler :
          /\ proc' = [proc EXCEPT ![p] = h] /\ h.step = "sell" /\ h.copy = c
          /\ h.row = k.row /\ h.todo = k.todo
    <3>1. g \in Handler /\ g.step = "sell" /\ g.copy = c /\ g.row = k.row /\ g.todo = k.todo
      BY <1>2, <2>1 DEF Handler
    <3>2. proc' = [proc EXCEPT ![p] = g]
      BY <1>4
    <3> QED
      BY <3>1, <3>2
  <2> HIDE DEF g
  <2>3. Shape(h) /\ Holds(h) /\ OwnKeys(p, h)
    BY <1>1, <1>2, <2>1, <2>2 DEF Shape, Holds, OwnKeys
  <2>4. Knows(h, h.row)
    BY <1>4, <2>2 DEF Knows
  <2> QED
    BY <1>1, <2>2, <2>3, <2>4, ReadGoes
<1> QED
  BY <1>3, <1>4 DEF ConfirmSale

\* The steps that write an invoice.
LEMMA IssueInvoiceInv ==
  ASSUME IInv, NEW p \in Process, IssueInvoice(p)
  PROVE  IInv'
<1> DEFINE k == proc[p]
<1>1. /\ k.step = "issue" /\ Done(p)
      /\ UNCHANGED <<ticket, listing, offer, disturbed, faults, requests>>
  BY DEF IssueInvoice
<1>2. k \in Handler /\ Shape(k) /\ Holds(k) /\ k.row \in Ticket /\ p \in Holding(k.row)
  BY <1>1, AtWork
<1>3. k.invoice \in Invoice /\ Exists(k.row)
  BY <1>1, <1>2 DEF Shape, Holds
<1> DEFINE bill == [NoBill EXCEPT !.status = "ISSUED", !.row = k.row, !.buyer = k.by]
<1>4. bill \in InvoiceRow /\ bill.status = "ISSUED" /\ bill.row = k.row
  BY <1>2, RowFacts DEF InvoiceRow, Handler
<1>5. invoice' = [invoice EXCEPT ![k.invoice] = bill]
  BY DEF IssueInvoice
<1> HIDE DEF bill
<1>6. InvoicesKept
  BY <1>1, <1>2, <1>3, <1>4, <1>5 DEF InvoicesKept, IInv, TypeOK, RowsInShape, Exists
<1> QED
  BY <1>1, <1>2, <1>6, ReadEnds DEF Done

LEMMA MarkInvoiceInv ==
  ASSUME IInv, NEW p \in Process, NEW s \in {"paid", "confirm"}, Goto(p, s),
         proc[p].step \in {"approve", "paid"}, NEW b,
         b \in InvoiceRow, b.status # "NONE", b.row = invoice[proc[p].invoice].row,
         invoice' = [invoice EXCEPT ![proc[p].invoice] = b],
         UNCHANGED <<ticket, listing, offer, disturbed, faults, requests>>
  PROVE  IInv'
<1>1. /\ Shape(proc[p]) /\ Holds(proc[p]) /\ proc[p].row \in Ticket
      /\ p \in Holding(proc[p].row)
  BY AtWork
<1>2. proc[p].invoice \in Invoice /\ invoice[proc[p].invoice].status # "NONE"
  BY <1>1 DEF Shape, Holds
<1>3. InvoicesKept
  BY <1>2 DEF InvoicesKept, IInv, TypeOK, RowsInShape, Exists
<1>4. PICK h \in Handler :
        /\ proc' = [proc EXCEPT ![p] = h] /\ h.step = s
        /\ h.row = proc[p].row /\ h.invoice = proc[p].invoice /\ h.todo = proc[p].todo
  BY GotoFacts DEF Step
<1>5. Shape(h) /\ OwnKeys(p, h) /\ Knows(h, h.row)
  BY <1>1, <1>2, <1>4 DEF Shape, OwnKeys, Knows
<1>6. Holds(h)'
  BY <1>1, <1>2, <1>3, <1>4 DEF Holds, Exists, InvoicesKept
<1> QED
  BY <1>1, <1>3, <1>4, <1>5, <1>6, ReadInv

LEMMA ApproveTransactionInv ==
  ASSUME IInv, NEW p \in Process, ApproveTransaction(p)
  PROVE  IInv'
<1>1. /\ proc[p].step = "approve" /\ Goto(p, "paid")
      /\ UNCHANGED <<ticket, listing, offer, disturbed, faults, requests>>
  BY DEF ApproveTransaction
<1>2. proc[p].invoice \in Invoice /\ invoice[proc[p].invoice].status # "NONE"
  BY <1>1, AtWork DEF Shape, Holds
<1> DEFINE g == [invoice[proc[p].invoice] EXCEPT !.approved = TRUE]
<1>3. PICK b \in InvoiceRow :
        /\ b.status # "NONE" /\ b.row = invoice[proc[p].invoice].row
        /\ invoice' = [invoice EXCEPT ![proc[p].invoice] = b]
  <2>1. g \in InvoiceRow /\ g.status # "NONE" /\ g.row = invoice[proc[p].invoice].row
    <3>1. PICK c \in InvoiceRow : c = invoice[proc[p].invoice]
      BY <1>2 DEF IInv, TypeOK
    <3>2. TRUE \in BOOLEAN
      OBVIOUS
    <3>3. g \in InvoiceRow
      BY <3>1, <3>2 DEF InvoiceRow
    <3>4. g.status # "NONE" /\ g.row = invoice[proc[p].invoice].row
      BY <1>2, <3>1 DEF InvoiceRow
    <3> QED
      BY <3>3, <3>4
  <2>2. invoice' = [invoice EXCEPT ![proc[p].invoice] = g]
    BY DEF ApproveTransaction
  <2> QED
    BY <2>1, <2>2
<1> HIDE DEF g
<1> QED
  BY <1>1, <1>3, MarkInvoiceInv

LEMMA PayInvoiceInv ==
  ASSUME IInv, NEW p \in Process, PayInvoice(p)
  PROVE  IInv'
<1>1. /\ proc[p].step = "paid" /\ Goto(p, "confirm")
      /\ UNCHANGED <<ticket, listing, offer, disturbed, faults, requests>>
  BY DEF PayInvoice
<1>2. proc[p].invoice \in Invoice
  BY <1>1, AtWork DEF Shape
<1> DEFINE g == [invoice[proc[p].invoice] EXCEPT !.status = "PAID"]
<1>3. PICK b \in InvoiceRow :
        /\ b.status # "NONE" /\ b.row = invoice[proc[p].invoice].row
        /\ invoice' = [invoice EXCEPT ![proc[p].invoice] = b]
  <2>1. g \in InvoiceRow /\ g.status # "NONE" /\ g.row = invoice[proc[p].invoice].row
    BY <1>2 DEF IInv, TypeOK, InvoiceRow
  <2>2. invoice' = [invoice EXCEPT ![proc[p].invoice] = g]
    BY DEF PayInvoice
  <2> QED
    BY <2>1, <2>2
<1> HIDE DEF g
<1> QED
  BY <1>1, <1>3, MarkInvoiceInv

\* The rows of a handler that stops are disturbed.
LEMMA FailInv ==
  ASSUME IInv, NEW p \in Process, Fail(p)
  PROVE  IInv'
<1>1. /\ disturbed' = disturbed \cup Touches(p) /\ faults' = faults + 1 /\ faults < MaxFaults
      /\ UNCHANGED <<ticket, listing, offer, invoice, requests>>
  BY DEF Fail, tables
<1>2. proc[p] \in Handler /\ Holds(proc[p])
  BY DEF IInv, TypeOK, HandlersHold
<1>3. PICK h \in Handler :
        /\ proc' = [proc EXCEPT ![p] = h] /\ Shape(h)
        /\ h.row = NoTicket /\ h.todo \subseteq proc[p].todo /\ h.step \in {"idle", "listing"}
  <2>1. CASE proc' = [proc EXCEPT ![p] = Idle]
    BY <2>1, RowFacts
  <2>2. ASSUME NEW t \in proc[p].todo, DoneWith(p, t)
        PROVE  \E h \in Handler :
                 /\ proc' = [proc EXCEPT ![p] = h] /\ Shape(h) /\ h.row = NoTicket
                 /\ h.todo \subseteq proc[p].todo /\ h.step \in {"idle", "listing"}
    <3>1. t \in Ticket
      BY <1>2 DEF Handler
    <3> QED
      BY <2>2, <3>1, DoneFacts
  <2> QED
    BY <2>1, <2>2 DEF Fail
<1>4. Holds(h)' /\ OwnKeys(p, h)
  BY <1>1, <1>2, <1>3, NoneAssumption DEF Holds, Exists, OwnKeys
<1>5. TablesOK'
  <2>1. Touches(p) \subseteq Ticket
    BY <1>2 DEF Touches, Handler
  <2>2. faults' \in 0..MaxFaults
    BY <1>1, BoundsAssumption DEF IInv, TypeOK
  <2> QED
    BY <1>1, <2>1, <2>2 DEF IInv, TypeOK, TablesOK
<1>6. RowsInShape' /\ Grows(p)
  BY <1>1 DEF IInv, RowsInShape, Grows, Exists
<1>7. \A t \in Ticket : Frames(t)
  BY <1>1 DEF Frames, CopiesOf
<1>8. PICK r : r = proc[p].row
  OBVIOUS
<1>9. r \notin Ticket \ disturbed'
  BY <1>1, <1>8, NoneAssumption DEF Touches
<1> QED
  BY <1>1, <1>3, <1>4, <1>5, <1>6, <1>7, <1>8, <1>9, MoveInv

----------------------------------------------------------------------------
\* The writes.  An UPDATE of an issued row leaves what it replaces and for whom.
LEMMA TicketUpdated ==
  ASSUME IInv, NEW r \in Ticket, Exists(r), NEW b \in TicketRow,
         b.status # "NONE", b.copyOf = ticket[r].copyOf,
         b.issuedTo = ticket[r].issuedTo,
         ticket' = [ticket EXCEPT ![r] = b]
  PROVE  /\ ticket' \in [Ticket -> TicketRow]
         /\ ticket'[r] = b /\ \A t \in Ticket \ {r} : ticket'[t] = ticket[t]
         /\ \A t \in Ticket : /\ Exists(t)' <=> Exists(t)
                              /\ ticket'[t].issuedTo = ticket[t].issuedTo
                              /\ ticket'[t].copyOf = ticket[t].copyOf
         /\ \A t \in Ticket : CopiesOf(t)' = CopiesOf(t)
<1>1. /\ ticket' \in [Ticket -> TicketRow]
      /\ ticket'[r] = b /\ \A t \in Ticket \ {r} : ticket'[t] = ticket[t]
  BY DEF IInv, TypeOK
<1>2. \A t \in Ticket : /\ Exists(t)' <=> Exists(t)
                        /\ ticket'[t].issuedTo = ticket[t].issuedTo
                        /\ ticket'[t].copyOf = ticket[t].copyOf
  BY <1>1 DEF Exists
<1> QED
  BY <1>1, <1>2 DEF CopiesOf

\* What a handler that ends after its write leaves behind.
LEMMA EndHolds ==
  ASSUME IInv, NEW p \in Process, NEW h \in Handler, proc[p].step \notin {"idle", "listing"},
         h.row = NoTicket, h.todo \subseteq proc[p].todo, h.step \in {"idle", "listing"},
         \A t \in Ticket : Exists(t) => Exists(t)'
  PROVE  Holds(h)' /\ OwnKeys(p, h)
BY AtWork, NoneAssumption DEF Holds, OwnKeys

LEMMA CommitListingInv ==
  ASSUME IInv, NEW p \in Process, CommitListing(p)
  PROVE  IInv'
<1>1. PICK r \in Ticket : r = proc[p].row /\ proc[p].step = "list"
  BY AtWork DEF CommitListing
<1>2. DoneWith(p, r) /\ UNCHANGED <<offer, invoice, disturbed, faults, requests>>
  BY <1>1 DEF CommitListing, Done
<1>3. /\ proc[p] \in Handler /\ Exists(r) /\ RowOK(r) /\ p \in Holding(r)
      /\ r \notin disturbed => Holding(r) \subseteq {p} /\ Knows(proc[p], r)
  BY <1>1, AtWork DEF Holds
<1>4. CASE listing[r].status # "NONE"
  <2>1. UNCHANGED <<ticket, listing>>
    BY <1>1, <1>4 DEF CommitListing
  <2>2. InvoicesKept
    BY <1>2, <2>1, NothingInvoiced
  <2> QED
    BY <1>1, <1>2, <1>3, <2>1, <2>2, ReadEnds
<1>5. CASE listing[r].status = "NONE"
  <2> DEFINE b == [ticket[r] EXCEPT !.status = "ON_SALE"]
             l == [NoListing EXCEPT !.status = "ACTIVE", !.type = proc[p].type,
                                    !.seller = proc[p].by]
  <2>1. /\ b \in TicketRow /\ b.status = "ON_SALE" /\ b.owner = ticket[r].owner
        /\ b.copyOf = ticket[r].copyOf /\ b.from = ticket[r].from
        /\ b.issuedTo = ticket[r].issuedTo
    BY DEF IInv, TypeOK, TicketRow, TicketStatus
  <2>2. l \in ListingRow /\ l.status = "ACTIVE" /\ l.seller = proc[p].by
    BY <1>3, RowFacts DEF Handler, ListingRow
  <2>3. ticket' = [ticket EXCEPT ![r] = b] /\ listing' = [listing EXCEPT ![r] = l]
    BY <1>1, <1>5 DEF CommitListing
  <2> HIDE DEF b, l
  <2>4. PICK bb \in TicketRow :
          /\ bb.status = "ON_SALE" /\ bb.owner = ticket[r].owner
          /\ bb.copyOf = ticket[r].copyOf /\ bb.from = ticket[r].from
          /\ bb.issuedTo = ticket[r].issuedTo /\ ticket' = [ticket EXCEPT ![r] = bb]
    BY <2>1, <2>3
  <2>5. /\ ticket' \in [Ticket -> TicketRow]
        /\ ticket'[r] = bb /\ \A t \in Ticket \ {r} : ticket'[t] = ticket[t]
        /\ \A t \in Ticket : /\ Exists(t)' <=> Exists(t)
                             /\ ticket'[t].issuedTo = ticket[t].issuedTo
                             /\ ticket'[t].copyOf = ticket[t].copyOf
        /\ \A t \in Ticket : CopiesOf(t)' = CopiesOf(t)
    BY <1>3, <2>4, TicketUpdated
  <2>6. /\ listing' \in [Ticket -> ListingRow]
        /\ listing'[r] = l /\ \A t \in Ticket \ {r} : listing'[t] = listing[t]
    BY <2>2, <2>3 DEF IInv, TypeOK
  <2>7. PICK h \in Handler :
          /\ proc' = [proc EXCEPT ![p] = h] /\ Shape(h)
          /\ h.row = NoTicket /\ h.todo = proc[p].todo \ {r} /\ h.step \in {"idle", "listing"}
    BY <1>2, DoneFacts
  <2>8. Holds(h)' /\ OwnKeys(p, h)
    BY <1>1, <2>5, <2>7, EndHolds
  <2>9. TablesOK'
    BY <1>2, <2>5, <2>6 DEF IInv, TypeOK, TablesOK
  <2>10. RowsInShape' /\ Grows(p)
    <3>1. RowsInShape'
      BY <1>2, <1>3, <2>5, <2>6, NoneAssumption DEF IInv, TypeOK, TicketRow, RowsInShape
    <3>2. Grows(p)
      BY <1>2, <2>5 DEF Grows
    <3> QED
      BY <3>1, <3>2
  <2>11. ASSUME NEW t \in Ticket \ {r} PROVE Frames(t)
    BY <1>2, <2>5, <2>6 DEF Frames, CopiesOf
  <2>12. ASSUME r \notin disturbed
         PROVE  SoldOK(r)' /\ ListedOK(r)' /\ BidsOK(r)'
    <3>1. /\ SoldOK(r) /\ BidsOK(r)
          /\ ticket[r].owner = proc[p].by /\ ticket[r].from = NoUser
      BY <1>1, <1>3, <2>12 DEF RowOK, Knows
    <3>2. SoldOK(r)'
      BY <1>5, <2>2, <2>5, <2>6, <3>1 DEF SoldOK
    <3>3. ListedOK(r)'
      BY <2>2, <2>4, <2>5, <2>6, <3>1 DEF ListedOK
    <3>4. BidsOK(r)'
      BY <1>2, <3>1 DEF BidsOK, Bids
    <3> QED
      BY <3>2, <3>3, <3>4
  <2> QED
    BY <1>1, <1>2, <1>3, <2>7, <2>8, <2>9, <2>10, <2>11, <2>12, NoneAssumption, MoveInv
<1> QED
  BY <1>4, <1>5

LEMMA RestoreTicketInv ==
  ASSUME IInv, NEW p \in Process, RestoreTicket(p)
  PROVE  IInv'
<1>1. PICK r \in Ticket : r = proc[p].row /\ proc[p].step = "restore"
  BY AtWork DEF RestoreTicket
<1>2. Goto(p, "withdraw") /\ UNCHANGED <<listing, offer, invoice, disturbed, faults, requests>>
  BY DEF RestoreTicket
<1>3. /\ Exists(r) /\ RowOK(r) /\ Shape(proc[p]) /\ Holds(proc[p])
      /\ r \notin disturbed => Holding(r) \subseteq {p} /\ Knows(proc[p], r)
  BY <1>1, AtWork DEF Holds
<1> DEFINE b == [ticket[r] EXCEPT !.status = "ACTIVE"]
<1>4. PICK bb \in TicketRow :
        /\ bb.status = "ACTIVE" /\ bb.owner = ticket[r].owner
        /\ bb.copyOf = ticket[r].copyOf /\ bb.from = ticket[r].from
        /\ bb.issuedTo = ticket[r].issuedTo /\ ticket' = [ticket EXCEPT ![r] = bb]
  <2>1. /\ b \in TicketRow /\ b.status = "ACTIVE" /\ b.owner = ticket[r].owner
        /\ b.copyOf = ticket[r].copyOf /\ b.from = ticket[r].from
        /\ b.issuedTo = ticket[r].issuedTo
    BY DEF IInv, TypeOK, TicketRow, TicketStatus
  <2>2. ticket' = [ticket EXCEPT ![r] = b]
    BY <1>1 DEF RestoreTicket
  <2> HIDE DEF b
  <2> QED
    BY <2>1, <2>2
<1> HIDE DEF b
<1>5. /\ ticket' \in [Ticket -> TicketRow]
      /\ ticket'[r] = bb /\ \A t \in Ticket \ {r} : ticket'[t] = ticket[t]
      /\ \A t \in Ticket : /\ Exists(t)' <=> Exists(t)
                           /\ ticket'[t].issuedTo = ticket[t].issuedTo
                           /\ ticket'[t].copyOf = ticket[t].copyOf
      /\ \A t \in Ticket : CopiesOf(t)' = CopiesOf(t)
  BY <1>3, <1>4, TicketUpdated
<1>6. PICK h \in Handler :
        /\ proc' = [proc EXCEPT ![p] = h] /\ h.step = "withdraw"
        /\ h.row = r /\ h.todo = proc[p].todo
  BY <1>1, <1>2, GotoFacts DEF Step
<1>7. Shape(h) /\ OwnKeys(p, h)
  BY <1>1, <1>3, <1>6 DEF Shape, OwnKeys
<1>8. Holds(h)'
  BY <1>1, <1>3, <1>5, <1>6 DEF Holds
<1>9. TablesOK'
  BY <1>2, <1>5 DEF IInv, TypeOK, TablesOK
<1>10. RowsInShape' /\ Grows(p)
  <2>1. RowsInShape'
    BY <1>2, <1>5, NoneAssumption DEF IInv, RowsInShape
  <2>2. Grows(p)
    BY <1>2, <1>5 DEF Grows
  <2> QED
    BY <2>1, <2>2
<1>11. ASSUME NEW t \in Ticket \ {r} PROVE Frames(t)
  BY <1>2, <1>5 DEF Frames, CopiesOf
<1>12. ASSUME r \notin disturbed
       PROVE  Knows(h, r)' /\ SoldOK(r)' /\ ListedOK(r)' /\ BidsOK(r)'
  <2>1. SoldOK(r) /\ ListedOK(r) /\ BidsOK(r) /\ listing[r].status = "ACTIVE"
    BY <1>1, <1>3, <1>12 DEF RowOK, Knows
  <2>2. Knows(h, r)'
    BY <1>2, <1>6, <2>1 DEF Knows
  <2>3. SoldOK(r)' /\ BidsOK(r)'
    BY <1>2, <1>5, <2>1 DEF SoldOK, BidsOK, Bids, CopiesOf
  <2>4. p \in WorkingOn(r)' /\ proc'[p].step = "withdraw"
    BY <1>6 DEF WorkingOn, IInv, TypeOK
  <2>5. ListedOK(r)'
    BY <1>2, <1>4, <1>5, <2>1, <2>4 DEF ListedOK
  <2> QED
    BY <2>2, <2>3, <2>5
<1> QED
  BY <1>1, <1>2, <1>3, <1>6, <1>7, <1>8, <1>9, <1>10, <1>11, <1>12, MoveInv

\* The listing that a handler still knows active is withdrawn or expired.
LEMMA ClosesInv ==
  ASSUME IInv, NEW p \in Process, NEW r \in Ticket, r = proc[p].row, DoneWith(p, r),
         proc[p].step \in {"withdraw", "expire"}, NEW s \in {"CANCELLED", "EXPIRED"},
         listing' = [listing EXCEPT ![r].status = s],
         UNCHANGED <<ticket, offer, invoice, disturbed, faults, requests>>
  PROVE  IInv'
<1>1. /\ Exists(r) /\ RowOK(r)
      /\ r \notin disturbed => Holding(r) \subseteq {p} /\ listing[r].status = "ACTIVE"
  BY AtWork DEF Holds, Knows
<1>2. /\ listing' \in [Ticket -> ListingRow]
      /\ listing'[r].status = s /\ \A t \in Ticket \ {r} : listing'[t] = listing[t]
  <2> DEFINE l == [listing[r] EXCEPT !.status = s]
  <2>1. l \in ListingRow /\ l.status = s
    BY DEF IInv, TypeOK, ListingRow
  <2>2. listing' = [listing EXCEPT ![r] = l]
    OBVIOUS
  <2> HIDE DEF l
  <2> QED
    BY <2>1, <2>2 DEF IInv, TypeOK
<1>3. PICK h \in Handler :
        /\ proc' = [proc EXCEPT ![p] = h] /\ Shape(h)
        /\ h.row = NoTicket /\ h.todo = proc[p].todo \ {r} /\ h.step \in {"idle", "listing"}
  BY DoneFacts
<1>4. Holds(h)' /\ OwnKeys(p, h)
  BY <1>3, EndHolds DEF Exists
<1>5. TablesOK' /\ RowsInShape' /\ Grows(p)
  BY <1>1, <1>2 DEF IInv, TypeOK, TablesOK, RowsInShape, Grows, Exists
<1>6. ASSUME NEW t \in Ticket \ {r} PROVE Frames(t)
  BY <1>2 DEF Frames, CopiesOf
<1>7. ASSUME r \notin disturbed
      PROVE  SoldOK(r)' /\ ListedOK(r)' /\ BidsOK(r)'
  BY <1>1, <1>2, <1>7 DEF RowOK, SoldOK, ListedOK, BidsOK, CopiesOf, Bids
<1> QED
  BY <1>1, <1>3, <1>4, <1>5, <1>6, <1>7, NoneAssumption, MoveInv

LEMMA WithdrawListingInv ==
  ASSUME IInv, NEW p \in Process, WithdrawListing(p)
  PROVE  IInv'
BY AtWork, ClosesInv DEF WithdrawListing, Done

LEMMA ExpireListingInv ==
  ASSUME IInv, NEW p \in Process, ExpireListing(p)
  PROVE  IInv'
BY AtWork, ClosesInv DEF ExpireListing, Done

\* An UPDATE of an offer leaves its row, its buyer and its amount.
LEMMA OfferUpdated ==
  ASSUME IInv, NEW p, NEW r \in Ticket, NEW o \in Offer, NEW b \in OfferRow,
         offer[o].row = r, b.row = r, b.status # "NONE",
         b.buyer = offer[o].buyer, b.amount = offer[o].amount,
         offer' = [offer EXCEPT ![o] = b],
         UNCHANGED <<ticket, listing, invoice, disturbed, faults, requests>>
  PROVE  /\ TablesOK' /\ RowsInShape' /\ Grows(p)
         /\ \A t \in Ticket \ {r} : Frames(t)
         /\ offer'[o] = b /\ \A w \in Offer \ {o} : offer'[w] = offer[w]
<1>1. /\ offer' \in [Offer -> OfferRow]
      /\ offer'[o] = b /\ \A w \in Offer \ {o} : offer'[w] = offer[w]
  BY DEF IInv, TypeOK
<1>2. offer[o].status # "NONE" /\ Exists(r)
  BY NoneAssumption DEF IInv, RowsInShape
<1>3. TablesOK'
  BY <1>1 DEF IInv, TypeOK, TablesOK
<1>4. RowsInShape'
  <2>1. \A t \in Ticket : Exists(t)' <=> Exists(t)
    BY DEF Exists
  <2> QED
    BY <1>1, <1>2, <2>1 DEF IInv, RowsInShape
<1>5. Grows(p)
  BY <1>1, <1>2 DEF Grows, Exists
<1>6. ASSUME NEW t \in Ticket \ {r} PROVE Frames(t)
  BY <1>1 DEF Frames, CopiesOf
<1> QED
  BY <1>1, <1>3, <1>4, <1>5, <1>6

LEMMA WriteOfferInv ==
  ASSUME IInv, NEW p \in Process, WriteOffer(p)
  PROVE  IInv'
<1>1. PICK r \in Ticket : r = proc[p].row /\ proc[p].step = "bid"
  BY AtWork DEF WriteOffer
<1>2. DoneWith(p, r) /\ UNCHANGED <<ticket, listing, invoice, disturbed, faults, requests>>
  BY <1>1 DEF WriteOffer, Done
<1>3. /\ proc[p] \in Handler /\ Shape(proc[p]) /\ Holds(proc[p]) /\ RowOK(r)
      /\ r \notin disturbed => Holding(r) \subseteq {p} /\ Knows(proc[p], r)
  BY <1>1, AtWork
<1>4. PICK o \in Offer : o = proc[p].offer
  BY <1>1, <1>3 DEF Shape
<1>5. PICK a, u : a = proc[p].amount /\ u = proc[p].by
  OBVIOUS
<1>6. a \in Amount \cup {0} /\ u \in User \cup {NoUser} /\ Exists(r)
  BY <1>1, <1>3, <1>5 DEF Handler, Holds
<1>7. offer[o].status = "NONE" \/ offer[o].row = r
  BY <1>1, <1>3, <1>4 DEF Holds
<1>8. PICK b \in OfferRow :
        /\ offer' = [offer EXCEPT ![o] = b] /\ b.row = r /\ b.amount = a
        /\ offer[o].status = "NONE" => b.status = "PENDING" /\ b.buyer = u
        /\ offer[o].status # "NONE" => b.status = offer[o].status /\ b.buyer = offer[o].buyer
  <2> DEFINE raised == [offer[o] EXCEPT !.amount = a]
             new == [NoBid EXCEPT !.status = "PENDING", !.row = r, !.buyer = u, !.amount = a]
  <2>1. raised \in OfferRow /\ raised.amount = a /\ raised.row = offer[o].row
        /\ raised.status = offer[o].status /\ raised.buyer = offer[o].buyer
    BY <1>6 DEF IInv, TypeOK, OfferRow
  <2>2. new \in OfferRow /\ new.status = "PENDING" /\ new.row = r /\ new.buyer = u
        /\ new.amount = a
    BY <1>6, RowFacts DEF OfferRow
  <2>3. offer' = [offer EXCEPT ![o] = IF offer[o].status # "NONE" THEN raised ELSE new]
    BY <1>1, <1>4, <1>5 DEF WriteOffer
  <2> HIDE DEF raised, new
  <2>4. CASE offer[o].status # "NONE"
    BY <1>7, <2>1, <2>3, <2>4
  <2>5. CASE offer[o].status = "NONE"
    BY <2>2, <2>3, <2>5
  <2> QED
    BY <2>4, <2>5
<1>9. /\ offer' \in [Offer -> OfferRow] /\ b.status # "NONE"
      /\ offer'[o] = b /\ \A w \in Offer \ {o} : offer'[w] = offer[w]
  BY <1>8 DEF IInv, TypeOK
<1>10. PICK h \in Handler :
         /\ proc' = [proc EXCEPT ![p] = h] /\ Shape(h)
         /\ h.row = NoTicket /\ h.todo = proc[p].todo \ {r} /\ h.step \in {"idle", "listing"}
  BY <1>2, DoneFacts
<1>11. Holds(h)' /\ OwnKeys(p, h)
  BY <1>1, <1>2, <1>10, EndHolds DEF Exists
<1>12. TablesOK' /\ RowsInShape' /\ Grows(p)
  <2>1. TablesOK'
    BY <1>2, <1>9 DEF IInv, TypeOK, TablesOK
  <2>2. \A t \in Ticket : Exists(t)' <=> Exists(t)
    BY <1>2 DEF Exists
  <2>3. RowsInShape'
    BY <1>2, <1>6, <1>8, <1>9, <2>2 DEF IInv, RowsInShape
  <2>4. Grows(p)
    BY <1>1, <1>2, <1>4, <1>7, <1>8, <1>9, <2>2 DEF Grows
  <2> QED
    BY <2>1, <2>3, <2>4
<1>13. ASSUME NEW t \in Ticket \ {r} PROVE Frames(t)
  <2>1. offer[o].row # t
    BY <1>7, NoneAssumption DEF IInv, RowsInShape
  <2> QED
    BY <1>2, <1>8, <1>9, <2>1 DEF Frames, CopiesOf
<1>14. ASSUME r \notin disturbed
       PROVE  SoldOK(r)' /\ ListedOK(r)' /\ BidsOK(r)'
  <2>1. /\ SoldOK(r) /\ ListedOK(r) /\ BidsOK(r) /\ WorkingOn(r) \subseteq {p}
        /\ \A w \in Bids(r, "PENDING") \ {o} : offer[w].amount < a /\ offer[w].buyer # u
        /\ offer[o].status # "NONE" => o \in Bids(r, "PENDING") /\ offer[o].buyer = u
    BY <1>1, <1>3, <1>4, <1>5, <1>14 DEF RowOK, Knows, WorkingOn, Holding
  <2>2. SoldOK(r)'
    BY <1>2, <2>1 DEF SoldOK, CopiesOf
  <2>3. ListedOK(r)'
    BY <1>1, <1>2, <2>1 DEF ListedOK, WorkingOn
  <2>4. b.status = "PENDING" /\ b.buyer = u
    BY <1>8, <2>1 DEF Bids
  <2>5. /\ Bids(r, "PENDING")' = Bids(r, "PENDING") \cup {o}
        /\ Bids(r, "ACCEPTED")' \subseteq Bids(r, "ACCEPTED")
    BY <1>8, <1>9, <2>4 DEF Bids
  <2>6. ASSUME NEW w \in Bids(r, "PENDING")', w # o
        PROVE  /\ offer'[w] = offer[w] /\ w \in Bids(r, "PENDING")
               /\ offer'[w].buyer # offer'[o].buyer /\ offer'[w].amount # offer'[o].amount
    <3>1. offer'[w] = offer[w] /\ w \in Bids(r, "PENDING") \ {o}
      BY <1>9, <2>5, <2>6 DEF Bids
    <3>2. a \in Nat /\ offer[w].amount \in Nat
      <4>1. offer[w].amount \in Amount \cup {0}
        BY <3>1 DEF IInv, TypeOK, OfferRow, Bids
      <4>2. \A x \in Amount \cup {0} : x \in Nat
        BY AmountAssumption
      <4> QED
        BY <1>6, <4>1, <4>2
    <3>3. offer[w].amount < a /\ offer[w].buyer # u
      BY <2>1, <3>1
    <3> QED
      BY <1>8, <1>9, <2>4, <3>1, <3>2, <3>3
  <2>7. ASSUME NEW v \in Bids(r, "PENDING")', NEW w \in Bids(r, "PENDING")', v # w
        PROVE  offer'[v].buyer # offer'[w].buyer /\ offer'[v].amount # offer'[w].amount
    BY <2>1, <2>6, <2>7 DEF BidsOK
  <2>8. \A v, w \in Bids(r, "ACCEPTED")' : v = w
    BY <2>1, <2>5 DEF BidsOK
  <2> QED
    BY <2>2, <2>3, <2>7, <2>8 DEF BidsOK
<1> QED
  BY <1>1, <1>2, <1>3, <1>10, <1>11, <1>12, <1>13, <1>14, NoneAssumption, MoveInv

\* What the writes of an offer leave of its row.
LEMMA OfferStays ==
  ASSUME IInv, NEW p \in Process, NEW r \in Ticket \ disturbed, r = proc[p].row,
         proc[p].step \notin {"idle", "listing", "withdraw"},
         UNCHANGED <<ticket, listing>>
  PROVE  /\ Holding(r) \subseteq {p} /\ Knows(proc[p], r) /\ BidsOK(r)
         /\ SoldOK(r)' /\ ListedOK(r)'
<1>1. /\ Holding(r) \subseteq {p} /\ Knows(proc[p], r)
      /\ SoldOK(r) /\ ListedOK(r) /\ BidsOK(r)
  BY AtWork DEF RowOK
<1>2. SoldOK(r)'
  BY <1>1 DEF SoldOK, CopiesOf
<1>3. ListedOK(r)'
  BY <1>1 DEF ListedOK, WorkingOn, Holding
<1> QED
  BY <1>1, <1>2, <1>3

LEMMA ExpirePreviousInv ==
  ASSUME IInv, NEW p \in Process, ExpirePrevious(p)
  PROVE  IInv'
<1>1. PICK r \in Ticket : r = proc[p].row /\ proc[p].step = "lapse"
  BY AtWork DEF ExpirePrevious
<1>2. Goto(p, "accept") /\ UNCHANGED <<ticket, listing, invoice, disturbed, faults, requests>>
  BY DEF ExpirePrevious
<1>3. Shape(proc[p]) /\ Holds(proc[p])
  BY <1>1, AtWork
<1>4. PICK o \in Offer, w \in Offer : o = proc[p].offer /\ w = proc[p].previous /\ w # o
  BY <1>1, <1>3 DEF Shape
<1>5. offer[o].row = r /\ offer[w].row = r
  BY <1>1, <1>3, <1>4 DEF Holds
<1> DEFINE g == [offer[w] EXCEPT !.status = "EXPIRED"]
<1>6. PICK b \in OfferRow :
        /\ offer' = [offer EXCEPT ![w] = b] /\ b.status = "EXPIRED"
        /\ b.row = r /\ b.buyer = offer[w].buyer /\ b.amount = offer[w].amount
  <2>1. /\ g \in OfferRow /\ g.status = "EXPIRED"
        /\ g.row = r /\ g.buyer = offer[w].buyer /\ g.amount = offer[w].amount
    BY <1>5 DEF IInv, TypeOK, OfferRow
  <2>2. offer' = [offer EXCEPT ![w] = g]
    BY <1>4 DEF ExpirePrevious
  <2> HIDE DEF g
  <2> QED
    BY <2>1, <2>2
<1> HIDE DEF g
<1>7. /\ TablesOK' /\ RowsInShape' /\ Grows(p)
      /\ \A t \in Ticket \ {r} : Frames(t)
      /\ offer'[w] = b /\ \A v \in Offer \ {w} : offer'[v] = offer[v]
  BY <1>2, <1>5, <1>6, OfferUpdated
<1>8. PICK h \in Handler :
        /\ proc' = [proc EXCEPT ![p] = h] /\ h.step = "accept"
        /\ h.row = r /\ h.offer = o /\ h.todo = proc[p].todo
  BY <1>1, <1>2, <1>4, GotoFacts DEF Step
<1>9. Shape(h) /\ OwnKeys(p, h)
  BY <1>1, <1>3, <1>8 DEF Shape, OwnKeys
<1>10. Holds(h)'
  BY <1>1, <1>2, <1>3, <1>4, <1>5, <1>7, <1>8 DEF Holds, Exists
<1>11. ASSUME r \notin disturbed
       PROVE  Holding(r) \subseteq {p} /\ Knows(h, r)' /\ SoldOK(r)' /\ ListedOK(r)' /\ BidsOK(r)'
  <2>1. /\ Holding(r) \subseteq {p} /\ Knows(proc[p], r) /\ BidsOK(r)
        /\ SoldOK(r)' /\ ListedOK(r)'
    BY <1>1, <1>2, <1>11, OfferStays
  <2>2. /\ o \in Bids(r, "PENDING") /\ (proc[p].todo # {} => Best(o, r))
        /\ Bids(r, "ACCEPTED") \subseteq {w}
    BY <1>1, <1>4, <2>1 DEF Knows
  <2>3. /\ Bids(r, "PENDING")' \subseteq Bids(r, "PENDING") \ {w} /\ o \in Bids(r, "PENDING")'
        /\ Bids(r, "ACCEPTED")' = {}
    BY <1>4, <1>6, <1>7, <2>2 DEF Bids
  <2>4. BidsOK(r)'
    BY <1>7, <2>1, <2>3 DEF BidsOK, Bids
  <2>5. Best(o, r) => Best(o, r)'
    BY <1>7, <2>2, <2>3 DEF Best, Bids
  <2>6. Knows(h, r)'
    BY <1>8, <2>2, <2>3, <2>5 DEF Knows
  <2> QED
    BY <2>1, <2>4, <2>6
<1> QED
  BY <1>1, <1>2, <1>7, <1>8, <1>9, <1>10, <1>11, MoveInv

LEMMA AcceptWinnerInv ==
  ASSUME IInv, NEW p \in Process, AcceptWinner(p)
  PROVE  IInv'
<1>1. PICK r \in Ticket : r = proc[p].row /\ proc[p].step = "accept"
  BY AtWork DEF AcceptWinner
<1>2. Goto(p, "reject") /\ UNCHANGED <<ticket, listing, invoice, disturbed, faults, requests>>
  BY DEF AcceptWinner
<1>3. Shape(proc[p]) /\ Holds(proc[p])
  BY <1>1, AtWork
<1>4. PICK o \in Offer : o = proc[p].offer /\ offer[o].row = r
  BY <1>1, <1>3 DEF Shape, Holds
<1> DEFINE g == [offer[o] EXCEPT !.status = "ACCEPTED", !.late = FALSE]
<1>5. PICK b \in OfferRow :
        /\ offer' = [offer EXCEPT ![o] = b] /\ b.status = "ACCEPTED"
        /\ b.row = r /\ b.buyer = offer[o].buyer /\ b.amount = offer[o].amount
  <2>1. PICK c \in OfferRow : c = offer[o]
    BY DEF IInv, TypeOK
  <2>2. FALSE \in BOOLEAN
    OBVIOUS
  <2>3. g \in OfferRow
    BY <2>1, <2>2 DEF OfferRow
  <2>4. g.status = "ACCEPTED" /\ g.row = r /\ g.buyer = offer[o].buyer /\ g.amount = offer[o].amount
    BY <1>4, <2>1 DEF OfferRow
  <2>5. offer' = [offer EXCEPT ![o] = g]
    BY <1>4 DEF AcceptWinner
  <2> HIDE DEF g
  <2> QED
    BY <2>3, <2>4, <2>5
<1> HIDE DEF g
<1>6. /\ TablesOK' /\ RowsInShape' /\ Grows(p)
      /\ \A t \in Ticket \ {r} : Frames(t)
      /\ offer'[o] = b /\ \A v \in Offer \ {o} : offer'[v] = offer[v]
  <2>1. offer[o].row = r /\ b.row = r /\ b.status # "NONE"
    BY <1>4, <1>5
  <2>2. /\ b.buyer = offer[o].buyer /\ b.amount = offer[o].amount
        /\ offer' = [offer EXCEPT ![o] = b]
    BY <1>5
  <2>3. UNCHANGED <<ticket, listing, invoice, disturbed, faults, requests>>
    BY <1>2
  <2> QED
    BY <2>1, <2>2, <2>3, OfferUpdated
<1>7. PICK h \in Handler :
        /\ proc' = [proc EXCEPT ![p] = h] /\ h.step = "reject"
        /\ h.row = r /\ h.offer = o /\ h.todo = proc[p].todo
  BY <1>1, <1>2, <1>4, GotoFacts DEF Step
<1>8. Shape(h) /\ OwnKeys(p, h)
  BY <1>1, <1>3, <1>7 DEF Shape, OwnKeys
<1>9. Holds(h)'
  BY <1>1, <1>2, <1>3, <1>7 DEF Holds, Exists
<1>10. ASSUME r \notin disturbed
       PROVE  Holding(r) \subseteq {p} /\ Knows(h, r)' /\ SoldOK(r)' /\ ListedOK(r)' /\ BidsOK(r)'
  <2>1. /\ Holding(r) \subseteq {p} /\ Knows(proc[p], r) /\ BidsOK(r)
        /\ SoldOK(r)' /\ ListedOK(r)'
    BY <1>1, <1>2, <1>10, OfferStays
  <2>2. Bids(r, "ACCEPTED") = {}
    BY <1>1, <2>1 DEF Knows
  <2>3. /\ Bids(r, "PENDING")' \subseteq Bids(r, "PENDING") \ {o}
        /\ Bids(r, "ACCEPTED")' \subseteq {o}
    BY <1>5, <1>6, <2>2 DEF Bids
  <2>4. BidsOK(r)'
    BY <1>6, <2>1, <2>3 DEF BidsOK, Bids
  <2>5. Knows(h, r)'
    BY <1>7 DEF Knows
  <2> QED
    BY <2>1, <2>4, <2>5
<1> QED
  BY <1>1, <1>2, <1>6, <1>7, <1>8, <1>9, <1>10, MoveInv

LEMMA RejectOthersInv ==
  ASSUME IInv, NEW p \in Process, RejectOthers(p)
  PROVE  IInv'
<1>1. PICK r \in Ticket : r = proc[p].row /\ proc[p].step = "reject"
  BY AtWork DEF RejectOthers
<1>2. DoneWith(p, r) /\ UNCHANGED <<ticket, listing, invoice, disturbed, faults, requests>>
  BY <1>1 DEF RejectOthers, Done
<1>3. /\ offer' \in [Offer -> OfferRow]
      /\ \A o \in Offer : /\ offer'[o].row = offer[o].row /\ offer'[o].buyer = offer[o].buyer
                          /\ offer'[o].amount = offer[o].amount
                          /\ \/ offer'[o].status = offer[o].status
                             \/ /\ o \in Bids(r, "PENDING")
                                /\ offer'[o].status = "REJECTED"
  <2> DEFINE losers == Bids(r, "PENDING") \ {proc[p].offer}
             R(o) == [offer[o] EXCEPT !.status = "REJECTED"]
  <2>1. offer' = [o \in Offer |-> IF o \in losers THEN R(o) ELSE offer[o]]
    BY <1>1 DEF RejectOthers
  <2>2. ASSUME NEW o \in Offer
        PROVE  /\ R(o) \in OfferRow /\ R(o).status = "REJECTED" /\ R(o).row = offer[o].row
               /\ R(o).buyer = offer[o].buyer /\ R(o).amount = offer[o].amount
    BY DEF IInv, TypeOK, OfferRow
  <2>3. offer \in [Offer -> OfferRow] /\ losers \subseteq Bids(r, "PENDING")
    BY DEF IInv, TypeOK
  <2> HIDE DEF losers, R
  <2> QED
    BY <2>1, <2>2, <2>3
<1>4. PICK h \in Handler :
        /\ proc' = [proc EXCEPT ![p] = h] /\ Shape(h)
        /\ h.row = NoTicket /\ h.todo = proc[p].todo \ {r} /\ h.step \in {"idle", "listing"}
  BY <1>2, DoneFacts
<1>5. Holds(h)' /\ OwnKeys(p, h)
  BY <1>1, <1>2, <1>4, EndHolds DEF Exists
<1>6. TablesOK' /\ RowsInShape' /\ Grows(p)
  <2>1. \A t \in Ticket : Exists(t)' <=> Exists(t)
    BY <1>2 DEF Exists
  <2>2. \A o \in Offer : offer'[o].status = "NONE" <=> offer[o].status = "NONE"
    BY <1>3 DEF Bids
  <2>3. TablesOK'
    BY <1>2, <1>3 DEF IInv, TypeOK, TablesOK
  <2>4. RowsInShape'
    BY <1>2, <1>3, <2>1, <2>2 DEF IInv, RowsInShape
  <2>5. Grows(p)
    BY <1>2, <1>3, <2>1, <2>2 DEF Grows
  <2> QED
    BY <2>3, <2>4, <2>5
<1>7. ASSUME NEW t \in Ticket \ {r} PROVE Frames(t)
  BY <1>2, <1>3 DEF Frames, CopiesOf, Bids
<1>8. ASSUME r \notin disturbed
      PROVE  Holding(r) \subseteq {p} /\ SoldOK(r)' /\ ListedOK(r)' /\ BidsOK(r)'
  <2>1. Holding(r) \subseteq {p} /\ BidsOK(r) /\ SoldOK(r)' /\ ListedOK(r)'
    BY <1>1, <1>2, <1>8, OfferStays
  <2>2. /\ Bids(r, "PENDING")' \subseteq Bids(r, "PENDING")
        /\ Bids(r, "ACCEPTED")' \subseteq Bids(r, "ACCEPTED")
    BY <1>3 DEF Bids
  <2>3. BidsOK(r)'
    BY <1>3, <2>1, <2>2 DEF BidsOK, Bids
  <2> QED
    BY <2>1, <2>3
<1> QED
  BY <1>1, <1>2, <1>4, <1>5, <1>6, <1>7, <1>8, NoneAssumption, MoveInv

LEMMA ExpireWonInv ==
  ASSUME IInv, NEW p \in Process, ExpireWon(p)
  PROVE  IInv'
<1>1. PICK r \in Ticket : r = proc[p].row /\ proc[p].step = "late"
  BY AtWork DEF ExpireWon
<1>2. DoneWith(p, r) /\ UNCHANGED <<ticket, listing, invoice, disturbed, faults, requests>>
  BY <1>1 DEF ExpireWon, Done
<1>3. PICK o \in Offer : o = proc[p].offer /\ offer[o].row = r
  BY <1>1, AtWork DEF Shape, Holds
<1> DEFINE g == [offer[o] EXCEPT !.status = "EXPIRED"]
<1>4. PICK b \in OfferRow :
        /\ offer' = [offer EXCEPT ![o] = b] /\ b.status = "EXPIRED"
        /\ b.row = r /\ b.buyer = offer[o].buyer /\ b.amount = offer[o].amount
  <2>1. /\ g \in OfferRow /\ g.status = "EXPIRED"
        /\ g.row = r /\ g.buyer = offer[o].buyer /\ g.amount = offer[o].amount
    BY <1>3 DEF IInv, TypeOK, OfferRow
  <2>2. offer' = [offer EXCEPT ![o] = g]
    BY <1>3 DEF ExpireWon
  <2> HIDE DEF g
  <2> QED
    BY <2>1, <2>2
<1> HIDE DEF g
<1>5. /\ TablesOK' /\ RowsInShape' /\ Grows(p)
      /\ \A t \in Ticket \ {r} : Frames(t)
      /\ offer'[o] = b /\ \A v \in Offer \ {o} : offer'[v] = offer[v]
  <2>1. offer[o].row = r /\ b.row = r /\ b.status # "NONE"
    BY <1>3, <1>4
  <2>2. /\ b.buyer = offer[o].buyer /\ b.amount = offer[o].amount
        /\ offer' = [offer EXCEPT ![o] = b]
    BY <1>4
  <2>3. UNCHANGED <<ticket, listing, invoice, disturbed, faults, requests>>
    BY <1>2
  <2> QED
    BY <2>1, <2>2, <2>3, OfferUpdated
<1>6. PICK h \in Handler :
        /\ proc' = [proc EXCEPT ![p] = h] /\ Shape(h)
        /\ h.row = NoTicket /\ h.todo = proc[p].todo \ {r} /\ h.step \in {"idle", "listing"}
  BY <1>2, DoneFacts
<1>7. Holds(h)' /\ OwnKeys(p, h)
  BY <1>1, <1>2, <1>6, EndHolds DEF Exists
<1>8. ASSUME r \notin disturbed
      PROVE  Holding(r) \subseteq {p} /\ SoldOK(r)' /\ ListedOK(r)' /\ BidsOK(r)'
  <2>1. Holding(r) \subseteq {p} /\ BidsOK(r) /\ SoldOK(r)' /\ ListedOK(r)'
    BY <1>1, <1>2, <1>8, OfferStays
  <2>2. /\ Bids(r, "PENDING")' \subseteq Bids(r, "PENDING") \ {o}
        /\ Bids(r, "ACCEPTED")' \subseteq Bids(r, "ACCEPTED") \ {o}
    BY <1>4, <1>5 DEF Bids
  <2>3. BidsOK(r)'
    BY <1>5, <2>1, <2>2 DEF BidsOK, Bids
  <2> QED
    BY <2>1, <2>3
<1> QED
  BY <1>1, <1>2, <1>5, <1>6, <1>7, <1>8, NoneAssumption, MoveInv

\* The one write that inserts a ticket: r is handed over as its copy c.
LEMMA CommitSaleInv ==
  ASSUME IInv, NEW p \in Process, CommitSale(p)
  PROVE  IInv'
<1>1. PICK r \in Ticket : r = proc[p].row /\ proc[p].step = "sell"
  BY AtWork DEF CommitSale
<1>2. DoneWith(p, r) /\ UNCHANGED <<offer, invoice, disturbed, faults, requests>>
  BY <1>1 DEF CommitSale, Done
<1>3. /\ proc[p] \in Handler /\ Exists(r) /\ RowOK(r)
      /\ proc[p].copy \in Ticket /\ ~Exists(proc[p].copy)
      /\ r \notin disturbed => Holding(r) \subseteq {p} /\ listing[r].status = "ACTIVE"
  BY <1>1, AtWork DEF Shape, Holds, Knows
<1>4. PICK c \in Ticket, u \in User \cup {NoUser} :
        c = proc[p].copy /\ u = proc[p].by /\ ~Exists(c) /\ c # r
  BY <1>3 DEF Handler
<1>5. /\ CopiesOf(c) = {} /\ WorkingOn(c) = {} /\ listing[c].status = "NONE"
      /\ ticket[c].copyOf = NoTicket
  <2>1. CopiesOf(c) = {} /\ listing[c].status = "NONE" /\ ticket[c].copyOf = NoTicket
    BY <1>4 DEF IInv, RowsInShape, CopiesOf
  <2>2. WorkingOn(c) = {}
    BY <1>4 DEF IInv, HandlersHold, Holds, WorkingOn
  <2> QED
    BY <2>1, <2>2
<1> DEFINE old == [ticket[r] EXCEPT !.status = "TRANSFERRED"]
           new == Issued(u, r)
           sold == [listing[r] EXCEPT !.status = "SOLD", !.buyer = u]
<1>6. /\ ticket' \in [Ticket -> TicketRow]
      /\ ticket'[r].status = "TRANSFERRED" /\ ticket'[r].owner = ticket[r].owner
      /\ ticket'[r].copyOf = ticket[r].copyOf /\ ticket'[r].issuedTo = ticket[r].issuedTo
      /\ ticket'[c].status = "ACTIVE" /\ ticket'[c].issuedTo = u /\ ticket'[c].copyOf = r
      /\ ticket'[c].from = NoUser
      /\ \A t \in Ticket \ {r, c} : ticket'[t] = ticket[t]
  <2>1. /\ old \in TicketRow /\ old.status = "TRANSFERRED" /\ old.owner = ticket[r].owner
        /\ old.copyOf = ticket[r].copyOf /\ old.issuedTo = ticket[r].issuedTo
    BY DEF IInv, TypeOK, TicketRow, TicketStatus
  <2>2. new \in TicketRow
    BY IssuedRow
  <2>3. /\ new.status = "ACTIVE" /\ new.issuedTo = u /\ new.copyOf = r
        /\ new.from = NoUser
    BY IssuedRow
  <2>4. ticket' = [ticket EXCEPT ![r] = old, ![c] = new]
    BY <1>1, <1>4 DEF CommitSale
  <2> HIDE DEF old, new
  <2> QED
    BY <1>4, <2>1, <2>2, <2>3, <2>4 DEF IInv, TypeOK
<1>7. /\ listing' \in [Ticket -> ListingRow]
      /\ listing'[r].status = "SOLD" /\ listing'[r].buyer = u
      /\ \A t \in Ticket \ {r} : listing'[t] = listing[t]
  <2>1. sold \in ListingRow /\ sold.status = "SOLD" /\ sold.buyer = u
    BY DEF IInv, TypeOK, ListingRow
  <2>2. listing' = [listing EXCEPT ![r] = sold]
    BY <1>1, <1>4 DEF CommitSale
  <2> HIDE DEF sold
  <2> QED
    BY <2>1, <2>2 DEF IInv, TypeOK
<1> HIDE DEF old, new, sold
<1>8. /\ \A t \in Ticket : Exists(t)' <=> Exists(t) \/ t = c
      /\ CopiesOf(r)' = CopiesOf(r) \cup {c}
      /\ \A t \in Ticket \ {r} : CopiesOf(t)' = CopiesOf(t)
  <2>1. \A t \in Ticket : Exists(t)' <=> Exists(t) \/ t = c
    BY <1>3, <1>6 DEF Exists
  <2>2. \A t \in Ticket \ {c} : ticket'[t].copyOf = ticket[t].copyOf
    BY <1>6
  <2> QED
    BY <1>5, <1>6, <2>1, <2>2, NoneAssumption DEF CopiesOf
<1>9. PICK h \in Handler :
        /\ proc' = [proc EXCEPT ![p] = h] /\ Shape(h)
        /\ h.row = NoTicket /\ h.todo = proc[p].todo \ {r} /\ h.step \in {"idle", "listing"}
  BY <1>2, DoneFacts
<1>10. Holds(h)' /\ OwnKeys(p, h)
  BY <1>1, <1>8, <1>9, EndHolds
<1>11. TablesOK'
  BY <1>2, <1>6, <1>7 DEF IInv, TypeOK, TablesOK
<1>12. RowsInShape'
  BY <1>2, <1>3, <1>6, <1>7, <1>8, NoneAssumption DEF IInv, RowsInShape
<1>13. Grows(p)
  BY <1>1, <1>2, <1>4, <1>8 DEF Grows
<1>14. ASSUME NEW t \in Ticket \ {r} PROVE Frames(t)
  <2>1. c \notin CopiesOf(t)
    BY <1>5, NoneAssumption DEF CopiesOf
  <2>2. \A d \in CopiesOf(t) : ticket'[d].issuedTo = ticket[d].issuedTo
    BY <1>6, <2>1 DEF CopiesOf
  <2>3. \/ /\ ticket'[t].owner = ticket[t].owner /\ ticket'[t].status = ticket[t].status
           /\ ticket'[t].from = ticket[t].from
        \/ listing[t].status # "ACTIVE" /\ WorkingOn(t) = {} /\ ticket'[t].from = NoUser
    BY <1>5, <1>6
  <2> QED
    BY <1>2, <1>7, <1>8, <2>2, <2>3 DEF Frames
<1>15. ASSUME r \notin disturbed
       PROVE  SoldOK(r)' /\ ListedOK(r)' /\ BidsOK(r)'
  <2>1. CopiesOf(r) = {} /\ BidsOK(r)
    BY <1>3, <1>15 DEF RowOK, SoldOK
  <2>2. SoldOK(r)'
    BY <1>6, <1>7, <1>8, <2>1 DEF SoldOK
  <2>3. ListedOK(r)' /\ BidsOK(r)'
    BY <1>2, <1>6, <1>7, <2>1 DEF ListedOK, BidsOK, Bids
  <2> QED
    BY <2>2, <2>3
<1> QED
  BY <1>1, <1>2, <1>3, <1>9, <1>10, <1>11, <1>12, <1>13, <1>14, <1>15, NoneAssumption, MoveInv

----------------------------------------------------------------------------
\* The steps that are no handler's: every row but r is framed.
LEMMA OutsideInv ==
  ASSUME IInv, UNCHANGED proc, NEW r, TablesOK', RowsInShape', disturbed \subseteq disturbed',
         \A t \in Ticket : Exists(t)' <=> Exists(t),
         \A o \in Offer : offer'[o].row = offer[o].row /\ offer'[o].status = offer[o].status,
         UNCHANGED invoice, \A t \in Ticket \ {r} : Frames(t),
         r \in Ticket \ disturbed' =>
           Holding(r) = {} /\ SoldOK(r)' /\ ListedOK(r)' /\ BidsOK(r)'
  PROVE  IInv'
<1>1. TypeOK' /\ HandlersInShape'
  BY DEF IInv, TypeOK, TablesOK, HandlersInShape
<1>2. ASSUME NEW q \in Process
      PROVE  Shape(proc[q]) /\ Holds(proc[q]) /\ Holds(proc[q])'
  <2>1. Shape(proc[q]) /\ Holds(proc[q])
    BY DEF IInv, HandlersInShape, HandlersHold
  <2>2. Holds(proc[q])'
    BY <2>1 DEF Shape, Holds
  <2> QED
    BY <2>1, <2>2
<1>3. HandlersHold'
  BY <1>2 DEF HandlersHold
<1>4. KeysAreOwn'
  <2>1. \A q \in Process : proc[q].step = "bid" => proc[q].offer \in Offer
    BY <1>2 DEF Shape
  <2> QED
    BY <2>1 DEF IInv, KeysAreOwn
<1>5. \A t : Holding(t)' = Holding(t) /\ WorkingOn(t)' = WorkingOn(t)
  BY DEF Holding, WorkingOn
<1>6. ASSUME NEW t \in Ticket, t # r
      PROVE  RowOK(t)'
  <2>1. RowOK(t) /\ Frames(t)
    BY <1>6 DEF IInv
  <2>2. t \notin disturbed' => \A p, q \in Holding(t)' : p = q
    BY <1>5, <2>1 DEF RowOK
  <2>3. \A p \in WorkingOn(t) : /\ proc'[p] = proc[p] /\ Shape(proc[p])
                                /\ Holds(proc[p]) /\ Holds(proc[p])'
    BY <1>2 DEF WorkingOn
  <2> QED
    BY <1>5, <2>1, <2>2, <2>3, RowFramed
<1>7. ASSUME r \in Ticket
      PROVE  RowOK(r)'
  <2> SUFFICES ASSUME r \notin disturbed'
               PROVE  RowOK(r)'
    BY DEF RowOK
  <2>1. Holding(r)' = {} /\ WorkingOn(r)' = {}
    BY <1>5, <1>7 DEF Holding, WorkingOn
  <2> QED
    BY <1>7, <2>1 DEF RowOK
<1> QED
  BY <1>1, <1>3, <1>4, <1>6, <1>7 DEF IInv

\* A step of the rest of the system writes one row of Ticket; unless the row is disturbed
\* by it, nobody is at it and it is not brought back while it is listed.
LEMMA RowWritten ==
  ASSUME IInv, NEW r \in Ticket, Exists(r), NEW b \in TicketRow,
         ticket' = [ticket EXCEPT ![r] = b],
         b.status # "NONE", b.copyOf = ticket[r].copyOf, b.issuedTo = ticket[r].issuedTo,
         UNCHANGED <<listing, offer, invoice, proc>>,
         disturbed \subseteq disturbed', disturbed' \subseteq Ticket,
         faults' \in 0..MaxFaults, requests' \in 0..MaxRequests,
         r \notin disturbed' =>
           /\ ~Busy(r)
           /\ b.status \in {"PAID", "ACTIVE"} => b.from = NoUser
           /\ listing[r].status = "ACTIVE" /\ ticket[r].status \in {"ON_SALE", "CANCELED"}
              /\ ticket[r].from = NoUser =>
                /\ b.status = "CANCELED"
                /\ b.owner = ticket[r].owner /\ b.from = ticket[r].from
  PROVE  IInv'
<1>1. /\ ticket' \in [Ticket -> TicketRow]
      /\ ticket'[r] = b /\ \A t \in Ticket \ {r} : ticket'[t] = ticket[t]
      /\ \A t \in Ticket : /\ Exists(t)' <=> Exists(t)
                           /\ ticket'[t].issuedTo = ticket[t].issuedTo
                           /\ ticket'[t].copyOf = ticket[t].copyOf
      /\ \A t \in Ticket : CopiesOf(t)' = CopiesOf(t)
  BY TicketUpdated
<1>2. TablesOK'
  BY <1>1 DEF IInv, TypeOK, TablesOK
<1>3. RowsInShape'
  BY <1>1, NoneAssumption DEF IInv, RowsInShape
<1>4. ASSUME NEW t \in Ticket \ {r} PROVE Frames(t)
  BY <1>1 DEF Frames, CopiesOf
<1>5. ASSUME r \notin disturbed'
      PROVE  Holding(r) = {} /\ SoldOK(r)' /\ ListedOK(r)' /\ BidsOK(r)'
  <2>1. Holding(r) = {} /\ WorkingOn(r) = {}
    BY <1>5, NoneAssumption DEF Busy, Touches, Holding, WorkingOn
  <2>2. SoldOK(r) /\ ListedOK(r) /\ BidsOK(r)
    BY <1>5 DEF IInv, RowOK
  <2>3. SoldOK(r)' /\ BidsOK(r)'
    BY <1>1, <2>2 DEF SoldOK, BidsOK, Bids, CopiesOf
  <2>4. ListedOK(r)'
    BY <1>1, <1>5, <2>1, <2>2 DEF ListedOK
  <2> QED
    BY <2>1, <2>3, <2>4
<1> QED
  BY <1>1, <1>2, <1>3, <1>4, <1>5, OutsideInv

\* Every row written by hand is disturbed.
LEMMA AdminInv ==
  ASSUME IInv, NEW r \in Ticket,
         \/ \E s \in Overrides : AdminSetStatus(r, s)
         \/ \E v \in User : AdminTransfer(r, v)
  PROVE  IInv'
<1>1. /\ Exists(r) /\ disturbed' = disturbed \cup {r}
      /\ faults < MaxFaults /\ faults' = faults + 1
      /\ UNCHANGED <<listing, offer, invoice, proc, requests>>
  BY DEF AdminSetStatus, AdminTransfer, Override, Exists
<1>2. PICK b \in TicketRow :
        /\ ticket' = [ticket EXCEPT ![r] = b] /\ b.status # "NONE"
        /\ b.copyOf = ticket[r].copyOf /\ b.issuedTo = ticket[r].issuedTo
  <2>1. PICK a \in TicketRow : a = ticket[r]
    BY DEF IInv, TypeOK
  <2>2. CASE \E s \in Overrides : AdminSetStatus(r, s)
    <3>1. PICK s \in Overrides : ticket' = [ticket EXCEPT ![r].status = s]
      BY <2>2 DEF AdminSetStatus
    <3>2. s \in TicketStatus /\ s # "NONE"
      BY OverridesAssumption DEF TicketStatus
    <3> DEFINE g == [a EXCEPT !.status = s]
    <3>3. /\ g \in TicketRow /\ g.status = s /\ g.copyOf = a.copyOf
          /\ g.issuedTo = a.issuedTo
      BY <3>2 DEF TicketRow
    <3>4. ticket' = [ticket EXCEPT ![r] = g]
      BY <2>1, <3>1
    <3> HIDE DEF g
    <3> QED
      BY <2>1, <3>2, <3>3, <3>4
  <2>3. CASE \E v \in User : AdminTransfer(r, v)
    <3>1. PICK v \in User :
            ticket' = [ticket EXCEPT ![r].owner = v, ![r].status = "TRANSFERRED"]
      BY <2>3 DEF AdminTransfer
    <3> DEFINE g == [a EXCEPT !.owner = v, !.status = "TRANSFERRED"]
    <3>2. /\ g \in TicketRow /\ g.status = "TRANSFERRED" /\ g.copyOf = a.copyOf
          /\ g.issuedTo = a.issuedTo
      BY DEF TicketRow, TicketStatus
    <3>3. ticket' = [ticket EXCEPT ![r] = g]
      BY <2>1, <3>1
    <3> HIDE DEF g
    <3> QED
      BY <2>1, <3>2, <3>3
  <2> QED
    BY <2>2, <2>3
<1>3. faults' \in 0..MaxFaults /\ requests' \in 0..MaxRequests /\ disturbed' \subseteq Ticket
  BY <1>1, BoundsAssumption DEF IInv, TypeOK
<1> QED
  BY <1>1, <1>2, <1>3, RowWritten

\* Transfers, the door and the cancellation leave a listed row alone, but for a deletion.
LEMMA ElsewhereInv ==
  ASSUME IInv, NEW r \in Ticket, Elsewhere(r), requests' \in 0..MaxRequests
  PROVE  IInv'
<1>1. /\ UNCHANGED <<listing, offer, invoice, proc, faults>>
      /\ disturbed' = disturbed \cup (IF Busy(r) THEN {r} ELSE {}) /\ Exists(r)
  BY DEF Elsewhere, Exists
<1>2. PICK a \in TicketRow : a = ticket[r]
  BY DEF IInv, TypeOK
<1>3. ASSUME NEW b \in TicketRow, ticket' = [ticket EXCEPT ![r] = b],
             b.status # "NONE", b.copyOf = a.copyOf, b.issuedTo = a.issuedTo,
             b.status \in {"PAID", "ACTIVE"} => b.from = NoUser,
             a.status \in {"ON_SALE", "CANCELED"} /\ a.from = NoUser =>
               b.status = "CANCELED" /\ b.owner = a.owner /\ b.from = a.from
      PROVE  IInv'
  <2>1. /\ disturbed \subseteq disturbed' /\ disturbed' \subseteq Ticket
        /\ faults' \in 0..MaxFaults
        /\ r \notin disturbed' => ~Busy(r)
    BY <1>1 DEF IInv, TypeOK
  <2> QED
    BY <1>1, <1>2, <1>3, <2>1, RowWritten
<1>4. CASE SendTransfer(r, a)
  <2> DEFINE b == [a EXCEPT !.status = "FROZEN", !.from = a.owner]
  <2>1. b \in TicketRow /\ b.status = "FROZEN" /\ b.copyOf = a.copyOf /\ b.issuedTo = a.issuedTo
    BY DEF TicketRow, TicketStatus
  <2>2. ticket' = [ticket EXCEPT ![r] = b] /\ a.status \in {"PAID", "ACTIVE"}
    BY <1>2, <1>4 DEF SendTransfer
  <2> HIDE DEF b
  <2> QED
    BY <1>3, <2>1, <2>2
<1>5. CASE \E v \in User : TransferTicket(r, a, v)
  <2>1. PICK v \in User, from \in {NoUser, a.owner} :
          /\ a.status \in {"PAID", "ACTIVE"}
          /\ ticket' = [ticket EXCEPT ![r].status = "TRANSFERRED", ![r].owner = v,
                                      ![r].from = from]
    BY <1>5 DEF TransferTicket
  <2> DEFINE b == [a EXCEPT !.status = "TRANSFERRED", !.owner = v, !.from = from]
  <2>2. /\ b \in TicketRow /\ b.status = "TRANSFERRED" /\ b.copyOf = a.copyOf
        /\ b.issuedTo = a.issuedTo
    BY DEF TicketRow, TicketStatus
  <2>3. ticket' = [ticket EXCEPT ![r] = b]
    BY <1>2, <2>1
  <2> HIDE DEF b
  <2> QED
    BY <1>3, <2>1, <2>2, <2>3
<1>6. CASE SettleTransfer(r, a)
  <2>1. CASE ticket' = [ticket EXCEPT ![r].status = "TRANSFERRED", ![r].from = NoUser]
    <3> DEFINE b == [a EXCEPT !.status = "TRANSFERRED", !.from = NoUser]
    <3>1. /\ b \in TicketRow /\ b.status = "TRANSFERRED" /\ b.copyOf = a.copyOf
          /\ b.issuedTo = a.issuedTo
      BY DEF TicketRow, TicketStatus
    <3>2. ticket' = [ticket EXCEPT ![r] = b] /\ a.from # NoUser
      BY <1>2, <1>6, <2>1 DEF SettleTransfer
    <3> HIDE DEF b
    <3> QED
      BY <1>3, <3>1, <3>2
  <2>2. CASE ticket' = [ticket EXCEPT ![r].status = "ACTIVE", ![r].owner = a.from,
                                     ![r].from = NoUser]
    <3> DEFINE b == [a EXCEPT !.status = "ACTIVE", !.owner = a.from, !.from = NoUser]
    <3>1. /\ b \in TicketRow /\ b.status = "ACTIVE" /\ b.copyOf = a.copyOf
          /\ b.issuedTo = a.issuedTo /\ b.from = NoUser
      BY DEF TicketRow, TicketStatus
    <3>2. ticket' = [ticket EXCEPT ![r] = b] /\ a.from # NoUser
      BY <1>2, <1>6, <2>2 DEF SettleTransfer
    <3> HIDE DEF b
    <3> QED
      BY <1>3, <3>1, <3>2
  <2> QED
    BY <1>6, <2>1, <2>2 DEF SettleTransfer
<1>7. CASE ScanOrCancel(r, a)
  <2>1. CASE /\ a.status \in {"PAID", "ACTIVE", "TRANSFERRED"}
             /\ ticket' = [ticket EXCEPT ![r].status = "USED", ![r].unused = FALSE]
    <3> DEFINE b == [a EXCEPT !.status = "USED", !.unused = FALSE]
    <3>1. b \in TicketRow /\ b.status = "USED" /\ b.copyOf = a.copyOf /\ b.issuedTo = a.issuedTo
      BY DEF TicketRow, TicketStatus
    <3>2. ticket' = [ticket EXCEPT ![r] = b]
      BY <1>2, <2>1
    <3> HIDE DEF b
    <3> QED
      BY <1>3, <2>1, <3>1, <3>2
  <2>2. CASE ticket' = [ticket EXCEPT ![r].status = "CANCELED"]
    <3> DEFINE b == [a EXCEPT !.status = "CANCELED"]
    <3>1. /\ b \in TicketRow /\ b.status = "CANCELED" /\ b.copyOf = a.copyOf
          /\ b.issuedTo = a.issuedTo /\ b.owner = a.owner /\ b.from = a.from
      BY DEF TicketRow, TicketStatus
    <3>2. ticket' = [ticket EXCEPT ![r] = b]
      BY <1>2, <2>2
    <3> HIDE DEF b
    <3> QED
      BY <1>3, <3>1, <3>2
  <2> QED
    BY <1>7, <2>1, <2>2 DEF ScanOrCancel
<1> QED
  BY <1>2, <1>4, <1>5, <1>6, <1>7 DEF Elsewhere

LEMMA FallDueInv ==
  ASSUME IInv, NEW r \in Ticket, FallDue(r)
  PROVE  IInv'
<1>1. UNCHANGED <<ticket, offer, invoice, proc, disturbed, faults, requests>>
  BY DEF FallDue
<1> DEFINE g == [listing[r] EXCEPT !.due = TRUE]
<1>2. PICK l \in ListingRow :
        /\ listing' = [listing EXCEPT ![r] = l] /\ l.status = listing[r].status
        /\ l.seller = listing[r].seller /\ l.buyer = listing[r].buyer
  <2>1. PICK a \in ListingRow : a = listing[r]
    BY DEF IInv, TypeOK
  <2>2. TRUE \in BOOLEAN
    OBVIOUS
  <2>3. g \in ListingRow
    BY <2>1, <2>2 DEF ListingRow
  <2>4. /\ g.status = listing[r].status
        /\ g.seller = listing[r].seller /\ g.buyer = listing[r].buyer
    BY <2>1 DEF ListingRow
  <2>5. listing' = [listing EXCEPT ![r] = g]
    BY DEF FallDue
  <2> HIDE DEF g
  <2> QED
    BY <2>3, <2>4, <2>5
<1> HIDE DEF g
<1>3. /\ listing' \in [Ticket -> ListingRow]
      /\ \A t \in Ticket : /\ listing'[t].status = listing[t].status
                           /\ listing'[t].seller = listing[t].seller
                           /\ listing'[t].buyer = listing[t].buyer
  BY <1>2 DEF IInv, TypeOK
<1>4. TablesOK' /\ RowsInShape'
  BY <1>1, <1>3 DEF IInv, TypeOK, TablesOK, RowsInShape, Exists
<1>5. \A t \in Ticket : Frames(t) /\ (Exists(t)' <=> Exists(t))
  BY <1>1, <1>3 DEF Frames, CopiesOf, Exists
<1> QED
  BY <1>1, <1>4, <1>5, NoneAssumption, OutsideInv

LEMMA WindowClosesInv ==
  ASSUME IInv, NEW o \in Offer, WindowCloses(o)
  PROVE  IInv'
<1>1. UNCHANGED <<ticket, listing, invoice, proc, disturbed, faults, requests>>
  BY DEF WindowCloses
<1> DEFINE g == [offer[o] EXCEPT !.late = TRUE]
<1>2. PICK b \in OfferRow :
        /\ offer' = [offer EXCEPT ![o] = b] /\ b.status = offer[o].status
        /\ b.row = offer[o].row /\ b.buyer = offer[o].buyer /\ b.amount = offer[o].amount
  <2>1. PICK a \in OfferRow : a = offer[o]
    BY DEF IInv, TypeOK
  <2>2. TRUE \in BOOLEAN
    OBVIOUS
  <2>3. g \in OfferRow
    BY <2>1, <2>2 DEF OfferRow
  <2>4. /\ g.status = offer[o].status /\ g.row = offer[o].row
        /\ g.buyer = offer[o].buyer /\ g.amount = offer[o].amount
    BY <2>1 DEF OfferRow
  <2>5. offer' = [offer EXCEPT ![o] = g]
    BY DEF WindowCloses
  <2> HIDE DEF g
  <2> QED
    BY <2>3, <2>4, <2>5
<1> HIDE DEF g
<1>3. /\ offer' \in [Offer -> OfferRow]
      /\ \A w \in Offer : /\ offer'[w].status = offer[w].status /\ offer'[w].row = offer[w].row
                          /\ offer'[w].buyer = offer[w].buyer
                          /\ offer'[w].amount = offer[w].amount
  BY <1>2 DEF IInv, TypeOK
<1>4. TablesOK' /\ RowsInShape'
  BY <1>1, <1>3 DEF IInv, TypeOK, TablesOK, RowsInShape, Exists
<1>5. \A t \in Ticket : Frames(t) /\ (Exists(t)' <=> Exists(t))
  BY <1>1, <1>3 DEF Frames, CopiesOf, Exists
<1> QED
  BY <1>1, <1>3, <1>4, <1>5, NoneAssumption, OutsideInv

----------------------------------------------------------------------------
LEMMA BeginInv ==
  ASSUME IInv, NEW p \in Process, Begin(p), requests' \in 0..MaxRequests
  PROVE  IInv'
BY CreateListingInv, CancelListingInv, PlaceOfferInv, AcceptOfferInv, PurchaseListingInv,
   WonAuctionsInv, PaymentApprovedInv DEF Begin

LEMMA ContinueInv ==
  ASSUME IInv, NEW p \in Process, Continue(p)
  PROVE  IInv'
BY CommitListingInv, RestoreTicketInv, WithdrawListingInv, FindMyOfferInv, WriteOfferInv,
   ReadOfferInv, ReadPreviousInv, ExpirePreviousInv, AcceptWinnerInv, RejectOthersInv,
   ReadListingInv, ReadWinnerInv, ReadBestInv, ExpireListingInv, CheckDeadlineInv,
   ExpireWonInv, FindInvoiceInv, IssueInvoiceInv, ApproveTransactionInv, PayInvoiceInv,
   ConfirmSaleInv, CommitSaleInv DEF Continue

LEMMA StutterInv ==
  ASSUME IInv, UNCHANGED vars
  PROVE  IInv'
<1>1. UNCHANGED <<ticket, listing, offer, invoice, proc, disturbed, faults, requests>>
  BY DEF vars
<1>2. TablesOK' /\ RowsInShape'
  BY <1>1 DEF IInv, TypeOK, TablesOK, RowsInShape, Exists
<1>3. \A t \in Ticket : Frames(t) /\ (Exists(t)' <=> Exists(t))
  BY <1>1 DEF Frames, CopiesOf, Exists
<1> QED
  BY <1>1, <1>2, <1>3, NoneAssumption, OutsideInv

LEMMA NextInv == IInv /\ [Next]_vars => IInv'
<1> SUFFICES ASSUME IInv, [Next]_vars PROVE IInv'
  OBVIOUS
<1>1. CASE UNCHANGED vars
  BY <1>1, StutterInv
<1>2. CASE requests < MaxRequests /\ requests' = requests + 1
           /\ ((\E p \in Request : Begin(p))
               \/ (\E t \in Ticket : Elsewhere(t)))
  <2>1. requests' \in 0..MaxRequests
    BY <1>2, BoundsAssumption DEF IInv, TypeOK
  <2> QED
    BY <1>2, <2>1, BeginInv, ElsewhereInv DEF Process
<1>3. CASE ExpireSales
  BY <1>3, ExpireSalesInv
<1>4. CASE \E p \in Process : Continue(p) \/ Fail(p)
  BY <1>4, ContinueInv, FailInv
<1>5. CASE \E t \in Ticket : FallDue(t)
  BY <1>5, FallDueInv
<1>6. CASE \E o \in Offer : WindowCloses(o)
  BY <1>6, WindowClosesInv
<1>7. CASE \/ \E t \in Ticket, s \in Overrides : AdminSetStatus(t, s)
           \/ \E t \in Ticket, v \in User : AdminTransfer(t, v)
  BY <1>7, AdminInv
<1> QED
  BY <1>1, <1>2, <1>3, <1>4, <1>5, <1>6, <1>7 DEF Next

\* Every reachable state satisfies the inductive invariant: a calm row has one handler,
\* and what that handler read of it is still so.
THEOREM Invariance == Spec => []IInv
<1> QED
  BY InitInv, NextInv, PTL DEF Spec

\* Type correctness of the tables and the handlers.
THEOREM TypeCorrect == Spec => []TypeOK
<1>1. IInv => TypeOK
  BY DEF IInv
<1> QED
  BY <1>1, Invariance, PTL

\* What is offered for sale can be handed over: an active listing no handler is at holds
\* its ticket, ON_SALE and in the seller's name (tickets_sale_listing.service.ts).
THEOREM ListingCorrect == Spec => []ListingHoldsTicket
<1>1. IInv => ListingHoldsTicket
  <2> SUFFICES ASSUME IInv, NEW t \in Calm, listing[t].status = "ACTIVE", ~Busy(t)
               PROVE  /\ ticket[t].status \in {"ON_SALE", "CANCELED"}
                      /\ ticket[t].owner = listing[t].seller /\ CopiesOf(t) = {}
    BY DEF ListingHoldsTicket
  <2>1. t \in Ticket /\ SoldOK(t) /\ ListedOK(t)
    BY DEF Calm, IInv, RowOK
  <2>2. WorkingOn(t) = {}
    BY <2>1, NoneAssumption DEF Busy, Touches, WorkingOn
  <2> QED
    BY <2>1, <2>2 DEF SoldOK, ListedOK
<1> QED
  BY <1>1, Invariance, PTL

\* A ticket is sold once, to the buyer its listing names: late, repeated and competing
\* payments of one listing leave one replacement of the row.
THEOREM SaleCorrect == Spec => []SoldOnce
<1>1. IInv => SoldOnce
  BY DEF SoldOnce, Calm, IInv, RowOK, SoldOK
<1> QED
  BY <1>1, Invariance, PTL

\* An auction has one winner with a payment window at a time, though the seller and the
\* job both accept offers and a lapsed winner is replaced.
THEOREM WinnerCorrect == Spec => []OneWinner
<1>1. IInv => OneWinner
  BY DEF OneWinner, Calm, IInv, RowOK, BidsOK
<1> QED
  BY <1>1, Invariance, PTL

\* Two pending offers of one auction have two buyers and two amounts.
THEOREM BidsCorrect == Spec => []BidsRise
<1>1. IInv => BidsRise
  BY DEF BidsRise, Calm, IInv, RowOK, BidsOK
<1> QED
  BY <1>1, Invariance, PTL

\* The offer the job accepts is still the highest one pending when it is written.
THEOREM AuctionCorrect == Spec => []BestBidWins
<1>1. IInv => BestBidWins
  <2> SUFFICES ASSUME IInv, NEW p \in Process, proc[p].step = "accept", proc[p].todo # {},
                      proc[p].row \in Calm
               PROVE  /\ proc[p].offer \in Bids(proc[p].row, "PENDING")
                      /\ \A o \in Bids(proc[p].row, "PENDING") :
                           offer[o].amount <= offer[proc[p].offer].amount
    BY DEF BestBidWins
  <2>1. Knows(proc[p], proc[p].row)
    BY AtWork DEF Calm
  <2> QED
    BY <2>1 DEF Knows, Best
<1> QED
  BY <1>1, Invariance, PTL

=============================================================================
