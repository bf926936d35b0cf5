------------------------------ MODULE Checkout ------------------------------
(***************************************************************************)
(* Buying tickets of one event: the quote of createInvoice, with quotas,   *)
(* discount code and promoter code, the settlement of a paid invoice by    *)
(* the webhook, and the organizer who edits localities, stages and codes   *)
(* meanwhile.  Composed with PromoterProgram, whose codes it reads and     *)
(* whose balances it writes.  Left out: points and the delivery of the     *)
(* webhook (Payment), guests of private events, and the buyer's document.  *)
(***************************************************************************)
EXTENDS PromoterProgram, Sequences, FiniteSets, Functions

CONSTANTS
  Locality, \* localities of the event
  Stage,    \* their stages
  Cart,     \* what buyers ask for: sequences of [stage, locality, qty]
  Price,    \* prices of a stage
  Quota,    \* numbers of tickets of a locality, 0 for none
  Limit,    \* values of Event.num_max_tickets, 0 for none
  Offer,    \* discounts an organizer creates: [type, value, max, min]
  Edit,     \* edits of a discount: [type, value], 0 for what is not given
  Rule      \* reward rules of the event

ASSUME CartAssumption ==
  Cart \subseteq Seq([stage: Stage, locality: Locality, qty: Nat \ {0}]) \ {<<>>}
\* Ids are integers of bounded width.
ASSUME FiniteAssumption == IsFiniteSet(Invoice)
ASSUME NumbersAssumption == Price \subseteq Nat \ {0} /\ Quota \subseteq Nat /\ Limit \subseteq Nat
ASSUME OfferAssumption ==
  \A o \in Offer : /\ o.type \in {1, 2} /\ o.value \in Nat \ {0} /\ (o.type = 1 => o.value <= 100)
                   /\ o.max \in Nat /\ o.min \in Nat
ASSUME EditAssumption == \A e \in Edit : e.type \in 0..2 /\ e.value \in Nat
ASSUME RuleAssumption ==
  \A r \in Rule : /\ r.amount \in Nat /\ r.min \in Nat /\ r.original \in BOOLEAN
                  /\ r.cutType \in 0..2 /\ r.cutValue \in Nat

VARIABLES
  event,     \* status and num_max_tickets of an approved event
  stage,     \* the EventStages table: locality_id and price_ticket
  locality,  \* the EventLocalities table: num_max_tickets and num_tickets_sold
  discount,  \* the one EventDcto row
  rule,      \* the EventRewardRules row
  invoice,   \* the Invoice table with its InvoiceTickets rows
  till,      \* what every handler in flight has read and where it is
  given,     \* history: invoices made with the discount code since it was created
  contended  \* history: localities and codes on which two buyers met, or an edit, and
             \* localities that were named with the stage of another

catalog == <<event, stage, locality, discount, rule>>
saleVars == <<catalog, invoice, till, given, contended>>
vars == <<promoterVars, saleVars, faults, requests>>

----------------------------------------------------------------------------
EventStatus == {"SCHEDULED", "ACTIVE", "FINALIZED"}

NoDiscount == [type |-> 0, value |-> 0, max |-> 0, min |-> 0, active |-> FALSE, uses |-> 0]
Created(o) == [type |-> o.type, value |-> o.value, max |-> o.max, min |-> o.min,
               active |-> TRUE, uses |-> 0]

\* items are InvoiceTickets rows; type and value say which discount was applied.
NoInvoice == [status |-> "none", items |-> <<>>, regular |-> 0, total |-> 0, type |-> 0,
              value |-> 0, commission |-> 0]

\* What a handler works on: a sale (cart to commission, and the invoice once it is
\* inserted) or an edit (stage or locality and n, or type, value and active).  named: the request
\* has a discount code; valid: it was found and applied.
Closed == [step |-> "idle", cart |-> <<>>, prices |-> <<>>, named |-> FALSE, valid |-> FALSE,
           code |-> None, type |-> 0, value |-> 0, regular |-> 0, base |-> 0,
           commission |-> 0, invoice |-> None, stage |-> None, locality |-> None, n |-> 0,
           active |-> FALSE]

\* Tickets of the items in localities L.
QtyIn(items, L) ==
  SumFunction([k \in DOMAIN items |-> IF items[k].locality \in L THEN items[k].qty ELSE 0])
QtyOf(items) == QtyIn(items, Locality)
LocalitiesOf(items) == {items[k].locality : k \in DOMAIN items}

\* Math.round(x * v / 100).
Percent(x, v) == (2 * x * v + 100) \div 200

AtLeast0(n) == IF n < 0 THEN 0 ELSE n

\* Variant: the discount is rounded down.
AfterDiscountDown(x, type, value) ==
  CASE type = 1 -> x - (x * value) \div 100
    [] type = 2 -> AtLeast0(x - value)
    [] OTHER    -> x

\* What is left of a price after a discount, a percentage (1) or an amount (2).
AfterDiscount(x, type, value) ==
  CASE type = 1 -> x - Percent(x, value)
    [] type = 2 -> AtLeast0(x - value)
    [] OTHER    -> x

\* calculatePromoterCommission.
CommissionOf(r, base, qty) ==
  CASE r.reward = "PERCENTAGE" -> Percent(base, r.amount)
    [] r.reward = "FIXED_AMOUNT" -> IF qty < r.min THEN 0 ELSE r.amount
    [] OTHER -> 0

\* Tickets of invoice i in localities L that were issued, if it is paid: for all the
\* localities what countTotalTicketsSoldByEventId sums.
IssuedIn(i, L) ==
  IF invoice[i].status # "PAID" THEN 0
  ELSE SumFunction([k \in DOMAIN invoice[i].items |->
         LET r == invoice[i].items[k] IN IF r.issued /\ r.locality \in L THEN r.qty ELSE 0])
SoldIn(L) == SumFunction([i \in Invoice |-> IssuedIn(i, L)])

\* Localities with a sale under way: quoted, or billed and not counted yet.
Outstanding ==
  (UNION {LocalitiesOf(till[p].cart) : p \in Request})
    \cup (UNION {LocalitiesOf(invoice[i].items) : i \in {j \in Invoice :
                   invoice[j].status = "ISSUED" \/ \E p \in Request : till[p].invoice = j}})
NameInUse == \E p \in Request : till[p].named

Key == ({"locality"} \X Locality) \cup ({"invoice"} \X Invoice) \cup {"event", "code"} \X {None}

----------------------------------------------------------------------------
Init ==
  /\ PromoterInit
  /\ event \in [status: {"SCHEDULED"}, max: Limit]
  /\ stage \in [Stage -> [locality: Locality, price: Price]]
  /\ locality \in [Locality -> [quota: Quota, sold: {0}]]
  /\ discount \in {Created(o) : o \in Offer}
  /\ rule \in Rule
  /\ invoice = [i \in Invoice |-> NoInvoice]
  /\ till = [p \in Request |-> Closed]
  /\ given = 0
  /\ contended = {}
  /\ faults = 0
  /\ requests = 0

Free(p) == till[p].step = "idle"
Close(p) == till' = [till EXCEPT ![p] = Closed]
Goto(p, s) == till' = [till EXCEPT ![p].step = s]

\* Neither the programme nor the counts of faults and requests change.
SaleOnly == UNCHANGED <<promoterVars, faults, requests>>
Asked == requests < MaxRequests /\ requests' = requests + 1 /\ UNCHANGED <<promoterVars, faults>>

----------------------------------------------------------------------------
\* A buyer went past the checks of the quotas, with the prices of that moment.
Quote(p, cart, named, c) ==
  LET prices   == [k \in DOMAIN cart |-> stage[cart[k].stage].price]
      twice    == {k \in DOMAIN cart : \E n \in DOMAIN cart \ {k} :
                                         cart[n].locality = cart[k].locality}
      misnamed == {k \in DOMAIN cart : stage[cart[k].stage].locality # cart[k].locality}
  IN
  /\ Free(p)
  /\ till' = [till EXCEPT ![p] = [Closed EXCEPT
       !.step = "quote", !.cart = cart, !.prices = prices, !.named = named, !.code = c,
       !.regular = SumFunction([k \in DOMAIN cart |-> prices[k] * cart[k].qty])]]
  /\ contended' = contended
       \cup ({"locality"} \X (LocalitiesOf(cart) \cap Outstanding))
       \cup {<<"locality", cart[k].locality>> : k \in twice \cup misnamed}
       \cup (IF Outstanding # {} THEN {<<"event", None>>} ELSE {})
       \cup (IF named /\ NameInUse THEN {<<"code", None>>} ELSE {})
  /\ UNCHANGED <<catalog, invoice, given>>

\* createInvoice reads the event, the tickets sold, and the stage of each item and its
\* locality, with whose quota the item is compared by itself.  The locality the item names
\* is not compared with the stage's.
ReadCart(p, cart, named, c) ==
  /\ event.status # "FINALIZED"
  /\ event.max = 0 \/ SoldIn(Locality) + QtyOf(cart) <= event.max
  /\ \A k \in DOMAIN cart : LET l == locality[stage[cart[k].stage].locality] IN
       l.quota = 0 \/ cart[k].qty <= l.quota - l.sold
  /\ Quote(p, cart, named, c)

\* Variant: the uses are not looked at.
RefusedIfInactive(h) ==
  /\ h.named
  /\ discount.type # 0
  /\ \/ ~discount.active
     \/ QtyOf(h.cart) < discount.min

\* A code that is found must be active, not used up and meant for as many tickets.
Refused(h) ==
  /\ h.named
  /\ discount.type # 0
  /\ \/ ~discount.active
     \/ discount.max # 0 /\ discount.uses >= discount.max
     \/ QtyOf(h.cart) < discount.min

\* The discount code and then the promoter's code, whose rule may grant a discount of its
\* own that replaces the other.
ReadDiscounts(p) ==
  LET h     == till[p]
      valid == h.named /\ discount.type # 0
      promo == h.code # None /\ code[h.code].status = "active"
      cut   == promo /\ rule.cutType # 0
      type  == IF cut THEN rule.cutType ELSE IF valid THEN discount.type ELSE 0
      value == IF cut THEN rule.cutValue ELSE IF valid THEN discount.value ELSE 0
      base  == AfterDiscount(h.regular, type, value)
  IN
  /\ h.step = "quote"
  /\ IF Refused(h) THEN Close(p)
     ELSE till' = [till EXCEPT ![p] = [h EXCEPT
            !.step = "insert", !.valid = valid, !.code = IF promo THEN h.code ELSE None,
            !.type = type, !.value = value, !.base = base,
            !.commission = IF promo
                           THEN CommissionOf(rule, IF rule.original THEN h.regular ELSE base,
                                             QtyOf(h.cart))
                           ELSE 0]]
  /\ SaleOnly /\ UNCHANGED <<catalog, invoice, given, contended>>

\* The foreign key refuses a code that was deleted since.
InsertInvoice(p) ==
  LET h == till[p] IN
  /\ h.step = "insert"
  /\ IF h.code # None /\ ~Exists(h.code)
     THEN Close(p) /\ UNCHANGED <<invoice, promoterCode, given>>
     ELSE \E i \in Invoice :
            /\ invoice[i] = NoInvoice
            /\ invoice' = [invoice EXCEPT ![i] =
                 [NoInvoice EXCEPT !.status = "ISSUED", !.regular = h.regular,
                    !.total = AtLeast0(h.base), !.type = h.type, !.value = h.value,
                    !.commission = h.commission]]
            /\ promoterCode' = [promoterCode EXCEPT ![i] = h.code]
            /\ given' = IF h.valid THEN given + 1 ELSE given
            /\ till' = [till EXCEPT ![p].step = "items", ![p].invoice = i]
  /\ UNCHANGED <<people, code, money, desk, crossed, faults, requests, catalog, contended>>

\* Whatever the kind of the discount, an item takes its value as a percentage.
ItemRow(h, k) ==
  LET regular == h.prices[k] * h.cart[k].qty IN
  [locality |-> h.cart[k].locality, qty |-> h.cart[k].qty, regular |-> regular,
   paid |-> IF h.type = 0 THEN regular ELSE regular - Percent(regular, h.value),
   issued |-> FALSE]

InsertItems(p) ==
  LET h == till[p] IN
  /\ h.step = "items"
  /\ invoice' = [invoice EXCEPT ![h.invoice].items = [k \in DOMAIN h.cart |-> ItemRow(h, k)]]
  /\ IF h.named /\ h.type # 0 THEN Goto(p, "uses") ELSE Close(p)
  /\ SaleOnly /\ UNCHANGED <<catalog, given, contended>>

\* incrementUses, of the code named in the request, whichever discount was applied.
IncrementUses(p) ==
  /\ till[p].step = "uses"
  /\ discount' = IF discount.type = 0 THEN discount
                 ELSE [discount EXCEPT !.uses = @ + 1]
  /\ Close(p)
  /\ SaleOnly /\ UNCHANGED <<event, stage, locality, rule, invoice, given, contended>>

----------------------------------------------------------------------------
\* updateInvoiceStatus(PAID), called once per invoice by the webhook: the status first.
Settle(p, i) ==
  /\ Free(p)
  /\ invoice[i].status = "ISSUED"
  /\ \A q \in Request : till[q].invoice # i
  /\ invoice' = [invoice EXCEPT ![i].status = "PAID"]
  /\ till' = [till EXCEPT ![p] = [Closed EXCEPT !.step = "issue", !.invoice = i]]
  /\ SaleOnly /\ UNCHANGED <<catalog, given, contended>>

\* updateManyByInvoiceId, before the tickets are created.
IssueItems(p) ==
  LET i == till[p].invoice IN
  /\ till[p].step = "issue"
  /\ invoice' = [invoice EXCEPT ![i].items =
                   [k \in DOMAIN @ |-> [@[k] EXCEPT !.issued = TRUE]]]
  /\ Goto(p, "count")
  /\ SaleOnly /\ UNCHANGED <<catalog, given, contended>>

\* incrementTicketsSold of every locality of the invoice.
CountSold(p) ==
  LET i == till[p].invoice IN
  /\ till[p].step = "count"
  /\ locality' = [l \in Locality |->
                    [locality[l] EXCEPT !.sold = @ + QtyIn(invoice[i].items, {l})]]
  /\ Goto(p, "commission")
  /\ SaleOnly /\ UNCHANGED <<event, stage, discount, rule, invoice, given, contended>>

\* The webhook records what the invoice says the promoter earns.
\* Variant: unless the code was switched off.
RecordCommissionIfActive(p) ==
  LET i == till[p].invoice
      c == promoterCode[i]
  IN
  /\ till[p].step = "commission"
  /\ IF c = None \/ invoice[i].commission = 0 \/ code[c].status # "active"
     THEN UNCHANGED balance
     ELSE \E b \in Balance :
            /\ balance[b] = NoBalance
            /\ balance' = [balance EXCEPT ![b] =
                 [status |-> "PENDING", owner |-> code[c].owner,
                  amount |-> invoice[i].commission, invoice |-> i]]
  /\ Close(p)
  /\ UNCHANGED <<people, code, promoterCode, payouts, desk, crossed, faults, requests,
                 catalog, invoice, given, contended>>

RecordCommission(p) ==
  LET i == till[p].invoice
      c == promoterCode[i]
  IN
  /\ till[p].step = "commission"
  /\ IF c = None \/ invoice[i].commission = 0 THEN UNCHANGED balance
     ELSE \E b \in Balance :
            /\ balance[b] = NoBalance
            /\ balance' = [balance EXCEPT ![b] =
                 [status |-> "PENDING", owner |-> code[c].owner,
                  amount |-> invoice[i].commission, invoice |-> i]]
  /\ Close(p)
  /\ UNCHANGED <<people, code, promoterCode, payouts, desk, crossed, faults, requests,
                 catalog, invoice, given, contended>>

----------------------------------------------------------------------------
\* updateLocality and updateStage: not once the event is ACTIVE, when it is read.
ReadLocality(p, l, step, n) ==
  /\ Free(p)
  /\ event.status \notin {"ACTIVE", "FINALIZED"}
  /\ till' = [till EXCEPT ![p] = [Closed EXCEPT !.step = step, !.locality = l, !.n = n]]
  /\ UNCHANGED <<catalog, invoice, given, contended>>

ReadStage(p, s, step, l, n) ==
  /\ Free(p)
  /\ event.status \notin {"ACTIVE", "FINALIZED"}
  /\ till' = [till EXCEPT ![p] = [Closed EXCEPT !.step = step, !.stage = s, !.locality = l,
                                                !.n = n]]
  /\ UNCHANGED <<catalog, invoice, given, contended>>

\* Nothing compares the new quota with what was sold, and the body of the request may write
\* the count of what was sold.
WriteLocality(p) ==
  LET h == till[p]
      l == h.locality
  IN
  /\ h.step \in {"quota", "sold"}
  /\ locality' = [locality EXCEPT ![l] = IF h.step = "quota" THEN [@ EXCEPT !.quota = h.n]
                                                            ELSE [@ EXCEPT !.sold = h.n]]
  /\ contended' = IF h.step = "sold" \/ l \in Outstanding \/ SoldIn({l}) > h.n
                  THEN contended \cup {<<"locality", l>>} ELSE contended
  /\ Close(p)
  /\ SaleOnly /\ UNCHANGED <<event, stage, discount, rule, invoice, given>>

\* The price, or the locality the stage is of.
WriteStage(p) ==
  LET h == till[p] IN
  /\ h.step \in {"price", "move"}
  /\ stage' = [stage EXCEPT ![h.stage] =
                 IF h.step = "price" THEN [@ EXCEPT !.price = h.n]
                                     ELSE [@ EXCEPT !.locality = h.locality]]
  /\ Close(p)
  /\ SaleOnly /\ UNCHANGED <<event, locality, discount, rule, invoice, given, contended>>

\* createDiscount and deleteDiscount; the code is unique in the event.
CreateDiscount(o) ==
  /\ event.status # "FINALIZED"
  /\ discount.type = 0
  /\ discount' = Created(o)
  /\ given' = 0
  /\ contended' = IF NameInUse THEN contended \cup {<<"code", None>>} ELSE contended
  /\ UNCHANGED <<event, stage, locality, rule, invoice, till>>

DeleteDiscount ==
  /\ discount.type # 0
  /\ discount' = NoDiscount
  /\ UNCHANGED <<event, stage, locality, rule, invoice, till, given, contended>>

\* updateDiscount: a percentage beyond 100 is refused when the request gives both the kind
\* and the value.
ReadDiscount(p, e) ==
  /\ Free(p)
  /\ event.status # "FINALIZED"
  /\ discount.type # 0
  /\ ~(e.type = 1 /\ e.value > 100)
  /\ till' = [till EXCEPT ![p] = [Closed EXCEPT !.step = "edit", !.type = e.type,
                                                !.value = e.value]]
  /\ UNCHANGED <<catalog, invoice, given, contended>>

\* toggleDiscount.
ReadActive(p) ==
  /\ Free(p)
  /\ discount.type # 0
  /\ till' = [till EXCEPT ![p] = [Closed EXCEPT !.step = "toggle",
                                                !.active = discount.active]]
  /\ UNCHANGED <<catalog, invoice, given, contended>>

\* updateDiscount with a limit or a count in its body.
ReadLimit(p, n) ==
  /\ Free(p)
  /\ event.status # "FINALIZED"
  /\ discount.type # 0
  /\ till' = [till EXCEPT ![p] = [Closed EXCEPT !.step = "limit", !.n = n]]
  /\ UNCHANGED <<catalog, invoice, given, contended>>

\* An update of a row that was deleted fails.
WriteDiscount(p) ==
  LET h == till[p] IN
  /\ h.step \in {"edit", "toggle"}
  /\ discount' = IF discount.type = 0 THEN discount
                 ELSE IF h.step = "toggle" THEN [discount EXCEPT !.active = ~h.active]
                 ELSE [discount EXCEPT !.type = IF h.type = 0 THEN @ ELSE h.type,
                                       !.value = IF h.value = 0 THEN @ ELSE h.value]
  /\ Close(p)
  /\ SaleOnly /\ UNCHANGED <<event, stage, locality, rule, invoice, given, contended>>

WriteLimit(p) ==
  LET h == till[p] IN
  /\ h.step = "limit"
  /\ \/ discount.type = 0 /\ UNCHANGED discount
     \/ discount.type # 0 /\ discount' = [discount EXCEPT !.max = h.n]
     \/ discount.type # 0 /\ discount' = [discount EXCEPT !.uses = h.n]
  /\ contended' = contended \cup {<<"code", None>>}
  /\ Close(p)
  /\ SaleOnly /\ UNCHANGED <<event, stage, locality, rule, invoice, given>>

\* The organizer starts the event, and it ends (EventLifecycle).
Advance ==
  /\ event.status # "FINALIZED"
  /\ event' = [event EXCEPT !.status = IF @ = "SCHEDULED" THEN "ACTIVE" ELSE "FINALIZED"]
  /\ SaleOnly /\ UNCHANGED <<stage, locality, discount, rule, invoice, till, given, contended>>

\* updateEvent writes what the body has, the status and the limit included.
UpdateEvent(row) ==
  /\ event' = row
  /\ contended' = IF row.max # event.max
                       /\ (Outstanding # {} \/ SoldIn(Locality) > row.max)
                  THEN contended \cup {<<"event", None>>} ELSE contended
  /\ UNCHANGED <<stage, locality, discount, rule, invoice, till, given>>

----------------------------------------------------------------------------
\* A request fails, or the process stops: a sale that is cut after the invoice was written
\* leaves it as it is, and the webhook does not come back to a paid invoice.
FailSale(p) ==
  LET h == till[p] IN
  /\ ~Free(p)
  /\ faults < MaxFaults
  /\ faults' = faults + 1
  /\ contended' = contended
       \cup (IF h.named THEN {<<"code", None>>} ELSE {})
       \cup (IF h.step \in {"issue", "count", "commission"}
             THEN {<<"invoice", h.invoice>>}
                    \cup ({"locality"} \X LocalitiesOf(invoice[h.invoice].items))
             ELSE {})
  /\ Close(p)
  /\ UNCHANGED <<promoterVars, catalog, invoice, given, requests>>

AskTill ==
  /\ Asked
  /\ \/ \E p \in Request :
          \/ \E cart \in Cart, named \in BOOLEAN, c \in Code \cup {None} :
               ReadCart(p, cart, named, c)
          \/ \E l \in Locality, step \in {"quota", "sold"}, n \in Quota :
               ReadLocality(p, l, step, n)
          \/ \E s \in Stage, n \in Price : ReadStage(p, s, "price", None, n)
          \/ \E s \in Stage, l \in Locality : ReadStage(p, s, "move", l, 0)
          \/ \E e \in Edit : ReadDiscount(p, e)
          \/ \E o \in Offer : ReadLimit(p, o.max)
          \/ ReadActive(p)
     \/ \E o \in Offer : CreateDiscount(o)
     \/ DeleteDiscount
     \/ \E row \in [status: EventStatus, max: Limit] : UpdateEvent(row)

SaleStep(p) ==
  \/ ReadDiscounts(p) \/ InsertInvoice(p) \/ InsertItems(p) \/ IncrementUses(p)
  \/ IssueItems(p) \/ CountSold(p) \/ RecordCommission(p)
  \/ WriteLocality(p) \/ WriteStage(p) \/ WriteDiscount(p) \/ WriteLimit(p)
  \/ \E i \in Invoice : Settle(p, i)

Next ==
  \/ AskTill
  \/ \E p \in Request : SaleStep(p) \/ FailSale(p)
  \/ Advance
  \/ PromoterNext /\ UNCHANGED saleVars

Spec == Init /\ [][Next]_vars

----------------------------------------------------------------------------
\* A till at work; a price is read with its item.
Till == [step: {"idle", "quote", "insert", "items", "uses", "issue", "count", "commission",
                "quota", "sold", "price", "move", "edit", "toggle", "limit"},
         cart: Cart \cup {<<>>}, prices: Seq(Nat), named: BOOLEAN, valid: BOOLEAN,
         code: Code \cup {None}, type: 0..2, value: Nat, regular: Nat, base: Int,
         commission: Int, invoice: Invoice \cup {None}, stage: Stage \cup {None},
         locality: Locality \cup {None}, n: Nat, active: BOOLEAN]
ItemRows == [locality: Locality, qty: Nat, regular: Nat, paid: Int, issued: BOOLEAN]
InvoiceRow == [status: {"none", "ISSUED", "PAID"}, items: Seq(ItemRows), regular: Nat,
               total: Nat, type: 0..2, value: Nat, commission: Int]

TypeOK ==
  /\ PromoterTypeOK
  /\ event \in [status: EventStatus, max: Nat]
  /\ stage \in [Stage -> [locality: Locality, price: Nat]]
  /\ locality \in [Locality -> [quota: Nat, sold: Nat]]
  /\ discount \in [type: 0..2, value: Nat, max: Nat, min: Nat, active: BOOLEAN, uses: Nat]
  /\ rule \in Rule
  /\ invoice \in [Invoice -> InvoiceRow]
  /\ till \in [Request -> Till]
  /\ given \in Nat
  /\ contended \subseteq Key

\* Quotas hold for buyers who come one after another: the tickets issued stay within the
\* quota of the locality and of the event, although createInvoice compares with what was
\* paid, not with what was billed, and the counter moves with the payment only.  Not so of
\* a locality an item names with the stage of another: the quota that is compared is that
\* of the stage, and the tickets are issued and counted in the one that is named.
NotOversold ==
  /\ \A l \in Locality :
       <<"locality", l>> \in contended \/ locality[l].quota = 0
         \/ SoldIn({l}) <= locality[l].quota
  /\ <<"event", None>> \in contended \/ event.max = 0
       \/ SoldIn(Locality) <= event.max

\* A discount code is given at most max_uses times, when its buyers do not overlap and none
\* of them is cut between the invoice and the count.
CodeIsLimited ==
  <<"code", None>> \in contended \/ discount.max = 0 \/ given <= discount.max

\* What runs out does run out.
LimitsHold == NotOversold /\ CodeIsLimited

\* The amounts of one invoice agree, whatever the organizer edits while it is made: nobody
\* is billed more than the regular price, the items make up the invoice (to less than a
\* half unit per rounding, for a percentage), and the promoter's percentage is taken of
\* something between nothing and the regular price.  Not so for a discount edited beyond
\* 100 percent; and the items of a fixed amount make up something else.
AmountsAddUp ==
  \A i \in Invoice : LET r == invoice[i] IN
    /\ r.total \in 0..r.regular
    /\ r.items # <<>> => r.regular = SumFunction([k \in DOMAIN r.items |-> r.items[k].regular])
    /\ r.items # <<>> /\ r.type # 2 /\ r.value <= 100 =>
         LET gap == SumFunction([k \in DOMAIN r.items |-> r.items[k].paid]) - r.total IN
         2 * gap < Len(r.items) + 1 /\ -2 * gap < Len(r.items) + 1
    /\ rule.reward = "PERCENTAGE" /\ (r.type # 1 \/ r.value <= 100) =>
         r.commission \in 0..Percent(r.regular, rule.amount)

\* A promoter gets what the buyer's invoice promised him, once and as it was promised, even
\* if his code is switched off, or deleted as far as that is possible, before the payment.
CommissionIsKept ==
  \A i \in Invoice :
    invoice[i].status = "PAID" /\ <<"invoice", i>> \notin contended
      /\ (\A p \in Request : till[p].invoice # i)
    => LET B == {b \in Balance : balance[b].invoice = i} IN
       IF promoterCode[i] = None \/ invoice[i].commission = 0 THEN B = {}
       ELSE /\ B # {} /\ AtMostOne(B)
            /\ \A b \in B : /\ balance[b].amount = invoice[i].commission
                            /\ balance[b].owner = code[promoterCode[i]].owner
                            /\ balance[b].owner # None
=============================================================================
