# PayPac backend: TLA+ specifications and proofs

PayPac sells event tickets. The backend (`src/`, TypeScript, Express, Prisma on
PostgreSQL) is one Node process, or several, with four timers (`src/index.ts:239-243`)
and Wompi as its payment provider. Almost every operation is a handler of the form
*read rows - check - write rows*, each read and write a database call of its own, with
almost no row lock and no condition in the `UPDATE` that repeats what was checked. Between
two calls of one handler any other handler may run, a handler may stop half way, and
Wompi may deliver a webhook late, twice or out of order. These specifications say
what the backend still guarantees under those conditions, and where it does not
guarantee what its comments and documents promise.

Contents: 1 inventory, 2 how the modules model the code, 3 the modules, 4 runs and
bounds, 5 fairness, 6 proofs, 7 disagreements found, 8 what is not modelled, 9 plan.

Paths below are relative to the repository root.

## 1. Inventory

| Component | State it keeps | Operations | Hard behaviour | Correct when |
|---|---|---|---|---|
| Ticket transfer and wallet (`tickettransaction.service`, `ticket.service`, `ticket.admin.service`, job `ticket-transfer-expiry`) | `Ticket`, `TicketTransaction` | send, accept, reject, cancel, assign on registration, expire, direct transfer, scan, cancel a ticket, administrator's overrides | handlers and the job interleave on one ticket; two writes with no transaction; accept never looks at the ticket | one seat has one live right of admission; a frozen ticket is under offer and comes free again |
| Ticket resale (`ticket_sale.service`, job `ticket-sale-expiry`) | `TicketSaleListing`, `TicketSaleOffer`, resale `Invoice`, `Ticket` | list, withdraw, bid, accept, buy, confirm the payment, expire | webhook, winner, seller and job race; payment windows close lazily | a listed ticket is held, sold once and to the buyer named; one winner; the best bid wins |
| Payment (`transaction.service`, `webhook.service`, `invoice.service`) | `User.status` (99 is the lock), `Invoice`, `Transactions` | create and cancel an invoice, charge, webhook of each status, settle | Wompi's webhooks repeat, overtake and come out of order; settlement is a row of independent writes; errors are answered 200 | an approved payment is settled once and whole; the lock is released |
| Points ledger (`points.service`) | `UserPointsBalance`, `PointsTransaction` | redeem, award, transfer between users | read, insert, decrement in three calls; awards are not awaited; crossing transfers wait for each other's row locks | the balance equals the ledger, points only move, nobody spends what he has not, operations end |
| Invoice quote, codes, reward rules | `EventDcto`, `PromoterCode`, `EventRewardRules`, amounts of `Invoice` and `InvoiceTickets` | quote, apply a code, count its uses, edit a code | limits read at checkout and counted later; rows edited between two reads of one quote; rounding | limits hold, amounts add up |
| Inventory (stages, localities) | `num_tickets_sold`, quotas and prices | quote, count at payment, edit | nothing is reserved | no overselling |
| Event lifecycle and liquidation (`event.service`, `event_liquidation.service`, job `event-finalizer`) | `Event.status`, `EventLiquidation` | change status, finalize, create, approve and pay a liquidation | job against administrator; two commits with a gap | each finalized event has one liquidation, the status moves by its table of transitions |
| Email queue (`notificationmessagequeue.service`, jobs `email-queue-processor`, cleaner) | `NotificationMessageQueue` | enqueue, process, retry, delete, clean | overlapping runs, crash between send and mark | a message is sent; sent once without a crash; its status is true |
| Promoter programme (`eventbalancepromoters.service`, `promoter_request.service`, `promoter_code.service`) | balances, requests, roles, codes | request, approve, reject, create and switch a code, pay, refund | check then write; a list paid without looking at it | a balance is written once and paid once, role agrees with request |
| Numbered venues and seats (`event_seat_status.service`) | `EventSeatStatus` | hold, sell, release, block, expire holds | check then write, holds without an owner | a held seat has one holder |
| Ticket consumption | `Ticket.consumable_used`, `TicketConsumption` | consume | check then increment | total never exceeded |
| Staff, private guests, admission gate (NFC) | assignments, guests, challenges in memory | assign, check in, invite, challenge, verify | memory lost on restart, delete after await | a challenge admits one, a scanner is on duty |
| Authentication and users (`auth.service`, `user.service`) | `User`, accounts of Firebase | register, verify, resend, delete, edit | two stores without a transaction, a rollback by hand, a promise nobody awaits | the stores agree, the code mailed last works |
| Waiting list | `EventWaitingList` | register, remove | - | - |
| Sockets, push, SMS | none that others read | emit | errors are swallowed | - |
| Payment-method adapters, reports, catalogue, routes and templates | independent rows | CRUD, formatting, HTTP | - | - |

How they interact: `acceptTransfer` and `confirmSalePayment` both replace a `Ticket`
row by a new one; registration (`auth.service`) calls `acceptByContact` and mails a code; the webhook
either settles an invoice (tickets, counters, points, commission) or, for a number
`RSL-...`, confirms a resale; `updateEventStatus` and the finalizer create the
liquidation from paid invoices; everybody enqueues messages. Nothing else is shared:
components communicate through rows, in the order in which their calls happen to
reach the database.

`PROJECT.json` lists every component with its status, and under `hazards` the places
where this code can go wrong in ways a test hardly reaches.

## 2. How the modules model the code

* **Tables** are functions from a finite set of keys to records with the columns that
  decide something; a row that was not inserted has status `"NONE"`.
* **A handler in flight** is an entry of `proc`: `step` names its *next* database call,
  the other fields are the local variables it keeps across its `await`s. A handler's
  first reads and checks are one action (what it read can be stale from then on); every
  later call that changes state, or reads what it then decides on, is one more.
  `prisma.$transaction([...])` is one action, since its writes are atomic.
* **An INSERT** takes a key that no row and no other handler has; unique indexes are
  guards, as `ticket_id` of a listing.
* **Time** is a flag (`due`, `late`) or a choice: whatever age a job asks for, the
  rows it finds are any subset of those with the status it asks for.
* **Faults.** `Fail` stops a handler before any of its calls, which stands for a
  database error, an exception and a restart alike; what was written stays. A loop
  that catches errors leaves one item and goes on, as the code does. Faults are
  bounded by `MaxFaults`.
* **`disturbed`** is a history variable: the rows on which a second handler started
  while a first had read them and meant to write them, or on which a fault fell. The
  code takes no lock, so on such rows its guards say nothing and most safety
  properties are simply false: two scanners at the door within a few milliseconds let
  a holder in twice. The invariants are therefore claimed for the *calm* rows
  (`Ticket \ disturbed`), while other rows are fought over, handlers of other kinds
  run and faults strike; on these rows they are far from evident, because a calm row
  still sees every *sequence* of handlers, including stale batches of a job, late
  webhooks and repeated calls. What holds with overlaps as well is stated for all
  rows: the liveness properties, `BalanceMatchesLedger` of `Payment`, the transfers of
  `Bank`, and that a message marked SENT was sent. Other modules name the history after
  what it means there: `contested`, `crossed`, `contended`.
* **Two modules use names of their own**, because each is proved about together with
  another (section 6) and TLA+ has no two definitions of one name: `EmailQueue` has
  `task`, `Command`, `mailFaults`, `MaxMailFaults`, `MaxCommands`, `MailFails`, `MailNext`
  for `proc`, `Request`, `faults`, `MaxFaults`, `MaxRequests`, `Fail`, `Next`; `Venue` has
  `call`, `Caller`, `failures`, `MaxFailures`, `MaxCalls`, `FailCall`, `VenueNext`.

Where a comment of the code claims more, section 7 says how to see the counterexample.

Abstracted throughout: names, tokens, QR and TOTP secrets, telephone numbers,
messages, sockets, the text of emails, amounts of money (except bids, points and those of `Checkout`), and permissions
that depend on the role alone.

## 3. The modules

### TicketTransfer (`tickettransaction.service`, `ticket.service`, `ticket.admin.service`, `jobs/ticket-transfer-expiry`)

State: `ticket`, `tx` (TicketTransaction), `proc`, and the histories. A row also
carries `copyOf` (which row it replaced) and `entries` (how often the door let it in).

| Action(s) | Code |
|---|---|
| `SendTransfer`, `FreezeTicket`, `OpenTransfer` | `sendTicket`: checks, `FROZEN`, insert `PENDING`; an unregistered recipient is the sender as a placeholder |
| `AcceptTransfer`, `CommitAccept` | `acceptTransfer`: reads the transfer only, then the transaction that replaces the ticket |
| `RejectTransfer`, `CancelTransaction`, `GiveBack`, `Activate`, `CloseTransfer` | the three writes that return a ticket, one after the other |
| `ExpireTransfers` and the same three writes | the hourly job, over a batch it read before |
| `AcceptByContact`, `AssignRecipient` | registration takes over transfers sent to an email or telephone number, one update each |
| `TransferTicket`, `MoveTicket`, `RecordTransfer` | POST `/tickets/:id/transfer`; type `sale` records `PENDING` |
| `ValidateTicket`, `MarkAsUsed`; `CancelTicket`, `SoftDelete` | the door, and cancellation |
| `AdminSetStatus`, `AdminTransfer` | the administrator's overrides (they count as faults) |

Properties: `ReplacedOnce`, `OneTransferAtATime`, `FrozenIsOffered`, `EntersOnce`;
liveness `FrozenIsReleased`, `OpenIsSettled`.

### TicketResale (`ticket_sale.service`, `jobs/ticket-sale-expiry`, the resale branch of the webhook)

State: `ticket` (with `from`, the sender of its open transfer), `listing` (keyed by
ticket, as the unique index makes it), `offer`, `invoice`. Publishing and selling are transactions of the code and single actions
here (`CommitListing`, `CommitSale`); withdrawing is two updates (`RestoreTicket`,
`WithdrawListing`). Accepting is shared by seller and job as in the code
(`ReadPrevious`, `ExpirePrevious`, `AcceptWinner`, `RejectOthers`). The webhook is
`PaymentApproved`, `ApproveTransaction`, `PayInvoice`, `ConfirmSale`, `CommitSale`:
approval is stored before the sale is confirmed, and a sale that cannot be confirmed
is only logged. `FallDue` and `WindowCloses` are the passage of time. `Elsewhere` is what the
rest of the system does to a row meanwhile, whatever its status allows: `SendTransfer`,
`TransferTicket` (direct), `SettleTransfer` (accepted or given back), `ScanOrCancel`. PAYPAC's
overrides, `AdminSetStatus` (to the statuses of `Overrides`) and `AdminTransfer`, look at
nothing and leave a listing ACTIVE whose ticket is no longer ON_SALE or no longer the
seller's: they count as faults and put the row on `disturbed`, so the properties do not
speak of it. The late write of a transfer or a scan that checked the row before it was
listed has the same effect, and is one of them.

Properties: `ListingHoldsTicket`, `SoldOnce`, `OneWinner`, `BidsRise`, `BestBidWins`;
liveness `DueIsResolved`.

### Payment (`transaction.service`, `webhook.service`, `invoice.service`, `points.service`)

State: `locked` (users with status 99), `balance`, `invoice`, `txn` (Transactions),
`books` (how many times each part of a settlement was written for an invoice),
`awarding` and `crediting` (awards started in a promise nobody awaits, and those between
their ledger row and their credit), and, external, `wompi` (the
payment of each reference) and `unseen` (events Wompi has not delivered yet).

| Action(s) | Code |
|---|---|
| `CreateInvoice`, `InsertInvoice`, `InsertItems` | POST `/invoices`; points are compared with the balance and not reserved |
| `CancelInvoice`, `WriteCanceled` | PATCH `/invoices/:id/cancel` |
| `ProcessTransaction`, `LockUser`, `SendTransaction`, `RecordTransaction`, `UnlockUser` | `processTransaction`: a read and an unconditional write of the lock at READ COMMITTED, the charge, the row, the release |
| `WompiUpdates` | external: a charge is approved or declined, an approved one voided |
| `HandleTransactionUpdated`, `FindTransaction`, `WriteTransaction` | the webhook up to its duplicate guard and the upsert of the row |
| `RejectInvoice`, `VoidInvoice`, `UpdateInvoiceStatus` | what each status does to the invoice |
| `CreateTickets`, `IncrementSold`, `RedeemPoints`, `InsertRedeemed`, `DebitPoints`, `InsertCommission`, `IncrementUses`, `NoteError` | the settlement, in the order of the code; an error ends it and is noted |
| `InsertEarned`, `CreditPoints`, `LoseAward` | the award beside it: the ledger row, then the balance, in two statements between which others run and a restart may fall |

`ERROR` events are handled as `DECLINED` and share its name. Initially any invoices
may already exist unpaid, so that runs need not spend requests on creating them.

Properties: `SettledOnce`, `NotOverdrawn`, `BalanceMatchesLedger`; liveness
`ApprovedIsSettled`, `LockIsReleased`.

### EventLifecycle (`event.service`, `event_liquidation.service`, `jobs/event-finalizer`)

State: `event` (status, and whether `date_end_event` has passed), `unpaid` and `paid`
(how many invoices of an event are ISSUED and PAID), `liquidation` (a set of rows with ids),
`lastId`, `proc`, and the histories. The unique number of a liquidation and its reference
to an event are constraints of the database.

| Action(s) | Code |
|---|---|
| `UpdateEventStatus`, `WriteStatus` | PATCH `/events/:id/status`: the table of transitions, then an unconditional update; FINALIZED goes on to the liquidation |
| `DeleteEvent`, `EraseEvent` | the status check, then one transaction that takes invoices and liquidations along |
| `UpdateEvent`, `Ends` | PUT `/events/:id` moves the end and writes any status of `Edits`; time passes |
| `FindEventsToFinalize`, `Finalize` | the job, over a batch it read before |
| `FindExisting`, `SumInvoices`, `GenerateNum`, `InsertLiquidation` | `autoCreateFromEvent`, one query at a time |
| `CreateLiquidation`, `DeleteLiquidation` | PAYPAC by hand; the first shares the last two steps |
| `OpenInvoice`, `PayInvoice`, `VoidInvoice` | what `Payment` does to the invoices of an event |

The number comes from the row with the highest id, so two handlers may compute the same
one; the second is refused by the index and its error is only logged (`GiveUp`).

A PUT of the event (`event.service.ts:202-211`) spreads the whole body into the update, so it
writes any status over any other and calls for no liquidation. The history `edited` has the
events whose status it changed: `PaidIsLiquidated` and `FinalizedIsLiquidated` except them,
`OneLiquidation` does not, and `TransitionsAreValid` allows the PUT and holds everybody else,
the job with its old batch included, to the table of transitions.

Properties: `OneLiquidation`, `PaidIsLiquidated`; action property `TransitionsAreValid`;
liveness `EndedIsFinalized`, `FinalizedIsLiquidated`.

### EmailQueue and Outbox (`notificationmessagequeue.service`, `jobs/email-queue-processor`, `brevo.service`)

State: `queue`, `task` (runs of the processor and requests of PAYPAC), and, external,
`delivered`: how often Brevo accepted a message.

| Action(s) | Code |
|---|---|
| `QueueEmail`, `FallDue` | a handler anywhere inserts a message; its time comes |
| `ProcessPending`, `SendEmail`, `Mark`, `MarkException`, `NextInBatch` | a run of the timer, or of POST `/process`: a batch of the oldest, each sent and then marked; whatever an earlier run still does |
| `RetryMessage`, `Reopen`; `DeleteMessage`, `Erase`; `CleanOldMessages` | PAYPAC and the cleaner |
| `MailFails` | a call fails (the code marks the message FAILED and goes on) or the process stops |

`Outbox` is the promise: a message is delivered at most once, only a refused one is
retried, and a dropped one is never delivered; a message that two handlers fought over is
`contested` and promised nothing. `KeepsPromise` is `Outbox!Spec` under the mapping
`Fates`. Properties: `StatusIsTrue`; liveness `DueIsProcessed`.

### PointsWallet and Bank (`points.service`)

State: `open`, `balance`, `statement` (the ledger of a user, summed up: total, newest
`balance_after`, and whether the rows form a chain), `lock` (row locks of the transfer's
transaction).

| Action(s) | Code |
|---|---|
| `GetBalance`, `CreateAccount` | the account opens at the first look |
| `RedeemPoints`, `AwardPoints`, `InsertRow`, `UpdateBalance` | read and check, the ledger row, the balance: three statements |
| `TransferPoints`, `FindRecipient`, `CreateRecipient`, `DebitSender`, `CreditRecipient` | the interactive transaction; its locks are held from the first update to the end, `Fail` rolls it back |
| `BreakDeadlock` | external: PostgreSQL refuses one of the transactions that wait for each other in a circle |

`Bank` is the promise: points move from one user to another all at once, come from awards
and go to redemptions, and nobody spends more than he has unless two of his own spendings
met. Properties: `LedgerIsTrue`, `KeepsPromise`; liveness `OperationsEnd`.

### Venue (`ticket.service`, `event_staff_assignment.service`, `ticket_consumption.service`, `event_seat_status.service`)

State: `staff` (assignments), `window` (the time tickets are admitted), `nfc` (the map
of challenges in memory), `ticket`, `seat`, `call` (handlers in flight).

| Action(s) | Code |
|---|---|
| `AssignStaff`, `RemoveStaff`, `CheckIn`, `CheckOut`, `WriteStaff` | reads the assignment, then writes it |
| `RegisterPublicKey`, `GenerateNFCChallenge`, `ChallengeExpires`, `ValidateNFCTicket`, `ReadNFCTicket` | the lookup in memory, the ticket, the deletion of the challenge; then the scan |
| `ValidateTicket`, `CheckScanner`, `CheckWindow`, `MarkAsUsed` | the scan, one query at a time |
| `MoveWindow`, `UpdateTicketStatus` | the event's dates are edited or pass; PAYPAC writes any status over a ticket's |
| `RegisterConsumption`, `Charge` | the check on a row, and the transaction that increments it |
| `InitializeForEvent`, `HoldSeat`, `ReleaseSeat`, `BlockSeat`, `UpdateSeat`, `HoldExpires`, `ReleaseExpiredHolds` | the seat map |
| `Restart` | the memory of the process is lost with every handler in flight |

Properties: `DoorHolds`, `BalanceHolds`, `SeatIsKept`. No timer calls
`releaseExpiredHolds`: it is a request of PAYPAC. A row of the seat map does not say whose
hold it is, so `releaseSeat` (`event_seat_status.service.ts:91-99`) frees whatever it is
called for: a buyer may be told a seat is his, another release it, and a third hold it,
one after the other. That a buyer keeps his hold is therefore not claimed; `SeatIsKept` is
about steps: a seat that is `Taken` becomes free by time or by a release only, and a hold is
written over a live one only when two requests for the seat overlapped.

### PromoterProgram and Checkout (`promoter_request`, `promoter_code`, `eventbalancepromoters`; `invoice`, `eventdcto`, `eventlocalities`, `webhook`)

`Checkout` EXTENDS `PromoterProgram` and adds its own tables; its Next is a step of one or the
other. A quote reads the codes of the programme, and its payment writes a balance there.

| Action(s) | Code |
|---|---|
| `Apply`, `InsertApplication`, `Review`, `WriteApproval`, `WriteRejection` | a user applies, PAYPAC reviews; approval writes request and role in one transaction |
| `UpdateUser` | PUT `/users/:id` writes the role and looks at no request; the user joins `appointed` |
| `CreateCode`, `InsertCode`, `TouchCode`, `WriteToggle`, `WriteDelete` | a code per promoter, which an invoice keeps from being deleted |
| `MarkAsPaid`, `BulkMarkAsPaid`, `WritePaid`, `CreateRefundBalance`, `InsertRefund` | payment by one or by list, and refunds |
| `Quote`, `ReadCart`, `Refused`, `ReadDiscounts`, `InsertInvoice`, `InsertItems`, `IncrementUses` | createInvoice: quotas first, then the codes, then its writes |
| `Settle`, `IssueItems`, `CountSold`, `RecordCommission` | the payment of the invoice |
| `ReadLocality`, `WriteLocality`, `ReadStage`, `WriteStage` | an organizer edits the quota or the count of a locality, the price of a stage or the locality it is of |
| `CreateDiscount`, `ReadDiscount`, `ReadActive`, `WriteDiscount`, `ReadLimit`, `WriteLimit`, `DeleteDiscount` | and codes, with their limit and count |
| `Advance`, `UpdateEvent` | the event starts and ends; PUT `/events/:id` writes its status and its limit |

Amounts are numbers: `Percent` rounds as the code does, item by item. Properties: `LimitsHold` (with
`NotOversold` and `CodeIsLimited`), `AmountsAddUp`, `CommissionIsKept`, `PaidOutOnce`,
`ProgrammeHolds`. An unpaid invoice reserves nothing, so two of them at once put their
locality on `contended`. Each item of a cart is compared with the quota by itself, two items
of one locality too. An item has a stage and a locality, which nothing compares: the quota is
that of the stage's locality (`invoice.service.ts:109-118`), the tickets are issued and counted
in the locality that is named (`:133`, `:528-535`). A buyer whose item names another one
oversells it alone; `Quote` puts the locality on `contended`, and `NotOversold` is claimed for
the others. So it is of a locality whose count is written by hand, or whose quota is
edited below what is sold or under a sale that is not paid yet, and in the same way of the
event's limit and the limit and count of a code.

The role of promoter is also given by hand: registration stores the role in its body
(`auth.service.ts:112`; promoters without an approved request in `PromoterInit`), and
`UpdateUser` writes it. `appointed` remembers both, and `RoleIsEarned`, a part of
`ProgrammeHolds`, is claimed for the other users.

### Accounts (`auth.service`, `user.service`, Firebase)

State: `user` and `firebase`, the two stores; `mailed`, the code in the last email.

| Action(s) | Code |
|---|---|
| `Register`, `CreateFirebaseUser`, or `RegisterSocial`; `InsertUser`, `SetClaims`, `Rollback` | registration, and the deletion of the Firebase account when anything fails |
| `StoreCode`, `QueueCode`; `Resend` | the promise nobody awaits, and the request that repeats it |
| `VerifyEmailCode`, `MarkVerified` | the code is entered |
| `DeleteAccount`, `DropAccount`; `DeleteUser`; `UpdateUser` | the user leaves (both stores), PAYPAC deletes him (one store), PUT `/users/:id` writes email and `verified_user` (one store) |
| `Relink` | the same PUT with `firebase_uid` or the code in its body, which excepts the user and the accounts |
| `SignInSocial` | external: the client makes an account at Firebase |

Properties: `StoresAgree`, `CodeWorks`; liveness `CodeIsMailed`.

## 4. Runs and bounds

| Run | Instance | Shows |
|---|---|---|
| `transfer_safety` | 2 users, 1 bought ticket and 2 spare keys, 2 transfers, 2 handlers (one may be the job), 1 fault, 4 requests | type invariant and the four safety invariants |
| `transfer_liveness` | the same with 1 spare key, no fault, request and job side by side | a frozen ticket is released, an open transfer settled |
| `resale_safety` | 3 users, 1 ticket and 1 spare key, 2 offers, 2 amounts, 2 invoices, 2 handlers (one may be the job), 1 fault or override, 5 requests | the five safety invariants |
| `resale_liveness` | 1 invoice, no fault, 4 requests | a listing past its date is resolved |
| `payment_safety` | 1 user, 2 invoices on the same points, 2 transaction rows, 2 handlers, 2 requests beside every first delivery | settled once and whole, no overdraft, balance equals ledger |
| `payment_liveness` | 1 invoice, 1 fault possible | approved payments settle, locks are released |
| `event_lifecycle` | 2 events, 1 with a company, which sells 1 ticket; 1 request beside the job, 2 requests, 1 fault; PUTs write ACTIVE and FINALIZED | one automatic liquidation that covers what was paid, a status changes by the table or a PUT, ended events are finalized and liquidated |
| `email_queue` | 2 messages, batches of 2, 2 runs and 1 request in flight, 1 fault, 2 requests | statuses are true, what is due is processed, every step is one of `Outbox` |
| `points_wallet` | 2 users, amounts of 1 on balances of 2, 3 handlers, 1 fault, 3 operations | balances agree with chained ledgers, crossing transfers end, every step is one of `Bank` |
| `venue` | 1 member of staff, 2 tickets with a balance of 2, 1 challenge, 1 seat, 2 handlers, 1 fault or restart, 3 requests | the door, the bars and the seat map, under overrides of tickets |
| `checkout` | 1 promoter, 1 code, 2 balances, 2 invoices of 1 or 2 items, 2 localities and a stage of either, quotas and limits 1 and 2, 2 offers, 2 edits, 2 rules, 2 handlers, 1 fault, 2 requests (edits and programme) | limits, amounts, commissions, one payment of a balance, one review of a request |
| `accounts` | 2 users, 2 Firebase accounts, 2 emails, 2 handlers, 1 fault, 3 requests | the stores agree, the code mailed last works, and is mailed |

Every bound is a CONSTANT: the sets of keys bound the inserts (an INSERT without a
free key is not taken), `MaxFaults` and `MaxRequests` (or their names in `EmailQueue` and `Venue`) bound the histories
`faults` and `requests`. Why they suffice: every hazard listed for these components needs at most
two handlers at once on one row (a third can only repeat what the second does, as no
handler waits for another); a transfer needs a send and an answer, and the second
transfer and second spare key let it be repeated and replaced once too often; four
requests are send, answer, send, answer, or send, accept and two scans; five requests
are list, bid, accept, buy and pay, or list, two bids, buy and pay with the job accepting;
two invoices and one fault are what an
overdraft, a lost settlement or a repeated one takes; two messages and two runs let one run
overtake the other inside a batch; two users cross their transfers; three requests are
register, resend and delete, or assign, check in and scan with a second request beside them;
two invoices meet at a quota of one and a code of one use, while an organizer edits. First deliveries by Wompi are
not counted as requests. That the bounds let the interesting case happen is shown by
the mutants of `PROJECT.json`: for each property, a plausible slip in the code (a
dropped guard, a missing reset, a swapped order) which the same instance catches.

`CHECK_DEADLOCK FALSE` everywhere, because a backend nobody calls, with its bounded
requests spent, rightly stops. `TypeOK` of the modules whose run does not list it holds as well and can be
added to their cfg; it is left out to keep the runs about questions. Symmetry is used for safety only: users, spare rows,
transfer, offer, invoice and transaction ids are interchangeable.

## 5. Fairness

* `WF(Continue(p))`, `WorkOn(p)` in `EmailQueue`: a handler in flight makes its next call. Node never abandons a
  promise, and a database call ends in an answer or an error (a fault).
* Transfers: weak fairness, for every transfer, of a run of the job that finds it.
  The timer fires every hour, a transfer that stays PENDING gets older than the
  cutoff, and the query has no limit. In the fair runs the job has a slot of its own.
* Resale: weak fairness of the job (every ten minutes), of `FallDue` and of
  `WindowCloses`: time passes.
* Payment: weak fairness of the first delivery of every event: Wompi repeats an event
  until it gets a 200, and the endpoint answers nothing else.
* Events: weak fairness of the job (every ten minutes). `EndedIsFinalized` is claimed
  with faults: the job looks for ACTIVE events again. `FinalizedIsLiquidated` is not: nobody
  looks for a FINALIZED event without a liquidation.
* Emails: weak fairness of the processor's timer, of the due time of a message, and of
  every handler in flight.
* Points: weak fairness of a handler's next call, which waits while its row is locked, and of
  PostgreSQL's deadlock detector.
* Accounts: weak fairness of a handler's next call only; the promise after the answer is
  one of its calls.

No request of a customer is fair: nobody has to accept, pay or scan. Liveness is
claimed without faults, or *unless* a fault happened: after a fault the code indeed
leaves tickets frozen, users locked and payments unsettled for ever, since no job looks for
them.

## 6. Proofs

`TicketTransfer_proofs` proves, for every number of users, rows, transfers, handlers,
requests and faults, and from the four assumptions of `TicketTransfer` (sold rows are
rows, null values are not keys, bounds are natural numbers):

* `InductiveInvariant`: `Spec => []IInv`
* `TypeCorrect`, `ReplacedOnceHolds`, `OneTransferAtATimeHolds`,
  `FrozenIsOfferedHolds`, `EntersOnceHolds`: the invariants of `transfer_safety`.

No safety invariant is inductive. `ReplacedOnce` says a calm row has one replacement;
that the next `CommitAccept` is not a second one depends on the transfer being still
PENDING, which depends on no other handler having settled it since it was read, which
depends on only one handler holding the row. The strengthening `IInv` says just that:

* `TypeOK`, `TablesOK` (blank rows are blank, references point to existing rows),
  `HandlerOK` (what a handler holds at each step), `KeysUnique` (no two pending
  INSERTs have one key);
* `Isolation`: a calm row is in the hands of one handler;
* `Fresh(p, t)`: what handler `p` read of calm row `t` is still so;
* `RowOK(t)`: what is true of a calm row between two calls: one open transfer, none
  after a completed one, a copy only after a completed one, entries as `unused`
  says, a wallet status with an open transfer only in the middle of a give-back, and
  `FROZEN` only with an offer or in the middle of a send.

There is one lemma for each kind of step (`StartStep` for the checks of all requests,
`WriteStep` and `TicketWrite` for what a write leaves alone, then one per writing
action, `FailStep`, `AdminStep`), combined in `NextIInv`; the temporal theorems follow
by `PTL`. Faults do not break the invariant because a row hit by one leaves the calm
rows, and `Isolation` keeps the others out of reach of the handler that failed.

`AccountsEmailQueue_proofs` proves of `EmailQueue`, for any number of messages, runs,
requests and faults and any size of a batch, from the three assumptions of the module:

* `Inductive`, `MailInvariance`: `MailInv` is inductive and `MailSpec => []MailInv`;
* `MailTypeCorrect`, and `StatusCorrect`: `StatusIsTrue`;
* `PromiseKept`: `MailSpec => KeepsPromise`, the refinement of `Outbox`.

`StatusIsTrue` speaks of messages nobody holds; when a run lets one go, what is true
of it follows from what the run knew of it. Hence `MailInv` adds `Isolation` (a calm message
is in one batch), `HandlersAreFresh` (what a handler read of its calm messages still is
so, and only the one it has just sent was delivered), `RestIsSettled` and `SentIsSent`,
which needs no calm. For the refinement, `CalmFate` says that a calm message has one of the
fates `Outbox` knows, `OneStep` and `ContestStep` how a change of one fate, or of
contested ones, is a step of `Outbox`, and `RefinesStep` goes through the actions.

The other proofs follow the same plan, each for every number of rows, handlers,
requests and faults, from the assumptions named in the module it extends. An invariant of
the runs speaks of rows that are *calm*: no two handlers met on them and, where the
code leaves a row half written after one, no fault hit them. So the inductive invariant always
has `Isolation` (a calm row has one handler) and what that handler *knows* of it: the reason
why a check made some calls ago still covers the write to come.

| Proofs | Theorems about runs | What the invariant adds to types |
|---|---|---|
| `TicketResale_proofs` | `ListingHoldsTicket`, `SoldOnce`, `OneWinner`, `BidsRise`, `BestBidWins` | `RowOK(t)`: one handler works on a calm row, `Knows` what it read of listing and offers (a bid still outbids, a winner is still the best), and the row is as the five properties say |
| `Payment_proofs` | `SettledOnce`, `NotOverdrawn`, `BalanceMatchesLedger` | `Holds` and `KeysAreOwn`, true whatever others do; `ItemsOK`; `InvoiceOK`; `UserOK`; `LedgerAddsUp` |
| `PointsWallet_proofs` | `LedgerIsTrue`, `KeepsPromise` | `Accounted`, `Fresh`, `RestIsChained`, `SpendersAreCovered`, `LocksAreHeld` |
| `EventLifecycle` in `EventLifecycleVenue_proofs` | `OneLiquidation`, `PaidIsLiquidated`, `TransitionsAreValid` | `Knows`: the transition is still valid, the batch of the job still ACTIVE, the event being liquidated FINALIZED, without a liquidation, and its sum no less than what was paid |
| `Venue` in `EventLifecycleVenue_proofs` | `DoorHolds`, `BalanceHolds`, `SeatIsKept` | `CallerKnows`, one part for each kind of row: scanner, ticket, challenge, balance, seat |
| `Accounts` in `AccountsEmailQueue_proofs` | `StoresAgree`, `CodeWorks` | `AccountOK(x)`, `UserOK(u)`: between two calls the missing half (claims, user, email) is what the one handler has still to write |
| `Checkout_proofs` | `ProgrammeHolds`, `PaidOutOnce`, `CommissionIsKept`, `AmountsAddUp`, `LimitsHold` | `Booked`, `CodeInv`, `LimitsInv`, below |

Each also proves the type invariant. Four of the models share two proof modules, accounts with
the mail that carries their codes, events with the venue that admits to them; nothing in
one proof rests on the other model, and they could be split again.

`Payment_proofs`. `SettledOnce` is about an invoice nobody writes; in the middle of a settlement
the books are partial, and `Reached(i, s)` says exactly how far they are when the handler is
about to make step `s`. `Rest(i)` relates books, status, Transactions row and Wompi's
payment when nobody writes: it is what lets the duplicate guard
of the webhook stop a second settlement, since books that are not blank have a row that is
APPROVED or VOIDED. Both need the reference to have one row (`OneRow`), as in the property: with two
the guard fails, which is disagreement 5 below. A step is checked against the invoice it
is about, and `Frames` carries every other (`MoveInv`, `InvoiceFramed`). `NotOverdrawn` needs
of `UserOK` that a calm user still has the points the redemption compared.
`BalanceMatchesLedger` holds whoever meets whom, as long as nothing fails: without
a fault, `LedgerAddsUp` says of every user that his balance is what he opened with, plus what
the rows of his invoices moved (`Moved`, without the awards whose credit is still to come),
plus what handlers have inserted and not yet taken off (`Due`). Each of the two is a sum over a finite set (`FiniteAssumption`: ids of invoices
and handlers in flight), so each action is checked for the one summand it changes.

`SumTheorems` has the lemmas on such sums (`SumFunctionOnSet`): what becomes of one when a
summand is added, removed or changed, and that it stays between bounds. The induction
theorems of the library take an operator, which the provers cannot instantiate;
`FiniteInduction` takes the *set* of what is proved instead, and rests on the
well-foundedness of strict inclusion, which the library states without one.

`Checkout_proofs` is about the two composed modules, and its invariant has three layers:

* `Standing`: `DeskInv` (the programme: types, `Isolation` of the rows that requests
  hold, what a clerk knows, and the two properties of the programme), `SaleShape` (the tables of
  the sale, and what a till holds at each step) and `NamedExist` (a code that an
  invoice names still exists, as the foreign key sees to). `ProgrammeHolds` and `PaidOutOnce`
  follow.
* `Booked` adds the invoices: `OneTill` (an invoice is in one till), `TillsHold` (what a till
  relies on is in its row), `RowsHold` (the total, the commission and each item are what the
  formulas make of the regular amount), `NotPaidOutYet` (the balance of a sale is the last
  row it inserts) and `Kept`. `AmountsAddUp` follows from `RowsHold` by summing the roundings,
  each off by half a unit at most (`PercentRounds`); it needs no isolation, since every amount
  is made from what one till has read. `CommissionIsKept` follows from `Kept`.
* `CodeInv` and `LimitsInv`, for `LimitsHold`: the uses of a code lag behind the invoices made
  with it by the one buyer at work; a calm locality, or the event, has one sale under way
  (`OneSale`), which fits into what is left (`Fits`), and the counter lags behind the tickets
  issued by the sale being counted (`Counted`). A quota is compared with a sum over all
  invoices, of sums over their items. `Respects(L)` and `Recounts(l)` are what a step has to
  do for a set of localities; most are `Neutral` (they start no sale and issue nothing), and
  what a locality is to its quota the whole event is to its limit.

They rest on the assumptions of the two modules: a cart is a sequence of items with at least one
ticket, prices and quotas are natural numbers, a percentage is created at 100 at most (an
*edit* may take it above, and `AmountsAddUp` excepts just that), and ids of invoices are
finitely many, being integers of bounded width.

`PointsWallet_proofs`. A statement is ahead of the balance by the rows inserted and not
applied yet, of any number of handlers: `AddsUp` says that an enumeration of the handlers and
its partial sums exist, and two lemmas (`AddsUpMore`, `AddsUpLess`) say how it changes when a
handler enters or leaves. `KeepsPromise` is the refinement of `Bank`: `InitRefines`,
`NextRefines`, with one lemma for each step that moves points.
The proof showed that an earlier `BreakDeadlock` also refused handlers that merely wait for a
member of the circle; a redemption between its row and its balance is such a one, and holds no
lock: it now refuses only what waits and is waited for.

`EventLifecycle`. The liquidations are a set of rows with ids, as the table is,
since the argument needs only that a new id is the highest (`IdsAreGiven`). `TransitionsAreValid`
is an action property: `NextKeeps` takes it from the invariant, because a write of a status is
valid by what its handler knows. A PUT adds its event to `edited`, and to `disturbed` if a
handler is at it. `SeatIsKept` is another: a hold is written over a live one only by a
caller that is not alone with the seat, and `CallerKnows` says of one that is alone that the
seat is still free.

Every invariant, action property and refinement that a run checks is proved. Only
model-checked is liveness (`FrozenIsReleased`, `OpenIsSettled`, `DueIsResolved`,
`ApprovedIsSettled`, `LockIsReleased`, `EndedIsFinalized`, `FinalizedIsLiquidated`, `DueIsProcessed`,
`OperationsEnd`, `CodeIsMailed`): under fairness and with `ENABLED` it is outside what the
installed proof backends can do.

## 7. Disagreements between code and documentation

The first six are properties that some text of the repository promises and the code does
not keep. They are defined in the modules and listed in no run; to see the
counterexample, name one as INVARIANT or PROPERTY of the cfg that is given.

1. `ReplacedIsNotLetIn` (`TicketTransfer.cfg`): the comment at
   `src/src/services/tickettransaction.service.ts:197-200` says a transfer "invalida
   cualquier QR/TOTP que A tuviera guardado"; `ticket.service.ts:433` admits
   `TRANSFERRED`, whose token and secret are unchanged.
2. `IgnoredIsDuplicate` (`TicketResale.cfg`): the log at `ticket_sale.service.ts:535`
   calls a payment that finds the listing SOLD a "webhook duplicado, ignorado"; it may be
   the only payment of another buyer, since every buyer who asks gets an invoice.
3. `OnePaymentAtATime` (`Payment.cfg`): `transaction.service.ts:116` "Bloquear usuario
   mientras procesa (evitar double-spending)"; two requests may both read the user free.
4. `PointsBeforeConfirm` (`Payment.cfg`): `invoice.service.ts:539` says points "debe
   completarse antes de confirmar"; the invoice is PAID (:462) and has its
   tickets before the redemption is tried, and stays so if it fails.
5. `ResentIsIgnored` (`Payment.cfg`): `docs/payment-methods/webhook-testing.md:251-252`
   promises that a repeated APPROVED does not duplicate tickets; when the first one
   overtook the insert of the transaction, the reference has two rows and it does.
6. `TerminalIsFinal` (`EventLifecycle.cfg`): the table of transitions says of CANCELED and
   FINALIZED "No se puede cambiar desde cancelado", "No se puede cambiar desde finalizado"
   (`event.service.ts:261`, `:263`); PUT `/events/:id` never looks at it. The middleware throws the
   parsed body away (`validate.middleware.ts:11`), the controller passes `req.body`
   (`event.controller.ts:157`) and `event.service.ts:202-211` spreads it into the update, so
   a status in it is written over any other.
7. `Rollback` of `Accounts`: the comment at `auth.service.ts:180` speaks of a failure
   "después de crear en Firebase"; a token registration made nothing in Firebase and its
   rollback still deletes the account. Dropping the exception of `RegisterSocial` from
   `disturbed` makes `StoresAgree` fail.

Behaviour the models show and no text of the repository contradicts: an EXPIRED
listing keeps its ticket `ON_SALE` with no way back; an auction winner who never comes
back keeps the listing `ACTIVE`; a buyer whose payment the webhook could not confirm is not
refunded; a direct transfer of type `sale` is undone by the
expiry job; a crash while a payment is processed locks its user for good; the job and
PAYPAC finalizing one event at once may liquidate it twice, and a liquidation refused for
its number is not made again; an event that a PUT makes FINALIZED is never liquidated, and one
it takes back from there keeps its liquidation; PAYPAC's override of a listed ticket leaves
its listing ACTIVE; whoever names a locality with the stage of another oversells it; anybody's
`releaseSeat` frees another's hold; a user PAYPAC deletes keeps his Firebase account, so his
email cannot be registered by password again; the items of an invoice with a fixed
discount do not sum to it, as each is cut by the whole discount; an edit of the kind alone
makes a percentage above 100; a quota may be lowered below what is sold; the discount of a
promoter's rule replaces that of the code, whose use is counted all the same;
`inviteStaffToEvent` stores the organizer as a placeholder under a unique index, so that
an event has one open invitation per organizer.

## 8. Not modelled, and why

Left out for good: sockets, push, SMS and the text of emails (every caller swallows their
errors, and only the queue has state), reports and analytics (read-only), catalogue,
companies and content (independent rows, single statements), the waiting list (one row
behind a unique index), adapters, routes, validators, seeds, templates. Most of the
lines of the repository are such: half are routes, controllers, validators, repositories
and seeds that pass arguments on.

Within the modelled components:

* `processPayment` of transfers, `expireOldListings`, `sellSeat`, `createBalance` and PATCH
  `/invoices/:id/status` have no caller in the repository; `assignCutoffDate` writes a
  date nothing reads. Wompi's fee is idempotent and read by reports.
* `Payment`: PAYPAC writing `User.status` by PUT `/users/:id`, which also takes the lock of a
  payment away.
* `EventLifecycle` keeps the status and the end of an event; a PUT writes them as the body
  says, whatever the schema declares, since the parsed body is discarded. Of other bodies that
  are written whole only the columns a property reads are modelled: role, email,
  `verified_user`, `firebase_uid` and code of a user, status and limit of an event, quota and
  count of a locality, price and locality of a stage, kind, value, limit and count of a code.
* `Checkout`: points (in `Payment` and `PointsWallet`), the check of private guests and of the
  buyer's document, `max_qty_tickets` and `min_amount_tickets`, edits of a reward rule,
  of `is_active` and of the minimum of a code by PUT, creation and deletion of localities and
  stages, items that name a locality of another event, and a stage moved to another event.
* `Venue`: invitations of staff and private guests, which are single rows behind a unique
  index; PAYPAC and organizers at the door, who are not asked for an assignment.
* `EmailQueue`: the preference a user may set against a message leaves no row.
* `Accounts`: codes by SMS, default preferences, profile fields, tokens; the transfers a
  registration takes over are `AcceptByContact` of `TicketTransfer`.

## 9. Plan

Done: every module is checked, and every safety property a run checks is proved. Left are
abstract specifications worth stating: `SeatRight`, one live right of admission per
sold seat, that passes from owner to owner and is used once, implemented by calm rows
of `TicketTransfer` and `TicketResale`; and `Settlement`, a payment settled once and
whole, implemented by `Payment`. The first also needs the two ticket modules composed
over one `Ticket` table in place of `Elsewhere`.
