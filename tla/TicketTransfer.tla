--------------------------- MODULE TicketTransfer ---------------------------
(***************************************************************************)
(* Peer-to-peer ticket transfers, the transfer-expiry job and the door     *)
(* scan.  The rows of the Ticket and TicketTransaction tables are the      *)
(* shared state; every HTTP request and every run of the job is a process  *)
(* that reads some rows, checks them, and then writes, one database call   *)
(* at a time.  Between two calls of one handler the Node event loop may    *)
(* run any call of any other: no handler locks a row, and no update        *)
(* re-checks in its WHERE clause what the handler read before.             *)
(***************************************************************************)
EXTENDS Naturals, FiniteSets

CONSTANTS
  User,       \* customers
  Ticket,     \* ids of Ticket rows (a finite bound on the autoincrement key)
  Sold,       \* the rows that were bought; the others do not exist yet
  Tx,         \* ids of TicketTransaction rows (a finite bound as well)
  Request,    \* slots for HTTP requests in flight
  Cron,       \* the slot of the transfer-expiry job (an instance may share it with requests)
  NoUser, NoTicket, NoTx,
  MaxFaults,  \* bound on failed handlers and administrator overrides
  MaxRequests \* bound on the requests that read their rows and go on to write

ASSUME SoldAssumption == Sold \subseteq Ticket
ASSUME NoneAssumption ==
  NoUser \notin User /\ NoTicket \notin Ticket /\ NoTx \notin Tx \cup Ticket
ASSUME BoundsAssumption == MaxFaults \in Nat /\ MaxRequests \in Nat

VARIABLES
  ticket,     \* the Ticket table
  tx,         \* the TicketTransaction table
  proc,       \* what every handler in flight has read and where it is
  disturbed,  \* history: rows on which two handlers overlapped, or one failed
  faults,     \* history: number of faults so far
  requests    \* history: number of such requests so far

vars == <<ticket, tx, proc, disturbed, faults, requests>>

Process == Request \cup {Cron}

----------------------------------------------------------------------------
\* The tables.  "NONE" is the status of a row that has not been inserted.

TicketStatus == {"PENDING", "PAID", "ACTIVE", "USED", "FROZEN", "TRANSFERRED",
                 "CANCELED", "EXPIRED", "ON_SALE"}

\* unused is ticket_first_time = 1.  copyOf and entries are history: the row this
\* one was issued to replace, and how many times the door let this row in.
TicketRow == [status: TicketStatus \cup {"NONE"}, owner: User \cup {NoUser},
              unused: BOOLEAN, copyOf: Ticket \cup {NoTicket}, entries: Nat]

NoRow == [status |-> "NONE", owner |-> NoUser, unused |-> TRUE,
          copyOf |-> NoTicket, entries |-> 0]

\* No code writes the statuses FROZEN and PAID of a transfer, which some guards admit.
TxRow == [status: {"NONE", "PENDING", "COMPLETED", "CANCELLED"},
          row: Ticket \cup {NoTicket}, from: User \cup {NoUser}, to: User \cup {NoUser}]

NoTransfer == [status |-> "NONE", row |-> NoTicket, from |-> NoUser, to |-> NoUser]

Step == {"idle", "freeze", "open", "commit", "giveBack", "activate", "close",
         "assign", "mark", "move", "record", "void"}

\* step is the next database write of the handler; the other fields are what it
\* keeps in local variables across its awaits (id is the key its INSERT will get).
Handler == [step: Step, row: Ticket \cup {NoTicket}, id: Tx \cup Ticket \cup {NoTx},
            tx: Tx \cup {NoTx}, batch: SUBSET Tx, by: User \cup {NoUser},
            to: User \cup {NoUser}, sale: BOOLEAN]

Idle == [step |-> "idle", row |-> NoTicket, id |-> NoTx, tx |-> NoTx, batch |-> {},
         by |-> NoUser, to |-> NoUser, sale |-> FALSE]

GivesBack == {"giveBack", "activate", "close"}

\* The rows handler p has read and will still write.
Touches(p) ==
  IF proc[p].step \in GivesBack THEN {tx[x].row : x \in proc[p].batch}
  ELSE {proc[p].row} \ {NoTicket}

Busy(t) == \E p \in Process : t \in Touches(p)

FreeTicket == {t \in Ticket : ticket[t].status = "NONE" /\ \A p \in Process : proc[p].id # t}
FreeTx     == {x \in Tx : tx[x].status = "NONE" /\ \A p \in Process : proc[p].id # x}

OpenOn(t) == {x \in Tx : tx[x].row = t /\ tx[x].status = "PENDING"}
CompletedOn(t) == {x \in Tx : tx[x].row = t /\ tx[x].status = "COMPLETED"}
CopiesOf(t) == {c \in Ticket : ticket[c].copyOf = t}

----------------------------------------------------------------------------
Init ==
  /\ ticket \in [Ticket -> {NoRow} \cup {[NoRow EXCEPT !.status = "PAID", !.owner = u] : u \in User}]
  /\ \A t \in Ticket : ticket[t] = NoRow <=> t \notin Sold
  /\ tx = [x \in Tx |-> NoTransfer]
  /\ proc = [p \in Process |-> Idle]
  /\ disturbed = {}
  /\ faults = 0
  /\ requests = 0

\* Process p passed its checks and goes on to write rows: they are disturbed when
\* another handler has read them and not finished with them.
Start(p, h, rows) ==
  /\ proc[p].step = "idle"
  /\ proc' = [proc EXCEPT ![p] = h]
  /\ disturbed' = disturbed \cup {t \in rows : Busy(t)}
  /\ UNCHANGED <<ticket, tx, faults>>

Goto(p, s) == proc' = [proc EXCEPT ![p].step = s]
Finish(p)  == proc' = [proc EXCEPT ![p] = Idle]

----------------------------------------------------------------------------
\* POST /ticket-transactions: read and check the ticket, look the recipient up by
\* contact (v is the user found, or the sender u in place of an unregistered one),
\* then freeze, then insert.

SendTransfer(p, t, u, v) ==
  /\ ticket[t].owner = u
  /\ ticket[t].status \in {"ACTIVE", "PAID"}
  /\ \E x \in FreeTx :
       Start(p, [Idle EXCEPT !.step = "freeze", !.row = t, !.id = x, !.by = u, !.to = v],
             {t})

\* Variant: the freeze is forgotten.
FreezeTicketNotFrozen(p) ==
  /\ proc[p].step = "freeze"
  /\ Goto(p, "open")
  /\ UNCHANGED <<ticket, tx, disturbed, faults, requests>>

FreezeTicket(p) ==
  /\ proc[p].step = "freeze"
  /\ ticket' = [ticket EXCEPT ![proc[p].row].status = "FROZEN"]
  /\ Goto(p, "open")
  /\ UNCHANGED <<tx, disturbed, faults, requests>>

OpenTransfer(p) ==
  LET h == proc[p] IN
  /\ h.step = "open"
  /\ tx' = [tx EXCEPT ![h.id] = [status |-> "PENDING", row |-> h.row, from |-> h.by,
                                 to |-> h.to]]
  /\ Finish(p)
  /\ UNCHANGED <<ticket, disturbed, faults, requests>>

----------------------------------------------------------------------------
\* POST /ticket-transactions/:id/accept: only the transaction is checked, never the
\* ticket; the three writes are one database transaction.

AcceptTransfer(p, x, u) ==
  /\ tx[x].status = "PENDING"
  /\ tx[x].to = u
  /\ \E c \in FreeTicket :
       Start(p, [Idle EXCEPT !.step = "commit", !.row = tx[x].row, !.id = c, !.tx = x,
                             !.by = u], {tx[x].row})

\* Variant: the transaction is left PENDING.
CommitAcceptLeavesOpen(p) ==
  LET h == proc[p] IN
  /\ h.step = "commit"
  /\ ticket' = [ticket EXCEPT
                  ![h.row].status = "TRANSFERRED",
                  ![h.id] = [status |-> "ACTIVE", owner |-> h.by, unused |-> TRUE,
                             copyOf |-> h.row, entries |-> 0]]
  /\ Finish(p)
  /\ UNCHANGED <<tx, disturbed, faults, requests>>

CommitAccept(p) ==
  LET h == proc[p] IN
  /\ h.step = "commit"
  /\ ticket' = [ticket EXCEPT
                  ![h.row].status = "TRANSFERRED",
                  ![h.id] = [status |-> "ACTIVE", owner |-> h.by, unused |-> TRUE,
                             copyOf |-> h.row, entries |-> 0]]
  /\ tx' = [tx EXCEPT ![h.tx].status = "COMPLETED"]
  /\ Finish(p)
  /\ UNCHANGED <<disturbed, faults, requests>>

----------------------------------------------------------------------------
\* Reject (the recipient), cancel (the sender) and expire (the job) give the ticket
\* back with the same three separate writes.

\* Variant: the transaction is cancelled and the ticket is not given back.
RejectTransferKeepsTicket(p, x, u) ==
  /\ tx[x].status = "PENDING"
  /\ tx[x].to = u
  /\ Start(p, [Idle EXCEPT !.step = "close", !.tx = x, !.batch = {x}], {tx[x].row})

RejectTransfer(p, x, u) ==
  /\ tx[x].status = "PENDING"
  /\ tx[x].to = u
  /\ Start(p, [Idle EXCEPT !.step = "giveBack", !.batch = {x}], {tx[x].row})

CancelTransaction(p, x, u) ==
  /\ tx[x].status = "PENDING"
  /\ tx[x].from = u
  /\ Start(p, [Idle EXCEPT !.step = "giveBack", !.batch = {x}], {tx[x].row})

\* Variant: only the transfers whose recipient is still the placeholder expire.
ExpirePlaceholders(expired) ==
  /\ expired # {}
  /\ \A x \in expired : tx[x].status = "PENDING" /\ tx[x].to = tx[x].from
  /\ Start(Cron, [Idle EXCEPT !.step = "giveBack", !.batch = expired],
           {tx[x].row : x \in expired})
  /\ UNCHANGED requests

\* One findMany reads the PENDING transactions older than the cutoff (which ones is
\* time's choice); the loop below never re-reads them, and two of one batch may
\* concern the same row.
ExpireTransfers(expired) ==
  /\ expired # {}
  /\ \A x \in expired : tx[x].status = "PENDING"
  /\ Start(Cron, [Idle EXCEPT !.step = "giveBack", !.batch = expired],
           {tx[x].row : x \in expired})
  /\ UNCHANGED requests

\* transferOwnership: back to the sender, status TRANSFERRED.
GiveBack(p) ==
  /\ proc[p].step = "giveBack"
  /\ \E x \in proc[p].batch :
       /\ ticket' = [ticket EXCEPT ![tx[x].row].owner = tx[x].from,
                                   ![tx[x].row].status = "TRANSFERRED"]
       /\ proc' = [proc EXCEPT ![p].step = "activate", ![p].tx = x]
  /\ UNCHANGED <<tx, disturbed, faults, requests>>

Activate(p) ==
  /\ proc[p].step = "activate"
  /\ ticket' = [ticket EXCEPT ![tx[proc[p].tx].row].status = "ACTIVE"]
  /\ Goto(p, "close")
  /\ UNCHANGED <<tx, disturbed, faults, requests>>

\* Handler p is done with transaction x; the job goes on with the rest of its batch.
NextInBatch(p, x, again) ==
  LET rest == proc[p].batch \ {x} IN
  proc' = [proc EXCEPT ![p] = IF rest = {} THEN Idle
                              ELSE [@ EXCEPT !.step = again, !.batch = rest, !.tx = NoTx]]

CloseTransfer(p) ==
  /\ proc[p].step = "close"
  /\ tx' = [tx EXCEPT ![proc[p].tx].status = "CANCELLED"]
  /\ NextInBatch(p, proc[p].tx, "giveBack")
  /\ UNCHANGED <<ticket, disturbed, faults, requests>>

----------------------------------------------------------------------------
\* acceptByContact, run when a customer registers: the open transfers addressed to
\* the contact (found, by one findMany) get their real recipient, one update each.
\* Contacts are not modelled: any open transfers may be the ones found.

AcceptByContact(p, u, found) ==
  /\ found # {}
  /\ \A x \in found : tx[x].status = "PENDING"
  /\ Start(p, [Idle EXCEPT !.step = "assign", !.batch = found, !.by = u], {})

AssignRecipient(p) ==
  /\ proc[p].step = "assign"
  /\ \E x \in proc[p].batch :
       /\ tx' = [tx EXCEPT ![x].to = proc[p].by]
       /\ NextInBatch(p, x, "assign")
  /\ UNCHANGED <<ticket, disturbed, faults, requests>>

----------------------------------------------------------------------------
\* POST /tickets/:id/transfer: ownership moves on the row itself, then the
\* controller records it; a "sale" is recorded as still PENDING.  (A second update
\* of the row, which resets its device and TOTP columns, touches no modelled column.)

TransferTicket(p, t, u, v, sale) ==
  /\ ticket[t].owner = u
  /\ ticket[t].status \in {"PAID", "ACTIVE"}
  /\ ticket[t].unused
  /\ \E x \in FreeTx :
       Start(p, [Idle EXCEPT !.step = "move", !.row = t, !.id = x, !.by = u, !.to = v,
                             !.sale = sale], {t})

MoveTicket(p) ==
  LET h == proc[p] IN
  /\ h.step = "move"
  /\ ticket' = [ticket EXCEPT ![h.row].owner = h.to, ![h.row].status = "TRANSFERRED"]
  /\ Goto(p, "record")
  /\ UNCHANGED <<tx, disturbed, faults, requests>>

\* Variant: a sale is recorded FROZEN, the status the accept guard speaks of.
RecordTransferFrozen(p) ==
  LET h == proc[p] IN
  /\ h.step = "record"
  /\ tx' = [tx EXCEPT ![h.id] = [status |-> IF h.sale THEN "FROZEN" ELSE "COMPLETED",
                                 row |-> h.row, from |-> h.by, to |-> h.to]]
  /\ Finish(p)
  /\ UNCHANGED <<ticket, disturbed, faults, requests>>

RecordTransfer(p) ==
  LET h == proc[p] IN
  /\ h.step = "record"
  /\ tx' = [tx EXCEPT ![h.id] = [status |-> IF h.sale THEN "PENDING" ELSE "COMPLETED",
                                 row |-> h.row, from |-> h.by, to |-> h.to]]
  /\ Finish(p)
  /\ UNCHANGED <<ticket, disturbed, faults, requests>>

----------------------------------------------------------------------------
\* The door: a scan (QR, TOTP or NFC) reads the row, checks it, and marks it used.

\* Variant: only the status is checked.
ValidateTicketByStatus(p, t) ==
  /\ ticket[t].status \in {"PAID", "ACTIVE", "TRANSFERRED"}
  /\ Start(p, [Idle EXCEPT !.step = "mark", !.row = t], {t})

ValidateTicket(p, t) ==
  /\ ticket[t].unused
  /\ ticket[t].status \in {"PAID", "ACTIVE", "TRANSFERRED"}
  /\ Start(p, [Idle EXCEPT !.step = "mark", !.row = t], {t})

MarkAsUsed(p) ==
  LET t == proc[p].row IN
  /\ proc[p].step = "mark"
  /\ ticket' = [ticket EXCEPT ![t].unused = FALSE, ![t].status = "USED",
                              ![t].entries = @ + 1]
  /\ Finish(p)
  /\ UNCHANGED <<tx, disturbed, faults, requests>>

\* DELETE /tickets/:id by the owner or PAYPAC: any status will do.
CancelTicket(p, t) ==
  /\ ticket[t].status # "NONE"
  /\ ticket[t].unused
  /\ Start(p, [Idle EXCEPT !.step = "void", !.row = t], {t})

SoftDelete(p) ==
  /\ proc[p].step = "void"
  /\ ticket' = [ticket EXCEPT ![proc[p].row].status = "CANCELED"]
  /\ Finish(p)
  /\ UNCHANGED <<tx, disturbed, faults, requests>>

----------------------------------------------------------------------------
\* Faults, at most MaxFaults of them.

Fault(rows) ==
  /\ faults < MaxFaults
  /\ faults' = faults + 1
  /\ disturbed' = disturbed \cup rows

\* A database error or a restart of the process stops a handler before its next
\* write.  What it wrote stays.  The job and acceptByContact catch an error inside
\* their loops: they leave one transaction as it is and go on with the others.
Fail(p) ==
  /\ proc[p].step # "idle"
  /\ \/ Fault(Touches(p)) /\ Finish(p)
     \/ \E x \in proc[p].batch :
          /\ proc[p].step \in {"activate", "close"} => x = proc[p].tx
          /\ Fault(Touches(p) \cap {tx[x].row})
          /\ NextInBatch(p, x, IF proc[p].step = "assign" THEN "assign" ELSE "giveBack")
  /\ UNCHANGED <<ticket, tx, requests>>

\* PATCH /tickets/admin/:id/status and POST /tickets/admin/:id/transfer.
AdminSetStatus(t, s) ==
  /\ ticket[t].status # "NONE"
  /\ Fault({t})
  /\ ticket' = [ticket EXCEPT ![t].status = s]
  /\ UNCHANGED <<tx, proc, requests>>

AdminTransfer(t, v) ==
  /\ ticket[t].status # "NONE"
  /\ Fault({t})
  /\ ticket' = [ticket EXCEPT ![t].owner = v, ![t].status = "TRANSFERRED"]
  /\ UNCHANGED <<tx, proc, requests>>

----------------------------------------------------------------------------
Begin(p) ==
  /\ requests < MaxRequests
  /\ requests' = requests + 1
  /\ \/ \E t \in Ticket, u, v \in User : SendTransfer(p, t, u, v)
     \/ \E x \in Tx, u \in User : AcceptTransfer(p, x, u)
     \/ \E x \in Tx, u \in User : RejectTransfer(p, x, u)
     \/ \E x \in Tx, u \in User : CancelTransaction(p, x, u)
     \/ \E u \in User, found \in SUBSET Tx : AcceptByContact(p, u, found)
     \/ \E t \in Ticket, u, v \in User, sale \in BOOLEAN : TransferTicket(p, t, u, v, sale)
     \/ \E t \in Ticket : ValidateTicket(p, t)
     \/ \E t \in Ticket : CancelTicket(p, t)

Continue(p) ==
  \/ FreezeTicket(p) \/ OpenTransfer(p)
  \/ CommitAccept(p)
  \/ GiveBack(p) \/ Activate(p) \/ CloseTransfer(p)
  \/ AssignRecipient(p)
  \/ MoveTicket(p) \/ RecordTransfer(p)
  \/ MarkAsUsed(p) \/ SoftDelete(p)

Next ==
  \/ \E p \in Request : Begin(p)
  \/ \E expired \in SUBSET Tx : ExpireTransfers(expired)
  \/ \E p \in Process : Continue(p) \/ Fail(p)
  \/ \E t \in Ticket, s \in TicketStatus : AdminSetStatus(t, s)
  \/ \E t \in Ticket, v \in User : AdminTransfer(t, v)

Spec == Init /\ [][Next]_vars

\* A handler in flight goes on, and a transaction that stays open gets old and is
\* then found by the hourly job.
FairSpec ==
  /\ Spec
  /\ \A p \in Process : WF_vars(Continue(p))
  /\ \A x \in Tx : WF_vars(\E expired \in SUBSET Tx : x \in expired /\ ExpireTransfers(expired))

----------------------------------------------------------------------------
TypeOK ==
  /\ ticket \in [Ticket -> TicketRow]
  /\ tx \in [Tx -> TxRow]
  /\ proc \in [Process -> Handler]
  /\ disturbed \subseteq Ticket
  /\ faults \in 0..MaxFaults
  /\ requests \in 0..MaxRequests

\* A row that no two handlers fought over is replaced by at most one new ticket:
\* acceptTransfer (which never looks at the ticket) cannot run twice to its end for
\* it, whatever else happened to the row in between and whatever happens elsewhere.
ReplacedOnce ==
  \A t \in Ticket \ disturbed : \A c, d \in CopiesOf(t) : c = d

\* Such a row is offered to one recipient at a time, and once a transfer of it has
\* COMPLETED it is never open, frozen or in the sender's wallet again.
OneTransferAtATime ==
  \A t \in Ticket \ disturbed :
    /\ \A x, y \in OpenOn(t) : x = y
    /\ CompletedOn(t) # {} => /\ OpenOn(t) = {}
                              /\ ticket[t].status \in {"TRANSFERRED", "USED", "CANCELED"}

\* A ticket is FROZEN on account of an open transfer by its owner, which accept,
\* reject, cancel or the job can still settle: it is not lost to its owner.
FrozenIsOffered ==
  \A t \in Ticket \ disturbed :
    ticket[t].status = "FROZEN" /\ ~Busy(t) =>
      \E x \in OpenOn(t) : tx[x].from = ticket[t].owner

\* The door lets such a row in once, even when a transfer is given back after the
\* scan and the row returns from USED to ACTIVE.
EntersOnce ==
  \A t \in Ticket \ disturbed : ticket[t].entries <= 1

\* The comment in acceptTransfer: the new credentials invalidate any QR or TOTP
\* the sender kept.  So a row that was replaced is not let in any more.  The code does
\* not keep this (README, section 7).
ReplacedIsNotLetIn ==
  \A t \in Ticket \ disturbed : CopiesOf(t) # {} => ticket[t].entries = 0

\* With no fault, a FROZEN ticket is always released in the end (accepted, given
\* back or expired), even when handlers race for it.
FrozenIsReleased ==
  \A t \in Ticket : ticket[t].status = "FROZEN" ~> ticket[t].status # "FROZEN"

\* With no fault, a transfer does not stay open for ever.
OpenIsSettled ==
  \A x \in Tx : tx[x].status = "PENDING" ~> tx[x].status # "PENDING"

=============================================================================
