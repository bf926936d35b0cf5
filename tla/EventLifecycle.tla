--------------------------- MODULE EventLifecycle ---------------------------
(***************************************************************************)
(* The status of events and their liquidations: status changes and         *)
(* deletion by PAYPAC, the job that finalizes events past their end, and   *)
(* the liquidation both create from the invoices paid so far.  As in       *)
(* TicketTransfer a handler is a process that makes one database call at a *)
(* time.  The database enforces two things: the number of a liquidation is *)
(* unique, and a liquidation is of an event that exists.                   *)
(***************************************************************************)
EXTENDS Integers

CONSTANTS
  Event,      \* ids of Event rows
  Request,    \* slots for HTTP requests in flight
  Job,        \* slots for runs of the finalizer job in flight
  NoEvent,
  Company,    \* the events whose organizer has a company
  Edits,      \* the statuses a PUT writes
  MaxSales,   \* bound on the invoices of each event
  MaxFaults,  \* bound on failed handlers
  MaxRequests \* bound on the requests

ASSUME NoneAssumption == NoEvent \notin Event
ASSUME CompanyAssumption == Company \subseteq Event
ASSUME BoundsAssumption ==
  MaxSales \in [Event -> Nat] /\ MaxFaults \in Nat /\ MaxRequests \in Nat

VARIABLES
  event,       \* the Event table
  unpaid,      \* the number of ISSUED invoices of an event
  paid,        \* the number of its PAID invoices
  liquidation, \* the EventLiquidation table
  lastId,      \* the last id given to a row of it
  proc,        \* what every handler in flight has read and where it is
  atEnd,       \* history: the invoices paid when a handler last finalized the event
  liquidated,  \* history: the events that had a liquidation
  disturbed,   \* history: the events on which handlers overlapped or failed
  failed,      \* history: the events on which a handler failed
  edited,      \* history: the events whose status a PUT changed
  faults,      \* history: number of faults so far
  requests     \* history: number of requests so far

vars == <<event, unpaid, paid, liquidation, lastId, proc, atEnd, liquidated, disturbed,
          failed, edited, faults, requests>>
sales == <<unpaid, paid>>
ledger == <<liquidation, lastId>>

Process == Request \cup Job

----------------------------------------------------------------------------
\* The tables.

EventStatus == {"CREATED", "APPROVED", "SCHEDULED", "ACTIVE", "CANCELED", "RE_SCHEDULED",
                "FINALIZED"}

\* status is "NONE" once the row is deleted; ended: date_end_event has passed.
EventRow == [status: EventStatus \cup {"NONE"}, ended: BOOLEAN]

Exists(e) == event[e].status # "NONE"

\* What a PUT may make of a row: the status is in the body, or is left alone.
EditedRow(e) == [status: (Edits \cap EventStatus) \cup {event[e].status}, ended: BOOLEAN]

\* gross counts the invoices summed up; auto: made by autoCreateFromEvent.
LiquidationRow == [id: Nat, event: Event, num: Nat, gross: Nat, auto: BOOLEAN]

LiquidationsOf(e) == {r \in liquidation : r.event = e}

Step == {"idle", "status", "finalize", "existing", "sum", "number", "create", "erase"}

\* step is the next database call of the handler; todo is the rest of the job's batch.
Handler == [step: Step, event: Event \cup {NoEvent}, status: EventStatus, auto: BOOLEAN,
            gross: Nat, num: Nat, todo: SUBSET Event]

Idle == [step |-> "idle", event |-> NoEvent, status |-> "CREATED", auto |-> FALSE,
         gross |-> 0, num |-> 0, todo |-> {}]

Touches(p) == proc[p].todo \cup ({proc[p].event} \ {NoEvent})

----------------------------------------------------------------------------
\* Events created before; those of the past are left out.
Init ==
  /\ event \in [Event -> [status : EventStatus \ {"CANCELED", "FINALIZED"},
                          ended : {FALSE}]]
  /\ unpaid = [e \in Event |-> 0]
  /\ paid = [e \in Event |-> 0]
  /\ liquidation = {}
  /\ lastId = 0
  /\ proc = [p \in Process |-> Idle]
  /\ atEnd = [e \in Event |-> 0]
  /\ liquidated = {}
  /\ disturbed = {}
  /\ failed = {}
  /\ edited = {}
  /\ faults = 0
  /\ requests = 0

\* Process p passed its checks on the rows of these events and goes on.
Start(p, h, events) ==
  /\ proc[p].step = "idle"
  /\ proc' = [proc EXCEPT ![p] = h]
  /\ disturbed' = disturbed \cup {e \in events : \E q \in Process : e \in Touches(q)}
  /\ UNCHANGED <<event, sales, ledger, atEnd, liquidated, failed, edited, faults>>

\* The handler is done with one event, and the job goes on with the rest of its batch.
GoOn(p, rest) ==
  proc' = [proc EXCEPT ![p] = IF rest = {} THEN Idle
                              ELSE [Idle EXCEPT !.step = "finalize", !.todo = rest]]

Done(p) == GoOn(p, proc[p].todo)

Spoils(events) == disturbed' = disturbed \cup events /\ failed' = failed \cup events

Clash(p) == \E r \in liquidation : r.num = proc[p].num

\* The row to write is gone, or the number taken.  The error is caught, and nothing tried
\* again.
GiveUp(p) ==
  /\ \/ proc[p].step \in {"status", "erase", "sum", "create"} /\ ~Exists(proc[p].event)
     \/ proc[p].step = "create" /\ Clash(p)
  /\ Done(p)
  /\ Spoils({proc[p].event})
  /\ UNCHANGED <<event, sales, ledger, atEnd, liquidated, edited, faults, requests>>

----------------------------------------------------------------------------
\* PATCH /events/:id/status, DELETE /events/:id, PUT /events/:id.

ValidTransitions ==
  [s \in EventStatus |->
     CASE s = "CREATED"      -> {"APPROVED", "CANCELED"}
       [] s = "APPROVED"     -> {"SCHEDULED", "CANCELED"}
       [] s = "SCHEDULED"    -> {"ACTIVE", "RE_SCHEDULED", "CANCELED"}
       [] s = "ACTIVE"       -> {"FINALIZED", "CANCELED"}
       [] s = "RE_SCHEDULED" -> {"SCHEDULED", "CANCELED"}
       [] OTHER              -> {}]

UpdateEventStatus(p, e, s) ==
  /\ Exists(e)
  /\ s \in ValidTransitions[event[e].status]
  /\ Start(p, [Idle EXCEPT !.step = "status", !.event = e, !.status = s], {e})

Finalized(e) == atEnd' = [atEnd EXCEPT ![e] = paid[e]]

\* Variant: only the job makes liquidations.
WriteStatusOnly(p) ==
  /\ proc[p].step = "status" /\ Exists(proc[p].event)
  /\ event' = [event EXCEPT ![proc[p].event].status = proc[p].status]
  /\ Done(p)
  /\ UNCHANGED <<sales, ledger, atEnd, liquidated, disturbed, failed, edited, faults, requests>>

WriteStatus(p) ==
  LET e == proc[p].event IN
  /\ proc[p].step = "status" /\ Exists(e)
  /\ event' = [event EXCEPT ![e].status = proc[p].status]
  /\ IF proc[p].status = "FINALIZED"
     THEN Finalized(e) /\ proc' = [proc EXCEPT ![p].step = "existing"]
     ELSE Done(p) /\ UNCHANGED atEnd
  /\ UNCHANGED <<sales, ledger, liquidated, disturbed, failed, edited, faults, requests>>

\* Variant: only an active event is kept.
DeleteEventAny(p, e) ==
  /\ event[e].status \notin {"ACTIVE", "NONE"}
  /\ Start(p, [Idle EXCEPT !.step = "erase", !.event = e], {e})

DeleteEvent(p, e) ==
  /\ event[e].status \in {"CREATED", "CANCELED"}
  /\ Start(p, [Idle EXCEPT !.step = "erase", !.event = e], {e})

\* One transaction deletes the event with its invoices and liquidations.
EraseEvent(p) ==
  LET e == proc[p].event IN
  /\ proc[p].step = "erase" /\ Exists(e)
  /\ event' = [event EXCEPT ![e].status = "NONE"]
  /\ unpaid' = [unpaid EXCEPT ![e] = 0]
  /\ paid' = [paid EXCEPT ![e] = 0]
  /\ liquidation' = liquidation \ LiquidationsOf(e)
  /\ Done(p)
  /\ UNCHANGED <<lastId, atEnd, liquidated, disturbed, failed, edited, faults, requests>>

\* The row becomes what the body says: the end is moved, and any status is written over the
\* one that is there.
UpdateEvent(e, row) ==
  LET restated == {e} \ {d \in Event : row.status = event[d].status} IN
  /\ Exists(e)
  /\ event' = [event EXCEPT ![e] = row]
  /\ edited' = edited \cup restated
  /\ disturbed' = disturbed \cup {d \in restated : \E q \in Process : d \in Touches(q)}
  /\ UNCHANGED <<sales, ledger, proc, atEnd, liquidated, failed, faults>>

----------------------------------------------------------------------------
\* The finalizer job, every ten minutes.

EventsToFinalize == {e \in Event : event[e].status = "ACTIVE" /\ event[e].ended}

FindEventsToFinalize(p) ==
  /\ EventsToFinalize # {}
  /\ Start(p, [Idle EXCEPT !.step = "finalize", !.todo = EventsToFinalize], EventsToFinalize)
  /\ UNCHANGED requests

\* Variant: an event that will not be liquidated is passed over.
FinalizeOfCompanies(p) ==
  /\ proc[p].step = "finalize"
  /\ \E e \in proc[p].todo :
       IF Exists(e) /\ e \in Company
       THEN /\ event' = [event EXCEPT ![e].status = "FINALIZED"]
            /\ Finalized(e)
            /\ proc' = [proc EXCEPT ![p].step = "existing", ![p].event = e,
                                    ![p].todo = @ \ {e}]
       ELSE GoOn(p, proc[p].todo \ {e}) /\ UNCHANGED <<event, atEnd>>
  /\ UNCHANGED <<sales, ledger, liquidated, disturbed, failed, edited, faults, requests>>

Finalize(p) ==
  /\ proc[p].step = "finalize"
  /\ \E e \in proc[p].todo :
       IF Exists(e)
       THEN /\ event' = [event EXCEPT ![e].status = "FINALIZED"]
            /\ Finalized(e)
            /\ proc' = [proc EXCEPT ![p].step = "existing", ![p].event = e,
                                    ![p].todo = @ \ {e}]
       ELSE GoOn(p, proc[p].todo \ {e}) /\ UNCHANGED <<event, atEnd>>
  /\ UNCHANGED <<sales, ledger, liquidated, disturbed, failed, edited, faults, requests>>

----------------------------------------------------------------------------
\* Liquidations: autoCreateFromEvent, POST and DELETE /liquidations.

\* Variant: nobody looks.
FindExistingNot(p) ==
  /\ proc[p].step = "existing"
  /\ proc' = [proc EXCEPT ![p].step = "sum"]
  /\ UNCHANGED <<event, sales, ledger, atEnd, liquidated, disturbed, failed, edited, faults,
                 requests>>

FindExisting(p) ==
  /\ proc[p].step = "existing"
  /\ IF LiquidationsOf(proc[p].event) # {} THEN Done(p)
     ELSE proc' = [proc EXCEPT ![p].step = "sum"]
  /\ UNCHANGED <<event, sales, ledger, atEnd, liquidated, disturbed, failed, edited, faults,
                 requests>>

\* Variant: sums up the invoices ISSUED.
SumIssued(p) ==
  LET e == proc[p].event IN
  /\ proc[p].step = "sum" /\ Exists(e)
  /\ IF e \in Company
     THEN proc' = [proc EXCEPT ![p].step = "number", ![p].auto = TRUE, ![p].gross = unpaid[e]]
     ELSE Done(p)
  /\ UNCHANGED <<event, sales, ledger, atEnd, liquidated, disturbed, failed, edited, faults,
                 requests>>

SumInvoices(p) ==
  LET e == proc[p].event IN
  /\ proc[p].step = "sum" /\ Exists(e)
  /\ IF e \in Company
     THEN proc' = [proc EXCEPT ![p].step = "number", ![p].auto = TRUE, ![p].gross = paid[e]]
     ELSE Done(p)
  /\ UNCHANGED <<event, sales, ledger, atEnd, liquidated, disturbed, failed, edited, faults,
                 requests>>

\* PAYPAC enters the amounts, and nobody looks for an existing liquidation.
CreateLiquidation(p, e) ==
  /\ Exists(e)
  /\ Start(p, [Idle EXCEPT !.step = "number", !.event = e], {e})

\* generateNumLiquidation: the number after that of the newest row.
GenerateNum(p) ==
  LET newest == {r \in liquidation : \A q \in liquidation : q.id <= r.id} IN
  /\ proc[p].step = "number"
  /\ \E n \in IF liquidation = {} THEN {1} ELSE {r.num + 1 : r \in newest} :
       proc' = [proc EXCEPT ![p].step = "create", ![p].num = n]
  /\ UNCHANGED <<event, sales, ledger, atEnd, liquidated, disturbed, failed, edited, faults,
                 requests>>

InsertLiquidation(p) ==
  LET h == proc[p] IN
  /\ h.step = "create" /\ Exists(h.event) /\ ~Clash(p)
  /\ lastId' = lastId + 1
  /\ liquidation' = liquidation \cup {[id |-> lastId', event |-> h.event, num |-> h.num,
                                       gross |-> h.gross, auto |-> h.auto]}
  /\ liquidated' = liquidated \cup {h.event}
  /\ Done(p)
  /\ UNCHANGED <<event, sales, atEnd, disturbed, failed, edited, faults, requests>>

DeleteLiquidation(r) ==
  /\ liquidation' = liquidation \ {r}
  /\ UNCHANGED <<event, sales, lastId, proc, atEnd, liquidated, disturbed, failed, edited, faults>>

----------------------------------------------------------------------------
\* Sales, time and faults.

OpenInvoice(e) ==
  /\ event[e].status \in {"APPROVED", "SCHEDULED", "ACTIVE"}
  /\ unpaid[e] + paid[e] < MaxSales[e]
  /\ unpaid' = [unpaid EXCEPT ![e] = @ + 1]
  /\ UNCHANGED <<event, paid, ledger, proc, atEnd, liquidated, disturbed, failed, edited,
                 faults, requests>>

\* The webhook does not look at the event.
PayInvoice(e) ==
  /\ unpaid[e] > 0
  /\ unpaid' = [unpaid EXCEPT ![e] = @ - 1]
  /\ paid' = [paid EXCEPT ![e] = @ + 1]
  /\ UNCHANGED <<event, ledger, proc, atEnd, liquidated, disturbed, failed, edited, faults,
                 requests>>

Ends(e) ==
  /\ Exists(e) /\ ~event[e].ended
  /\ event' = [event EXCEPT ![e].ended = TRUE]
  /\ UNCHANGED <<sales, ledger, proc, atEnd, liquidated, disturbed, failed, edited, faults,
                 requests>>

\* VOIDED takes the invoice back whatever it was; atEnd keeps those still paid.
VoidInvoice(e) ==
  /\ \/ /\ unpaid[e] > 0
        /\ unpaid' = [unpaid EXCEPT ![e] = @ - 1]
        /\ UNCHANGED <<paid, atEnd>>
     \/ /\ paid[e] > 0
        /\ paid' = [paid EXCEPT ![e] = @ - 1]
        /\ atEnd' = [atEnd EXCEPT ![e] = IF @ > paid'[e] THEN paid'[e] ELSE @]
        /\ UNCHANGED unpaid
  /\ UNCHANGED <<event, ledger, proc, liquidated, disturbed, failed, edited, faults, requests>>

\* A restart stops a handler; after a database error the job goes on with its other events.
Fail(p) ==
  /\ proc[p].step # "idle"
  /\ faults < MaxFaults
  /\ faults' = faults + 1
  /\ \/ proc' = [proc EXCEPT ![p] = Idle] /\ Spoils(Touches(p))
     \/ proc[p].step # "finalize" /\ Done(p) /\ Spoils({proc[p].event})
     \/ \E e \in proc[p].todo :
          proc[p].step = "finalize" /\ GoOn(p, proc[p].todo \ {e}) /\ Spoils({e})
  /\ UNCHANGED <<event, sales, ledger, atEnd, liquidated, edited, requests>>

----------------------------------------------------------------------------
Begin(p) ==
  \/ \E e \in Event, s \in EventStatus : UpdateEventStatus(p, e, s)
  \/ \E e \in Event : DeleteEvent(p, e) \/ CreateLiquidation(p, e)

Continue(p) ==
  \/ WriteStatus(p) \/ EraseEvent(p) \/ Finalize(p)
  \/ FindExisting(p) \/ SumInvoices(p) \/ GenerateNum(p) \/ InsertLiquidation(p)
  \/ GiveUp(p)

Next ==
  \/ /\ requests < MaxRequests
     /\ requests' = requests + 1
     /\ \/ \E p \in Request : Begin(p)
        \/ \E e \in Event : \E row \in EditedRow(e) : UpdateEvent(e, row)
        \/ \E r \in liquidation : DeleteLiquidation(r)
  \/ \E p \in Job : FindEventsToFinalize(p)
  \/ \E p \in Process : Continue(p) \/ Fail(p)
  \/ \E e \in Event : OpenInvoice(e) \/ PayInvoice(e) \/ VoidInvoice(e) \/ Ends(e)

Spec == Init /\ [][Next]_vars

\* A handler in flight goes on, and the job runs every ten minutes.
FairSpec ==
  /\ Spec
  /\ \A p \in Process : WF_vars(Continue(p))
  /\ \A p \in Job : WF_vars(FindEventsToFinalize(p))

----------------------------------------------------------------------------
TypeOK ==
  /\ event \in [Event -> EventRow]
  /\ {unpaid, paid, atEnd} \subseteq [Event -> Nat]
  /\ \A e \in Event : unpaid[e] + paid[e] <= MaxSales[e] /\ atEnd[e] <= MaxSales[e]
  /\ liquidation \subseteq LiquidationRow
  /\ lastId \in Nat
  /\ proc \in [Process -> Handler]
  /\ liquidated \subseteq Event
  /\ failed \subseteq disturbed /\ disturbed \subseteq Event /\ edited \subseteq Event
  /\ faults \in 0..MaxFaults
  /\ requests \in 0..MaxRequests

Calm == Event \ disturbed

\* What a step may make of the status of an event.
ValidStep(e) ==
  LET s == event[e].status
      t == event'[e].status IN
  \/ s = t
  \/ s \in EventStatus /\ t \in ValidTransitions[s]
  \/ s \in {"CREATED", "CANCELED"} /\ t = "NONE"
  \/ \E row \in EditedRow(e) : UpdateEvent(e, row)

\* Where no handlers overlap, only a PUT takes an event along a way that the table of
\* transitions does not have: the finalizer, with a batch read some time ago, finalizes
\* events that are still ACTIVE, and none is deleted, with its invoices and liquidations,
\* that was approved and not cancelled.
TransitionsAreValid == [][\A e \in Calm \ disturbed' : ValidStep(e)]_vars

\* No event is liquidated automatically twice, nor once PAYPAC has liquidated it by hand,
\* whether the job or PAYPAC finalizes it.
OneLiquidation ==
  \A e \in Calm : \A q, r \in LiquidationsOf(e) : r.auto => q = r \/ q.id > r.id

\* An automatic liquidation is of an event that is over, and covers every invoice paid
\* before the event was, but those voided since, unless a PUT changed the event's status.
PaidIsLiquidated ==
  \A e \in Calm \ edited : \A r \in LiquidationsOf(e) : r.auto =>
    event[e].status = "FINALIZED" /\ r.gross >= atEnd[e]

\* Whatever fails, an active event past its end is finalized in the end, unless it is
\* cancelled or put off.
EndedIsFinalized ==
  \A e \in Event : e \in EventsToFinalize ~> e \notin EventsToFinalize

\* A finalized event gets its liquidation if its organizer has a company, unless a handler
\* of the event failed, by a fault or because another liquidation took its number, or a PUT
\* changed its status: that of a PUT is not followed by a liquidation.
FinalizedIsLiquidated ==
  \A e \in Company : event[e].status = "FINALIZED" ~> e \in liquidated \cup failed \cup edited

\* The comments of the table of transitions: nothing leads out of CANCELED and FINALIZED.
\* PUT /events/:id does not keep this (README, section 7).
TerminalIsFinal ==
  [][\A e \in Calm :
       event[e].status \in {"CANCELED", "FINALIZED"} =>
         event'[e].status \in {event[e].status, "NONE"}]_vars

=============================================================================
