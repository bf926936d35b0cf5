--------------------- MODULE EventLifecycleVenue_proofs ----------------------
(***************************************************************************)
(* Proofs about EventLifecycle and about Venue: an event until its         *)
(* liquidation, and its doors, bars and seats on the day. The two share no *)
(* state; the argument is the same for both, one of ownership: a row that  *)
(* no two handlers met on has one handler at most, and what that handler   *)
(* read of it stays true until it writes.                                  *)
(*                                                                         *)
(* EventLifecycle: for any number of events, requests, runs of the         *)
(* finalizer, sales and faults, an event on which no handlers overlapped   *)
(* changes its status by the table of transitions, unless PAYPAC writes    *)
(* another over it, and has one automatic liquidation, which covers what   *)
(* was paid.                                                               *)
(*                                                                         *)
(* Venue: what the door, the bars and the seat map promise holds for any   *)
(* number of members of staff, tickets, challenges, seats and handlers.    *)
(***************************************************************************)
EXTENDS EventLifecycle, Venue, TLAPS

\* The steps that are about one event.
AboutEvent == {"status", "existing", "sum", "number", "create", "erase"}

\* What a handler is about at each step; the rest of the job's batch is other events.
Shape(h) ==
  /\ h.step = "idle" => h = Idle
  /\ h.step = "finalize" => h.event = NoEvent /\ h.todo # {}
  /\ h.step \in AboutEvent => h.event \in Event /\ h.event \notin h.todo

HandlersInShape == \A p \in Process : Shape(proc[p])

\* A calm event is in the hands of one handler at most.
Isolation ==
  \A e \in Calm : \A p, q \in Process : e \in Touches(p) /\ e \in Touches(q) => p = q

\* The ids are those given out, so that a new row is the newest.
IdsAreGiven == \A r \in liquidation : r.id <= lastId

\* What handler p still knows of a calm event: the transition is valid, the event to delete
\* may be deleted, the events of the batch are active, and the one being liquidated is
\* finalized, has no liquidation yet, and the sum covers what was paid.
KnowsTransition(h) ==
  /\ h.step = "status" => h.status \in ValidTransitions[event[h.event].status]
  /\ h.step = "erase" => event[h.event].status \in {"CREATED", "CANCELED"}

KnowsBatch(h) == \A e \in h.todo \cap Calm : event[e].status = "ACTIVE"

KnowsSum(h) ==
  /\ h.step \in {"existing", "sum"} =>
       event[h.event].status = "FINALIZED" /\ paid[h.event] >= atEnd[h.event]
  /\ h.step = "sum" => LiquidationsOf(h.event) = {}
  /\ h.step \in {"number", "create"} /\ h.auto =>
       /\ event[h.event].status = "FINALIZED"
       /\ LiquidationsOf(h.event) = {}
       /\ h.gross >= atEnd[h.event]

Knows(h) ==
  /\ h.event \in Calm => KnowsTransition(h) /\ KnowsSum(h)
  /\ KnowsBatch(h)

HandlersKnow == \A p \in Process : Knows(proc[p])

IInv ==
  /\ TypeOK
  /\ HandlersInShape
  /\ Isolation
  /\ IdsAreGiven
  /\ HandlersKnow
  /\ OneLiquidation
  /\ PaidIsLiquidated

----------------------------------------------------------------------------
\* Touches, of what a handler is rather than of its process.
Held(h) == h.todo \cup ({h.event} \ {NoEvent})

LEMMA TouchesHeld == \A p : Touches(p) = Held(proc[p]) /\ Touches(p)' = Held(proc'[p])
BY DEF Touches, Held

LEMMA IdleFacts ==
  /\ Idle \in Handler /\ Shape(Idle) /\ Held(Idle) = {} /\ Idle.step = "idle"
  /\ Idle.event = NoEvent /\ Idle.todo = {} /\ Idle.auto = FALSE
<1>1. /\ Idle \in Handler /\ Idle.step = "idle"
      /\ Idle.event = NoEvent /\ Idle.todo = {} /\ Idle.auto = FALSE
  BY DEF Idle, Handler, Step, EventStatus
<1> QED
  BY <1>1 DEF Shape, Held, AboutEvent

LEMMA IdleKnows == Knows(Idle) /\ Knows(Idle)'
BY IdleFacts, NoneAssumption DEF Knows, KnowsBatch, Calm

LEMMA InitInv == Init => IInv
<1> SUFFICES ASSUME Init PROVE IInv
  OBVIOUS
<1> USE DEF Init
<1>1. \A e \in Event : MaxSales[e] \in Nat
  BY BoundsAssumption
<1>2. TypeOK
  <2>1. event \in [Event -> EventRow] /\ proc \in [Process -> Handler]
    BY IdleFacts DEF EventRow
  <2> QED
    BY <1>1, <2>1, BoundsAssumption DEF TypeOK
<1>3. HandlersInShape /\ Isolation /\ HandlersKnow
  BY IdleFacts, IdleKnows, TouchesHeld DEF HandlersInShape, Isolation, HandlersKnow
<1>4. IdsAreGiven /\ OneLiquidation /\ PaidIsLiquidated
  BY DEF IdsAreGiven, OneLiquidation, PaidIsLiquidated, LiquidationsOf
<1> QED
  BY <1>2, <1>3, <1>4 DEF IInv

----------------------------------------------------------------------------
\* A step of nobody's handler: sales, time, and what PAYPAC does at once.
LEMMA StillInv ==
  ASSUME IInv, UNCHANGED <<proc, disturbed, edited, lastId>>, TypeOK',
         \A e \in Event :
           /\ event'[e].status = event[e].status
           /\ paid[e] >= atEnd[e] => paid'[e] >= atEnd'[e]
           /\ atEnd'[e] <= atEnd[e],
         liquidation' \subseteq liquidation
  PROVE  IInv'
<1> USE DEF IInv
<1>1. HandlersInShape'
  BY DEF HandlersInShape
<1>2. Isolation'
  BY DEF Isolation, Calm, Touches
<1>3. IdsAreGiven'
  BY DEF IdsAreGiven
<1>4. /\ \A e \in Event : LiquidationsOf(e)' \subseteq LiquidationsOf(e)
      /\ \A e \in Event : atEnd[e] \in Nat /\ atEnd'[e] \in Nat
      /\ \A r \in liquidation : r.gross \in Nat
      /\ Calm' = Calm
  BY DEF LiquidationsOf, TypeOK, LiquidationRow, Calm
<1>5. OneLiquidation'
  BY <1>4 DEF OneLiquidation, Calm
<1>6. PaidIsLiquidated'
  <2> SUFFICES ASSUME NEW e \in Calm \ edited, NEW r \in LiquidationsOf(e)', r.auto
               PROVE  event'[e].status = "FINALIZED" /\ r.gross >= atEnd'[e]
    BY <1>4 DEF PaidIsLiquidated
  <2>1. e \in Event /\ r \in LiquidationsOf(e) /\ r \in liquidation
    BY <1>4 DEF Calm, LiquidationsOf
  <2>2. event[e].status = "FINALIZED" /\ r.gross >= atEnd[e]
    BY <2>1 DEF PaidIsLiquidated
  <2> QED
    BY <1>4, <2>1, <2>2
<1>7. HandlersKnow'
  <2> SUFFICES ASSUME NEW p \in Process PROVE Knows(proc[p])'
    BY DEF HandlersKnow
  <2>1. Knows(proc[p]) /\ proc[p].gross \in Nat
    BY DEF HandlersKnow, TypeOK, Handler
  <2>2. KnowsBatch(proc[p])'
    BY <1>4, <2>1 DEF Knows, KnowsBatch, Calm
  <2>3. ASSUME proc[p].event \in Calm PROVE KnowsTransition(proc[p])' /\ KnowsSum(proc[p])'
    <3>1. proc[p].event \in Event
      BY <2>3 DEF Calm
    <3>2. KnowsTransition(proc[p])'
      BY <2>1, <2>3, <3>1 DEF Knows, KnowsTransition
    <3>3. KnowsSum(proc[p])'
      BY <1>4, <2>1, <2>3, <3>1 DEF Knows, KnowsSum
    <3> QED
      BY <3>2, <3>3
  <2> QED
    BY <1>4, <2>2, <2>3 DEF Knows
<1> QED
  BY <1>1, <1>2, <1>3, <1>5, <1>6, <1>7

----------------------------------------------------------------------------
\* A handler starts with what it has just read.
LEMMA StartInv ==
  ASSUME IInv, NEW p \in Process, NEW h \in Handler, Shape(h), Knows(h), Start(p, h, Held(h)),
         Held(h) \subseteq Event, requests' \in 0..MaxRequests
  PROVE  IInv'
<1> USE DEF IInv, Start
<1>1. /\ proc' \in [Process -> Handler]
      /\ proc'[p] = h /\ \A q \in Process \ {p} : proc'[q] = proc[q]
      /\ UNCHANGED <<event, unpaid, paid, liquidation, lastId, atEnd, liquidated, failed, edited,
                     faults>>
      /\ disturbed \subseteq disturbed' /\ disturbed' \subseteq Event
      /\ Calm' \subseteq Calm
  BY DEF TypeOK, sales, ledger, Calm
<1>2. TypeOK'
  BY <1>1 DEF TypeOK
<1>3. HandlersInShape'
  BY <1>1 DEF HandlersInShape
<1>4. Isolation'
  <2>1. \A e \in Calm' : e \in Held(h) => \A q \in Process : e \notin Held(proc[q])
    BY TouchesHeld DEF Calm
  <2> QED
    BY <1>1, <2>1, TouchesHeld DEF Isolation
<1>5. IdsAreGiven' /\ OneLiquidation' /\ PaidIsLiquidated'
  BY <1>1 DEF IdsAreGiven, OneLiquidation, PaidIsLiquidated, LiquidationsOf
<1>6. ASSUME NEW g, Knows(g) PROVE Knows(g)'
  BY <1>1, <1>6 DEF Knows, KnowsTransition, KnowsBatch, KnowsSum, LiquidationsOf
<1>7. HandlersKnow'
  BY <1>1, <1>6 DEF HandlersKnow
<1> QED
  BY <1>2, <1>3, <1>4, <1>5, <1>7

\* A step writes of event e alone, but that it may delete rows of others.
OnlyAbout(e) ==
  \A d \in Event \ {e} : /\ event'[d].status = event[d].status
                         /\ paid'[d] = paid[d] /\ atEnd'[d] = atEnd[d]
                         /\ LiquidationsOf(d)' \subseteq LiquidationsOf(d)

\* What OneLiquidation and PaidIsLiquidated say of event e.
LiquidatedOnce(e) ==
  \A r \in LiquidationsOf(e) : r.auto =>
    /\ \A q \in LiquidationsOf(e) : q = r \/ q.id > r.id
    /\ e \notin edited => event[e].status = "FINALIZED" /\ r.gross >= atEnd[e]

\* Handler p writes of event e, which it holds, and goes on as h.
LEMMA ContinueInv ==
  ASSUME IInv, NEW p \in Process, NEW e \in Held(proc[p]),
         NEW h \in Handler, proc' = [proc EXCEPT ![p] = h], Shape(h),
         Held(h) \subseteq Held(proc[p]), Knows(h)', OnlyAbout(e),
         edited' = edited, disturbed \subseteq disturbed', disturbed' \subseteq Event,
         proc' \in [Process -> Handler] => TypeOK',
         IdsAreGiven', e \in Calm' => LiquidatedOnce(e)'
  PROVE  IInv'
<1> USE DEF IInv
<1>1. /\ proc' \in [Process -> Handler]
      /\ proc'[p] = h /\ \A q \in Process \ {p} : proc'[q] = proc[q]
      /\ Calm' \subseteq Calm /\ Calm' \subseteq Event
  BY DEF TypeOK, Calm
<1>2. HandlersInShape'
  BY <1>1 DEF HandlersInShape
<1>3. Isolation'
  BY <1>1, TouchesHeld DEF Isolation
<1>4. ASSUME NEW q \in Process, q # p, NEW g, g = proc[q] PROVE Knows(g)'
  <2>1. Knows(g)
    BY <1>4 DEF HandlersKnow
  <2>2. \A d \in Calm' : d \in Held(g) => d # e
    BY <1>1, <1>4, TouchesHeld DEF Isolation
  <2>3. KnowsBatch(g)'
    BY <1>1, <2>1, <2>2 DEF Knows, KnowsBatch, OnlyAbout, Held
  <2>4. ASSUME g.event \in Calm' PROVE KnowsTransition(g)' /\ KnowsSum(g)'
    <3>1. g.event \in Event \ {e} /\ g.event \in Calm
      BY <1>1, <2>2, <2>4, NoneAssumption DEF Held
    <3>2. KnowsTransition(g)'
      BY <2>1, <3>1 DEF Knows, KnowsTransition, OnlyAbout
    <3>3. KnowsSum(g)'
      BY <2>1, <3>1 DEF Knows, KnowsSum, OnlyAbout
    <3> QED
      BY <3>2, <3>3
  <2> QED
    BY <2>3, <2>4 DEF Knows
<1>5. HandlersKnow'
  <2> SUFFICES ASSUME NEW q \in Process PROVE Knows(proc[q])'
    BY DEF HandlersKnow
  <2>1. CASE q = p
    BY <1>1, <2>1
  <2>2. CASE q # p
    <3>1. \A g : g = proc[q] => Knows(g)'
      BY <1>4, <2>2
    <3> QED
      BY <1>1, <2>2, <3>1
  <2> QED
    BY <2>1, <2>2
<1>6. OneLiquidation'
  <2> SUFFICES ASSUME NEW d \in Calm', NEW q \in LiquidationsOf(d)', NEW r \in LiquidationsOf(d)',
                      r.auto
               PROVE  q = r \/ q.id > r.id
    BY DEF OneLiquidation
  <2>1. CASE d = e
    BY <2>1 DEF LiquidatedOnce
  <2>2. CASE d # e
    BY <1>1, <2>2 DEF OnlyAbout, OneLiquidation
  <2> QED
    BY <2>1, <2>2
<1>7. PaidIsLiquidated'
  <2> SUFFICES ASSUME NEW d \in (Calm \ edited)', NEW r \in LiquidationsOf(d)', r.auto
               PROVE  event'[d].status = "FINALIZED" /\ r.gross >= atEnd'[d]
    BY DEF PaidIsLiquidated
  <2>1. CASE d = e
    BY <2>1 DEF LiquidatedOnce
  <2>2. CASE d # e
    BY <1>1, <2>2 DEF OnlyAbout, PaidIsLiquidated
  <2> QED
    BY <2>1, <2>2
<1> QED
  BY <1>1, <1>2, <1>3, <1>5, <1>6, <1>7

\* A step that writes none of the tables.
LEMMA NothingWritten ==
  ASSUME IInv, UNCHANGED <<event, sales, ledger, atEnd, edited>>, disturbed \subseteq disturbed'
  PROVE  /\ IdsAreGiven'
         /\ \A e : OnlyAbout(e)
         /\ \A e \in Calm' : LiquidatedOnce(e)'
<1>1. Calm' \subseteq Calm
  BY DEF Calm
<1> QED
  BY <1>1 DEF IInv, IdsAreGiven, OnlyAbout, LiquidatedOnce, LiquidationsOf, OneLiquidation,
     PaidIsLiquidated, sales, ledger

\* Handler p is done with event e, and has these events of its batch left.
LEMMA GoOnInv ==
  ASSUME IInv, NEW p \in Process, NEW e \in Held(proc[p]), NEW rest,
         rest \subseteq proc[p].todo \ {e}, GoOn(p, rest), OnlyAbout(e),
         edited' = edited, disturbed \subseteq disturbed', disturbed' \subseteq Event,
         proc' \in [Process -> Handler] => TypeOK',
         IdsAreGiven', e \in Calm' => LiquidatedOnce(e)'
  PROVE  IInv'
<1>1. proc[p].todo \subseteq Event /\ Knows(proc[p])
  BY DEF IInv, TypeOK, Handler, HandlersKnow
<1>2. PICK h \in Handler :
        /\ proc' = [proc EXCEPT ![p] = h]
        /\ Shape(h) /\ h.event = NoEvent /\ h.todo = rest
  <2>1. CASE rest = {}
    BY <2>1, IdleFacts DEF GoOn
  <2>2. CASE rest # {}
    <3> DEFINE g == [Idle EXCEPT !.step = "finalize", !.todo = rest]
    <3>1. g \in Handler /\ g.step = "finalize" /\ g.event = NoEvent /\ g.todo = rest
      BY <1>1, IdleFacts DEF Handler, Step
    <3>2. proc' = [proc EXCEPT ![p] = g]
      BY <2>2 DEF GoOn
    <3> HIDE DEF g
    <3>3. Shape(g)
      BY <2>2, <3>1 DEF Shape, AboutEvent
    <3> QED
      BY <3>1, <3>2, <3>3
  <2> QED
    BY <2>1, <2>2
<1>3. Held(h) \subseteq Held(proc[p])
  BY <1>2 DEF Held
<1>4. \A d \in rest \cap Calm' : event'[d].status = "ACTIVE"
  BY <1>1 DEF Knows, KnowsBatch, OnlyAbout, Calm
<1>5. Knows(h)'
  BY <1>2, <1>4, NoneAssumption DEF Knows, KnowsBatch, Calm
<1> QED
  BY <1>2, <1>3, <1>5, ContinueInv

\* The event a handler is about, and what is known of it.
LEMMA AboutFacts ==
  ASSUME IInv, NEW p \in Process, proc[p].step \in AboutEvent
  PROVE  \E e \in Event :
           /\ e = proc[p].event /\ e \in Held(proc[p]) /\ e \notin proc[p].todo
           /\ proc[p].todo \subseteq Event
           /\ proc[p] \in Handler /\ Knows(proc[p])
           /\ e \in Calm => LiquidatedOnce(e)
BY NoneAssumption DEF IInv, HandlersInShape, Shape, Held, HandlersKnow, TypeOK, Handler,
   LiquidatedOnce, OneLiquidation, PaidIsLiquidated

LEMMA GiveUpInv ==
  ASSUME IInv, NEW p \in Process, GiveUp(p)
  PROVE  IInv'
<1> USE DEF GiveUp
<1>1. PICK e \in Event :
        /\ e = proc[p].event /\ e \in Held(proc[p]) /\ e \notin proc[p].todo
  BY AboutFacts DEF AboutEvent
<1>2. /\ disturbed \subseteq disturbed' /\ disturbed' \subseteq Event
      /\ failed' \subseteq disturbed'
  BY <1>1 DEF Spoils, IInv, TypeOK
<1>3. proc' \in [Process -> Handler] => TypeOK'
  BY <1>2 DEF IInv, TypeOK, sales, ledger
<1>4. IdsAreGiven' /\ OnlyAbout(e) /\ (e \in Calm' => LiquidatedOnce(e)')
  BY <1>2, NothingWritten
<1> QED
  BY <1>1, <1>2, <1>3, <1>4, GoOnInv DEF Done

LEMMA FailInv ==
  ASSUME IInv, NEW p \in Process, Fail(p)
  PROVE  IInv'
<1> USE DEF Fail
<1>1. faults' \in 0..MaxFaults
  BY BoundsAssumption DEF IInv, TypeOK
<1>2. Shape(proc[p]) /\ Held(proc[p]) \subseteq Event /\ proc[p].step \in Step
  BY DEF IInv, HandlersInShape, Held, TypeOK, Handler
<1>3. ASSUME NEW d \in SUBSET Event, Spoils(d)
      PROVE  /\ disturbed \subseteq disturbed' /\ disturbed' \subseteq Event
             /\ proc' \in [Process -> Handler] => TypeOK'
             /\ IdsAreGiven' /\ \A e : OnlyAbout(e) /\ (e \in Calm' => LiquidatedOnce(e)')
  <2>1. /\ disturbed \subseteq disturbed' /\ disturbed' \subseteq Event
        /\ failed' \subseteq disturbed'
    BY <1>3 DEF Spoils, IInv, TypeOK
  <2>2. proc' \in [Process -> Handler] => TypeOK'
    BY <1>1, <2>1 DEF IInv, TypeOK, sales, ledger
  <2> QED
    BY <2>1, <2>2, NothingWritten
<1>4. CASE proc' = [proc EXCEPT ![p] = Idle] /\ Spoils(Touches(p))
  <2>1. PICK e : e \in Held(proc[p])
    <3>1. proc[p].step \in AboutEvent \cup {"finalize"}
      BY <1>2 DEF Step, AboutEvent
    <3> QED
      BY <1>2, <3>1, NoneAssumption DEF Shape, Held
  <2>2. Touches(p) \in SUBSET Event
    BY <1>2, TouchesHeld
  <2>3. Held(Idle) \subseteq Held(proc[p])
    BY IdleFacts
  <2> QED
    BY <1>3, <1>4, <2>1, <2>2, <2>3, IdleFacts, IdleKnows, ContinueInv
<1>5. CASE proc[p].step # "finalize" /\ Done(p) /\ Spoils({proc[p].event})
  <2>1. proc[p].step \in AboutEvent
    BY <1>2, <1>5 DEF Step, AboutEvent
  <2>2. PICK e \in Event :
          /\ e = proc[p].event /\ e \in Held(proc[p]) /\ e \notin proc[p].todo
    BY <2>1, AboutFacts
  <2> QED
    BY <1>3, <1>5, <2>2, GoOnInv DEF Done
<1>6. ASSUME NEW e \in proc[p].todo, GoOn(p, proc[p].todo \ {e}), Spoils({e}) PROVE IInv'
  <2>1. e \in Held(proc[p]) /\ {e} \in SUBSET Event
    BY <1>2 DEF Held
  <2> QED
    BY <1>3, <1>6, <2>1, GoOnInv
<1> QED
  BY <1>4, <1>5, <1>6

----------------------------------------------------------------------------
\* Nothing leads out of a status that is final.
LEMMA TransitionFacts ==
  /\ \A s \in EventStatus : ValidTransitions[s] \subseteq EventStatus
  /\ ValidTransitions["CANCELED"] = {} /\ ValidTransitions["FINALIZED"] = {}
BY DEF ValidTransitions, EventStatus

\* The handlers that are about one event from the start.
LEMMA NewHandler ==
  ASSUME NEW e \in Event, NEW h \in Handler,
         h.step \in {"status", "erase", "number"}, h.event = e, h.todo = {}, h.auto = FALSE,
         h.step = "status" => h.status \in ValidTransitions[event[e].status],
         h.step = "erase" => event[e].status \in {"CREATED", "CANCELED"}
  PROVE  Shape(h) /\ Knows(h) /\ Held(h) = {e}
<1>1. Held(h) = {e}
  BY NoneAssumption DEF Held
<1>2. Shape(h)
  BY DEF Shape, AboutEvent
<1>3. KnowsTransition(h) /\ KnowsBatch(h) /\ KnowsSum(h)
  BY DEF KnowsTransition, KnowsBatch, KnowsSum
<1> QED
  BY <1>1, <1>2, <1>3 DEF Knows

LEMMA BeginInv ==
  ASSUME IInv, NEW p \in Process, Begin(p), requests' \in 0..MaxRequests
  PROVE  IInv'
<1> SUFFICES ASSUME NEW e \in Event,
                    \/ \E x \in EventStatus : UpdateEventStatus(p, e, x)
                    \/ DeleteEvent(p, e) \/ CreateLiquidation(p, e)
             PROVE  \E h \in Handler : /\ Shape(h) /\ Knows(h) /\ Held(h) = {e}
                                       /\ Start(p, h, {e})
  BY StartInv DEF Begin
<1>1. ASSUME NEW x \in EventStatus, UpdateEventStatus(p, e, x)
      PROVE  \E h \in Handler : Shape(h) /\ Knows(h) /\ Held(h) = {e} /\ Start(p, h, {e})
  <2> DEFINE h == [Idle EXCEPT !.step = "status", !.event = e, !.status = x]
  <2>1. x \in ValidTransitions[event[e].status] /\ Start(p, h, {e})
    BY <1>1 DEF UpdateEventStatus
  <2>2. /\ h \in Handler /\ h.step = "status" /\ h.event = e /\ h.todo = {}
        /\ h.auto = FALSE /\ h.status = x
    BY IdleFacts DEF Handler, Step
  <2> HIDE DEF h
  <2>3. Shape(h) /\ Knows(h) /\ Held(h) = {e}
    BY <2>1, <2>2, NewHandler
  <2> QED
    BY <2>1, <2>2, <2>3
<1>2. ASSUME DeleteEvent(p, e)
      PROVE  \E h \in Handler : Shape(h) /\ Knows(h) /\ Held(h) = {e} /\ Start(p, h, {e})
  <2> DEFINE h == [Idle EXCEPT !.step = "erase", !.event = e]
  <2>1. event[e].status \in {"CREATED", "CANCELED"} /\ Start(p, h, {e})
    BY <1>2 DEF DeleteEvent
  <2>2. h \in Handler /\ h.step = "erase" /\ h.event = e /\ h.todo = {} /\ h.auto = FALSE
    BY IdleFacts DEF Handler, Step
  <2> HIDE DEF h
  <2>3. Shape(h) /\ Knows(h) /\ Held(h) = {e}
    BY <2>1, <2>2, NewHandler
  <2> QED
    BY <2>1, <2>2, <2>3
<1>3. ASSUME CreateLiquidation(p, e)
      PROVE  \E h \in Handler : Shape(h) /\ Knows(h) /\ Held(h) = {e} /\ Start(p, h, {e})
  <2> DEFINE h == [Idle EXCEPT !.step = "number", !.event = e]
  <2>1. Start(p, h, {e})
    BY <1>3 DEF CreateLiquidation
  <2>2. h \in Handler /\ h.step = "number" /\ h.event = e /\ h.todo = {} /\ h.auto = FALSE
    BY IdleFacts DEF Handler, Step
  <2> HIDE DEF h
  <2>3. Shape(h) /\ Knows(h) /\ Held(h) = {e}
    BY <2>2, NewHandler
  <2> QED
    BY <2>1, <2>2, <2>3
<1> QED
  BY <1>1, <1>2, <1>3

LEMMA FindEventsToFinalizeInv ==
  ASSUME IInv, NEW p \in Process, FindEventsToFinalize(p)
  PROVE  IInv'
<1> DEFINE h == [Idle EXCEPT !.step = "finalize", !.todo = EventsToFinalize]
<1>1. EventsToFinalize \subseteq Event /\ EventsToFinalize # {}
  BY DEF EventsToFinalize, FindEventsToFinalize
<1>2. h \in Handler /\ h.step = "finalize" /\ h.event = NoEvent /\ h.todo = EventsToFinalize
  BY <1>1, IdleFacts DEF Handler, Step
<1>3. Start(p, h, EventsToFinalize) /\ UNCHANGED requests
  BY DEF FindEventsToFinalize
<1> HIDE DEF h
<1>4. Shape(h) /\ Held(h) = EventsToFinalize
  BY <1>1, <1>2 DEF Shape, AboutEvent, Held
<1>5. Knows(h)
  BY <1>2, NoneAssumption DEF Knows, KnowsBatch, EventsToFinalize, Calm
<1> QED
  BY <1>1, <1>2, <1>3, <1>4, <1>5, StartInv DEF IInv, TypeOK

----------------------------------------------------------------------------
\* A step of the handler of event e that writes nothing and goes on.
LEMMA ReadInv ==
  ASSUME IInv, NEW p \in Process, proc[p].step \in AboutEvent,
         NEW h \in Handler, proc' = [proc EXCEPT ![p] = h],
         h.step \in AboutEvent, h.event = proc[p].event, h.todo = proc[p].todo, Knows(h)',
         UNCHANGED <<event, sales, ledger, atEnd, liquidated, disturbed, failed, edited, faults,
                     requests>>
  PROVE  IInv'
<1>1. PICK e \in Event :
        /\ e = proc[p].event /\ e \in Held(proc[p]) /\ e \notin proc[p].todo
  BY AboutFacts
<1>2. Shape(h) /\ Held(h) = Held(proc[p])
  BY <1>1 DEF Shape, AboutEvent, Held
<1>3. proc' \in [Process -> Handler] => TypeOK'
  BY DEF IInv, TypeOK, sales, ledger
<1>4. disturbed' \subseteq Event
  BY DEF IInv, TypeOK
<1> QED
  BY <1>1, <1>2, <1>3, <1>4, NothingWritten, ContinueInv

\* The handler of event e ends there, having written nothing.
LEMMA EndInv ==
  ASSUME IInv, NEW p \in Process, proc[p].step \in AboutEvent, Done(p),
         UNCHANGED <<event, sales, ledger, atEnd, liquidated, disturbed, failed, edited, faults,
                     requests>>
  PROVE  IInv'
<1>1. PICK e \in Event :
        /\ e = proc[p].event /\ e \in Held(proc[p]) /\ e \notin proc[p].todo
  BY AboutFacts
<1>2. proc' \in [Process -> Handler] => TypeOK'
  BY DEF IInv, TypeOK, sales, ledger
<1>3. disturbed' \subseteq Event
  BY DEF IInv, TypeOK
<1> QED
  BY <1>1, <1>2, <1>3, NothingWritten, GoOnInv DEF Done

LEMMA FindExistingInv ==
  ASSUME IInv, NEW p \in Process, FindExisting(p)
  PROVE  IInv'
<1> USE DEF FindExisting
<1>1. PICK e \in Event :
        /\ e = proc[p].event /\ proc[p] \in Handler /\ Knows(proc[p])
  BY AboutFacts DEF AboutEvent
<1>2. CASE LiquidationsOf(e) # {}
  BY <1>1, <1>2, EndInv DEF AboutEvent
<1>3. CASE LiquidationsOf(e) = {}
  <2>1. PICK h \in Handler :
          /\ proc' = [proc EXCEPT ![p] = h]
          /\ h.step = "sum" /\ h.event = e /\ h.todo = proc[p].todo
    <3> DEFINE g == [proc[p] EXCEPT !.step = "sum"]
    <3>1. g \in Handler /\ g.step = "sum" /\ g.event = e /\ g.todo = proc[p].todo
      BY <1>1 DEF Handler, Step
    <3>2. proc' = [proc EXCEPT ![p] = g]
      BY <1>1, <1>3
    <3> HIDE DEF g
    <3> QED
      BY <3>1, <3>2
  <2>2. e \in Calm => event[e].status = "FINALIZED" /\ paid[e] >= atEnd[e]
    BY <1>1 DEF Knows, KnowsSum
  <2>3. Calm' = Calm /\ LiquidationsOf(e)' = {}
    BY <1>3 DEF Calm, LiquidationsOf, ledger
  <2>4. Knows(h)'
    BY <1>1, <2>1, <2>2, <2>3 DEF Knows, KnowsTransition, KnowsBatch, KnowsSum, sales
  <2> QED
    BY <1>1, <2>1, <2>4, ReadInv DEF AboutEvent
<1> QED
  BY <1>2, <1>3

LEMMA SumInvoicesInv ==
  ASSUME IInv, NEW p \in Process, SumInvoices(p)
  PROVE  IInv'
<1> USE DEF SumInvoices
<1>1. PICK e \in Event :
        /\ e = proc[p].event /\ proc[p] \in Handler /\ Knows(proc[p])
  BY AboutFacts DEF AboutEvent
<1>2. CASE e \notin Company
  BY <1>1, <1>2, EndInv DEF AboutEvent
<1>3. CASE e \in Company
  <2>1. PICK h \in Handler :
          /\ proc' = [proc EXCEPT ![p] = h]
          /\ h.step = "number" /\ h.event = e /\ h.todo = proc[p].todo /\ h.gross = paid[e]
    <3> DEFINE g == [proc[p] EXCEPT !.step = "number", !.auto = TRUE, !.gross = paid[e]]
    <3>1. paid[e] \in Nat
      BY DEF IInv, TypeOK
    <3>2. /\ g \in Handler /\ g.step = "number" /\ g.event = e /\ g.todo = proc[p].todo
          /\ g.gross = paid[e]
      BY <1>1, <3>1 DEF Handler, Step
    <3>3. proc' = [proc EXCEPT ![p] = g]
      BY <1>1, <1>3 DEF IInv, TypeOK
    <3> HIDE DEF g
    <3> QED
      BY <3>2, <3>3
  <2>2. e \in Calm => /\ event[e].status = "FINALIZED" /\ paid[e] >= atEnd[e]
                      /\ LiquidationsOf(e) = {}
    BY <1>1 DEF Knows, KnowsSum
  <2>3. Calm' = Calm /\ LiquidationsOf(e)' = LiquidationsOf(e)
    BY DEF Calm, LiquidationsOf, ledger
  <2>4. Knows(h)'
    BY <1>1, <2>1, <2>2, <2>3 DEF Knows, KnowsTransition, KnowsBatch, KnowsSum
  <2> QED
    BY <1>1, <2>1, <2>4, ReadInv DEF AboutEvent
<1> QED
  BY <1>2, <1>3

LEMMA GenerateNumInv ==
  ASSUME IInv, NEW p \in Process, GenerateNum(p)
  PROVE  IInv'
<1> USE DEF GenerateNum
<1>1. PICK e \in Event :
        /\ e = proc[p].event /\ proc[p] \in Handler /\ Knows(proc[p])
  BY AboutFacts DEF AboutEvent
<1>2. PICK n \in Nat : proc' = [proc EXCEPT ![p].step = "create", ![p].num = n]
  <2>1. \A r \in liquidation : r.num + 1 \in Nat
    BY DEF IInv, TypeOK, LiquidationRow
  <2>2. CASE liquidation = {}
    BY <2>2
  <2>3. CASE liquidation # {}
    BY <2>1, <2>3
  <2> QED
    BY <2>2, <2>3
<1>3. PICK h \in Handler :
        /\ proc' = [proc EXCEPT ![p] = h]
        /\ h.step = "create" /\ h.event = e /\ h.todo = proc[p].todo
        /\ h.auto = proc[p].auto /\ h.gross = proc[p].gross
  <2> DEFINE g == [proc[p] EXCEPT !.step = "create", !.num = n]
  <2>1. /\ g \in Handler /\ g.step = "create" /\ g.event = e /\ g.todo = proc[p].todo
        /\ g.auto = proc[p].auto /\ g.gross = proc[p].gross
    BY <1>1 DEF Handler, Step
  <2>2. proc' = [proc EXCEPT ![p] = g]
    BY <1>2 DEF IInv, TypeOK
  <2> HIDE DEF g
  <2> QED
    BY <2>1, <2>2
<1>4. e \in Calm /\ h.auto => /\ event[e].status = "FINALIZED" /\ h.gross >= atEnd[e]
                             /\ LiquidationsOf(e) = {}
  BY <1>1, <1>3 DEF Knows, KnowsSum
<1>5. Calm' = Calm /\ LiquidationsOf(e)' = LiquidationsOf(e)
  BY DEF Calm, LiquidationsOf, ledger
<1>6. Knows(h)'
  BY <1>1, <1>3, <1>4, <1>5 DEF Knows, KnowsTransition, KnowsBatch, KnowsSum
<1> QED
  BY <1>1, <1>3, <1>6, ReadInv DEF AboutEvent

----------------------------------------------------------------------------
\* The status of an event is written.
LEMMA StatusWritten ==
  ASSUME IInv, NEW e \in Event, NEW x \in EventStatus \cup {"NONE"},
         event' = [event EXCEPT ![e].status = x]
  PROVE  /\ event' \in [Event -> EventRow]
         /\ event'[e].status = x
         /\ \A d \in Event \ {e} : event'[d] = event[d]
<1>1. event \in [Event -> EventRow] /\ event[e] \in EventRow
  BY DEF IInv, TypeOK
<1>2. [event[e] EXCEPT !.status = x] \in EventRow /\ [event[e] EXCEPT !.status = x].status = x
  BY <1>1 DEF EventRow
<1> QED
  BY <1>1, <1>2

\* The invoices paid are those of the end.
LEMMA FinalizedFacts ==
  ASSUME IInv, NEW e \in Event, Finalized(e)
  PROVE  /\ atEnd' \in [Event -> Nat] /\ atEnd'[e] = paid[e]
         /\ \A d \in Event : atEnd'[d] <= MaxSales[d]
         /\ \A d \in Event \ {e} : atEnd'[d] = atEnd[d]
<1>1. atEnd \in [Event -> Nat] /\ paid \in [Event -> Nat] /\ unpaid \in [Event -> Nat]
  BY DEF IInv, TypeOK
<1>2. paid[e] <= MaxSales[e]
  BY <1>1, BoundsAssumption DEF IInv, TypeOK
<1> QED
  BY <1>1, <1>2 DEF Finalized, IInv, TypeOK

\* The handler that finalizes event e goes on to liquidate it.
LEMMA EventFinalized ==
  ASSUME IInv, NEW p \in Process, NEW e \in Event, e \in Held(proc[p]),
         NEW h \in Handler, proc' = [proc EXCEPT ![p] = h],
         h.step = "existing", h.event = e, h.todo = proc[p].todo \ {e},
         event' = [event EXCEPT ![e].status = "FINALIZED"], Finalized(e),
         e \in Calm => event[e].status # "FINALIZED" /\ LiquidatedOnce(e),
         UNCHANGED <<sales, ledger, liquidated, disturbed, failed, edited, faults, requests>>
  PROVE  IInv'
<1>1. /\ event' \in [Event -> EventRow]
      /\ event'[e].status = "FINALIZED"
      /\ \A d \in Event \ {e} : event'[d] = event[d]
  BY StatusWritten DEF EventStatus
<1>2. /\ Calm' = Calm /\ Calm \subseteq Event /\ disturbed' \subseteq Event
      /\ \A d : LiquidationsOf(d)' = LiquidationsOf(d)
      /\ paid' = paid /\ unpaid' = unpaid /\ liquidation' = liquidation /\ lastId' = lastId
      /\ paid[e] \in Nat /\ proc[p].todo \subseteq Event /\ Knows(proc[p])
  BY DEF Calm, LiquidationsOf, sales, ledger, IInv, TypeOK, Handler, HandlersKnow
<1>3. proc' \in [Process -> Handler] => TypeOK'
  BY <1>1, <1>2, FinalizedFacts DEF IInv, TypeOK
<1>4. OnlyAbout(e)
  BY <1>1, <1>2, FinalizedFacts DEF OnlyAbout
<1>5. e \in Calm' => LiquidatedOnce(e)'
  BY <1>2 DEF LiquidatedOnce
<1>6. Shape(h) /\ Held(h) \subseteq Held(proc[p])
  BY <1>2, NoneAssumption DEF Shape, AboutEvent, Held
<1>7. Knows(h)'
  <2>1. KnowsTransition(h)' /\ KnowsSum(h)'
    BY <1>1, <1>2, FinalizedFacts DEF KnowsTransition, KnowsSum
  <2>2. KnowsBatch(h)'
    BY <1>1, <1>2 DEF Knows, KnowsBatch
  <2> QED
    BY <2>1, <2>2 DEF Knows
<1>8. IdsAreGiven'
  BY <1>2 DEF IInv, IdsAreGiven
<1> QED
  BY <1>2, <1>3, <1>4, <1>5, <1>6, <1>7, <1>8, ContinueInv

LEMMA WriteStatusInv ==
  ASSUME IInv, NEW p \in Process, WriteStatus(p)
  PROVE  IInv'
<1> USE DEF WriteStatus
<1>1. PICK e \in Event :
        /\ e = proc[p].event /\ e \in Held(proc[p]) /\ e \notin proc[p].todo
        /\ proc[p] \in Handler /\ Knows(proc[p])
        /\ e \in Calm => LiquidatedOnce(e)
  BY AboutFacts DEF AboutEvent
<1>2. PICK x \in EventStatus : x = proc[p].status
  BY <1>1 DEF Handler
<1>3. e \in Calm => event[e].status # "FINALIZED"
  BY <1>1, TransitionFacts DEF Knows, KnowsTransition
<1>4. CASE x = "FINALIZED"
  <2>1. PICK h \in Handler :
          /\ proc' = [proc EXCEPT ![p] = h]
          /\ h.step = "existing" /\ h.event = e /\ h.todo = proc[p].todo
    <3> DEFINE g == [proc[p] EXCEPT !.step = "existing"]
    <3>1. g \in Handler /\ g.step = "existing" /\ g.event = e /\ g.todo = proc[p].todo
      BY <1>1 DEF Handler, Step
    <3>2. proc' = [proc EXCEPT ![p] = g]
      BY <1>2, <1>4
    <3> HIDE DEF g
    <3> QED
      BY <3>1, <3>2
  <2>2. h.todo = proc[p].todo \ {e}
    BY <1>1, <2>1
  <2> QED
    BY <1>1, <1>2, <1>3, <1>4, <2>1, <2>2, EventFinalized
<1>5. CASE x # "FINALIZED"
  <2>1. /\ event' \in [Event -> EventRow]
        /\ \A d \in Event \ {e} : event'[d] = event[d]
    BY <1>1, <1>2, StatusWritten
  <2>2. /\ Calm' = Calm /\ disturbed' \subseteq Event /\ atEnd' = atEnd
        /\ \A d : LiquidationsOf(d)' = LiquidationsOf(d)
        /\ paid' = paid /\ unpaid' = unpaid /\ liquidation' = liquidation /\ lastId' = lastId
    BY <1>2, <1>5 DEF Calm, LiquidationsOf, sales, ledger, IInv, TypeOK
  <2>3. proc' \in [Process -> Handler] => TypeOK'
    BY <2>1, <2>2 DEF IInv, TypeOK
  <2>4. OnlyAbout(e) /\ IdsAreGiven'
    BY <2>1, <2>2 DEF OnlyAbout, IInv, IdsAreGiven
  <2>5. e \in Calm' => LiquidatedOnce(e)'
    BY <1>1, <1>3, <2>2 DEF LiquidatedOnce
  <2> QED
    BY <1>1, <1>2, <1>5, <2>2, <2>3, <2>4, <2>5, GoOnInv DEF Done
<1> QED
  BY <1>4, <1>5

LEMMA EraseEventInv ==
  ASSUME IInv, NEW p \in Process, EraseEvent(p)
  PROVE  IInv'
<1> USE DEF EraseEvent
<1>1. PICK e \in Event :
        /\ e = proc[p].event /\ e \in Held(proc[p]) /\ e \notin proc[p].todo
  BY AboutFacts DEF AboutEvent
<1>2. /\ event' \in [Event -> EventRow]
      /\ \A d \in Event \ {e} : event'[d] = event[d]
  BY <1>1, StatusWritten
<1>3. /\ unpaid \in [Event -> Nat] /\ paid \in [Event -> Nat]
      /\ MaxSales \in [Event -> Nat] /\ disturbed' \subseteq Event
  BY BoundsAssumption DEF IInv, TypeOK
<1>4. /\ unpaid' \in [Event -> Nat] /\ paid' \in [Event -> Nat]
      /\ unpaid'[e] = 0 /\ paid'[e] = 0
      /\ \A d \in Event \ {e} : unpaid'[d] = unpaid[d] /\ paid'[d] = paid[d]
  BY <1>1, <1>3
<1>5. \A d \in Event : unpaid'[d] + paid'[d] <= MaxSales[d]
  BY <1>3, <1>4 DEF IInv, TypeOK
<1>6. liquidation' \subseteq liquidation /\ LiquidationsOf(e)' = {}
  BY <1>1 DEF LiquidationsOf
<1>7. proc' \in [Process -> Handler] => TypeOK'
  BY <1>2, <1>4, <1>5, <1>6 DEF IInv, TypeOK
<1>8. OnlyAbout(e) /\ IdsAreGiven' /\ LiquidatedOnce(e)'
  BY <1>2, <1>4, <1>6 DEF OnlyAbout, LiquidationsOf, LiquidatedOnce, IInv, IdsAreGiven
<1> QED
  BY <1>1, <1>3, <1>7, <1>8, GoOnInv DEF Done

LEMMA FinalizeInv ==
  ASSUME IInv, NEW p \in Process, Finalize(p)
  PROVE  IInv'
<1>1. /\ proc[p].step = "finalize" /\ proc[p] \in Handler /\ Knows(proc[p])
      /\ proc[p].todo \subseteq Event
      /\ UNCHANGED <<sales, ledger, liquidated, disturbed, failed, edited, faults, requests>>
  BY DEF Finalize, IInv, TypeOK, HandlersKnow, Handler
<1>2. PICK e \in proc[p].todo :
        IF Exists(e)
        THEN /\ event' = [event EXCEPT ![e].status = "FINALIZED"]
             /\ Finalized(e)
             /\ proc' = [proc EXCEPT ![p].step = "existing", ![p].event = e,
                                     ![p].todo = @ \ {e}]
        ELSE GoOn(p, proc[p].todo \ {e}) /\ UNCHANGED <<event, atEnd>>
  BY DEF Finalize
<1>3. e \in Event /\ e \in Held(proc[p])
  BY <1>1 DEF Held
<1>4. CASE Exists(e)
  <2>1. PICK h \in Handler :
          /\ proc' = [proc EXCEPT ![p] = h]
          /\ h.step = "existing" /\ h.event = e /\ h.todo = proc[p].todo \ {e}
    <3> DEFINE g == [proc[p] EXCEPT !.step = "existing", !.event = e, !.todo = @ \ {e}]
    <3>1. /\ g \in Handler /\ g.step = "existing" /\ g.event = e
          /\ g.todo = proc[p].todo \ {e}
      BY <1>1, <1>3 DEF Handler, Step
    <3>2. proc' = [proc EXCEPT ![p] = g]
      BY <1>2, <1>4 DEF IInv, TypeOK
    <3> HIDE DEF g
    <3> QED
      BY <3>1, <3>2
  <2>2. e \in Calm => event[e].status # "FINALIZED" /\ LiquidatedOnce(e)
    BY <1>1, <1>2, <1>3 DEF Knows, KnowsBatch, IInv, OneLiquidation, PaidIsLiquidated,
       LiquidatedOnce
  <2> QED
    BY <1>1, <1>2, <1>3, <1>4, <2>1, <2>2, EventFinalized
<1>5. CASE ~Exists(e)
  <2>1. disturbed' \subseteq Event /\ (proc' \in [Process -> Handler] => TypeOK')
    BY <1>1, <1>2, <1>5 DEF IInv, TypeOK, sales, ledger
  <2> QED
    BY <1>1, <1>2, <1>3, <1>5, <2>1, NothingWritten, GoOnInv
<1> QED
  BY <1>4, <1>5

LEMMA InsertLiquidationInv ==
  ASSUME IInv, NEW p \in Process, InsertLiquidation(p)
  PROVE  IInv'
<1> USE DEF InsertLiquidation
<1>1. PICK e \in Event :
        /\ e = proc[p].event /\ e \in Held(proc[p]) /\ e \notin proc[p].todo
        /\ proc[p] \in Handler /\ Knows(proc[p])
        /\ e \in Calm => LiquidatedOnce(e)
  BY AboutFacts DEF AboutEvent
<1> DEFINE new == [id |-> lastId', event |-> e, num |-> proc[p].num,
                   gross |-> proc[p].gross, auto |-> proc[p].auto]
<1>2. lastId \in Nat /\ lastId' \in Nat /\ lastId' = lastId + 1
  BY DEF IInv, TypeOK
<1>3. PICK r \in LiquidationRow :
        /\ liquidation' = liquidation \cup {r}
        /\ r.id = lastId' /\ r.event = e /\ r.gross = proc[p].gross
        /\ r.auto = proc[p].auto
  <2>1. new \in LiquidationRow /\ liquidation' = liquidation \cup {new}
    BY <1>1, <1>2 DEF LiquidationRow, Handler
  <2> QED
    BY <2>1
<1>4. /\ Calm' = Calm /\ disturbed' \subseteq Event
      /\ \A d \in Event \ {e} : LiquidationsOf(d)' = LiquidationsOf(d)
      /\ LiquidationsOf(e)' = LiquidationsOf(e) \cup {r}
  BY <1>3 DEF Calm, LiquidationsOf, IInv, TypeOK
<1>5. \A q \in liquidation : q.id \in Nat /\ q.id <= lastId
  BY DEF IInv, TypeOK, IdsAreGiven, LiquidationRow
<1>6. IdsAreGiven'
  BY <1>2, <1>3, <1>5 DEF IdsAreGiven
<1>7. OnlyAbout(e)
  BY <1>4 DEF OnlyAbout, sales
<1>8. e \in Calm' => LiquidatedOnce(e)'
  <2> SUFFICES ASSUME e \in Calm PROVE LiquidatedOnce(e)'
    BY <1>4
  <2>1. r.auto => /\ event[e].status = "FINALIZED"
                  /\ LiquidationsOf(e) = {}
                  /\ r.gross >= atEnd[e]
    BY <1>1, <1>3 DEF Knows, KnowsSum
  <2>2. \A q \in LiquidationsOf(e) : r.id > q.id
    BY <1>2, <1>3, <1>5 DEF LiquidationsOf
  <2> QED
    BY <1>1, <1>4, <2>1, <2>2 DEF LiquidatedOnce
<1>9. proc' \in [Process -> Handler] => TypeOK'
  BY <1>1, <1>2, <1>3, <1>4 DEF IInv, TypeOK, sales
<1> QED
  BY <1>1, <1>4, <1>6, <1>7, <1>8, <1>9, GoOnInv DEF Done

----------------------------------------------------------------------------
\* The steps of no handler.
LEMMA UpdateEventInv ==
  ASSUME IInv, NEW e \in Event, NEW row \in EditedRow(e), UpdateEvent(e, row),
         requests' \in 0..MaxRequests
  PROVE  IInv'
<1> USE DEF UpdateEvent
<1>1. row \in EventRow /\ row.status \in EventStatus
  BY DEF IInv, TypeOK, EditedRow, EventRow, Exists
<1>2. /\ event' \in [Event -> EventRow] /\ event'[e] = row
      /\ \A d \in Event \ {e} : event'[d] = event[d]
  BY <1>1 DEF IInv, TypeOK
<1>3. /\ disturbed \subseteq disturbed' /\ disturbed' \subseteq Event
      /\ edited \subseteq edited' /\ edited' \subseteq Event
      /\ failed' \subseteq disturbed'
  BY DEF IInv, TypeOK
<1>4. TypeOK'
  BY <1>2, <1>3 DEF IInv, TypeOK, sales, ledger
<1>5. CASE row.status = event[e].status
  <2>1. \A d \in Event : event'[d].status = event[d].status
    BY <1>2, <1>5
  <2>2. edited' = edited /\ disturbed' = disturbed
    BY <1>5
  <2> QED
    BY <1>4, <2>1, <2>2, StillInv DEF sales, ledger, IInv, TypeOK
<1>6. CASE row.status # event[e].status
  <2>1. e \in edited' /\ \A q \in Process : e \in Touches(q) => e \in disturbed'
    BY <1>6
  <2>2. /\ Calm' \subseteq Calm /\ Calm' \subseteq Event
        /\ \A d : LiquidationsOf(d)' = LiquidationsOf(d)
        /\ proc' = proc /\ paid' = paid /\ atEnd' = atEnd
        /\ liquidation' = liquidation /\ lastId' = lastId
    BY <1>3 DEF Calm, LiquidationsOf, sales, ledger
  <2>3. HandlersInShape' /\ Isolation'
    BY <2>2 DEF IInv, HandlersInShape, Isolation, Touches
  <2>4. IdsAreGiven' /\ OneLiquidation'
    BY <2>2 DEF IInv, IdsAreGiven, OneLiquidation
  <2>5. PaidIsLiquidated'
    BY <1>2, <1>3, <2>1, <2>2 DEF IInv, PaidIsLiquidated
  <2>6. ASSUME NEW q \in Process PROVE Knows(proc[q])'
    <3>1. Knows(proc[q])
      BY DEF IInv, HandlersKnow
    <3>2. \A d \in Calm' : d \in Held(proc[q]) => d \in Event \ {e}
      BY <2>1, <2>2, TouchesHeld DEF Calm
    <3>3. KnowsBatch(proc[q])'
      BY <1>2, <2>2, <3>1, <3>2 DEF Knows, KnowsBatch, Held
    <3>4. ASSUME proc[q].event \in Calm'
          PROVE  KnowsTransition(proc[q])' /\ KnowsSum(proc[q])'
      <4>1. proc[q].event \in Event \ {e} /\ proc[q].event \in Calm
        BY <2>2, <3>2, <3>4, NoneAssumption DEF Held
      <4>2. event'[proc[q].event] = event[proc[q].event]
        BY <1>2, <4>1
      <4>3. KnowsTransition(proc[q])'
        BY <2>2, <3>1, <4>1, <4>2 DEF Knows, KnowsTransition
      <4>4. KnowsSum(proc[q])'
        BY <2>2, <3>1, <4>1, <4>2 DEF Knows, KnowsSum
      <4> QED
        BY <4>3, <4>4
    <3> QED
      BY <2>2, <3>3, <3>4 DEF Knows
  <2> QED
    BY <1>4, <2>3, <2>4, <2>5, <2>6 DEF IInv, HandlersKnow
<1> QED
  BY <1>5, <1>6

LEMMA EndsInv ==
  ASSUME IInv, NEW e \in Event, Ends(e)
  PROVE  IInv'
<1>1. event' \in [Event -> EventRow] /\ \A d \in Event : event'[d].status = event[d].status
  BY DEF Ends, IInv, TypeOK, EventRow
<1>2. TypeOK'
  BY <1>1 DEF Ends, IInv, TypeOK, sales, ledger
<1> QED
  BY <1>1, <1>2, StillInv DEF Ends, sales, ledger, IInv, TypeOK

LEMMA DeleteLiquidationInv ==
  ASSUME IInv, NEW r \in liquidation, DeleteLiquidation(r), requests' \in 0..MaxRequests
  PROVE  IInv'
<1>1. TypeOK' /\ liquidation' \subseteq liquidation
  BY DEF DeleteLiquidation, IInv, TypeOK, sales
<1> QED
  BY <1>1, StillInv DEF DeleteLiquidation, sales, IInv, TypeOK

\* The bounds of the sales, for one event.
LEMMA SalesFacts ==
  ASSUME IInv
  PROVE  /\ unpaid \in [Event -> Nat] /\ paid \in [Event -> Nat] /\ atEnd \in [Event -> Nat]
         /\ \A e \in Event : /\ MaxSales[e] \in Nat
                             /\ unpaid[e] + paid[e] <= MaxSales[e] /\ atEnd[e] <= MaxSales[e]
BY BoundsAssumption DEF IInv, TypeOK

LEMMA OpenInvoiceInv ==
  ASSUME IInv, NEW e \in Event, OpenInvoice(e)
  PROVE  IInv'
<1> USE DEF OpenInvoice
<1>1. /\ unpaid' \in [Event -> Nat]
      /\ \A d \in Event : unpaid'[d] + paid[d] <= MaxSales[d]
  BY SalesFacts
<1>2. TypeOK'
  BY <1>1 DEF IInv, TypeOK, ledger
<1> QED
  BY <1>2, SalesFacts, StillInv DEF ledger

LEMMA PayInvoiceInv ==
  ASSUME IInv, NEW e \in Event, PayInvoice(e)
  PROVE  IInv'
<1> USE DEF PayInvoice
<1>1. /\ unpaid' \in [Event -> Nat] /\ paid' \in [Event -> Nat]
      /\ \A d \in Event : unpaid'[d] + paid'[d] <= MaxSales[d] /\ paid'[d] >= paid[d]
  BY SalesFacts
<1>2. TypeOK'
  BY <1>1 DEF IInv, TypeOK, ledger
<1> QED
  BY <1>1, <1>2, SalesFacts, StillInv DEF ledger

LEMMA VoidInvoiceInv ==
  ASSUME IInv, NEW e \in Event, VoidInvoice(e)
  PROVE  IInv'
<1> USE DEF VoidInvoice
<1>1. CASE /\ unpaid[e] > 0 /\ unpaid' = [unpaid EXCEPT ![e] = @ - 1]
           /\ UNCHANGED <<paid, atEnd>>
  <2>1. unpaid' \in [Event -> Nat] /\ \A d \in Event : unpaid'[d] + paid[d] <= MaxSales[d]
    BY <1>1, SalesFacts
  <2>2. TypeOK'
    BY <1>1, <2>1 DEF IInv, TypeOK, ledger
  <2> QED
    BY <1>1, <2>2, SalesFacts, StillInv DEF ledger
<1>2. CASE /\ paid[e] > 0 /\ paid' = [paid EXCEPT ![e] = @ - 1]
           /\ atEnd' = [atEnd EXCEPT ![e] = IF @ > paid'[e] THEN paid'[e] ELSE @]
           /\ UNCHANGED unpaid
  <2>1. paid' \in [Event -> Nat] /\ \A d \in Event : unpaid[d] + paid'[d] <= MaxSales[d]
    BY <1>2, SalesFacts
  <2>2. /\ atEnd' \in [Event -> Nat]
        /\ \A d \in Event : /\ atEnd'[d] <= atEnd[d] /\ atEnd'[d] <= MaxSales[d]
                            /\ paid[d] >= atEnd[d] => paid'[d] >= atEnd'[d]
    BY <1>2, <2>1, SalesFacts
  <2>3. TypeOK'
    BY <1>2, <2>1, <2>2 DEF IInv, TypeOK, ledger
  <2> QED
    BY <2>2, <2>3, StillInv DEF ledger
<1> QED
  BY <1>1, <1>2

----------------------------------------------------------------------------
LEMMA ContinueStepInv ==
  ASSUME IInv, NEW p \in Process, Continue(p)
  PROVE  IInv'
BY WriteStatusInv, EraseEventInv, FinalizeInv, FindExistingInv, SumInvoicesInv, GenerateNumInv,
   InsertLiquidationInv, GiveUpInv DEF Continue

LEMMA StepInv == IInv /\ [Next]_vars => IInv'
<1> SUFFICES ASSUME IInv, [Next]_vars PROVE IInv'
  OBVIOUS
<1>1. ASSUME requests < MaxRequests, requests' = requests + 1
      PROVE  requests' \in 0..MaxRequests
  BY <1>1, BoundsAssumption DEF IInv, TypeOK
<1>2. ASSUME NEW p \in Request, Begin(p), requests' \in 0..MaxRequests PROVE IInv'
  BY <1>2, BeginInv DEF Process
<1>3. ASSUME NEW p \in Job, FindEventsToFinalize(p) PROVE IInv'
  BY <1>3, FindEventsToFinalizeInv DEF Process
<1>4. ASSUME NEW p \in Process, Continue(p) \/ Fail(p) PROVE IInv'
  BY <1>4, ContinueStepInv, FailInv
<1>5. ASSUME NEW e \in Event, OpenInvoice(e) \/ PayInvoice(e) \/ VoidInvoice(e) \/ Ends(e)
      PROVE  IInv'
  BY <1>5, OpenInvoiceInv, PayInvoiceInv, VoidInvoiceInv, EndsInv
<1>6. CASE UNCHANGED vars
  <2>1. TypeOK'
    BY <1>6 DEF vars, IInv, TypeOK
  <2> QED
    BY <1>6, <2>1, SalesFacts, StillInv DEF vars
<1> QED
  BY <1>1, <1>2, <1>3, <1>4, <1>5, <1>6, UpdateEventInv, DeleteLiquidationInv DEF Next

\* The inductive invariant holds in every state.
THEOREM Invariance == Spec => []IInv
<1> QED
  BY InitInv, StepInv, PTL DEF Spec

\* Type correctness, for every value of the constants: the invoices of an event keep within
\* its bound, and the handlers are where their code can be.
THEOREM TypeCorrect == Spec => []TypeOK
<1>1. IInv => TypeOK
  BY DEF IInv
<1> QED
  BY <1>1, Invariance, PTL

\* autoCreateFromEvent: an event on which no handlers overlapped is liquidated automatically
\* once at most, and only before it is liquidated by hand.
THEOREM LiquidatedOnceCorrect == Spec => []OneLiquidation
<1>1. IInv => OneLiquidation
  BY DEF IInv
<1> QED
  BY <1>1, Invariance, PTL

\* autoCreateFromEvent: the automatic liquidation of such an event is of one that is
\* finalized, and no invoice paid before it was finalized is missing.
THEOREM LiquidationCorrect == Spec => []PaidIsLiquidated
<1>1. IInv => PaidIsLiquidated
  BY DEF IInv
<1> QED
  BY <1>1, Invariance, PTL

----------------------------------------------------------------------------
\* The handler of a calm event knows of its status what the table of transitions asks.
LEMMA WriteStatusValid ==
  ASSUME IInv, NEW p \in Process, WriteStatus(p), NEW d \in Calm
  PROVE  ValidStep(d)
<1> USE DEF WriteStatus
<1>1. PICK e \in Event : e = proc[p].event /\ proc[p] \in Handler /\ Knows(proc[p])
  BY AboutFacts DEF AboutEvent
<1>2. /\ event'[e].status = proc[p].status
      /\ \A c \in Event \ {e} : event'[c] = event[c]
  <2>1. proc[p].status \in EventStatus /\ event' = [event EXCEPT ![e].status = proc[p].status]
    BY <1>1 DEF Handler
  <2> HIDE DEF WriteStatus
  <2> QED
    BY <2>1, StatusWritten
<1>3. event[e].status \in EventStatus
  BY <1>1 DEF IInv, TypeOK, EventRow, Exists
<1>4. e \in Calm => event'[e].status \in ValidTransitions[event[e].status]
  BY <1>1, <1>2 DEF Knows, KnowsTransition
<1> QED
  BY <1>2, <1>3, <1>4 DEF ValidStep, Calm

LEMMA EraseEventValid ==
  ASSUME IInv, NEW p \in Process, EraseEvent(p), NEW d \in Calm
  PROVE  ValidStep(d)
<1> USE DEF EraseEvent
<1>1. PICK e \in Event : e = proc[p].event /\ Knows(proc[p])
  BY AboutFacts DEF AboutEvent
<1>2. event'[e].status = "NONE" /\ \A c \in Event \ {e} : event'[c] = event[c]
  BY <1>1, StatusWritten
<1>3. e \in Calm => event[e].status \in {"CREATED", "CANCELED"}
  BY <1>1 DEF Knows, KnowsTransition
<1> QED
  BY <1>2, <1>3 DEF ValidStep, Calm

LEMMA FinalizeValid ==
  ASSUME IInv, NEW p \in Process, Finalize(p), NEW d \in Calm
  PROVE  ValidStep(d)
<1>1. proc[p].todo \subseteq Event /\ Knows(proc[p])
  BY DEF IInv, TypeOK, Handler, HandlersKnow
<1>2. PICK e \in proc[p].todo :
        \/ event' = [event EXCEPT ![e].status = "FINALIZED"]
        \/ event' = event
  BY DEF Finalize
<1>3. CASE event' = [event EXCEPT ![e].status = "FINALIZED"]
  <2>1. /\ event'[e].status = "FINALIZED"
        /\ \A c \in Event \ {e} : event'[c] = event[c]
    BY <1>1, <1>3, StatusWritten DEF EventStatus
  <2>2. e \in Calm => event[e].status = "ACTIVE"
    BY <1>1 DEF Knows, KnowsBatch
  <2>3. "ACTIVE" \in EventStatus /\ "FINALIZED" \in ValidTransitions["ACTIVE"]
    BY DEF EventStatus, ValidTransitions
  <2> QED
    BY <2>1, <2>2, <2>3 DEF ValidStep, Calm
<1> QED
  BY <1>2, <1>3 DEF ValidStep

LEMMA NextValid ==
  ASSUME IInv, [Next]_vars, NEW d \in Calm
  PROVE  ValidStep(d)
<1> USE DEF ValidStep
<1>1. d \in Event
  BY DEF Calm
<1>2. ASSUME NEW p \in Request, Begin(p) PROVE ValidStep(d)
  BY <1>2 DEF Begin, UpdateEventStatus, DeleteEvent, CreateLiquidation, Start
<1>3. ASSUME NEW p \in Process, Continue(p) \/ Fail(p) PROVE ValidStep(d)
  <2>1. CASE FindExisting(p) \/ SumInvoices(p) \/ GenerateNum(p) \/ InsertLiquidation(p)
             \/ GiveUp(p) \/ Fail(p)
    BY <2>1 DEF FindExisting, SumInvoices, GenerateNum, InsertLiquidation, GiveUp, Fail
  <2> QED
    BY <1>3, <2>1, WriteStatusValid, EraseEventValid, FinalizeValid DEF Continue
<1>4. ASSUME NEW e \in Event, NEW row \in EditedRow(e), UpdateEvent(e, row) PROVE ValidStep(d)
  <2>1. CASE d = e
    BY <1>4, <2>1
  <2>2. CASE d # e
    <3>1. event'[d].status = event[d].status
      BY <1>1, <1>4, <2>2 DEF UpdateEvent
    <3> QED
      BY <3>1
  <2> QED
    BY <2>1, <2>2
<1>5. ASSUME NEW e \in Event, Ends(e) PROVE ValidStep(d)
  <2>1. event'[d].status = event[d].status
    BY <1>1, <1>5 DEF Ends, IInv, TypeOK, EventRow
  <2> QED
    BY <2>1
<1>6. ASSUME \/ \E p \in Job : FindEventsToFinalize(p)
             \/ \E e \in Event : OpenInvoice(e) \/ PayInvoice(e) \/ VoidInvoice(e)
             \/ \E r \in liquidation : DeleteLiquidation(r)
             \/ UNCHANGED vars
      PROVE  ValidStep(d)
  BY <1>6 DEF FindEventsToFinalize, Start, OpenInvoice, PayInvoice, VoidInvoice,
     DeleteLiquidation, vars
<1> QED
  BY <1>2, <1>3, <1>4, <1>5, <1>6 DEF Next

\* updateEventStatus, deleteEvent and the finalizer job: where no handlers overlap, what they
\* write is still a transition of the table when they write it; only a PUT writes others.
THEOREM TransitionsCorrect == Spec => TransitionsAreValid
<1>1. ASSUME IInv, [Next]_vars
      PROVE  [\A e \in Calm \ disturbed' : ValidStep(e)]_vars
  BY <1>1, NextValid
<1> QED
  BY <1>1, Invariance, PTL DEF Spec, TransitionsAreValid

----------------------------------------------------------------------------
\* Venue.

\* What a handler is about at each step.
CallShape(h) ==
  /\ h.step = "idle" => h = NoCall
  /\ h.step \in {"insertStaff", "updateStaff"} => h.who \in Staff /\ h.to \in Assignment
  /\ h.step = "nfcTicket" => h.challenge \in Challenge
  /\ h.step \in {"nfcTicket", "scanner", "window", "mark"} => h.who \in Staff /\ h.ticket \in Ticket
  /\ h.step = "charge" => h.purse \in Ticket /\ h.n \in Amount
  /\ h.step = "writeSeat" => h.seat \in Seat /\ h.to \in {"AVAILABLE", "HELD", "BLOCKED"}

CallsInShape == \A p \in Caller : CallShape(call[p])

\* A row that no two handlers met on is in the hands of one at most.
Apart ==
  \A r \in Row \ contended : \A p, q \in Caller :
    r \in Rows(call[p]) /\ r \in Rows(call[q]) => p = q

\* What a handler still knows of the rows it has to itself: the scanner is checked in, the
\* ticket it found unused is, its challenge has let nobody in, the balance covers what it
\* charges, and the seat it takes is nobody's.
KnowsScanner(h) ==
  h.step \in {"window", "mark"} /\ <<"staff", h.who>> \notin contended => staff[h.who] = "in"

KnowsTicket(h) ==
  \A t \in Ticket :
    /\ h.ticket = t /\ <<"door", t>> \notin contended
    /\ h.step = "mark" \/ (h.step \in {"scanner", "window"} /\ h.unused)
    => ticket[t].entries = 0

KnowsChallenge(h) ==
  \A c \in Challenge : h.challenge = c /\ <<"nfc", c>> \notin contended =>
    uses[c] = 0 /\ (h.step # "nfcTicket" => nfc[c] = "gone")

KnowsPurse(h) ==
  \A t \in Ticket : h.step = "charge" /\ h.purse = t /\ <<"purse", t>> \notin contended =>
    ticket[t].spent + h.n <= Total

KnowsSeat(h) ==
  \A s \in Seat : h.seat = s /\ h.to = "HELD" /\ <<"seat", s>> \notin contended => ~Taken(s)

CallerKnows(h) ==
  KnowsScanner(h) /\ KnowsTicket(h) /\ KnowsChallenge(h) /\ KnowsPurse(h) /\ KnowsSeat(h)

CallersKnow == \A p \in Caller : CallerKnows(call[p])

\* A challenge that can still be signed has let nobody in.
ChallengesAreFresh ==
  \A c \in Challenge : <<"nfc", c>> \notin contended /\ nfc[c] # "gone" => uses[c] = 0

Promises == EntersOnce /\ ChallengeAdmitsOne /\ BalanceHolds

VenueInv ==
  /\ VenueTypeOK
  /\ CallsInShape
  /\ Apart
  /\ CallersKnow
  /\ ChallengesAreFresh
  /\ Promises

----------------------------------------------------------------------------
\* The rows of a handler, one by one.
LEMMA RowsFacts ==
  ASSUME NEW h
  PROVE  /\ \A t \in Ticket : <<"door", t>> \in Rows(h) <=> h.ticket = t
         /\ \A t \in Ticket : <<"purse", t>> \in Rows(h) <=> h.purse = t
         /\ \A c \in Challenge : <<"nfc", c>> \in Rows(h) <=> h.challenge = c
         /\ \A s \in Seat : <<"seat", s>> \in Rows(h) <=> h.seat = s
BY VenueNoneAssumption DEF Rows

LEMMA RowsAreRows == ASSUME NEW h \in Call PROVE Rows(h) \subseteq Row
<1>1. /\ h.ticket \in Ticket \cup {None} /\ h.purse \in Ticket \cup {None}
      /\ h.challenge \in Challenge \cup {None} /\ h.seat \in Seat \cup {None}
  BY DEF Call
<1> QED
  BY <1>1 DEF Rows, Row

LEMMA NoCallFacts ==
  /\ NoCall \in Call /\ CallShape(NoCall) /\ Rows(NoCall) = {} /\ NoCall.step = "idle"
  /\ NoCall.who = None /\ NoCall.ticket = None /\ NoCall.purse = None /\ NoCall.challenge = None
  /\ NoCall.seat = None /\ NoCall.to = "none" /\ NoCall.n = 0 /\ NoCall.unused = FALSE
<1>1. /\ NoCall \in Call /\ NoCall.step = "idle"
      /\ NoCall.who = None /\ NoCall.ticket = None /\ NoCall.purse = None /\ NoCall.challenge = None
      /\ NoCall.seat = None /\ NoCall.to = "none" /\ NoCall.n = 0 /\ NoCall.unused = FALSE
  BY DEF NoCall, Call, Assignment
<1>2. Rows(NoCall) = {}
  BY <1>1 DEF Rows
<1> QED
  BY <1>1, <1>2 DEF CallShape

LEMMA NoCallKnows == CallerKnows(NoCall) /\ CallerKnows(NoCall)'
BY NoCallFacts, VenueNoneAssumption
   DEF CallerKnows, KnowsScanner, KnowsTicket, KnowsChallenge, KnowsPurse, KnowsSeat

LEMMA VenueInitInv == VenueInit => VenueInv
<1> SUFFICES ASSUME VenueInit PROVE VenueInv
  OBVIOUS
<1> USE DEF VenueInit
<1>1. VenueTypeOK
  BY NoCallFacts, VenueBoundsAssumption DEF VenueTypeOK, TicketRow, TicketStatus, SeatRow
<1>2. CallsInShape /\ Apart /\ CallersKnow
  BY NoCallFacts, NoCallKnows DEF CallsInShape, Apart, CallersKnow
<1>3. \A t \in Ticket : ticket[t].entries = 0 /\ ticket[t].spent = 0
  OBVIOUS
<1>4. ChallengesAreFresh /\ Promises
  BY <1>3, AmountAssumption
     DEF ChallengesAreFresh, Promises, EntersOnce, ChallengeAdmitsOne, BalanceHolds
<1> QED
  BY <1>1, <1>2, <1>4 DEF VenueInv

----------------------------------------------------------------------------
\* A step that starts and ends no handler, and leaves true what the handlers know.
LEMMA VenueStillInv ==
  ASSUME VenueInv, UNCHANGED <<call, contended>>, VenueTypeOK',
         \A p \in Caller : CallerKnows(call[p]) => CallerKnows(call[p])',
         ChallengesAreFresh', Promises'
  PROVE  VenueInv'
BY DEF VenueInv, CallsInShape, Apart, CallersKnow

\* A handler starts with what it has just read.
LEMMA StartCallInv ==
  ASSUME VenueInv, NEW p \in Caller, NEW h \in Call, CallShape(h), CallerKnows(h), StartCall(p, h),
         calls' \in 0..MaxCalls
  PROVE  VenueInv'
<1> USE DEF VenueInv, StartCall
<1>1. /\ call' \in [Caller -> Call]
      /\ call'[p] = h /\ \A q \in Caller \ {p} : call'[q] = call[q]
      /\ UNCHANGED <<staff, window, nfc, ticket, uses, seat, failures>>
      /\ contended \subseteq contended'
  BY DEF VenueTypeOK, door
<1>2. Rows(call[p]) = {}
  BY NoCallFacts DEF CallsInShape, CallShape
<1>3. VenueTypeOK'
  BY <1>1, RowsAreRows DEF VenueTypeOK
<1>4. CallsInShape'
  BY <1>1 DEF CallsInShape
<1>5. Apart'
  <2>1. \A r \in Row \ contended' : r \in Rows(h) => \A q \in Caller : r \notin Rows(call[q])
    OBVIOUS
  <2> QED
    BY <1>1, <2>1 DEF Apart
<1>6. ASSUME NEW g, CallerKnows(g) PROVE CallerKnows(g)'
  BY <1>1, <1>6
     DEF CallerKnows, KnowsScanner, KnowsTicket, KnowsChallenge, KnowsPurse, KnowsSeat, Taken
<1>7. CallersKnow'
  BY <1>1, <1>6 DEF CallersKnow
<1>8. ChallengesAreFresh' /\ Promises'
  BY <1>1
     DEF ChallengesAreFresh, Promises, EntersOnce, ChallengeAdmitsOne, BalanceHolds
<1> QED
  BY <1>3, <1>4, <1>5, <1>7, <1>8

\* What a step of handler p writes is a row that it holds; whoever has read an assignment
\* that it writes is contended for.
Frame(p) ==
  /\ \A u \in Staff : \/ staff'[u] = staff[u]
                      \/ <<"staff", u>> \in contended'
                      \/ \A q \in Caller \ {p} : call[q].who # u
  /\ \A t \in Ticket : ticket'[t].entries = ticket[t].entries \/ call[p].ticket = t
  /\ \A t \in Ticket : ticket'[t].spent = ticket[t].spent \/ call[p].purse = t
  /\ \A c \in Challenge : \/ uses'[c] = uses[c] /\ nfc'[c] = nfc[c]
                          \/ call[p].challenge = c
  /\ \A s \in Seat : seat'[s] = seat[s] \/ call[p].seat = s

LEMMA OthersKnow ==
  ASSUME VenueInv, NEW p \in Caller, Frame(p), contended \subseteq contended',
         NEW q \in Caller, q # p, NEW g, g = call[q]
  PROVE  CallerKnows(g)'
<1> USE DEF VenueInv, Frame
<1>1. CallShape(g) /\ CallerKnows(g)
  BY DEF CallsInShape, CallersKnow
<1>2. \A r \in Row \ contended' : r \in Rows(g) => r \notin Rows(call[p])
  BY DEF Apart
<1>3. KnowsScanner(g)'
  BY <1>1 DEF CallerKnows, KnowsScanner, CallShape
<1>4. KnowsTicket(g)'
  <2>1. \A t \in Ticket : g.ticket = t /\ <<"door", t>> \notin contended' => call[p].ticket # t
    BY <1>2, RowsFacts DEF Row
  <2> QED
    BY <1>1, <2>1 DEF CallerKnows, KnowsTicket
<1>5. KnowsChallenge(g)'
  <2>1. \A c \in Challenge : g.challenge = c /\ <<"nfc", c>> \notin contended' => call[p].challenge # c
    BY <1>2, RowsFacts DEF Row
  <2> QED
    BY <1>1, <2>1 DEF CallerKnows, KnowsChallenge
<1>6. KnowsPurse(g)'
  <2>1. \A t \in Ticket : g.purse = t /\ <<"purse", t>> \notin contended' => call[p].purse # t
    BY <1>2, RowsFacts DEF Row
  <2> QED
    BY <1>1, <2>1 DEF CallerKnows, KnowsPurse
<1>7. KnowsSeat(g)'
  <2>1. \A s \in Seat : g.seat = s /\ <<"seat", s>> \notin contended' => call[p].seat # s
    BY <1>2, RowsFacts DEF Row
  <2> QED
    BY <1>1, <2>1 DEF CallerKnows, KnowsSeat, Taken
<1> QED
  BY <1>3, <1>4, <1>5, <1>6, <1>7 DEF CallerKnows

\* Handler p goes on as h, with no more rows than it had, or ends.
LEMMA ContinueCallInv ==
  ASSUME VenueInv, NEW p \in Caller, NEW h \in Call, call' = [call EXCEPT ![p] = h], CallShape(h),
         Rows(h) \subseteq Rows(call[p]), CallerKnows(h)', Frame(p), contended \subseteq contended',
         call' \in [Caller -> Call] => VenueTypeOK', ChallengesAreFresh', Promises'
  PROVE  VenueInv'
<1> USE DEF VenueInv
<1>1. /\ call' \in [Caller -> Call]
      /\ call'[p] = h /\ \A q \in Caller \ {p} : call'[q] = call[q]
  BY DEF VenueTypeOK
<1>2. CallsInShape'
  BY <1>1 DEF CallsInShape
<1>3. Apart'
  BY <1>1 DEF Apart
<1>4. CallersKnow'
  <2> SUFFICES ASSUME NEW q \in Caller PROVE CallerKnows(call[q])'
    BY DEF CallersKnow
  <2>1. CASE q = p
    BY <1>1, <2>1
  <2>2. CASE q # p
    <3>1. \A g : g = call[q] => CallerKnows(g)'
      BY <2>2, OthersKnow
    <3> QED
      BY <1>1, <2>2, <3>1
  <2> QED
    BY <2>1, <2>2
<1> QED
  BY <1>1, <1>2, <1>3, <1>4

LEMMA EndCallInv ==
  ASSUME VenueInv, NEW p \in Caller, EndCall(p), Frame(p), contended \subseteq contended',
         call' \in [Caller -> Call] => VenueTypeOK', ChallengesAreFresh', Promises'
  PROVE  VenueInv'
<1>1. Rows(NoCall) \subseteq Rows(call[p])
  BY NoCallFacts
<1> QED
  BY <1>1, NoCallFacts, NoCallKnows, ContinueCallInv DEF EndCall

----------------------------------------------------------------------------
\* BeginCall, one kind of handler after the other.

LEMMA StaffHandler ==
  ASSUME NEW h, NEW u \in Staff, NEW s \in {"insertStaff", "updateStaff"}, NEW x \in Assignment,
         h = [NoCall EXCEPT !.step = s, !.who = u, !.to = x]
  PROVE  h \in Call /\ CallShape(h) /\ CallerKnows(h)
<1>1. /\ h \in Call /\ h.step = s /\ h.who = u /\ h.to = x
      /\ h.ticket = None /\ h.purse = None /\ h.challenge = None /\ h.seat = None
  BY NoCallFacts DEF Call
<1> QED
  BY <1>1, VenueNoneAssumption
     DEF CallShape, CallerKnows, KnowsScanner, KnowsTicket, KnowsChallenge, KnowsPurse, KnowsSeat

LEMMA AdmitsType == \A t : Admits(t) \in BOOLEAN
BY DEF Admits

LEMMA ScanHandler ==
  ASSUME NEW h, NEW u \in Staff, NEW t \in Ticket,
         h = [NoCall EXCEPT !.step = "scanner", !.who = u, !.ticket = t, !.unused = Admits(t)]
  PROVE  h \in Call /\ CallShape(h) /\ (VenueTypeOK => CallerKnows(h))
<1>1. /\ h \in Call /\ h.step = "scanner" /\ h.who = u /\ h.ticket = t
      /\ h.unused = Admits(t)
      /\ h.purse = None /\ h.challenge = None /\ h.seat = None
  BY NoCallFacts, AdmitsType DEF Call
<1>2. VenueTypeOK => (h.unused => ticket[t].entries = 0)
  <2>1. VenueTypeOK => (Admits(t) => ticket[t].entries = 0)
    BY DEF Admits, VenueTypeOK, TicketRow
  <2>2. h.unused => Admits(t)
    BY <1>1, Zenon
  <2> QED
    BY <2>1, <2>2
<1> QED
  BY <1>1, <1>2, VenueNoneAssumption
     DEF CallShape, CallerKnows, KnowsScanner, KnowsTicket, KnowsChallenge, KnowsPurse, KnowsSeat

LEMMA NFCHandler ==
  ASSUME NEW h, NEW u \in Staff, NEW t \in Ticket, NEW c \in Challenge,
         nfc[c] = "live", ChallengesAreFresh,
         h = [NoCall EXCEPT !.step = "nfcTicket", !.who = u, !.ticket = t, !.challenge = c]
  PROVE  h \in Call /\ CallShape(h) /\ CallerKnows(h)
<1>1. /\ h \in Call /\ h.step = "nfcTicket" /\ h.who = u /\ h.ticket = t
      /\ h.challenge = c /\ h.purse = None /\ h.seat = None
  BY NoCallFacts DEF Call
<1> QED
  BY <1>1, VenueNoneAssumption
     DEF CallShape, CallerKnows, KnowsScanner, KnowsTicket, KnowsChallenge, KnowsPurse, KnowsSeat,
         ChallengesAreFresh

LEMMA PurseHandler ==
  ASSUME NEW h, NEW t \in Ticket, NEW n \in Amount, ticket[t].spent + n <= Total,
         h = [NoCall EXCEPT !.step = "charge", !.purse = t, !.n = n]
  PROVE  h \in Call /\ CallShape(h) /\ CallerKnows(h)
<1>1. /\ h \in Call /\ h.step = "charge" /\ h.purse = t /\ h.n = n
      /\ h.ticket = None /\ h.challenge = None /\ h.seat = None
  BY NoCallFacts DEF Call
<1> QED
  BY <1>1, VenueNoneAssumption
     DEF CallShape, CallerKnows, KnowsScanner, KnowsTicket, KnowsChallenge, KnowsPurse, KnowsSeat

LEMMA SeatHandler ==
  ASSUME NEW h, NEW s \in Seat, NEW x \in {"AVAILABLE", "HELD", "BLOCKED"},
         x = "HELD" => ~Taken(s),
         h = [NoCall EXCEPT !.step = "writeSeat", !.seat = s, !.to = x]
  PROVE  h \in Call /\ CallShape(h) /\ CallerKnows(h)
<1>1. /\ h \in Call /\ h.step = "writeSeat" /\ h.seat = s /\ h.to = x
      /\ h.ticket = None /\ h.challenge = None /\ h.purse = None
  BY NoCallFacts DEF Call
<1> QED
  BY <1>1, VenueNoneAssumption
     DEF CallShape, CallerKnows, KnowsScanner, KnowsTicket, KnowsChallenge, KnowsPurse, KnowsSeat

LEMMA BeginCallInv ==
  ASSUME VenueInv, NEW p \in Caller, BeginCall(p)
  PROVE  VenueInv'
<1>1. calls' \in 0..MaxCalls
  BY VenueBoundsAssumption DEF BeginCall, VenueInv, VenueTypeOK
<1> SUFFICES \E h \in Call : CallShape(h) /\ CallerKnows(h) /\ StartCall(p, h)
  BY <1>1, StartCallInv
<1>2. ASSUME NEW u \in Staff,
             AssignStaff(p, u) \/ RemoveStaff(p, u) \/ CheckIn(p, u) \/ CheckOut(p, u)
      PROVE  \E h \in Call : CallShape(h) /\ CallerKnows(h) /\ StartCall(p, h)
  <2>1. PICK s \in {"insertStaff", "updateStaff"}, x \in Assignment :
          StartCall(p, [NoCall EXCEPT !.step = s, !.who = u, !.to = x])
    BY <1>2 DEF AssignStaff, RemoveStaff, CheckIn, CheckOut, Assignment
  <2> QED
    BY <2>1, StaffHandler
<1>3. ASSUME NEW u \in Staff, NEW t \in Ticket, ValidateTicket(p, u, t)
      PROVE  \E h \in Call : CallShape(h) /\ CallerKnows(h) /\ StartCall(p, h)
  BY <1>3, ScanHandler DEF ValidateTicket, VenueInv
<1>4. ASSUME NEW u \in Staff, NEW t \in Ticket, NEW c \in Challenge, ValidateNFCTicket(p, u, t, c)
      PROVE  \E h \in Call : CallShape(h) /\ CallerKnows(h) /\ StartCall(p, h)
  BY <1>4, NFCHandler DEF ValidateNFCTicket, VenueInv
<1>5. ASSUME NEW t \in Ticket, NEW n \in Amount, RegisterConsumption(p, t, n)
      PROVE  \E h \in Call : CallShape(h) /\ CallerKnows(h) /\ StartCall(p, h)
  BY <1>5, PurseHandler DEF RegisterConsumption
<1>6. ASSUME NEW s \in Seat, HoldSeat(p, s) \/ ReleaseSeat(p, s) \/ BlockSeat(p, s)
      PROVE  \E h \in Call : CallShape(h) /\ CallerKnows(h) /\ StartCall(p, h)
  <2>1. PICK x \in {"AVAILABLE", "HELD", "BLOCKED"} :
          /\ x = "HELD" => ~Taken(s)
          /\ StartCall(p, [NoCall EXCEPT !.step = "writeSeat", !.seat = s, !.to = x])
    BY <1>6 DEF HoldSeat, ReleaseSeat, BlockSeat, Taken
  <2> QED
    BY <2>1, SeatHandler
<1> QED
  BY <1>2, <1>3, <1>4, <1>5, <1>6 DEF BeginCall

----------------------------------------------------------------------------
\* Continue, one step after the other.

\* What no writing of an assignment or of a handler changes.
LEMMA KeepsPromises ==
  ASSUME ChallengesAreFresh, Promises, UNCHANGED <<nfc, ticket, uses>>,
         contended \subseteq contended'
  PROVE  ChallengesAreFresh' /\ Promises'
BY DEF ChallengesAreFresh, Promises, EntersOnce, ChallengeAdmitsOne, BalanceHolds

LEMMA WriteStaffInv ==
  ASSUME VenueInv, NEW p \in Caller, WriteStaff(p)
  PROVE  VenueInv'
<1> USE DEF VenueInv, WriteStaff
<1>1. call[p].who \in Staff /\ call[p].to \in Assignment
  BY DEF CallsInShape, CallShape
<1>2. staff' \in [Staff -> Assignment] /\ contended' \subseteq Row /\ contended \subseteq contended'
  BY <1>1 DEF VenueTypeOK, Row
<1>3. Frame(p)
  BY <1>1 DEF Frame, VenueTypeOK
<1>4. call' \in [Caller -> Call] => VenueTypeOK'
  BY <1>2 DEF VenueTypeOK
<1> QED
  BY <1>2, <1>3, <1>4, KeepsPromises, EndCallInv

LEMMA ReadNFCTicketInv ==
  ASSUME VenueInv, NEW p \in Caller, NEW valid \in BOOLEAN, ReadNFCTicket(p, valid)
  PROVE  VenueInv'
<1> USE DEF VenueInv, ReadNFCTicket
<1> DEFINE t == call[p].ticket
           c == call[p].challenge
<1>1. /\ call[p] \in Call /\ call[p].step = "nfcTicket" /\ CallerKnows(call[p])
      /\ t \in Ticket /\ c \in Challenge /\ call[p].who \in Staff
  BY DEF CallsInShape, CallShape, CallersKnow, VenueTypeOK
<1>2. UNCHANGED <<staff, window, ticket, uses, seat, contended, failures, calls>>
  BY DEF history
<1>3. CASE EndCall(p) /\ UNCHANGED nfc
  <2>1. Frame(p)
    BY <1>2, <1>3 DEF Frame
  <2> QED
    BY <1>2, <1>3, <2>1, KeepsPromises, EndCallInv DEF VenueTypeOK
<1>4. CASE /\ call' = [call EXCEPT ![p].step = "scanner", ![p].unused = Admits(t)]
           /\ nfc' = [nfc EXCEPT ![c] = "gone"]
  <2>1. PICK h \in Call :
          /\ call' = [call EXCEPT ![p] = h]
          /\ h.step = "scanner" /\ h.who = call[p].who /\ h.ticket = t
          /\ h.purse = call[p].purse /\ h.challenge = c /\ h.seat = call[p].seat
          /\ h.to = call[p].to /\ h.n = call[p].n /\ h.unused = Admits(t)
    <3> DEFINE g == [call[p] EXCEPT !.step = "scanner", !.unused = Admits(t)]
    <3>1. /\ g \in Call /\ g.step = "scanner" /\ g.who = call[p].who /\ g.ticket = t
          /\ g.purse = call[p].purse /\ g.challenge = c /\ g.seat = call[p].seat
          /\ g.to = call[p].to /\ g.n = call[p].n /\ g.unused = Admits(t)
      BY <1>1, AdmitsType DEF Call
    <3>2. call' = [call EXCEPT ![p] = g]
      BY <1>4 DEF VenueTypeOK
    <3> HIDE DEF g, t, c
    <3> QED
      BY <3>1, <3>2
  <2> HIDE DEF t, c
  <2>3. CallShape(h) /\ Rows(h) = Rows(call[p])
    BY <1>1, <2>1 DEF CallShape, Rows, t, c
  <2>4. /\ nfc' \in [Challenge -> {"none", "live", "gone"}] /\ nfc'[c] = "gone"
        /\ \A d \in Challenge \ {c} : nfc'[d] = nfc[d]
    BY <1>1, <1>4 DEF VenueTypeOK
  <2>5. Frame(p)
    BY <1>2, <2>4 DEF Frame, c
  <2>6. h.unused => ticket[t].entries = 0
    <3>1. Admits(t) => ticket[t].entries = 0
      BY <1>1 DEF Admits, VenueTypeOK, TicketRow
    <3>2. h.unused => Admits(t)
      BY <2>1, Zenon
    <3> QED
      BY <3>1, <3>2
  <2>7. KnowsTicket(h)'
    BY <1>2, <2>1, <2>6 DEF KnowsTicket
  <2>8. KnowsChallenge(h)'
    BY <1>1, <1>2, <2>1, <2>4 DEF CallerKnows, KnowsChallenge, c
  <2>9. KnowsScanner(h)' /\ KnowsPurse(h)' /\ KnowsSeat(h)'
    BY <1>1, <1>2, <2>1 DEF CallerKnows, KnowsScanner, KnowsPurse, KnowsSeat, Taken
  <2>10. ChallengesAreFresh' /\ Promises'
    BY <1>2, <2>4 DEF ChallengesAreFresh, Promises, EntersOnce, ChallengeAdmitsOne, BalanceHolds
  <2>11. call' \in [Caller -> Call] => VenueTypeOK'
    BY <1>2, <2>4 DEF VenueTypeOK
  <2> QED
    BY <1>2, <2>1, <2>3, <2>5, <2>7, <2>8, <2>9, <2>10, <2>11, ContinueCallInv DEF CallerKnows
<1> QED
  BY <1>3, <1>4

\* A scan goes on, and nothing is written.
LEMMA ScanGoesOn ==
  ASSUME VenueInv, NEW p \in Caller, NEW s \in {"window", "mark"}, Goto(p, s),
         call[p].step \in {"scanner", "window"},
         s = "window" => staff[call[p].who] = "in",
         s = "mark" => call[p].step = "window" /\ call[p].unused,
         UNCHANGED <<door, seat, history>>
  PROVE  VenueInv'
<1> USE DEF VenueInv
<1>1. /\ call[p] \in Call /\ CallerKnows(call[p])
      /\ call[p].ticket \in Ticket /\ call[p].who \in Staff
  BY DEF CallsInShape, CallShape, CallersKnow, VenueTypeOK
<1>2. UNCHANGED <<staff, window, nfc, ticket, uses, seat, contended, failures, calls>>
  BY DEF door, history
<1>3. PICK h \in Call :
        /\ call' = [call EXCEPT ![p] = h]
        /\ h.step = s /\ h.who = call[p].who /\ h.ticket = call[p].ticket
        /\ h.purse = call[p].purse /\ h.challenge = call[p].challenge /\ h.seat = call[p].seat
        /\ h.to = call[p].to /\ h.n = call[p].n /\ h.unused = call[p].unused
  <2> DEFINE g == [call[p] EXCEPT !.step = s]
  <2>1. /\ g \in Call /\ g.step = s /\ g.who = call[p].who /\ g.ticket = call[p].ticket
        /\ g.purse = call[p].purse /\ g.challenge = call[p].challenge /\ g.seat = call[p].seat
        /\ g.to = call[p].to /\ g.n = call[p].n /\ g.unused = call[p].unused
    BY <1>1 DEF Call
  <2>2. call' = [call EXCEPT ![p] = g]
    BY DEF Goto
  <2> HIDE DEF g
  <2> QED
    BY <2>1, <2>2
<1>5. CallShape(h) /\ Rows(h) = Rows(call[p])
  BY <1>1, <1>3 DEF CallShape, Rows
<1>6. Frame(p)
  BY <1>2 DEF Frame
<1>7. CallerKnows(h)'
  <2>1. KnowsTicket(h)'
    BY <1>1, <1>2, <1>3 DEF CallerKnows, KnowsTicket
  <2>2. KnowsScanner(h)'
    BY <1>1, <1>2, <1>3 DEF CallerKnows, KnowsScanner
  <2>3. KnowsChallenge(h)' /\ KnowsPurse(h)' /\ KnowsSeat(h)'
    BY <1>1, <1>2, <1>3 DEF CallerKnows, KnowsChallenge, KnowsPurse, KnowsSeat, Taken
  <2> QED
    BY <2>1, <2>2, <2>3 DEF CallerKnows
<1>8. ChallengesAreFresh' /\ Promises'
  BY <1>2, KeepsPromises
<1>9. call' \in [Caller -> Call] => VenueTypeOK'
  BY <1>2 DEF VenueTypeOK
<1> QED
  BY <1>2, <1>3, <1>5, <1>6, <1>7, <1>8, <1>9, ContinueCallInv

\* A handler ends, and nothing is written.
LEMMA NoRowWritten ==
  ASSUME VenueInv, NEW p \in Caller, EndCall(p), UNCHANGED <<door, seat, contended, calls>>,
         failures' \in 0..MaxFailures
  PROVE  VenueInv'
<1>1. Frame(p)
  BY DEF Frame, door
<1>2. call' \in [Caller -> Call] => VenueTypeOK'
  BY DEF VenueInv, VenueTypeOK, door
<1> QED
  BY <1>1, <1>2, KeepsPromises, EndCallInv DEF VenueInv, door

LEMMA CheckScannerInv ==
  ASSUME VenueInv, NEW p \in Caller, CheckScanner(p)
  PROVE  VenueInv'
<1>1. CASE staff[call[p].who] = "in"
  BY <1>1, ScanGoesOn DEF CheckScanner
<1>2. CASE staff[call[p].who] # "in"
  BY <1>2, NoRowWritten DEF CheckScanner, history, VenueInv, VenueTypeOK
<1> QED
  BY <1>1, <1>2

LEMMA CheckWindowInv ==
  ASSUME VenueInv, NEW p \in Caller, CheckWindow(p)
  PROVE  VenueInv'
<1>1. CASE window = "open" /\ call[p].unused
  BY <1>1, ScanGoesOn DEF CheckWindow
<1>2. CASE ~(window = "open" /\ call[p].unused)
  BY <1>2, NoRowWritten DEF CheckWindow, history, VenueInv, VenueTypeOK
<1> QED
  BY <1>1, <1>2

LEMMA MarkAsUsedInv ==
  ASSUME VenueInv, NEW p \in Caller, MarkAsUsed(p)
  PROVE  VenueInv'
<1> USE DEF VenueInv, MarkAsUsed
<1> DEFINE t == call[p].ticket
           c == call[p].challenge
<1>1. /\ call[p].step = "mark" /\ CallerKnows(call[p]) /\ t \in Ticket
  BY DEF CallsInShape, CallShape, CallersKnow
<1>2. /\ ticket[t].entries \in Nat /\ ticket[t] \in TicketRow
      /\ ticket' = [ticket EXCEPT ![t].entries = ticket[t].entries + 1, ![t].status = "USED"]
      /\ \A d \in Challenge : uses[d] \in Nat
  BY <1>1 DEF VenueTypeOK, TicketRow, TicketStatus
<1>3. /\ ticket' \in [Ticket -> TicketRow]
      /\ ticket'[t].entries = ticket[t].entries + 1 /\ ticket'[t].spent = ticket[t].spent
      /\ \A u \in Ticket \ {t} : ticket'[u] = ticket[u]
  BY <1>1, <1>2 DEF VenueTypeOK, TicketRow, TicketStatus
<1>4. /\ uses' \in [Challenge -> Nat]
      /\ \A d \in Challenge : uses'[d] = IF d = c THEN uses[d] + 1 ELSE uses[d]
  BY <1>2
<1>5. UNCHANGED <<staff, window, nfc, seat, contended, failures, calls>>
  BY DEF history
<1> HIDE DEF t, c
<1>6. Frame(p)
  BY <1>3, <1>4, <1>5 DEF Frame, t, c
<1>7. call' \in [Caller -> Call] => VenueTypeOK'
  BY <1>3, <1>4, <1>5 DEF VenueTypeOK
<1>8. <<"door", t>> \notin contended => ticket[t].entries = 0
  BY <1>1 DEF CallerKnows, KnowsTicket, t
<1>9. \A d \in Challenge : d = c /\ <<"nfc", d>> \notin contended => uses[d] = 0 /\ nfc[d] = "gone"
  BY <1>1 DEF CallerKnows, KnowsChallenge, c
<1>10. EntersOnce'
  <2> SUFFICES ASSUME NEW u \in Ticket, <<"door", u>> \notin contended PROVE ticket'[u].entries <= 1
    BY <1>5 DEF EntersOnce
  <2>1. CASE u = t
    BY <1>3, <1>8, <2>1
  <2>2. CASE u # t
    BY <1>3, <2>2 DEF Promises, EntersOnce
  <2> QED
    BY <2>1, <2>2
<1>11. ChallengeAdmitsOne' /\ ChallengesAreFresh'
  BY <1>4, <1>5, <1>9 DEF Promises, ChallengeAdmitsOne, ChallengesAreFresh
<1>12. BalanceHolds'
  BY <1>3, <1>5 DEF Promises, BalanceHolds
<1> QED
  BY <1>5, <1>6, <1>7, <1>10, <1>11, <1>12, EndCallInv DEF Promises

LEMMA ChargeInv ==
  ASSUME VenueInv, NEW p \in Caller, Charge(p)
  PROVE  VenueInv'
<1> USE DEF VenueInv, Charge
<1> DEFINE t == call[p].purse
           n == call[p].n
<1>1. /\ call[p].step = "charge" /\ CallerKnows(call[p]) /\ t \in Ticket /\ n \in Nat
  BY AmountAssumption DEF CallsInShape, CallShape, CallersKnow
<1>2. ticket[t].spent \in Nat /\ ticket[t] \in TicketRow
  BY <1>1 DEF VenueTypeOK, TicketRow
<1>3. /\ ticket' \in [Ticket -> TicketRow]
      /\ ticket'[t].spent = ticket[t].spent + n /\ ticket'[t].entries = ticket[t].entries
      /\ \A u \in Ticket \ {t} : ticket'[u] = ticket[u]
  BY <1>1, <1>2 DEF VenueTypeOK, TicketRow
<1>4. UNCHANGED <<staff, window, nfc, uses, seat, contended, failures, calls>>
  BY DEF history
<1>5. <<"purse", t>> \notin contended => ticket[t].spent + n <= Total
  BY <1>1 DEF CallerKnows, KnowsPurse
<1> HIDE DEF t, n
<1>6. Frame(p)
  BY <1>3, <1>4 DEF Frame, t
<1>7. call' \in [Caller -> Call] => VenueTypeOK'
  BY <1>3, <1>4 DEF VenueTypeOK
<1>8. BalanceHolds'
  <2> SUFFICES ASSUME NEW u \in Ticket, <<"purse", u>> \notin contended PROVE ticket'[u].spent <= Total
    BY <1>4 DEF BalanceHolds
  <2>1. CASE u = t
    BY <1>3, <1>5, <2>1
  <2>2. CASE u # t
    BY <1>3, <2>2 DEF Promises, BalanceHolds
  <2> QED
    BY <2>1, <2>2
<1>9. EntersOnce'
  BY <1>3, <1>4 DEF Promises, EntersOnce
<1>10. ChallengeAdmitsOne' /\ ChallengesAreFresh'
  BY <1>4 DEF Promises, ChallengeAdmitsOne, ChallengesAreFresh
<1> QED
  BY <1>4, <1>6, <1>7, <1>8, <1>9, <1>10, EndCallInv DEF Promises

LEMMA UpdateSeatInv ==
  ASSUME VenueInv, NEW p \in Caller, UpdateSeat(p)
  PROVE  VenueInv'
<1> USE DEF VenueInv, UpdateSeat
<1> DEFINE s == call[p].seat
<1>1. s \in Seat /\ call[p].to \in {"AVAILABLE", "HELD", "BLOCKED"}
  BY DEF CallsInShape, CallShape
<1>2. seat' \in [Seat -> SeatRow] /\ \A r \in Seat \ {s} : seat'[r] = seat[r]
  BY <1>1 DEF VenueTypeOK, SeatRow
<1>3. UNCHANGED <<staff, window, nfc, ticket, uses, contended, failures, calls>>
  BY DEF door, history
<1> HIDE DEF s
<1>4. Frame(p)
  BY <1>2, <1>3 DEF Frame, s
<1>5. call' \in [Caller -> Call] => VenueTypeOK'
  BY <1>2, <1>3 DEF VenueTypeOK
<1>6. ChallengesAreFresh' /\ Promises'
  BY <1>3, KeepsPromises
<1> QED
  BY <1>3, <1>4, <1>5, <1>6, EndCallInv

----------------------------------------------------------------------------
\* Handlers of one call, and time.

LEMMA TicketsStay ==
  ASSUME UNCHANGED <<staff, nfc, uses, seat, contended>>,
         \A t \in Ticket : ticket'[t].entries = ticket[t].entries /\ ticket'[t].spent = ticket[t].spent
  PROVE  /\ \A p \in Caller : UNCHANGED call /\ CallerKnows(call[p]) => CallerKnows(call[p])'
         /\ ChallengesAreFresh => ChallengesAreFresh'
         /\ Promises => Promises'
<1>1. ASSUME NEW p \in Caller, UNCHANGED call, CallerKnows(call[p]) PROVE CallerKnows(call[p])'
  <2>1. KnowsTicket(call[p])' /\ KnowsPurse(call[p])'
    BY <1>1 DEF CallerKnows, KnowsTicket, KnowsPurse
  <2>2. KnowsScanner(call[p])' /\ KnowsChallenge(call[p])' /\ KnowsSeat(call[p])'
    BY <1>1 DEF CallerKnows, KnowsScanner, KnowsChallenge, KnowsSeat, Taken
  <2> QED
    BY <2>1, <2>2 DEF CallerKnows
<1>2. ChallengesAreFresh => ChallengesAreFresh'
  BY DEF ChallengesAreFresh
<1>3. Promises => Promises'
  BY DEF Promises, EntersOnce, ChallengeAdmitsOne, BalanceHolds
<1> QED
  BY <1>1, <1>2, <1>3

LEMMA RegisterPublicKeyInv ==
  ASSUME VenueInv, NEW t \in Ticket, RegisterPublicKey(t)
  PROVE  VenueInv'
<1> USE DEF VenueInv, RegisterPublicKey
<1>1. /\ ticket' \in [Ticket -> TicketRow]
      /\ \A u \in Ticket : ticket'[u].entries = ticket[u].entries /\ ticket'[u].spent = ticket[u].spent
  BY DEF VenueTypeOK, TicketRow
<1>2. VenueTypeOK'
  BY <1>1 DEF VenueTypeOK, history
<1> QED
  BY <1>1, <1>2, TicketsStay, VenueStillInv DEF history

LEMMA UpdateTicketStatusInv ==
  ASSUME VenueInv, NEW t \in Ticket, NEW x \in TicketStatus, UpdateTicketStatus(t, x),
         calls' \in 0..MaxCalls
  PROVE  VenueInv'
<1> USE DEF VenueInv, UpdateTicketStatus
<1>1. /\ ticket' \in [Ticket -> TicketRow]
      /\ \A u \in Ticket : ticket'[u].entries = ticket[u].entries /\ ticket'[u].spent = ticket[u].spent
  BY DEF VenueTypeOK, TicketRow
<1>2. VenueTypeOK'
  BY <1>1 DEF VenueTypeOK
<1> QED
  BY <1>1, <1>2, TicketsStay, VenueStillInv

LEMMA WindowInv ==
  ASSUME VenueInv, \E w \in {"before", "open", "closed"} : MoveWindow(w)
  PROVE  VenueInv'
<1> USE DEF VenueInv, MoveWindow
<1>1. VenueTypeOK'
  BY DEF VenueTypeOK, history
<1> QED
  BY <1>1, TicketsStay, VenueStillInv DEF history

\* A challenge is made, or is over.
LEMMA NFCInv ==
  ASSUME VenueInv, NEW c \in Challenge, NEW x \in {"live", "gone"},
         nfc' = [nfc EXCEPT ![c] = x], x = "live" => nfc[c] = "none",
         UNCHANGED <<staff, window, ticket, uses, seat, call, history>>
  PROVE  VenueInv'
<1> USE DEF VenueInv
<1>1. /\ nfc' \in [Challenge -> {"none", "live", "gone"}] /\ nfc'[c] = x
      /\ \A d \in Challenge \ {c} : nfc'[d] = nfc[d]
  BY DEF VenueTypeOK
<1>2. UNCHANGED <<seat, contended, failures, calls>>
  BY DEF history
<1>3. VenueTypeOK'
  BY <1>1, <1>2 DEF VenueTypeOK
<1>4. ASSUME NEW p \in Caller, CallerKnows(call[p]) PROVE CallerKnows(call[p])'
  <2>1. KnowsChallenge(call[p])'
    BY <1>1, <1>2, <1>4 DEF CallerKnows, KnowsChallenge
  <2>2. KnowsScanner(call[p])' /\ KnowsTicket(call[p])' /\ KnowsPurse(call[p])' /\ KnowsSeat(call[p])'
    BY <1>2, <1>4 DEF CallerKnows, KnowsScanner, KnowsTicket, KnowsPurse, KnowsSeat, Taken
  <2> QED
    BY <2>1, <2>2 DEF CallerKnows
<1>5. ChallengesAreFresh'
  BY <1>1, <1>2 DEF ChallengesAreFresh
<1>6. Promises'
  BY <1>2 DEF Promises, EntersOnce, ChallengeAdmitsOne, BalanceHolds
<1> QED
  BY <1>2, <1>3, <1>4, <1>5, <1>6, VenueStillInv

\* No seat becomes taken.
LEMMA SeatsInv ==
  ASSUME VenueInv, UNCHANGED <<door, call, history>>, seat' \in [Seat -> SeatRow],
         \A s \in Seat : Taken(s)' => Taken(s)
  PROVE  VenueInv'
<1> USE DEF VenueInv
<1>1. UNCHANGED <<staff, window, nfc, ticket, uses, contended, failures, calls>>
  BY DEF door, history
<1>2. VenueTypeOK'
  BY <1>1 DEF VenueTypeOK
<1>3. ASSUME NEW p \in Caller, CallerKnows(call[p]) PROVE CallerKnows(call[p])'
  BY <1>1, <1>3 DEF CallerKnows, KnowsScanner, KnowsTicket, KnowsChallenge, KnowsPurse, KnowsSeat
<1>4. ChallengesAreFresh' /\ Promises'
  BY <1>1 DEF ChallengesAreFresh, Promises, EntersOnce, ChallengeAdmitsOne, BalanceHolds
<1> QED
  BY <1>1, <1>2, <1>3, <1>4, VenueStillInv

\* What the expiry, the map and the sweep make of every seat.
LEMMA SeatsFacts ==
  ASSUME VenueInv, \/ \E s \in Seat : HoldExpires(s)
                   \/ InitializeForEvent \/ ReleaseExpiredHolds
  PROVE  /\ seat' \in [Seat -> SeatRow]
         /\ \A s \in Seat : Taken(s)' => Taken(s)
         /\ \A s \in Seat : Taken(s) => Taken(s)' \/ HoldExpires(s)
         /\ UNCHANGED <<door, call, history>>
<1>1. seat \in [Seat -> SeatRow]
  BY DEF VenueInv, VenueTypeOK
<1>2. ASSUME NEW s \in Seat, HoldExpires(s)
      PROVE  /\ seat' \in [Seat -> SeatRow]
             /\ seat'[s].status = seat[s].status /\ ~seat'[s].live
             /\ \A r \in Seat \ {s} : seat'[r] = seat[r]
             /\ UNCHANGED <<door, call, history>>
  BY <1>1, <1>2 DEF HoldExpires, SeatRow
<1>3. ASSUME InitializeForEvent
      PROVE  /\ seat' \in [Seat -> SeatRow]
             /\ \A s \in Seat : \/ seat'[s] = seat[s]
                                \/ seat[s].status = "NONE" /\ seat'[s].status = "AVAILABLE"
             /\ UNCHANGED <<door, call, history>>
  BY <1>1, <1>3 DEF InitializeForEvent, SeatRow
<1>4. ASSUME ReleaseExpiredHolds
      PROVE  /\ seat' \in [Seat -> SeatRow]
             /\ \A s \in Seat : \/ seat'[s] = seat[s]
                                \/ /\ seat[s].status = "HELD" /\ ~seat[s].live
                                   /\ seat'[s].status = "AVAILABLE"
             /\ UNCHANGED <<door, call, history>>
  BY <1>1, <1>4 DEF ReleaseExpiredHolds, SeatRow
<1> QED
  BY <1>2, <1>3, <1>4 DEF Taken

LEMMA OtherInv == VenueInv /\ Other => VenueInv'
<1> SUFFICES ASSUME VenueInv, Other PROVE VenueInv'
  OBVIOUS
<1>1. ASSUME NEW c \in Challenge, NEW u \in Staff, GenerateNFCChallenge(u, c) PROVE VenueInv'
  BY <1>1, NFCInv DEF GenerateNFCChallenge
<1>2. ASSUME NEW c \in Challenge, ChallengeExpires(c) PROVE VenueInv'
  BY <1>2, NFCInv DEF ChallengeExpires
<1> QED
  BY <1>1, <1>2, RegisterPublicKeyInv, SeatsFacts, SeatsInv, WindowInv DEF Other

----------------------------------------------------------------------------
LEMMA FailCallInv ==
  ASSUME VenueInv, NEW p \in Caller, FailCall(p)
  PROVE  VenueInv'
<1>1. failures' \in 0..MaxFailures
  BY VenueBoundsAssumption DEF FailCall, VenueInv, VenueTypeOK
<1> QED
  BY <1>1, NoRowWritten DEF FailCall

LEMMA RestartInv == VenueInv /\ Restart => VenueInv'
<1> SUFFICES ASSUME VenueInv, Restart PROVE VenueInv'
  OBVIOUS
<1> USE DEF VenueInv, Restart
<1>1. /\ call' \in [Caller -> Call] /\ \A p \in Caller : call'[p] = NoCall
      /\ UNCHANGED <<staff, window, ticket, uses, seat, contended, calls>>
  BY NoCallFacts
<1>2. /\ nfc' \in [Challenge -> {"none", "live", "gone"}]
      /\ \A c \in Challenge : nfc'[c] \in {nfc[c], "gone"}
  BY DEF VenueTypeOK
<1>3. VenueTypeOK'
  BY <1>1, <1>2, VenueBoundsAssumption DEF VenueTypeOK
<1>4. CallsInShape' /\ Apart' /\ CallersKnow'
  BY <1>1, NoCallFacts, NoCallKnows DEF CallsInShape, Apart, CallersKnow
<1>5. ChallengesAreFresh'
  BY <1>1, <1>2 DEF ChallengesAreFresh
<1>6. Promises'
  BY <1>1 DEF Promises, EntersOnce, ChallengeAdmitsOne, BalanceHolds
<1> QED
  BY <1>3, <1>4, <1>5, <1>6

LEMMA NextInv == VenueInv /\ [VenueNext]_venueVars => VenueInv'
<1> SUFFICES ASSUME VenueInv, [VenueNext]_venueVars PROVE VenueInv'
  OBVIOUS
<1>1. CASE UNCHANGED venueVars
  <2> USE <1>1 DEF venueVars, door, history
  <2>1. VenueTypeOK'
    BY DEF VenueInv, VenueTypeOK
  <2> QED
    BY <2>1, TicketsStay, VenueStillInv DEF VenueInv
<1>2. ASSUME NEW p \in Caller, ContinueCall(p) PROVE VenueInv'
  BY <1>2, WriteStaffInv, ReadNFCTicketInv, CheckScannerInv, CheckWindowInv, MarkAsUsedInv,
     ChargeInv, UpdateSeatInv DEF ContinueCall
<1>3. ASSUME calls < MaxCalls, calls' = calls + 1 PROVE calls' \in 0..MaxCalls
  BY <1>3, VenueBoundsAssumption DEF VenueInv, VenueTypeOK
<1> QED
  BY <1>1, <1>2, <1>3, BeginCallInv, FailCallInv, OtherInv, RestartInv, UpdateTicketStatusInv
     DEF VenueNext

THEOREM VenueInvariance == VenueSpec => []VenueInv
<1>1. VenueInit => VenueInv
  BY VenueInitInv
<1>2. VenueInv /\ [VenueNext]_venueVars => VenueInv'
  BY NextInv
<1> QED
  BY <1>1, <1>2, PTL DEF VenueSpec

\* Every variable keeps its type.
THEOREM VenueTypeCorrect == VenueSpec => []VenueTypeOK
<1>1. VenueInv => VenueTypeOK
  BY DEF VenueInv
<1> QED
  BY <1>1, VenueInvariance, PTL

\* For any number of scanners, tickets and challenges: validateTicket and validateNFCTicket
\* admit a ticket once, a challenge admits one ticket, and a scan that passed is that of a
\* member of staff on duty, through failures and restarts.
THEOREM DoorCorrect == VenueSpec => []DoorHolds
<1>1. VenueInv => DoorHolds
  BY DEF VenueInv, DoorHolds, Promises, CallersKnow, CallerKnows, KnowsScanner, ScannerIsCheckedIn
<1> QED
  BY <1>1, VenueInvariance, PTL

\* For any balance and any amounts: registerConsumption never charges more than a ticket
\* carries, unless two charges of that ticket meet.
THEOREM BalanceCorrect == VenueSpec => []BalanceHolds
<1>1. VenueInv => BalanceHolds
  BY DEF VenueInv, Promises
<1> QED
  BY <1>1, VenueInvariance, PTL

\* What one step makes of a seat that is taken.
LEMMA SeatKept ==
  ASSUME VenueInv, [VenueNext]_venueVars, NEW s \in Seat, Taken(s)
  PROVE  /\ \/ Taken(s)'
            \/ HoldExpires(s)
            \/ \E p \in Caller : WritesSeat(p, s, "AVAILABLE")
         /\ \A p \in Caller : WritesSeat(p, s, "HELD") => <<"seat", s>> \in contended
<1>1. ASSUME NEW p \in Caller, WritesSeat(p, s, "HELD") PROVE <<"seat", s>> \in contended
  BY <1>1 DEF WritesSeat, VenueInv, CallersKnow, CallerKnows, KnowsSeat
<1>2. ASSUME NEW p \in Caller, UpdateSeat(p)
      PROVE  Taken(s)' \/ WritesSeat(p, s, "AVAILABLE")
  <2>1. /\ call[p].seat \in Seat /\ call[p].to \in {"AVAILABLE", "HELD", "BLOCKED"}
        /\ seat \in [Seat -> SeatRow]
    BY <1>2 DEF UpdateSeat, VenueInv, CallsInShape, CallShape, VenueTypeOK
  <2>2. CASE call[p].seat # s
    <3>1. seat'[s] = seat[s]
      BY <1>2, <2>1, <2>2 DEF UpdateSeat
    <3> QED
      BY <3>1 DEF Taken
  <2>3. CASE call[p].seat = s /\ call[p].to \in {"HELD", "BLOCKED"}
    <3>1. seat'[s].status = call[p].to /\ seat'[s].live = (call[p].to = "HELD")
      BY <1>2, <2>1, <2>3 DEF UpdateSeat
    <3>2. CASE call[p].to = "HELD"
      <4>1. seat'[s].status = "HELD" /\ seat'[s].live
        BY <3>1, <3>2, Zenon
      <4> QED
        BY <4>1 DEF Taken
    <3>3. CASE call[p].to = "BLOCKED"
      BY <3>1, <3>3 DEF Taken
    <3> QED
      BY <2>3, <3>2, <3>3
  <2>4. CASE call[p].seat = s /\ call[p].to = "AVAILABLE"
    BY <1>2, <2>4 DEF WritesSeat
  <2> QED
    BY <2>1, <2>2, <2>3, <2>4
<1>3. ASSUME UNCHANGED seat PROVE Taken(s)'
  BY <1>3 DEF Taken
<1>4. ASSUME NEW p \in Caller, BeginCall(p) \/ FailCall(p) PROVE UNCHANGED seat
  BY <1>4 DEF BeginCall, StartCall, AssignStaff, RemoveStaff, CheckIn, CheckOut, ValidateTicket,
     ValidateNFCTicket, RegisterConsumption, HoldSeat, ReleaseSeat, BlockSeat, FailCall
<1>5. ASSUME NEW p \in Caller,
             \/ WriteStaff(p) \/ \E valid \in BOOLEAN : ReadNFCTicket(p, valid)
             \/ CheckScanner(p) \/ CheckWindow(p) \/ MarkAsUsed(p) \/ Charge(p)
      PROVE  UNCHANGED seat
  BY <1>5 DEF WriteStaff, ReadNFCTicket, CheckScanner, CheckWindow, MarkAsUsed, Charge
<1>6. ASSUME \/ \E t \in Ticket : RegisterPublicKey(t)
             \/ \E u \in Staff, c \in Challenge : GenerateNFCChallenge(u, c)
             \/ \E c \in Challenge : ChallengeExpires(c)
             \/ \E w \in {"before", "open", "closed"} : MoveWindow(w)
             \/ \E t \in Ticket, x \in TicketStatus : UpdateTicketStatus(t, x)
             \/ Restart \/ UNCHANGED venueVars
      PROVE  UNCHANGED seat
  BY <1>6 DEF RegisterPublicKey, GenerateNFCChallenge, ChallengeExpires, MoveWindow,
     UpdateTicketStatus, Restart, venueVars
<1> QED
  BY <1>1, <1>2, <1>3, <1>4, <1>5, <1>6, SeatsFacts DEF VenueNext, ContinueCall, Other

\* For any number of seats: what holdSeat, blockSeat and releaseSeat, the expiry, the sweep
\* and the initialization of the map do to a seat that is held or blocked.
THEOREM SeatCorrect == VenueSpec => SeatIsKept
<1>1. ASSUME VenueInv, [VenueNext]_venueVars
      PROVE  [\A s \in Seat : Taken(s) =>
                /\ \/ Taken(s)'
                   \/ HoldExpires(s)
                   \/ \E p \in Caller : WritesSeat(p, s, "AVAILABLE")
                /\ \A p \in Caller :
                     WritesSeat(p, s, "HELD") => <<"seat", s>> \in contended]_venueVars
  BY <1>1, SeatKept
<1> QED
  BY <1>1, VenueInvariance, PTL DEF VenueSpec, SeatIsKept

==============================================================================
