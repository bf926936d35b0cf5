------------------------ MODULE TicketTransfer_proofs ------------------------
(***************************************************************************)
(* Proofs about TicketTransfer.  The invariants speak of the rows that no  *)
(* two handlers overlapped on; the inductive invariant says why they hold: *)
(* one handler at most has read such a row and still means to write it, so *)
(* what it read is still true when it writes.                              *)
(***************************************************************************)
EXTENDS TicketTransfer, TLAPS

Exists(t) == ticket[t].status # "NONE"

Calm == Ticket \ disturbed

\* Rows that do not exist are blank, and transfers and copies refer to existing rows.
TablesOK ==
  /\ \A t \in Ticket : ~Exists(t) => ticket[t] = NoRow
  /\ \A x \in Tx : tx[x].status = "NONE" => tx[x] = NoTransfer
  /\ \A x \in Tx : tx[x].status # "NONE" => tx[x].row \in Ticket /\ Exists(tx[x].row)
  /\ \A c \in Ticket : ticket[c].copyOf # NoTicket => Exists(ticket[c].copyOf)

\* What a handler keeps in its local variables at each step.
HandlerOK(p) ==
  LET h == proc[p] IN
  /\ h.step = "idle" => h = Idle
  /\ h.step \in {"freeze", "open", "move", "record"} =>
       h.id \in Tx /\ tx[h.id].status = "NONE" /\ h.by \in User /\ h.to \in User
  /\ h.step = "commit" =>
       /\ h.id \in Ticket /\ ~Exists(h.id) /\ h.by \in User
       /\ h.tx \in Tx /\ tx[h.tx].status # "NONE" /\ tx[h.tx].row = h.row
  /\ h.step \in {"freeze", "open", "move", "record", "commit", "mark", "void"} =>
       h.row \in Ticket /\ Exists(h.row)
  /\ h.step \in GivesBack \cup {"assign"} =>
       h.row = NoTicket /\ \A x \in h.batch : tx[x].status # "NONE"
  /\ h.step \notin GivesBack \cup {"assign"} => h.batch = {}
  /\ h.step \in {"activate", "close"} => h.tx \in h.batch
  /\ h.step = "assign" => h.by \in User

\* No two handlers reserved the same key.
KeysUnique ==
  \A p, q \in Process : p # q /\ proc[p].id = proc[q].id => proc[p].id = NoTx

\* A calm row is in the hands of one handler at most.
Isolation ==
  \A t \in Calm : \A p, q \in Process : t \in Touches(p) /\ t \in Touches(q) => p = q

\* What handler p read of calm row t still holds.
Fresh(p, t) ==
  LET h == proc[p] IN
  /\ h.step \in {"freeze", "move"} =>
       ticket[t].status \in {"ACTIVE", "PAID"} /\ OpenOn(t) = {}
  /\ h.step = "freeze" => ticket[t].owner = h.by
  /\ h.step = "open" => /\ ticket[t].status = "FROZEN" /\ ticket[t].owner = h.by
                        /\ OpenOn(t) = {} /\ CompletedOn(t) = {}
  /\ h.step = "record" => /\ ticket[t].status = "TRANSFERRED"
                          /\ OpenOn(t) = {} /\ CompletedOn(t) = {}
  /\ h.step = "commit" => tx[h.tx].status = "PENDING"
  /\ h.step \in GivesBack => \A x \in h.batch : tx[x].row = t => tx[x].status = "PENDING"
  /\ h.step = "close" /\ tx[h.tx].row = t => ticket[t].status = "ACTIVE"
  /\ h.step = "mark" => /\ ticket[t].unused
                        /\ ticket[t].status \in {"PAID", "ACTIVE", "TRANSFERRED"}

\* What is true of calm row t between two database calls.
RowOK(t) ==
  /\ \A x, y \in OpenOn(t) : x = y
  /\ CompletedOn(t) # {} => /\ OpenOn(t) = {}
                            /\ ticket[t].status \in {"TRANSFERRED", "USED", "CANCELED"}
  /\ CopiesOf(t) # {} => CompletedOn(t) # {}
  /\ \A c, d \in CopiesOf(t) : c = d
  /\ ticket[t].entries = (IF ticket[t].unused THEN 0 ELSE 1)
  /\ ticket[t].status \in {"ACTIVE", "PAID"} /\ OpenOn(t) # {} =>
       \E p \in Process : proc[p].step = "close" /\ tx[proc[p].tx].row = t
  /\ ticket[t].status = "FROZEN" =>
       \/ \E x \in OpenOn(t) : tx[x].from = ticket[t].owner
       \/ \E p \in Process : proc[p].step = "open" /\ proc[p].row = t

IInv ==
  /\ TypeOK
  /\ TablesOK
  /\ \A p \in Process : HandlerOK(p)
  /\ KeysUnique
  /\ Isolation
  /\ \A t \in Calm : RowOK(t)
  /\ \A t \in Calm : \A p \in Process : t \in Touches(p) => Fresh(p, t)

----------------------------------------------------------------------------
\* A handler that passes its checks: the tables stay as they are, and the rows it
\* will write were in nobody's hands or are not calm any more.
LEMMA StartStep ==
  ASSUME IInv,
         NEW p \in Process, NEW h \in Handler, NEW rows \in SUBSET Ticket,
         Start(p, h, rows), requests' \in 0..MaxRequests,
         h.step \notin {"idle", "open", "close", "record"},
         \A q \in Process : proc[q].id = h.id => h.id = NoTx,
         Touches(p)' = rows, HandlerOK(p)',
         \A t \in rows : t \in Calm /\ ~Busy(t) => Fresh(p, t)'
  PROVE  IInv'
<1>1. /\ UNCHANGED <<ticket, tx, faults>>
      /\ proc[p].step = "idle"
      /\ proc' = [proc EXCEPT ![p] = h]
      /\ disturbed' = disturbed \cup {t \in rows : Busy(t)}
  BY DEF Start
<1>2. TypeOK'
  BY <1>1 DEF IInv, TypeOK
<1>3. TablesOK'
  BY <1>1 DEF IInv, TablesOK, Exists
<1>4. ASSUME NEW q \in Process, q # p
      PROVE  proc'[q] = proc[q] /\ Touches(q)' = Touches(q)
  BY <1>1, <1>4 DEF IInv, TypeOK, Touches
<1>5. proc'[p] = h
  BY <1>1 DEF IInv, TypeOK
<1>6. \A q \in Process : HandlerOK(q)'
  <2> SUFFICES ASSUME NEW q \in Process, q # p PROVE HandlerOK(q)'
    OBVIOUS
  <2>1. HandlerOK(q)
    BY DEF IInv
  <2>. QED  BY <1>1, <1>4, <2>1 DEF HandlerOK, Exists
<1>7. KeysUnique'
  BY <1>1, <1>4, <1>5 DEF IInv, KeysUnique
<1>8. Calm' \subseteq Calm /\ \A t \in Calm' : t \in rows => ~Busy(t)
  BY <1>1 DEF Calm
<1>9. Isolation'
  BY <1>4, <1>8 DEF IInv, Isolation, Busy
<1>10. \A t \in Calm' : RowOK(t)'
  <2> SUFFICES ASSUME NEW t \in Calm' PROVE RowOK(t)'
    OBVIOUS
  <2>1. RowOK(t)
    BY <1>8 DEF IInv
  <2>2. \A q \in Process : proc[q].step \in {"close", "open"} => proc'[q] = proc[q]
    BY <1>1, <1>4
  <2>3. OpenOn(t)' = OpenOn(t) /\ CompletedOn(t)' = CompletedOn(t) /\ CopiesOf(t)' = CopiesOf(t)
    BY <1>1 DEF OpenOn, CompletedOn, CopiesOf
  <2>. QED  BY <1>1, <2>1, <2>2, <2>3 DEF RowOK
<1>11. \A t \in Calm' : \A q \in Process : t \in Touches(q)' => Fresh(q, t)'
  <2> SUFFICES ASSUME NEW t \in Calm', NEW q \in Process, q # p, t \in Touches(q)'
               PROVE  Fresh(q, t)'
    BY <1>8
  <2>1. Fresh(q, t)
    BY <1>4, <1>8 DEF IInv
  <2>2. OpenOn(t)' = OpenOn(t) /\ CompletedOn(t)' = CompletedOn(t)
    BY <1>1 DEF OpenOn, CompletedOn
  <2>. QED  BY <1>1, <1>4, <2>1, <2>2 DEF Fresh
<1>. QED  BY <1>2, <1>3, <1>6, <1>7, <1>9, <1>10, <1>11 DEF IInv

\* A row that is for its owner to use, and that nobody holds, has no open transfer.
LEMMA WalletRowNotOpen ==
  ASSUME IInv, NEW t \in Calm, ~Busy(t), ticket[t].status \in {"ACTIVE", "PAID"}
  PROVE  OpenOn(t) = {}
<1>1. ASSUME NEW p \in Process, proc[p].step = "close", tx[proc[p].tx].row = t
      PROVE  FALSE
  <2>1. proc[p].tx \in proc[p].batch
    BY <1>1 DEF IInv, HandlerOK
  <2>2. t \in Touches(p)
    BY <1>1, <2>1 DEF Touches, GivesBack
  <2>. QED  BY <2>2 DEF Busy
<1>. QED  BY <1>1 DEF IInv, RowOK

\* A request that passes its checks: each handler finds its row as its step needs it.
LEMMA BeginStep ==
  ASSUME IInv, NEW p \in Request, Begin(p)
  PROVE  IInv'
<1>0. p \in Process
  BY DEF Process
<1>1. requests' \in 0..MaxRequests
  BY BoundsAssumption DEF IInv, TypeOK, Begin
<1>t. TypeOK
  BY DEF IInv
<1>i. TablesOK
  BY DEF IInv
<1>2. ASSUME NEW t0 \in Ticket, NEW u \in User, NEW v \in User, SendTransfer(p, t0, u, v)
      PROVE  IInv'
  <2>1. PICK x \in FreeTx :
          Start(p, [Idle EXCEPT !.step = "freeze", !.row = t0, !.id = x, !.by = u, !.to = v], {t0})
    BY <1>2 DEF SendTransfer
  <2> DEFINE h == [Idle EXCEPT !.step = "freeze", !.row = t0, !.id = x, !.by = u, !.to = v]
  <2>2. h \in Handler
    BY <1>2, <1>t DEF Idle, Handler, Step, FreeTx, TypeOK, TxRow
  <2>3. proc'[p] = h /\ UNCHANGED <<ticket, tx>>
    BY <1>0, <1>t, <2>1 DEF Start, TypeOK
  <2>4. Touches(p)' = {t0}
    BY <1>2, <1>i, <2>3, NoneAssumption DEF Touches, Idle, GivesBack
  <2>5. HandlerOK(p)'
    BY <1>2, <1>t, <1>i, <2>3 DEF HandlerOK, Idle, GivesBack, FreeTx, Exists, TablesOK, NoRow, SendTransfer
  <2>6. \A t \in {t0} : t \in Calm /\ ~Busy(t) => Fresh(p, t)'
    BY <1>2, <2>3, WalletRowNotOpen DEF Fresh, Idle, GivesBack, OpenOn, SendTransfer
  <2>7. \A q \in Process : proc[q].id = h.id => h.id = NoTx
    BY DEF Idle, FreeTx
  <2>8. h.step = "freeze" /\ {t0} \in SUBSET Ticket
    BY <1>2, <1>i DEF Idle
  <2>9. Start(p, h, {t0})
    BY <2>1
  <2> HIDE DEF h
  <2>. QED  BY <1>0, <1>1, <2>2, <2>4, <2>5, <2>6, <2>7, <2>8, <2>9, StartStep
<1>3. ASSUME NEW x \in Tx, NEW u \in User, AcceptTransfer(p, x, u)
      PROVE  IInv'
  <2>1. PICK c \in FreeTicket :
          Start(p, [Idle EXCEPT !.step = "commit", !.row = tx[x].row, !.id = c, !.tx = x, !.by = u], {tx[x].row})
    BY <1>3 DEF AcceptTransfer
  <2> DEFINE h == [Idle EXCEPT !.step = "commit", !.row = tx[x].row, !.id = c, !.tx = x, !.by = u]
  <2>2. h \in Handler
    BY <1>3, <1>t DEF Idle, Handler, Step, FreeTicket, TypeOK, TxRow
  <2>3. proc'[p] = h /\ UNCHANGED <<ticket, tx>>
    BY <1>0, <1>t, <2>1 DEF Start, TypeOK
  <2>4. Touches(p)' = {tx[x].row}
    BY <1>3, <1>i, <2>3, NoneAssumption DEF Touches, Idle, GivesBack, TablesOK, AcceptTransfer
  <2>5. HandlerOK(p)'
    BY <1>3, <1>t, <1>i, <2>3 DEF HandlerOK, Idle, GivesBack, FreeTicket, Exists, TablesOK, NoRow, AcceptTransfer
  <2>6. \A t \in {tx[x].row} : t \in Calm /\ ~Busy(t) => Fresh(p, t)'
    BY <1>3, <2>3 DEF Fresh, Idle, GivesBack, OpenOn, AcceptTransfer
  <2>7. \A q \in Process : proc[q].id = h.id => h.id = NoTx
    BY DEF Idle, FreeTicket
  <2>8. h.step = "commit" /\ {tx[x].row} \in SUBSET Ticket
    BY <1>3, <1>i DEF Idle, TablesOK, AcceptTransfer
  <2>9. Start(p, h, {tx[x].row})
    BY <2>1
  <2> HIDE DEF h
  <2>. QED  BY <1>0, <1>1, <2>2, <2>4, <2>5, <2>6, <2>7, <2>8, <2>9, StartStep
<1>4. ASSUME NEW x \in Tx, NEW u \in User, RejectTransfer(p, x, u)
      PROVE  IInv'
  <2>1. Start(p, [Idle EXCEPT !.step = "giveBack", !.batch = {x}], {tx[x].row})
    BY <1>4 DEF RejectTransfer
  <2> DEFINE h == [Idle EXCEPT !.step = "giveBack", !.batch = {x}]
  <2>2. h \in Handler
    BY <1>4, <1>t DEF Idle, Handler, Step, TypeOK, TxRow
  <2>3. proc'[p] = h /\ UNCHANGED <<ticket, tx>>
    BY <1>0, <1>t, <2>1 DEF Start, TypeOK
  <2>4. Touches(p)' = {tx[x].row}
    BY <1>4, <1>i, <2>3, NoneAssumption DEF Touches, Idle, GivesBack, TablesOK, RejectTransfer
  <2>5. HandlerOK(p)'
    BY <1>4, <1>t, <1>i, <2>3 DEF HandlerOK, Idle, GivesBack, Exists, TablesOK, NoRow, RejectTransfer
  <2>6. \A t \in {tx[x].row} : t \in Calm /\ ~Busy(t) => Fresh(p, t)'
    BY <1>4, <2>3 DEF Fresh, Idle, GivesBack, OpenOn, RejectTransfer
  <2>7. \A q \in Process : proc[q].id = h.id => h.id = NoTx
    BY DEF Idle
  <2>8. h.step = "giveBack" /\ {tx[x].row} \in SUBSET Ticket
    BY <1>4, <1>i DEF Idle, TablesOK, RejectTransfer
  <2>9. Start(p, h, {tx[x].row})
    BY <2>1
  <2> HIDE DEF h
  <2>. QED  BY <1>0, <1>1, <2>2, <2>4, <2>5, <2>6, <2>7, <2>8, <2>9, StartStep
<1>5. ASSUME NEW x \in Tx, NEW u \in User, CancelTransaction(p, x, u)
      PROVE  IInv'
  <2>1. Start(p, [Idle EXCEPT !.step = "giveBack", !.batch = {x}], {tx[x].row})
    BY <1>5 DEF CancelTransaction
  <2> DEFINE h == [Idle EXCEPT !.step = "giveBack", !.batch = {x}]
  <2>2. h \in Handler
    BY <1>5, <1>t DEF Idle, Handler, Step, TypeOK, TxRow
  <2>3. proc'[p] = h /\ UNCHANGED <<ticket, tx>>
    BY <1>0, <1>t, <2>1 DEF Start, TypeOK
  <2>4. Touches(p)' = {tx[x].row}
    BY <1>5, <1>i, <2>3, NoneAssumption DEF Touches, Idle, GivesBack, TablesOK, CancelTransaction
  <2>5. HandlerOK(p)'
    BY <1>5, <1>t, <1>i, <2>3 DEF HandlerOK, Idle, GivesBack, Exists, TablesOK, NoRow, CancelTransaction
  <2>6. \A t \in {tx[x].row} : t \in Calm /\ ~Busy(t) => Fresh(p, t)'
    BY <1>5, <2>3 DEF Fresh, Idle, GivesBack, OpenOn, CancelTransaction
  <2>7. \A q \in Process : proc[q].id = h.id => h.id = NoTx
    BY DEF Idle
  <2>8. h.step = "giveBack" /\ {tx[x].row} \in SUBSET Ticket
    BY <1>5, <1>i DEF Idle, TablesOK, CancelTransaction
  <2>9. Start(p, h, {tx[x].row})
    BY <2>1
  <2> HIDE DEF h
  <2>. QED  BY <1>0, <1>1, <2>2, <2>4, <2>5, <2>6, <2>7, <2>8, <2>9, StartStep
<1>6. ASSUME NEW u \in User, NEW found \in SUBSET Tx, AcceptByContact(p, u, found)
      PROVE  IInv'
  <2>1. Start(p, [Idle EXCEPT !.step = "assign", !.batch = found, !.by = u], {})
    BY <1>6 DEF AcceptByContact
  <2> DEFINE h == [Idle EXCEPT !.step = "assign", !.batch = found, !.by = u]
  <2>2. h \in Handler
    BY <1>6, <1>t DEF Idle, Handler, Step, TypeOK, TxRow
  <2>3. proc'[p] = h /\ UNCHANGED <<ticket, tx>>
    BY <1>0, <1>t, <2>1 DEF Start, TypeOK
  <2>4. Touches(p)' = {}
    BY <1>6, <1>i, <2>3, NoneAssumption DEF Touches, Idle, GivesBack
  <2>5. HandlerOK(p)'
    BY <1>6, <1>t, <1>i, <2>3 DEF HandlerOK, Idle, GivesBack, Exists, TablesOK, NoRow, AcceptByContact
  <2>6. \A t \in {} : t \in Calm /\ ~Busy(t) => Fresh(p, t)'
    BY <1>6, <2>3 DEF Fresh, Idle, GivesBack, OpenOn, AcceptByContact
  <2>7. \A q \in Process : proc[q].id = h.id => h.id = NoTx
    BY DEF Idle
  <2>8. h.step = "assign" /\ {} \in SUBSET Ticket
    BY <1>6, <1>i DEF Idle
  <2>9. Start(p, h, {})
    BY <2>1
  <2> HIDE DEF h
  <2>. QED  BY <1>0, <1>1, <2>2, <2>4, <2>5, <2>6, <2>7, <2>8, <2>9, StartStep
<1>7. ASSUME NEW t0 \in Ticket, NEW u \in User, NEW v \in User, NEW sale \in BOOLEAN, TransferTicket(p, t0, u, v, sale)
      PROVE  IInv'
  <2>1. PICK x \in FreeTx :
          Start(p, [Idle EXCEPT !.step = "move", !.row = t0, !.id = x, !.by = u, !.to = v, !.sale = sale], {t0})
    BY <1>7 DEF TransferTicket
  <2> DEFINE h == [Idle EXCEPT !.step = "move", !.row = t0, !.id = x, !.by = u, !.to = v, !.sale = sale]
  <2>2. h \in Handler
    BY <1>7, <1>t DEF Idle, Handler, Step, FreeTx, TypeOK, TxRow
  <2>3. proc'[p] = h /\ UNCHANGED <<ticket, tx>>
    BY <1>0, <1>t, <2>1 DEF Start, TypeOK
  <2>4. Touches(p)' = {t0}
    BY <1>7, <1>i, <2>3, NoneAssumption DEF Touches, Idle, GivesBack
  <2>5. HandlerOK(p)'
    BY <1>7, <1>t, <1>i, <2>3 DEF HandlerOK, Idle, GivesBack, FreeTx, Exists, TablesOK, NoRow, TransferTicket
  <2>6. \A t \in {t0} : t \in Calm /\ ~Busy(t) => Fresh(p, t)'
    BY <1>7, <2>3, WalletRowNotOpen DEF Fresh, Idle, GivesBack, OpenOn, TransferTicket
  <2>7. \A q \in Process : proc[q].id = h.id => h.id = NoTx
    BY DEF Idle, FreeTx
  <2>8. h.step = "move" /\ {t0} \in SUBSET Ticket
    BY <1>7, <1>i DEF Idle
  <2>9. Start(p, h, {t0})
    BY <2>1
  <2> HIDE DEF h
  <2>. QED  BY <1>0, <1>1, <2>2, <2>4, <2>5, <2>6, <2>7, <2>8, <2>9, StartStep
<1>8. ASSUME NEW t0 \in Ticket, ValidateTicket(p, t0)
      PROVE  IInv'
  <2>1. Start(p, [Idle EXCEPT !.step = "mark", !.row = t0], {t0})
    BY <1>8 DEF ValidateTicket
  <2> DEFINE h == [Idle EXCEPT !.step = "mark", !.row = t0]
  <2>2. h \in Handler
    BY <1>8, <1>t DEF Idle, Handler, Step, TypeOK, TxRow
  <2>3. proc'[p] = h /\ UNCHANGED <<ticket, tx>>
    BY <1>0, <1>t, <2>1 DEF Start, TypeOK
  <2>4. Touches(p)' = {t0}
    BY <1>8, <1>i, <2>3, NoneAssumption DEF Touches, Idle, GivesBack
  <2>5. HandlerOK(p)'
    BY <1>8, <1>t, <1>i, <2>3 DEF HandlerOK, Idle, GivesBack, Exists, TablesOK, NoRow, ValidateTicket
  <2>6. \A t \in {t0} : t \in Calm /\ ~Busy(t) => Fresh(p, t)'
    BY <1>8, <2>3 DEF Fresh, Idle, GivesBack, OpenOn, ValidateTicket
  <2>7. \A q \in Process : proc[q].id = h.id => h.id = NoTx
    BY DEF Idle
  <2>8. h.step = "mark" /\ {t0} \in SUBSET Ticket
    BY <1>8, <1>i DEF Idle
  <2>9. Start(p, h, {t0})
    BY <2>1
  <2> HIDE DEF h
  <2>. QED  BY <1>0, <1>1, <2>2, <2>4, <2>5, <2>6, <2>7, <2>8, <2>9, StartStep
<1>9. ASSUME NEW t0 \in Ticket, CancelTicket(p, t0)
      PROVE  IInv'
  <2>1. Start(p, [Idle EXCEPT !.step = "void", !.row = t0], {t0})
    BY <1>9 DEF CancelTicket
  <2> DEFINE h == [Idle EXCEPT !.step = "void", !.row = t0]
  <2>2. h \in Handler
    BY <1>9, <1>t DEF Idle, Handler, Step, TypeOK, TxRow
  <2>3. proc'[p] = h /\ UNCHANGED <<ticket, tx>>
    BY <1>0, <1>t, <2>1 DEF Start, TypeOK
  <2>4. Touches(p)' = {t0}
    BY <1>9, <1>i, <2>3, NoneAssumption DEF Touches, Idle, GivesBack
  <2>5. HandlerOK(p)'
    BY <1>9, <1>t, <1>i, <2>3 DEF HandlerOK, Idle, GivesBack, Exists, TablesOK, NoRow, CancelTicket
  <2>6. \A t \in {t0} : t \in Calm /\ ~Busy(t) => Fresh(p, t)'
    BY <1>9, <2>3 DEF Fresh, Idle, GivesBack, OpenOn, CancelTicket
  <2>7. \A q \in Process : proc[q].id = h.id => h.id = NoTx
    BY DEF Idle
  <2>8. h.step = "void" /\ {t0} \in SUBSET Ticket
    BY <1>9, <1>i DEF Idle
  <2>9. Start(p, h, {t0})
    BY <2>1
  <2> HIDE DEF h
  <2>. QED  BY <1>0, <1>1, <2>2, <2>4, <2>5, <2>6, <2>7, <2>8, <2>9, StartStep
<1>. QED
  BY <1>2, <1>3, <1>4, <1>5, <1>6, <1>7, <1>8, <1>9 DEF Begin

\* The job's one read of the open transfers: the rows of its batch are now in its hands.
LEMMA ExpireStep ==
  ASSUME IInv, NEW expired \in SUBSET Tx, ExpireTransfers(expired)
  PROVE  IInv'
<1>0. Cron \in Process
  BY DEF Process
<1>1. requests' \in 0..MaxRequests
  BY DEF IInv, TypeOK, ExpireTransfers
<1>t. TypeOK
  BY DEF IInv
<1>i. TablesOK
  BY DEF IInv
<1>11. Start(Cron, [Idle EXCEPT !.step = "giveBack", !.batch = expired], {tx[x].row : x \in expired})
  BY DEF ExpireTransfers
<1> DEFINE h == [Idle EXCEPT !.step = "giveBack", !.batch = expired]
<1>12. h \in Handler
  BY <1>t DEF Idle, Handler, Step, TypeOK, TxRow
<1>13. proc'[Cron] = h /\ UNCHANGED <<ticket, tx>>
  BY <1>0, <1>t, <1>11 DEF Start, TypeOK
<1>14. Touches(Cron)' = {tx[x].row : x \in expired}
  BY <1>i, <1>13, NoneAssumption DEF Touches, Idle, GivesBack, TablesOK, ExpireTransfers
<1>15. HandlerOK(Cron)'
  BY <1>t, <1>i, <1>13 DEF HandlerOK, Idle, GivesBack, Exists, TablesOK, NoRow, ExpireTransfers
<1>16. \A t \in {tx[x].row : x \in expired} : t \in Calm /\ ~Busy(t) => Fresh(Cron, t)'
  BY <1>13 DEF Fresh, Idle, GivesBack, OpenOn, ExpireTransfers
<1>17. \A q \in Process : proc[q].id = h.id => h.id = NoTx
  BY DEF Idle
<1>18. h.step = "giveBack" /\ {tx[x].row : x \in expired} \in SUBSET Ticket
  BY <1>i DEF Idle, TablesOK, ExpireTransfers
<1>19. Start(Cron, h, {tx[x].row : x \in expired})
  BY <1>11
<1> HIDE DEF h
<1>. QED  BY <1>0, <1>1, <1>12, <1>14, <1>15, <1>16, <1>17, <1>18, <1>19, StartStep

----------------------------------------------------------------------------
\* A step of handler p leaves row t, and what any handler knows of it, alone ...
Same(p, t) ==
  /\ ticket'[t] = ticket[t]
  /\ OpenOn(t)' = OpenOn(t) /\ CompletedOn(t)' = CompletedOn(t) /\ CopiesOf(t)' = CopiesOf(t)
  /\ \A x \in OpenOn(t) : tx'[x].from = tx[x].from
  /\ t \in Touches(p) => proc'[p] = proc[p]

\* ... or changes it as the only handler that holds it.
Owned(p, t) ==
  /\ RowOK(t)'
  /\ t \in Touches(p)' => Fresh(p, t)'
  /\ \A q \in Process \ {p} : t \notin Touches(q)

\* The reasoning all the later steps share: a handler only writes rows it holds, a
\* calm row it holds is held by no other handler, and what the other handlers have
\* read and reserved stays as it is.
LEMMA WriteStep ==
  ASSUME IInv, NEW p \in Process,
         TypeOK', TablesOK', HandlerOK(p)',
         Calm' \subseteq Calm,
         \A q \in Process \ {p} : proc'[q] = proc[q],
         proc'[p].id \in {proc[p].id, NoTx},
         Touches(p)' \subseteq Touches(p),
         \A x \in Tx : tx[x].status # "NONE" =>
                         tx'[x].status # "NONE" /\ tx'[x].row = tx[x].row,
         \A t \in Ticket : Exists(t) => Exists(t)',
         \A x \in Tx : tx'[x].status # "NONE" => tx[x].status # "NONE" \/ x = proc[p].id,
         \A t \in Ticket : Exists(t)' => Exists(t) \/ t = proc[p].id,
         \A t \in Calm' : Same(p, t) \/ Owned(p, t)
  PROVE  IInv'
<1>1. ASSUME NEW q \in Process, q # p
      PROVE  Touches(q)' = Touches(q)
  <2>1. HandlerOK(q)
    BY DEF IInv
  <2>2. proc'[q] = proc[q] /\ proc[q].batch \in SUBSET Tx
    BY <1>1 DEF IInv, TypeOK, Handler
  <2>3. proc[q].step \in GivesBack => \A x \in proc[q].batch : tx'[x].row = tx[x].row
    BY <2>1, <2>2 DEF HandlerOK
  <2>4. proc[q].step \in GivesBack =>
          {tx'[x].row : x \in proc[q].batch} = {tx[x].row : x \in proc[q].batch}
    BY <2>3
  <2>. QED  BY <2>2, <2>4 DEF Touches
<1>2. ASSUME NEW q \in Process, q # p
      PROVE  HandlerOK(q)'
  <2>1. HandlerOK(q)
    BY DEF IInv
  <2>2. /\ proc'[q] = proc[q]
        /\ proc[q].batch \in SUBSET Tx
        /\ proc[q].tx \in Tx \cup {NoTx}
    BY <1>2 DEF IInv, TypeOK, Handler
  <2>3. proc[q].id = proc[p].id => proc[q].id = NoTx
    BY <1>2 DEF IInv, KeysUnique
  <2>4. proc[q].step \in {"freeze", "open", "move", "record"} =>
          proc[q].id \in Tx /\ tx'[proc[q].id].status = "NONE"
    BY <2>1, <2>3, NoneAssumption DEF HandlerOK
  <2>6. proc[q].step = "commit" =>
          /\ tx'[proc[q].tx].status # "NONE" /\ tx'[proc[q].tx].row = proc[q].row
    BY <2>1 DEF HandlerOK
  <2>7. proc[q].step = "commit" => proc[q].id \in Ticket /\ ~Exists(proc[q].id)'
    BY <2>1, <2>3, NoneAssumption DEF HandlerOK
  <2>. QED  BY <2>1, <2>2, <2>4, <2>6, <2>7 DEF HandlerOK
<1>3. KeysUnique'
  BY DEF IInv, KeysUnique
<1>4. Isolation'
  BY <1>1 DEF IInv, Isolation
<1>5. ASSUME NEW t \in Calm', NEW q \in Process, t \in Touches(q)'
      PROVE  Fresh(q, t)'
  <2>1. CASE Owned(p, t)
    BY <1>1, <1>5, <2>1 DEF Owned
  <2>2. CASE Same(p, t)
    <3>1. t \in Touches(q) /\ proc'[q] = proc[q]
      BY <1>1, <1>5, <2>2 DEF Same
    <3>2. Fresh(q, t) /\ HandlerOK(q)
      BY <3>1 DEF IInv
    <3>3. proc[q].batch \in SUBSET Tx
      BY DEF IInv, TypeOK, Handler
    <3>4. \A x \in Tx : tx[x].row = t /\ tx[x].status = "PENDING" => tx'[x].status = "PENDING"
      BY <2>2 DEF Same, OpenOn
    <3>5. proc[q].step = "commit" => tx'[proc[q].tx].status = "PENDING"
      BY <3>1, <3>2, <3>4 DEF Fresh, HandlerOK, Touches, GivesBack
    <3>6. proc[q].step \in GivesBack =>
            \A x \in proc[q].batch : tx'[x].row = t => tx'[x].status = "PENDING"
      BY <3>2, <3>3, <3>4 DEF Fresh, HandlerOK
    <3>7. proc[q].step = "close" /\ tx'[proc[q].tx].row = t => ticket'[t].status = "ACTIVE"
      BY <2>2, <3>2, <3>3 DEF Fresh, HandlerOK, GivesBack, Same
    <3>. QED  BY <2>2, <3>1, <3>2, <3>5, <3>6, <3>7 DEF Fresh, Same
  <2>. QED  BY <2>1, <2>2
<1>6. ASSUME NEW t \in Calm'
      PROVE  RowOK(t)'
  <2>1. CASE Owned(p, t)
    BY <2>1 DEF Owned
  <2>2. CASE Same(p, t)
    <3>1. RowOK(t)
      BY DEF IInv
    <3>2. ASSUME NEW q \in Process, t \in Touches(q)
          PROVE  proc'[q] = proc[q]
      BY <2>2, <3>2 DEF Same
    <3>3. ASSUME NEW q \in Process, proc[q].step = "close", tx[proc[q].tx].row = t
          PROVE  proc'[q].step = "close" /\ tx'[proc'[q].tx].row = t
      <4>1. /\ proc[q].tx \in proc[q].batch /\ proc[q].batch \in SUBSET Tx
            /\ tx[proc[q].tx].status # "NONE"
        BY <3>3 DEF IInv, HandlerOK, TypeOK, Handler, GivesBack
      <4>2. t \in Touches(q)
        BY <3>3, <4>1 DEF Touches, GivesBack
      <4>. QED  BY <3>2, <3>3, <4>1, <4>2
    <3>4. ASSUME NEW q \in Process, proc[q].step = "open", proc[q].row = t
          PROVE  proc'[q].step = "open" /\ proc'[q].row = t
      <4>1. t \in Touches(q)
        BY <3>4, NoneAssumption DEF Touches, GivesBack, Calm
      <4>. QED  BY <3>2, <3>4, <4>1
    <3>5. \A x \in OpenOn(t) : tx'[x].from = tx[x].from
      BY <2>2 DEF Same
    <3>. QED  BY <2>2, <3>1, <3>3, <3>4, <3>5 DEF RowOK, Same
  <2>. QED  BY <2>1, <2>2
<1>. QED  BY <1>2, <1>3, <1>4, <1>5, <1>6 DEF IInv

\* An update of existing ticket row r that keeps its history: what it leaves alone.
LEMMA TicketWrite ==
  ASSUME TypeOK, TablesOK, NEW r \in Ticket, Exists(r), NEW row \in TicketRow,
         row.status # "NONE", row.copyOf = ticket[r].copyOf,
         ticket' = [ticket EXCEPT ![r] = row], tx' = tx
  PROVE  /\ ticket' \in [Ticket -> TicketRow]
         /\ TablesOK'
         /\ \A t \in Ticket : Exists(t)' <=> Exists(t)
         /\ \A t \in Ticket : /\ OpenOn(t)' = OpenOn(t)
                              /\ CompletedOn(t)' = CompletedOn(t)
                              /\ CopiesOf(t)' = CopiesOf(t)
         /\ ticket'[r] = row
         /\ \A t \in Ticket : t # r => ticket'[t] = ticket[t]
<1>1. ticket' \in [Ticket -> TicketRow]
  BY DEF TypeOK
<1>2. ticket'[r] = row /\ \A t \in Ticket : t # r => ticket'[t] = ticket[t]
  BY DEF TypeOK
<1>3. \A t \in Ticket : Exists(t)' <=> Exists(t)
  BY <1>2 DEF Exists
<1>4. \A t \in Ticket : ticket'[t].copyOf = ticket[t].copyOf
  BY <1>2
<1>5. TablesOK'
  <2>1. \A t \in Ticket : ~Exists(t)' => ticket'[t] = NoRow
    BY <1>2, <1>3 DEF TablesOK
  <2>2. \A c \in Ticket : ticket[c].copyOf # NoTicket =>
                            ticket[c].copyOf \in Ticket /\ ticket'[ticket[c].copyOf].status # "NONE"
    BY <1>3 DEF TypeOK, TablesOK, TicketRow, Exists
  <2>. QED  BY <1>3, <1>4, <2>1, <2>2 DEF TablesOK, Exists
<1>6. \A t \in Ticket : /\ OpenOn(t)' = OpenOn(t)
                        /\ CompletedOn(t)' = CompletedOn(t)
                        /\ CopiesOf(t)' = CopiesOf(t)
  BY <1>4 DEF OpenOn, CompletedOn, CopiesOf
<1>. QED  BY <1>1, <1>2, <1>3, <1>5, <1>6

\* The row is ACTIVE or PAID with no open transfer when it is frozen.
LEMMA FreezeStep ==
  ASSUME IInv, NEW p \in Process, FreezeTicket(p)
  PROVE  IInv'
<1>1. /\ TypeOK /\ TablesOK /\ HandlerOK(p)
      /\ proc[p].step = "freeze" /\ proc[p] \in Handler
  BY DEF IInv, TypeOK, FreezeTicket
<1>2. PICK r \in Ticket : r = proc[p].row /\ Exists(r) /\ Touches(p) = {r}
  BY <1>1, NoneAssumption DEF HandlerOK, Touches, GivesBack
<1> DEFINE row == [ticket[r] EXCEPT !.status = "FROZEN"]
<1>3. /\ row \in TicketRow /\ row.copyOf = ticket[r].copyOf /\ row.status # "NONE"
      /\ ticket' = [ticket EXCEPT ![r] = row] /\ tx' = tx
  <2>1. ticket[r] \in TicketRow 
    BY <1>1 DEF TypeOK, HandlerOK, TicketRow
  <2>2. row \in TicketRow /\ row.copyOf = ticket[r].copyOf /\ row.status # "NONE"
    BY <2>1 DEF TicketRow, TicketStatus
  <2>. QED  BY <1>1, <1>2, <2>1, <2>2 DEF FreezeTicket, TypeOK, TicketRow
<1> HIDE DEF row
<1>4. /\ ticket' \in [Ticket -> TicketRow] /\ TablesOK'
      /\ \A t \in Ticket : Exists(t)' <=> Exists(t)
      /\ \A t \in Ticket : /\ OpenOn(t)' = OpenOn(t)
                           /\ CompletedOn(t)' = CompletedOn(t)
                           /\ CopiesOf(t)' = CopiesOf(t)
      /\ ticket'[r] = row /\ \A t \in Ticket : t # r => ticket'[t] = ticket[t]
  BY <1>1, <1>2, <1>3, TicketWrite
<1>5. /\ proc' = [proc EXCEPT ![p] = [proc[p] EXCEPT !.step = "open"]]
      /\ proc'[p] = [proc[p] EXCEPT !.step = "open"] /\ proc'[p] \in Handler
      /\ \A q \in Process \ {p} : proc'[q] = proc[q]
      /\ UNCHANGED <<disturbed, faults, requests>>
  BY <1>1 DEF FreezeTicket, Goto, TypeOK, Handler, Step
<1>6. TypeOK'
  BY <1>1, <1>3, <1>4, <1>5 DEF TypeOK
<1>7. HandlerOK(p)' /\ Touches(p)' = {r} /\ proc'[p].id \in {proc[p].id, NoTx}
  BY <1>1, <1>2, <1>3, <1>4, <1>5, NoneAssumption DEF HandlerOK, Touches, GivesBack, Idle, Handler
<1>8. ASSUME NEW t \in Calm', t # r
      PROVE  Same(p, t)
  BY <1>2, <1>3, <1>4, <1>8 DEF Same, Calm
<1>9. ASSUME r \in Calm'
      PROVE  Owned(p, r)
  <2>1. r \in Calm /\ RowOK(r) /\ Fresh(p, r)
    BY <1>2, <1>5, <1>9 DEF IInv, Calm
  <2>2. \A q \in Process \ {p} : r \notin Touches(q)
    BY <1>2, <2>1 DEF IInv, Isolation
  <2>3. ticket[r] \in TicketRow
    BY <1>1 DEF TypeOK
  <2>4. /\ OpenOn(r) = {} /\ CompletedOn(r) = {} /\ CopiesOf(r) = {}
        /\ ticket[r].owner = proc[p].by
    BY <1>1, <2>1 DEF Fresh, RowOK
  <2>5. /\ row.status = "FROZEN" /\ row.owner = proc[p].by
        /\ row.unused = ticket[r].unused /\ row.entries = ticket[r].entries
    BY <2>3, <2>4 DEF row, TicketRow
  <2>6. proc'[p].step = "open" /\ proc'[p].row = r /\ proc'[p].by = proc[p].by
    BY <1>1, <1>2, <1>5 DEF Handler
  <2>8. RowOK(r)'
    BY <1>4, <2>1, <2>4, <2>5, <2>6 DEF RowOK
  <2>9. Fresh(p, r)'
    BY <1>4, <2>4, <2>5, <2>6 DEF Fresh, GivesBack
  <2>. QED  BY <2>2, <2>8, <2>9 DEF Owned
<1>. QED  BY <1>2, <1>3, <1>4, <1>5, <1>6, <1>7, <1>8, <1>9, WriteStep DEF Calm

\* The row is still frozen, with no transfer, when its transfer is inserted.
LEMMA OpenStep ==
  ASSUME IInv, NEW p \in Process, OpenTransfer(p)
  PROVE  IInv'
<1>1. /\ TypeOK /\ TablesOK /\ HandlerOK(p)
      /\ proc[p].step = "open" /\ proc[p] \in Handler
  BY DEF IInv, TypeOK, OpenTransfer
<1>2. PICK r \in Ticket : r = proc[p].row /\ Exists(r) /\ Touches(p) = {r}
  BY <1>1, NoneAssumption DEF HandlerOK, Touches, GivesBack
<1>3. /\ proc' = [proc EXCEPT ![p] = Idle]
      /\ proc'[p] = Idle
      /\ \A q \in Process \ {p} : proc'[q] = proc[q]
      /\ UNCHANGED <<disturbed, faults, requests>>
  BY <1>1 DEF OpenTransfer, Finish, TypeOK
<1>4. TypeOK'
  BY <1>1, <1>2, <1>3 DEF TypeOK, OpenTransfer, TicketRow, TxRow, Handler, Step, Idle, TicketStatus, HandlerOK, Exists
<1>5. TablesOK' /\ \A t \in Ticket : Exists(t) => Exists(t)'
  BY <1>1, <1>2, NoneAssumption DEF TypeOK, TablesOK, Exists, OpenTransfer, NoRow, NoTransfer, TicketRow, TxRow, HandlerOK
<1>6. HandlerOK(p)' /\ Touches(p)' = {} /\ proc'[p].id \in {proc[p].id, NoTx}
  BY <1>1, <1>2, <1>3, <1>5, NoneAssumption DEF HandlerOK, Touches, GivesBack, Idle, Handler, OpenTransfer
<1>7. /\ \A x \in Tx : tx[x].status # "NONE" => tx'[x].status # "NONE" /\ tx'[x].row = tx[x].row
      /\ \A x \in Tx : tx'[x].status # "NONE" => tx[x].status # "NONE" \/ x = proc[p].id
      /\ \A t \in Ticket : Exists(t)' => Exists(t) \/ t = proc[p].id
  BY <1>1, <1>2 DEF OpenTransfer, TypeOK, HandlerOK, Exists
<1>8. ASSUME NEW t \in Calm', t # r
      PROVE  Same(p, t)
  <2>1. t \in Ticket /\ t \notin Touches(p)
    BY <1>2, <1>8 DEF Calm
  <2>. QED  BY <1>1, <1>2, <1>8, <2>1 DEF Same, OpenTransfer, TypeOK, OpenOn, CompletedOn, CopiesOf, HandlerOK, TicketRow, TxRow, NoTransfer, TablesOK
<1>9. ASSUME r \in Calm'
      PROVE  Owned(p, r)
  <2>1. r \in Calm /\ RowOK(r) /\ Fresh(p, r)
    BY <1>2, <1>3, <1>9 DEF IInv, Calm
  <2>2. \A q \in Process \ {p} : r \notin Touches(q)
    BY <1>2, <2>1 DEF IInv, Isolation
  <2>3. /\ OpenOn(r) = {} /\ CompletedOn(r) = {} /\ CopiesOf(r) = {}
        /\ ticket[r].owner = proc[p].by /\ ticket[r].status = "FROZEN"
    BY <1>1, <2>1 DEF Fresh, RowOK
  <2>4. /\ OpenOn(r)' = {proc[p].id} /\ CompletedOn(r)' = {} /\ CopiesOf(r)' = {}
        /\ ticket' = ticket /\ tx'[proc[p].id].from = proc[p].by
    BY <1>1, <1>2, <2>3 DEF OpenTransfer, TypeOK, HandlerOK, OpenOn, CompletedOn, CopiesOf
  <2>8. RowOK(r)'
    BY <2>1, <2>3, <2>4 DEF RowOK
  <2>9. r \in Touches(p)' => Fresh(p, r)'
    BY <1>6
  <2>. QED  BY <2>2, <2>8, <2>9 DEF Owned
<1>. QED  BY <1>3, <1>4, <1>5, <1>6, <1>7, <1>8, <1>9, <1>2, WriteStep DEF Calm

\* The transfer read as PENDING still is, so the row is not replaced yet.  The new row
\* is one that nothing refers to.
LEMMA CommitStep ==
  ASSUME IInv, NEW p \in Process, CommitAccept(p)
  PROVE  IInv'
<1>1. /\ TypeOK /\ TablesOK /\ HandlerOK(p)
      /\ proc[p].step = "commit" /\ proc[p] \in Handler
  BY DEF IInv, TypeOK, CommitAccept
<1>2. PICK r \in Ticket, c \in Ticket, x \in Tx :
        /\ r = proc[p].row /\ Exists(r) /\ Touches(p) = {r}
        /\ c = proc[p].id /\ ~Exists(c) /\ c # r
        /\ x = proc[p].tx /\ tx[x].status # "NONE" /\ tx[x].row = r
        /\ proc[p].by \in User
  BY <1>1, NoneAssumption DEF HandlerOK, Touches, GivesBack
<1> DEFINE old == [ticket[r] EXCEPT !.status = "TRANSFERRED"]
           new == [status |-> "ACTIVE", owner |-> proc[p].by, unused |-> TRUE,
                   copyOf |-> r, entries |-> 0]
           done == [tx[x] EXCEPT !.status = "COMPLETED"]
<1>3. /\ ticket' = [ticket EXCEPT ![r] = old, ![c] = new]
      /\ tx' = [tx EXCEPT ![x] = done]
      /\ old \in TicketRow /\ new \in TicketRow /\ done \in TxRow
  <2>1. ticket[r] \in TicketRow /\ tx[x] \in TxRow
    BY <1>1 DEF TypeOK
  <2>2. old \in TicketRow /\ new \in TicketRow /\ done \in TxRow
    BY <1>2, <2>1 DEF TicketRow, TicketStatus, TxRow
  <2>. QED  BY <1>1, <1>2, <2>2 DEF CommitAccept, TypeOK
<1>4. /\ old.status = "TRANSFERRED" /\ old.unused = ticket[r].unused
      /\ old.entries = ticket[r].entries /\ old.copyOf = ticket[r].copyOf
      /\ new.status = "ACTIVE" /\ new.unused = TRUE /\ new.entries = 0 /\ new.copyOf = r
      /\ done.status = "COMPLETED" /\ done.row = r /\ done.from = tx[x].from
  BY <1>1, <1>2 DEF TypeOK, TicketRow, TxRow
<1> HIDE DEF old, new, done
<1>5. /\ ticket' \in [Ticket -> TicketRow] /\ tx' \in [Tx -> TxRow]
      /\ ticket'[r] = old /\ ticket'[c] = new
      /\ \A t \in Ticket : t # r /\ t # c => ticket'[t] = ticket[t]
      /\ tx'[x] = done /\ \A y \in Tx : y # x => tx'[y] = tx[y]
  BY <1>1, <1>2, <1>3 DEF TypeOK
<1>6. /\ proc' = [proc EXCEPT ![p] = Idle] /\ proc'[p] = Idle /\ proc'[p] \in Handler
      /\ \A q \in Process \ {p} : proc'[q] = proc[q]
      /\ UNCHANGED <<disturbed, faults, requests>>
  BY <1>1 DEF CommitAccept, Finish, Idle, TypeOK, Handler, Step
<1>7. TypeOK'
  BY <1>1, <1>5, <1>6 DEF TypeOK
<1>8. ticket[c] = NoRow /\ \A t \in Ticket : Exists(t)' <=> Exists(t) \/ t = c
  BY <1>1, <1>2, <1>4, <1>5 DEF Exists, TablesOK
<1>9. /\ \A d \in Ticket : d # c => ticket'[d].copyOf = ticket[d].copyOf
      /\ \A y \in Tx : tx[y].status # "NONE" => tx'[y].status # "NONE"
      /\ \A y \in Tx : tx'[y].status # "NONE" => tx[y].status # "NONE"
      /\ \A y \in Tx : tx'[y].row = tx[y].row /\ tx'[y].from = tx[y].from
  BY <1>2, <1>4, <1>5
<1>10. TablesOK'
  <2>1. \A t \in Ticket : ~Exists(t)' => ticket'[t] = NoRow
    BY <1>1, <1>2, <1>5, <1>8 DEF TablesOK
  <2>2. \A y \in Tx : tx'[y].status = "NONE" => tx'[y] = NoTransfer
    BY <1>1, <1>4, <1>5 DEF TablesOK
  <2>3. \A y \in Tx : tx'[y].status # "NONE" =>
                        tx'[y].row \in Ticket /\ ticket'[tx'[y].row].status # "NONE"
    BY <1>1, <1>8, <1>9 DEF TablesOK, Exists
  <2>4. \A d \in Ticket : ticket'[d].copyOf # NoTicket =>
                            /\ ticket'[d].copyOf \in Ticket
                            /\ ticket'[ticket'[d].copyOf].status # "NONE"
    BY <1>1, <1>2, <1>4, <1>5, <1>8, <1>9 DEF TypeOK, TicketRow, TablesOK, Exists
  <2>. QED  BY <2>1, <2>2, <2>3, <2>4 DEF TablesOK, Exists
<1>11. HandlerOK(p)' /\ Touches(p)' = {} /\ proc'[p].id \in {proc[p].id, NoTx}
  BY <1>6 DEF HandlerOK, Touches, GivesBack, Idle
<1>12. CopiesOf(r)' = CopiesOf(r) \cup {c} /\ \A t \in Ticket : t # r => CopiesOf(t)' = CopiesOf(t)
  <2>1. ticket[c].copyOf \notin Ticket /\ ticket'[c].copyOf = r
    BY <1>4, <1>5, <1>8, NoneAssumption DEF NoRow
  <2>. QED  BY <1>2, <1>9, <2>1 DEF CopiesOf
<1>13. /\ OpenOn(r)' = OpenOn(r) \ {x}
       /\ CompletedOn(r)' = CompletedOn(r) \cup {x}
       /\ \A t \in Ticket : t # r => OpenOn(t)' = OpenOn(t) /\ CompletedOn(t)' = CompletedOn(t)
  BY <1>2, <1>4, <1>5, <1>9 DEF OpenOn, CompletedOn
<1>14. ASSUME NEW t \in Calm', t # r, t # c
       PROVE  Same(p, t)
  BY <1>2, <1>5, <1>9, <1>12, <1>13, <1>14 DEF Same, Calm, OpenOn
<1>15. ASSUME c \in Calm'
       PROVE  Owned(p, c)
  <2>1. OpenOn(c)' = {} /\ CompletedOn(c)' = {} /\ CopiesOf(c)' = {}
    <3>1. OpenOn(c) = {} /\ CompletedOn(c) = {}
      BY <1>1, <1>2 DEF TablesOK, OpenOn, CompletedOn
    <3>2. CopiesOf(c) = {}
      BY <1>1, <1>2, NoneAssumption DEF TablesOK, CopiesOf
    <3>. QED  BY <1>2, <1>12, <1>13, <3>1, <3>2
  <2>2. RowOK(c)'
    BY <1>4, <1>5, <2>1 DEF RowOK
  <2>3. ASSUME NEW q \in Process, c \in Touches(q)
        PROVE  FALSE
    <3>1. HandlerOK(q) /\ proc[q] \in Handler
      BY <1>1 DEF IInv, TypeOK
    <3>2. CASE proc[q].step \in GivesBack
      <4>1. PICK y \in proc[q].batch : c = tx[y].row
        BY <2>3, <3>2 DEF Touches
      <4>2. y \in Tx /\ tx[y].status # "NONE"
        BY <3>1, <3>2, <4>1 DEF HandlerOK, Handler
      <4>. QED  BY <1>1, <1>2, <4>1, <4>2 DEF TablesOK
    <3>3. CASE proc[q].step \notin GivesBack
      <4>1. c = proc[q].row /\ c # NoTicket
        BY <2>3, <3>3 DEF Touches
      <4>2. proc[q].step \notin {"idle", "assign"}
        BY <3>1, <4>1 DEF HandlerOK, Idle
      <4>. QED  BY <1>2, <3>1, <3>3, <4>1, <4>2 DEF HandlerOK, Handler, Step, GivesBack
    <3>. QED  BY <3>2, <3>3
  <2>. QED  BY <1>11, <2>2, <2>3 DEF Owned
<1>16. ASSUME r \in Calm'
       PROVE  Owned(p, r)
  <2>1. r \in Calm /\ RowOK(r) /\ Fresh(p, r)
    BY <1>2, <1>6, <1>16 DEF IInv, Calm
  <2>2. \A q \in Process \ {p} : r \notin Touches(q)
    BY <1>2, <2>1 DEF IInv, Isolation
  <2>3. x \in OpenOn(r)
    BY <1>1, <1>2, <2>1 DEF Fresh, OpenOn
  <2>4. OpenOn(r) = {x} /\ CompletedOn(r) = {} /\ CopiesOf(r) = {}
    BY <2>1, <2>3 DEF RowOK
  <2>5. OpenOn(r)' = {} /\ CompletedOn(r)' = {x} /\ CopiesOf(r)' = {c}
    BY <1>12, <1>13, <2>4
  <2>6. RowOK(r)'
    BY <1>4, <1>5, <2>1, <2>5 DEF RowOK
  <2>. QED  BY <1>11, <2>2, <2>6 DEF Owned
<1>17. \A t \in Calm' : Same(p, t) \/ Owned(p, t)
  BY <1>14, <1>15, <1>16
<1>. QED  BY <1>2, <1>6, <1>7, <1>8, <1>9, <1>10, <1>11, <1>17, WriteStep DEF Calm

\* The direct transfer moves a row that has no open transfer.
LEMMA MoveStep ==
  ASSUME IInv, NEW p \in Process, MoveTicket(p)
  PROVE  IInv'
<1>1. /\ TypeOK /\ TablesOK /\ HandlerOK(p)
      /\ proc[p].step = "move" /\ proc[p] \in Handler
  BY DEF IInv, TypeOK, MoveTicket
<1>2. PICK r \in Ticket : r = proc[p].row /\ Exists(r) /\ Touches(p) = {r}
  BY <1>1, NoneAssumption DEF HandlerOK, Touches, GivesBack
<1> DEFINE row == [ticket[r] EXCEPT !.owner = proc[p].to, !.status = "TRANSFERRED"]
<1>3. /\ row \in TicketRow /\ row.copyOf = ticket[r].copyOf /\ row.status # "NONE"
      /\ ticket' = [ticket EXCEPT ![r] = row] /\ tx' = tx
  <2>1. ticket[r] \in TicketRow /\ proc[p].to \in User
    BY <1>1 DEF TypeOK, HandlerOK, TicketRow
  <2>2. row \in TicketRow /\ row.copyOf = ticket[r].copyOf /\ row.status # "NONE"
    BY <2>1 DEF TicketRow, TicketStatus
  <2>. QED  BY <1>1, <1>2, <2>1, <2>2 DEF MoveTicket, TypeOK, TicketRow
<1> HIDE DEF row
<1>4. /\ ticket' \in [Ticket -> TicketRow] /\ TablesOK'
      /\ \A t \in Ticket : Exists(t)' <=> Exists(t)
      /\ \A t \in Ticket : /\ OpenOn(t)' = OpenOn(t)
                           /\ CompletedOn(t)' = CompletedOn(t)
                           /\ CopiesOf(t)' = CopiesOf(t)
      /\ ticket'[r] = row /\ \A t \in Ticket : t # r => ticket'[t] = ticket[t]
  BY <1>1, <1>2, <1>3, TicketWrite
<1>5. /\ proc' = [proc EXCEPT ![p] = [proc[p] EXCEPT !.step = "record"]]
      /\ proc'[p] = [proc[p] EXCEPT !.step = "record"] /\ proc'[p] \in Handler
      /\ \A q \in Process \ {p} : proc'[q] = proc[q]
      /\ UNCHANGED <<disturbed, faults, requests>>
  BY <1>1 DEF MoveTicket, Goto, TypeOK, Handler, Step
<1>6. TypeOK'
  BY <1>1, <1>3, <1>4, <1>5 DEF TypeOK
<1>7. HandlerOK(p)' /\ Touches(p)' = {r} /\ proc'[p].id \in {proc[p].id, NoTx}
  BY <1>1, <1>2, <1>3, <1>4, <1>5, NoneAssumption DEF HandlerOK, Touches, GivesBack, Idle, Handler
<1>8. ASSUME NEW t \in Calm', t # r
      PROVE  Same(p, t)
  BY <1>2, <1>3, <1>4, <1>8 DEF Same, Calm
<1>9. ASSUME r \in Calm'
      PROVE  Owned(p, r)
  <2>1. r \in Calm /\ RowOK(r) /\ Fresh(p, r)
    BY <1>2, <1>5, <1>9 DEF IInv, Calm
  <2>2. \A q \in Process \ {p} : r \notin Touches(q)
    BY <1>2, <2>1 DEF IInv, Isolation
  <2>3. ticket[r] \in TicketRow
    BY <1>1 DEF TypeOK
  <2>4. /\ OpenOn(r) = {} /\ CompletedOn(r) = {} /\ CopiesOf(r) = {}
    BY <1>1, <2>1 DEF Fresh, RowOK
  <2>5. /\ row.status = "TRANSFERRED"
        /\ row.unused = ticket[r].unused /\ row.entries = ticket[r].entries
    BY <2>3 DEF row, TicketRow
  <2>6. proc'[p].step = "record"
    BY <1>1, <1>5 DEF Handler
  <2>8. RowOK(r)'
    BY <1>4, <2>1, <2>4, <2>5 DEF RowOK
  <2>9. Fresh(p, r)'
    BY <1>4, <2>4, <2>5, <2>6 DEF Fresh, GivesBack
  <2>. QED  BY <2>2, <2>8, <2>9 DEF Owned
<1>. QED  BY <1>2, <1>3, <1>4, <1>5, <1>6, <1>7, <1>8, <1>9, WriteStep DEF Calm

\* The record of a direct transfer is the only transfer of a TRANSFERRED row.
LEMMA RecordStep ==
  ASSUME IInv, NEW p \in Process, RecordTransfer(p)
  PROVE  IInv'
<1>1. /\ TypeOK /\ TablesOK /\ HandlerOK(p)
      /\ proc[p].step = "record" /\ proc[p] \in Handler
  BY DEF IInv, TypeOK, RecordTransfer
<1>2. PICK r \in Ticket : r = proc[p].row /\ Exists(r) /\ Touches(p) = {r}
  BY <1>1, NoneAssumption DEF HandlerOK, Touches, GivesBack
<1>3. /\ proc' = [proc EXCEPT ![p] = Idle]
      /\ proc'[p] = Idle
      /\ \A q \in Process \ {p} : proc'[q] = proc[q]
      /\ UNCHANGED <<disturbed, faults, requests>>
  BY <1>1 DEF RecordTransfer, Finish, TypeOK
<1>4. TypeOK'
  BY <1>1, <1>2, <1>3 DEF TypeOK, RecordTransfer, TicketRow, TxRow, Handler, Step, Idle, TicketStatus, HandlerOK, Exists
<1>5. TablesOK' /\ \A t \in Ticket : Exists(t) => Exists(t)'
  BY <1>1, <1>2, NoneAssumption DEF TypeOK, TablesOK, Exists, RecordTransfer, NoRow, NoTransfer, TicketRow, TxRow, HandlerOK
<1>6. HandlerOK(p)' /\ Touches(p)' = {} /\ proc'[p].id \in {proc[p].id, NoTx}
  BY <1>1, <1>2, <1>3, <1>5, NoneAssumption DEF HandlerOK, Touches, GivesBack, Idle, Handler, RecordTransfer
<1>7. /\ \A x \in Tx : tx[x].status # "NONE" => tx'[x].status # "NONE" /\ tx'[x].row = tx[x].row
      /\ \A x \in Tx : tx'[x].status # "NONE" => tx[x].status # "NONE" \/ x = proc[p].id
      /\ \A t \in Ticket : Exists(t)' => Exists(t) \/ t = proc[p].id
  BY <1>1, <1>2 DEF RecordTransfer, TypeOK, HandlerOK, Exists
<1>8. ASSUME NEW t \in Calm', t # r
      PROVE  Same(p, t)
  <2>1. t \in Ticket /\ t \notin Touches(p)
    BY <1>2, <1>8 DEF Calm
  <2>. QED  BY <1>1, <1>2, <1>8, <2>1 DEF Same, RecordTransfer, TypeOK, OpenOn, CompletedOn, CopiesOf, HandlerOK, TicketRow, TxRow, NoTransfer, TablesOK
<1>9. ASSUME r \in Calm'
      PROVE  Owned(p, r)
  <2>1. r \in Calm /\ RowOK(r) /\ Fresh(p, r)
    BY <1>2, <1>3, <1>9 DEF IInv, Calm
  <2>2. \A q \in Process \ {p} : r \notin Touches(q)
    BY <1>2, <2>1 DEF IInv, Isolation
  <2>3. /\ OpenOn(r) = {} /\ CompletedOn(r) = {} /\ CopiesOf(r) = {}
        /\ ticket[r].status = "TRANSFERRED"
    BY <1>1, <2>1 DEF Fresh, RowOK
  <2>4. /\ OpenOn(r)' \subseteq {proc[p].id} /\ CompletedOn(r)' \subseteq {proc[p].id} /\ CopiesOf(r)' = {}
        /\ ticket' = ticket /\ (OpenOn(r)' = {} \/ CompletedOn(r)' = {})
    BY <1>1, <1>2, <2>3 DEF RecordTransfer, TypeOK, HandlerOK, OpenOn, CompletedOn, CopiesOf
  <2>8. RowOK(r)'
    BY <2>1, <2>3, <2>4 DEF RowOK
  <2>9. r \in Touches(p)' => Fresh(p, r)'
    BY <1>6
  <2>. QED  BY <2>2, <2>8, <2>9 DEF Owned
<1>. QED  BY <1>3, <1>4, <1>5, <1>6, <1>7, <1>8, <1>9, <1>2, WriteStep DEF Calm

\* A scanned row has not been let in before.
LEMMA MarkStep ==
  ASSUME IInv, NEW p \in Process, MarkAsUsed(p)
  PROVE  IInv'
<1>1. /\ TypeOK /\ TablesOK /\ HandlerOK(p)
      /\ proc[p].step = "mark" /\ proc[p] \in Handler
  BY DEF IInv, TypeOK, MarkAsUsed
<1>2. PICK r \in Ticket : r = proc[p].row /\ Exists(r) /\ Touches(p) = {r}
  BY <1>1, NoneAssumption DEF HandlerOK, Touches, GivesBack
<1> DEFINE row == [ticket[r] EXCEPT !.unused = FALSE, !.status = "USED", !.entries = @ + 1]
<1>3. /\ row \in TicketRow /\ row.copyOf = ticket[r].copyOf /\ row.status # "NONE"
      /\ ticket' = [ticket EXCEPT ![r] = row] /\ tx' = tx
  <2>1. ticket[r] \in TicketRow /\ ticket[r].entries + 1 \in Nat
    BY <1>1 DEF TypeOK, HandlerOK, TicketRow
  <2>2. row \in TicketRow /\ row.copyOf = ticket[r].copyOf /\ row.status # "NONE"
    BY <2>1 DEF TicketRow, TicketStatus
  <2>. QED  BY <1>1, <1>2, <2>1, <2>2 DEF MarkAsUsed, TypeOK, TicketRow
<1> HIDE DEF row
<1>4. /\ ticket' \in [Ticket -> TicketRow] /\ TablesOK'
      /\ \A t \in Ticket : Exists(t)' <=> Exists(t)
      /\ \A t \in Ticket : /\ OpenOn(t)' = OpenOn(t)
                           /\ CompletedOn(t)' = CompletedOn(t)
                           /\ CopiesOf(t)' = CopiesOf(t)
      /\ ticket'[r] = row /\ \A t \in Ticket : t # r => ticket'[t] = ticket[t]
  BY <1>1, <1>2, <1>3, TicketWrite
<1>5. /\ proc' = [proc EXCEPT ![p] = Idle]
      /\ proc'[p] = Idle /\ proc'[p] \in Handler
      /\ \A q \in Process \ {p} : proc'[q] = proc[q]
      /\ UNCHANGED <<disturbed, faults, requests>>
  BY <1>1 DEF MarkAsUsed, Finish, Idle, TypeOK, Handler, Step
<1>6. TypeOK'
  BY <1>1, <1>3, <1>4, <1>5 DEF TypeOK
<1>7. HandlerOK(p)' /\ Touches(p)' = {} /\ proc'[p].id \in {proc[p].id, NoTx}
  BY <1>1, <1>2, <1>3, <1>4, <1>5, NoneAssumption DEF HandlerOK, Touches, GivesBack, Idle, Handler
<1>8. ASSUME NEW t \in Calm', t # r
      PROVE  Same(p, t)
  BY <1>2, <1>3, <1>4, <1>8 DEF Same, Calm
<1>9. ASSUME r \in Calm'
      PROVE  Owned(p, r)
  <2>1. r \in Calm /\ RowOK(r) /\ Fresh(p, r)
    BY <1>2, <1>5, <1>9 DEF IInv, Calm
  <2>2. \A q \in Process \ {p} : r \notin Touches(q)
    BY <1>2, <2>1 DEF IInv, Isolation
  <2>3. ticket[r] \in TicketRow
    BY <1>1 DEF TypeOK
  <2>4. ticket[r].unused
    BY <1>1, <2>1 DEF Fresh
  <2>5. row.status = "USED" /\ row.unused = FALSE /\ row.entries = ticket[r].entries + 1
    BY <2>3 DEF row, TicketRow
  <2>8. RowOK(r)'
    BY <1>4, <2>1, <2>4, <2>5 DEF RowOK
  <2>9. r \in Touches(p)' => Fresh(p, r)'
    BY <1>7
  <2>. QED  BY <2>2, <2>8, <2>9 DEF Owned
<1>. QED  BY <1>2, <1>3, <1>4, <1>5, <1>6, <1>7, <1>8, <1>9, WriteStep DEF Calm

\* A cancelled row is out of circulation whatever it was.
LEMMA VoidStep ==
  ASSUME IInv, NEW p \in Process, SoftDelete(p)
  PROVE  IInv'
<1>1. /\ TypeOK /\ TablesOK /\ HandlerOK(p)
      /\ proc[p].step = "void" /\ proc[p] \in Handler
  BY DEF IInv, TypeOK, SoftDelete
<1>2. PICK r \in Ticket : r = proc[p].row /\ Exists(r) /\ Touches(p) = {r}
  BY <1>1, NoneAssumption DEF HandlerOK, Touches, GivesBack
<1> DEFINE row == [ticket[r] EXCEPT !.status = "CANCELED"]
<1>3. /\ row \in TicketRow /\ row.copyOf = ticket[r].copyOf /\ row.status # "NONE"
      /\ ticket' = [ticket EXCEPT ![r] = row] /\ tx' = tx
  <2>1. ticket[r] \in TicketRow 
    BY <1>1 DEF TypeOK, HandlerOK, TicketRow
  <2>2. row \in TicketRow /\ row.copyOf = ticket[r].copyOf /\ row.status # "NONE"
    BY <2>1 DEF TicketRow, TicketStatus
  <2>. QED  BY <1>1, <1>2, <2>1, <2>2 DEF SoftDelete, TypeOK, TicketRow
<1> HIDE DEF row
<1>4. /\ ticket' \in [Ticket -> TicketRow] /\ TablesOK'
      /\ \A t \in Ticket : Exists(t)' <=> Exists(t)
      /\ \A t \in Ticket : /\ OpenOn(t)' = OpenOn(t)
                           /\ CompletedOn(t)' = CompletedOn(t)
                           /\ CopiesOf(t)' = CopiesOf(t)
      /\ ticket'[r] = row /\ \A t \in Ticket : t # r => ticket'[t] = ticket[t]
  BY <1>1, <1>2, <1>3, TicketWrite
<1>5. /\ proc' = [proc EXCEPT ![p] = Idle]
      /\ proc'[p] = Idle /\ proc'[p] \in Handler
      /\ \A q \in Process \ {p} : proc'[q] = proc[q]
      /\ UNCHANGED <<disturbed, faults, requests>>
  BY <1>1 DEF SoftDelete, Finish, Idle, TypeOK, Handler, Step
<1>6. TypeOK'
  BY <1>1, <1>3, <1>4, <1>5 DEF TypeOK
<1>7. HandlerOK(p)' /\ Touches(p)' = {} /\ proc'[p].id \in {proc[p].id, NoTx}
  BY <1>1, <1>2, <1>3, <1>4, <1>5, NoneAssumption DEF HandlerOK, Touches, GivesBack, Idle, Handler
<1>8. ASSUME NEW t \in Calm', t # r
      PROVE  Same(p, t)
  BY <1>2, <1>3, <1>4, <1>8 DEF Same, Calm
<1>9. ASSUME r \in Calm'
      PROVE  Owned(p, r)
  <2>1. r \in Calm /\ RowOK(r) /\ Fresh(p, r)
    BY <1>2, <1>5, <1>9 DEF IInv, Calm
  <2>2. \A q \in Process \ {p} : r \notin Touches(q)
    BY <1>2, <2>1 DEF IInv, Isolation
  <2>3. ticket[r] \in TicketRow
    BY <1>1 DEF TypeOK
  <2>5. /\ row.status = "CANCELED"
        /\ row.unused = ticket[r].unused /\ row.entries = ticket[r].entries
    BY <2>3 DEF row, TicketRow
  <2>8. RowOK(r)'
    BY <1>4, <2>1, <2>5 DEF RowOK
  <2>9. r \in Touches(p)' => Fresh(p, r)'
    BY <1>7
  <2>. QED  BY <2>2, <2>8, <2>9 DEF Owned
<1>. QED  BY <1>2, <1>3, <1>4, <1>5, <1>6, <1>7, <1>8, <1>9, WriteStep DEF Calm

\* Given back, the row is TRANSFERRED for a moment: neither frozen nor in the wallet.
LEMMA GiveBackStep ==
  ASSUME IInv, NEW p \in Process, GiveBack(p)
  PROVE  IInv'
<1>1. /\ TypeOK /\ TablesOK /\ HandlerOK(p)
      /\ proc[p].step = "giveBack" /\ proc[p] \in Handler
      /\ UNCHANGED <<tx, disturbed, faults, requests>>
  BY DEF IInv, TypeOK, GiveBack
<1>2. PICK x \in proc[p].batch :
        /\ proc' = [proc EXCEPT ![p].step = "activate", ![p].tx = x]
        /\ ticket' = [ticket EXCEPT ![tx[x].row].owner = tx[x].from, ![tx[x].row].status = "TRANSFERRED"]
  BY <1>1 DEF GiveBack, Goto, HandlerOK
<1>3. /\ x \in Tx /\ tx[x].row \in Ticket /\ Exists(tx[x].row)
      /\ Touches(p) = {tx[y].row : y \in proc[p].batch}
      /\ tx[x].row \in Touches(p)
  BY <1>1, <1>2 DEF HandlerOK, Handler, TablesOK, Touches, GivesBack
<1>4. PICK r \in Ticket : r = tx[x].row /\ Exists(r) /\ r \in Touches(p)
  BY <1>3
<1> DEFINE row == [ticket[r] EXCEPT !.owner = tx[x].from, !.status = "TRANSFERRED"]
<1>5. /\ row \in TicketRow /\ row.copyOf = ticket[r].copyOf /\ row.status # "NONE"
      /\ row.unused = ticket[r].unused /\ row.entries = ticket[r].entries
      /\ row.status = "TRANSFERRED"
      /\ ticket' = [ticket EXCEPT ![r] = row]
  <2>1. ticket[r] \in TicketRow /\ tx[x] \in TxRow
    BY <1>1, <1>3, <1>4 DEF TypeOK
  <2>2. /\ row \in TicketRow /\ row.copyOf = ticket[r].copyOf /\ row.status # "NONE"
        /\ row.unused = ticket[r].unused /\ row.entries = ticket[r].entries
        /\ row.status = "TRANSFERRED"
    BY <2>1 DEF TicketRow, TxRow, TicketStatus
  <2>3. ticket' = [ticket EXCEPT ![r] = row]
    BY <1>1, <1>2, <1>4, <2>1 DEF TypeOK, TicketRow
  <2>. QED  BY <2>2, <2>3
<1> HIDE DEF row
<1>6. /\ ticket' \in [Ticket -> TicketRow] /\ TablesOK'
      /\ \A t \in Ticket : Exists(t)' <=> Exists(t)
      /\ \A t \in Ticket : /\ OpenOn(t)' = OpenOn(t)
                           /\ CompletedOn(t)' = CompletedOn(t)
                           /\ CopiesOf(t)' = CopiesOf(t)
      /\ ticket'[r] = row /\ \A t \in Ticket : t # r => ticket'[t] = ticket[t]
  BY <1>1, <1>4, <1>5, TicketWrite
<1>7. /\ proc'[p] = [proc[p] EXCEPT !.step = "activate", !.tx = x]
      /\ proc'[p] \in Handler
      /\ \A q \in Process \ {p} : proc'[q] = proc[q]
      /\ proc'[p].step = "activate" /\ proc'[p].tx = x
      /\ proc'[p].batch = proc[p].batch /\ proc'[p].id = proc[p].id /\ proc'[p].row = proc[p].row
      /\ proc' \in [Process -> Handler]
  BY <1>1, <1>2, <1>3 DEF TypeOK, Handler, Step
<1>8. TypeOK'
  BY <1>1, <1>6, <1>7 DEF TypeOK
<1>9. HandlerOK(p)' /\ Touches(p)' = Touches(p)
  BY <1>1, <1>2, <1>3, <1>7 DEF HandlerOK, Touches, GivesBack
<1>10. ASSUME NEW t \in Calm', t # r
       PROVE  Same(p, t) \/ Owned(p, t)
  <2>1. t \in Ticket /\ t \in Calm /\ RowOK(t) /\ ticket'[t] = ticket[t]
    BY <1>1, <1>6, <1>10 DEF IInv, Calm
  <2>2. CASE t \notin Touches(p)
    BY <1>1, <1>6, <2>1, <2>2 DEF Same
  <2>3. CASE t \in Touches(p)
    <3>1. Fresh(p, t) /\ \A q \in Process \ {p} : t \notin Touches(q)
      BY <2>1, <2>3 DEF IInv, Isolation
    <3>2. \A q \in Process : proc[q].step \in {"open", "close"} /\ proc'[q] # proc[q] => FALSE
      BY <1>1, <1>7
    <3>3. RowOK(t)'
      BY <1>1, <1>6, <2>1, <3>2 DEF RowOK
    <3>4. Fresh(p, t)'
      BY <1>1, <1>4, <1>6, <1>7, <1>10, <2>1, <3>1 DEF Fresh, GivesBack
    <3>. QED  BY <3>1, <3>3, <3>4 DEF Owned
  <2>. QED  BY <2>2, <2>3
<1>11. ASSUME r \in Calm'
       PROVE  Owned(p, r)
  <2>1. r \in Calm /\ RowOK(r) /\ Fresh(p, r)
    BY <1>1, <1>4, <1>11 DEF IInv, Calm
  <2>2. \A q \in Process \ {p} : r \notin Touches(q)
    BY <1>4, <2>1 DEF IInv, Isolation
  <2>3. x \in OpenOn(r)
    BY <1>1, <1>2, <1>3, <1>4, <2>1 DEF Fresh, GivesBack, OpenOn
  <2>4. OpenOn(r) = {x} /\ CompletedOn(r) = {} /\ CopiesOf(r) = {}
    BY <2>1, <2>3 DEF RowOK
  <2>6. RowOK(r)'
    BY <1>1, <1>4, <1>5, <1>6, <2>1, <2>4 DEF RowOK
  <2>7. Fresh(p, r)'
    BY <1>1, <1>4, <1>5, <1>6, <1>7, <2>1 DEF Fresh, GivesBack
  <2>. QED  BY <2>2, <2>6, <2>7 DEF Owned
<1>12. \A t \in Calm' : Same(p, t) \/ Owned(p, t)
  BY <1>10, <1>11
<1>13. Calm' = Calm
  BY <1>1 DEF Calm
<1>. QED  BY <1>1, <1>6, <1>7, <1>8, <1>9, <1>12, <1>13, WriteStep

\* Back in the wallet, the row keeps its open transfer until this handler closes it.
LEMMA ActivateStep ==
  ASSUME IInv, NEW p \in Process, Activate(p)
  PROVE  IInv'
<1>1. /\ TypeOK /\ TablesOK /\ HandlerOK(p)
      /\ proc[p].step = "activate" /\ proc[p] \in Handler
      /\ UNCHANGED <<tx, disturbed, faults, requests>>
  BY DEF IInv, TypeOK, Activate
<1>2. PICK x \in proc[p].batch :
        /\ x = proc[p].tx
        /\ proc' = [proc EXCEPT ![p].step = "close"]
        /\ ticket' = [ticket EXCEPT ![tx[x].row].status = "ACTIVE"]
  BY <1>1 DEF Activate, Goto, HandlerOK
<1>3. /\ x \in Tx /\ tx[x].row \in Ticket /\ Exists(tx[x].row)
      /\ Touches(p) = {tx[y].row : y \in proc[p].batch}
      /\ tx[x].row \in Touches(p)
  BY <1>1, <1>2 DEF HandlerOK, Handler, TablesOK, Touches, GivesBack
<1>4. PICK r \in Ticket : r = tx[x].row /\ Exists(r) /\ r \in Touches(p)
  BY <1>3
<1> DEFINE row == [ticket[r] EXCEPT !.status = "ACTIVE"]
<1>5. /\ row \in TicketRow /\ row.copyOf = ticket[r].copyOf /\ row.status # "NONE"
      /\ row.unused = ticket[r].unused /\ row.entries = ticket[r].entries
      /\ row.status = "ACTIVE"
      /\ ticket' = [ticket EXCEPT ![r] = row]
  <2>1. ticket[r] \in TicketRow /\ tx[x] \in TxRow
    BY <1>1, <1>3, <1>4 DEF TypeOK
  <2>2. /\ row \in TicketRow /\ row.copyOf = ticket[r].copyOf /\ row.status # "NONE"
        /\ row.unused = ticket[r].unused /\ row.entries = ticket[r].entries
        /\ row.status = "ACTIVE"
    BY <2>1 DEF TicketRow, TxRow, TicketStatus
  <2>3. ticket' = [ticket EXCEPT ![r] = row]
    BY <1>1, <1>2, <1>4, <2>1 DEF TypeOK, TicketRow
  <2>. QED  BY <2>2, <2>3
<1> HIDE DEF row
<1>6. /\ ticket' \in [Ticket -> TicketRow] /\ TablesOK'
      /\ \A t \in Ticket : Exists(t)' <=> Exists(t)
      /\ \A t \in Ticket : /\ OpenOn(t)' = OpenOn(t)
                           /\ CompletedOn(t)' = CompletedOn(t)
                           /\ CopiesOf(t)' = CopiesOf(t)
      /\ ticket'[r] = row /\ \A t \in Ticket : t # r => ticket'[t] = ticket[t]
  BY <1>1, <1>4, <1>5, TicketWrite
<1>7. /\ proc'[p] = [proc[p] EXCEPT !.step = "close"]
      /\ proc'[p] \in Handler
      /\ \A q \in Process \ {p} : proc'[q] = proc[q]
      /\ proc'[p].step = "close" /\ proc'[p].tx = x
      /\ proc'[p].batch = proc[p].batch /\ proc'[p].id = proc[p].id /\ proc'[p].row = proc[p].row
      /\ proc' \in [Process -> Handler]
  BY <1>1, <1>2, <1>3 DEF TypeOK, Handler, Step
<1>8. TypeOK'
  BY <1>1, <1>6, <1>7 DEF TypeOK
<1>9. HandlerOK(p)' /\ Touches(p)' = Touches(p)
  BY <1>1, <1>2, <1>3, <1>7 DEF HandlerOK, Touches, GivesBack
<1>10. ASSUME NEW t \in Calm', t # r
       PROVE  Same(p, t) \/ Owned(p, t)
  <2>1. t \in Ticket /\ t \in Calm /\ RowOK(t) /\ ticket'[t] = ticket[t]
    BY <1>1, <1>6, <1>10 DEF IInv, Calm
  <2>2. CASE t \notin Touches(p)
    BY <1>1, <1>6, <2>1, <2>2 DEF Same
  <2>3. CASE t \in Touches(p)
    <3>1. Fresh(p, t) /\ \A q \in Process \ {p} : t \notin Touches(q)
      BY <2>1, <2>3 DEF IInv, Isolation
    <3>2. \A q \in Process : proc[q].step \in {"open", "close"} /\ proc'[q] # proc[q] => FALSE
      BY <1>1, <1>7
    <3>3. RowOK(t)'
      BY <1>1, <1>6, <2>1, <3>2 DEF RowOK
    <3>4. Fresh(p, t)'
      BY <1>1, <1>4, <1>6, <1>7, <1>10, <2>1, <3>1 DEF Fresh, GivesBack
    <3>. QED  BY <3>1, <3>3, <3>4 DEF Owned
  <2>. QED  BY <2>2, <2>3
<1>11. ASSUME r \in Calm'
       PROVE  Owned(p, r)
  <2>1. r \in Calm /\ RowOK(r) /\ Fresh(p, r)
    BY <1>1, <1>4, <1>11 DEF IInv, Calm
  <2>2. \A q \in Process \ {p} : r \notin Touches(q)
    BY <1>4, <2>1 DEF IInv, Isolation
  <2>3. x \in OpenOn(r)
    BY <1>1, <1>2, <1>3, <1>4, <2>1 DEF Fresh, GivesBack, OpenOn
  <2>4. OpenOn(r) = {x} /\ CompletedOn(r) = {} /\ CopiesOf(r) = {}
    BY <2>1, <2>3 DEF RowOK
  <2>5. \E q \in Process : proc'[q].step = "close" /\ tx'[proc'[q].tx].row = r
    BY <1>1, <1>4, <1>7
  <2>6. RowOK(r)'
    BY <1>1, <1>4, <1>5, <1>6, <2>1, <2>4, <2>5 DEF RowOK
  <2>7. Fresh(p, r)'
    BY <1>1, <1>4, <1>5, <1>6, <1>7, <2>1 DEF Fresh, GivesBack
  <2>. QED  BY <2>2, <2>6, <2>7 DEF Owned
<1>12. \A t \in Calm' : Same(p, t) \/ Owned(p, t)
  BY <1>10, <1>11
<1>13. Calm' = Calm
  BY <1>1 DEF Calm
<1>. QED  BY <1>1, <1>6, <1>7, <1>8, <1>9, <1>12, <1>13, WriteStep

\* The rest of a batch, or nothing, is what a handler has left after one transaction.
LEMMA NextInBatchFacts ==
  ASSUME TypeOK, NEW p \in Process, NEW x, NEW again \in {"giveBack", "assign"},
         NextInBatch(p, x, again)
  PROVE  /\ proc' \in [Process -> Handler]
         /\ \A q \in Process \ {p} : proc'[q] = proc[q]
         /\ proc'[p].step \in {"idle", again}
         /\ proc'[p].step = "idle" => proc'[p] = Idle
         /\ proc'[p].batch \subseteq proc[p].batch \ {x}
         /\ proc'[p].id \in {proc[p].id, NoTx}
         /\ proc'[p].row \in {proc[p].row, NoTicket}
         /\ proc'[p].step = "assign" => proc'[p].by = proc[p].by
<1> DEFINE rest == proc[p].batch \ {x}
           next == IF rest = {} THEN Idle
                   ELSE [proc[p] EXCEPT !.step = again, !.batch = rest, !.tx = NoTx]
<1>1. proc[p] \in Handler
  BY DEF TypeOK
<1>2. /\ next \in Handler
      /\ next.step \in {"idle", again}
      /\ next.step = "idle" => next = Idle
      /\ next.batch \subseteq rest
      /\ next.id \in {proc[p].id, NoTx}
      /\ next.row \in {proc[p].row, NoTicket}
      /\ next.step = "assign" => next.by = proc[p].by
  BY <1>1 DEF Handler, Idle, Step
<1>3. proc' = [proc EXCEPT ![p] = next]
  BY DEF NextInBatch, TypeOK
<1> HIDE DEF next
<1>. QED  BY <1>2, <1>3 DEF TypeOK

\* The rows of the rest of a batch are rows of the batch.
LEMMA RestTouches ==
  ASSUME TypeOK, NEW p \in Process, NEW x, proc[p].step \in GivesBack,
         NextInBatch(p, x, "giveBack"),
         \A y \in Tx : tx'[y].row = tx[y].row
  PROVE  Touches(p)' \subseteq Touches(p)
<1>1. /\ proc'[p].step = "idle" => proc'[p] = Idle
      /\ proc'[p].step \in {"idle", "giveBack"}
      /\ proc'[p].batch \subseteq proc[p].batch
  BY NextInBatchFacts
<1>2. proc[p].batch \in SUBSET Tx
  BY DEF TypeOK, Handler
<1>3. CASE proc'[p] = Idle
  BY <1>3 DEF Touches, Idle, GivesBack
<1>4. CASE proc'[p].step = "giveBack"
  <2>1. Touches(p)' = {tx'[y].row : y \in proc'[p].batch}
    BY <1>4 DEF Touches, GivesBack
  <2>2. Touches(p) = {tx[y].row : y \in proc[p].batch}
    BY DEF Touches
  <2>. QED  BY <1>1, <1>2, <2>1, <2>2
<1>. QED  BY <1>1, <1>3, <1>4

\* The transaction is closed after its row is back in the wallet.
LEMMA CloseStep ==
  ASSUME IInv, NEW p \in Process, CloseTransfer(p)
  PROVE  IInv'
<1>1. /\ TypeOK /\ TablesOK /\ HandlerOK(p)
      /\ proc[p].step = "close" /\ proc[p] \in Handler
      /\ UNCHANGED <<ticket, disturbed, faults, requests>>
  BY DEF IInv, TypeOK, CloseTransfer
<1>2. PICK x \in proc[p].batch :
        /\ x = proc[p].tx
        /\ NextInBatch(p, x, "giveBack")
        /\ tx' = [tx EXCEPT ![x].status = "CANCELLED"]
  BY <1>1 DEF CloseTransfer, HandlerOK
<1>3. /\ x \in Tx /\ tx[x].status # "NONE"
      /\ Touches(p) = {tx[y].row : y \in proc[p].batch}
      /\ proc[p].row = NoTicket
  BY <1>1 DEF HandlerOK, Handler, Touches, GivesBack
<1>4. PICK r \in Ticket : r = tx[x].row /\ Exists(r) /\ r \in Touches(p)
  BY <1>1, <1>3 DEF TablesOK
<1>5. /\ tx' \in [Tx -> TxRow]
      /\ tx'[x].status = "CANCELLED" /\ \A y \in Tx : y # x => tx'[y] = tx[y]
      /\ \A y \in Tx : tx'[y].row = tx[y].row /\ tx'[y].from = tx[y].from
  BY <1>1, <1>2, <1>3 DEF TypeOK, TxRow
<1>6. /\ proc' \in [Process -> Handler]
      /\ \A q \in Process \ {p} : proc'[q] = proc[q]
      /\ proc'[p].step \in {"idle", "giveBack"}
      /\ proc'[p].step = "idle" => proc'[p] = Idle
      /\ proc'[p].batch \subseteq proc[p].batch \ {x}
      /\ proc'[p].id \in {proc[p].id, NoTx}
      /\ proc'[p].row = NoTicket
  BY <1>1, <1>2, <1>3, NextInBatchFacts
<1>7. TypeOK'
  BY <1>1, <1>5, <1>6 DEF TypeOK
<1>8. TablesOK' /\ \A t \in Ticket : Exists(t)' <=> Exists(t)
  BY <1>1, <1>3, <1>5 DEF TablesOK, Exists
<1>9. HandlerOK(p)'
  BY <1>1, <1>5, <1>6 DEF HandlerOK, GivesBack, Handler, Idle
<1>10. Touches(p)' \subseteq Touches(p)
  BY <1>1, <1>2, <1>5, RestTouches DEF GivesBack
<1>11. /\ \A t \in Ticket : CompletedOn(t)' \subseteq CompletedOn(t) /\ CopiesOf(t)' = CopiesOf(t)
       /\ OpenOn(r)' = OpenOn(r) \ {x}
       /\ \A t \in Ticket : t # r => OpenOn(t)' = OpenOn(t) /\ CompletedOn(t)' = CompletedOn(t)
  BY <1>1, <1>3, <1>4, <1>5 DEF OpenOn, CompletedOn, CopiesOf
<1>12. ASSUME NEW t \in Calm', t # r
       PROVE  Same(p, t) \/ Owned(p, t)
  <2>1. t \in Ticket /\ t \in Calm /\ RowOK(t)
    BY <1>1 DEF IInv, Calm
  <2>2. CASE t \notin Touches(p)
    BY <1>1, <1>5, <1>11, <1>12, <2>1, <2>2 DEF Same, OpenOn
  <2>3. CASE t \in Touches(p)
    <3>1. Fresh(p, t) /\ \A q \in Process \ {p} : t \notin Touches(q)
      BY <2>1, <2>3 DEF IInv, Isolation
    <3>2. \A q \in Process : proc[q].step \in {"open", "close"} /\ q # p =>
            proc'[q] = proc[q] /\ proc[q].tx \in Tx \cup {NoTx}
      BY <1>1, <1>6 DEF TypeOK, Handler
    <3>3. \A q \in Process : proc[q].step = "close" => proc[q].tx \in Tx
      BY <1>1 DEF IInv, HandlerOK, TypeOK, Handler, GivesBack
    <3>4. RowOK(t)'
      <4>1. /\ OpenOn(t)' = OpenOn(t) /\ CompletedOn(t)' = CompletedOn(t)
            /\ CopiesOf(t)' = CopiesOf(t) /\ ticket'[t] = ticket[t]
        BY <1>1, <1>11, <1>12, <2>1
      <4>2. \A y \in OpenOn(t) : tx'[y].from = tx[y].from
        BY <1>5 DEF OpenOn
      <4>3. ASSUME NEW q \in Process, proc[q].step = "close", tx[proc[q].tx].row = t
            PROVE  proc'[q].step = "close" /\ tx'[proc'[q].tx].row = t
        <5>1. proc[q].tx \in Tx /\ tx'[proc[q].tx].row = t
          BY <1>5, <3>3, <4>3
        <5>2. q # p
          BY <1>2, <1>4, <1>12, <4>3
        <5>. QED  BY <3>2, <4>3, <5>1, <5>2
      <4>4. ASSUME NEW q \in Process, proc[q].step = "open"
            PROVE  proc'[q] = proc[q]
        BY <1>1, <3>2, <4>4
      <4>5. ticket[t].status \in {"ACTIVE", "PAID"} /\ OpenOn(t) # {} =>
              \E q \in Process : proc'[q].step = "close" /\ tx'[proc'[q].tx].row = t
        BY <2>1, <4>3 DEF RowOK
      <4>6. ticket[t].status = "FROZEN" =>
              \/ \E y \in OpenOn(t) : tx'[y].from = ticket[t].owner
              \/ \E q \in Process : proc'[q].step = "open" /\ proc'[q].row = t
        BY <2>1, <4>2, <4>4 DEF RowOK
      <4>. QED  BY <2>1, <4>1, <4>5, <4>6 DEF RowOK
    <3>5. Fresh(p, t)'
      BY <1>1, <1>5, <1>6, <3>1 DEF Fresh, GivesBack, Handler
    <3>. QED  BY <3>1, <3>4, <3>5 DEF Owned
  <2>. QED  BY <2>2, <2>3
<1>13. ASSUME r \in Calm'
       PROVE  Owned(p, r)
  <2>1. r \in Calm /\ RowOK(r) /\ Fresh(p, r)
    BY <1>1, <1>4, <1>13 DEF IInv, Calm
  <2>2. \A q \in Process \ {p} : r \notin Touches(q)
    BY <1>4, <2>1 DEF IInv, Isolation
  <2>3. x \in OpenOn(r)
    BY <1>1, <1>2, <1>3, <1>4, <2>1 DEF Fresh, GivesBack, OpenOn
  <2>4. OpenOn(r) = {x} /\ CompletedOn(r) = {} /\ CopiesOf(r) = {}
    BY <2>1, <2>3 DEF RowOK
  <2>5. OpenOn(r)' = {} /\ CompletedOn(r)' = {} /\ CopiesOf(r)' = {}
    BY <1>11, <2>4
  <2>6. ticket'[r].status = "ACTIVE" /\ ticket' = ticket
    BY <1>1, <1>2, <1>4, <2>1 DEF Fresh
  <2>7. RowOK(r)'
    BY <2>1, <2>5, <2>6 DEF RowOK
  <2>8. \A y \in proc'[p].batch : tx'[y].row # r
    <3>. SUFFICES ASSUME NEW y \in proc'[p].batch, tx'[y].row = r PROVE FALSE
      OBVIOUS
    <3>1. y \in Tx /\ y \in proc[p].batch /\ y # x /\ tx[y].row = r
      BY <1>1, <1>5, <1>6 DEF Handler
    <3>2. y \in OpenOn(r)
      BY <1>1, <2>1, <3>1 DEF Fresh, GivesBack, OpenOn
    <3>. QED  BY <2>4, <3>1, <3>2
  <2>9. Fresh(p, r)'
    BY <1>6, <2>8 DEF Fresh, GivesBack
  <2>. QED  BY <2>2, <2>7, <2>9 DEF Owned
<1>14. \A t \in Calm' : Same(p, t) \/ Owned(p, t)
  BY <1>12, <1>13
<1>15. Calm' = Calm
  BY <1>1 DEF Calm
<1>. QED  BY <1>3, <1>5, <1>6, <1>7, <1>8, <1>9, <1>10, <1>14, <1>15, WriteStep

\* A new recipient changes nothing the invariant speaks of.
LEMMA AssignStep ==
  ASSUME IInv, NEW p \in Process, AssignRecipient(p)
  PROVE  IInv'
<1>1. /\ TypeOK /\ TablesOK /\ HandlerOK(p)
      /\ proc[p].step = "assign" /\ proc[p] \in Handler
      /\ UNCHANGED <<ticket, disturbed, faults, requests>>
  BY DEF IInv, TypeOK, AssignRecipient
<1>2. PICK x \in proc[p].batch :
        /\ NextInBatch(p, x, "assign")
        /\ tx' = [tx EXCEPT ![x].to = proc[p].by]
  BY <1>1 DEF AssignRecipient
<1>3. /\ x \in Tx /\ tx[x].status # "NONE" /\ proc[p].by \in User
      /\ Touches(p) = {} /\ proc[p].row = NoTicket
  BY <1>1 DEF HandlerOK, Handler, Touches, GivesBack
<1>4. /\ tx' \in [Tx -> TxRow]
      /\ \A y \in Tx : y # x => tx'[y] = tx[y]
      /\ \A y \in Tx : /\ tx'[y].status = tx[y].status /\ tx'[y].row = tx[y].row
                       /\ tx'[y].from = tx[y].from
  BY <1>1, <1>2, <1>3 DEF TypeOK, TxRow
<1>5. /\ proc' \in [Process -> Handler]
      /\ \A q \in Process \ {p} : proc'[q] = proc[q]
      /\ proc'[p].step \in {"idle", "assign"}
      /\ proc'[p].step = "idle" => proc'[p] = Idle
      /\ proc'[p].batch \subseteq proc[p].batch
      /\ proc'[p].id \in {proc[p].id, NoTx}
      /\ proc'[p].row = NoTicket
      /\ proc'[p].step = "assign" => proc'[p].by = proc[p].by
  BY <1>1, <1>2, <1>3, NextInBatchFacts
<1>6. TypeOK'
  BY <1>1, <1>4, <1>5 DEF TypeOK
<1>7. TablesOK' /\ \A t \in Ticket : Exists(t)' <=> Exists(t)
  <2>1. \A y \in Tx : tx'[y].status = "NONE" => tx'[y] = NoTransfer
    BY <1>1, <1>3, <1>4 DEF TablesOK
  <2>. QED  BY <1>1, <1>4, <2>1 DEF TablesOK, Exists
<1>8. HandlerOK(p)' /\ Touches(p)' = {}
  BY <1>1, <1>3, <1>4, <1>5 DEF HandlerOK, GivesBack, Handler, Touches, Idle
<1>9. ASSUME NEW t \in Calm'
      PROVE  Same(p, t)
  BY <1>1, <1>3, <1>4 DEF Same, Calm, OpenOn, CompletedOn, CopiesOf
<1>10. Calm' = Calm
  BY <1>1 DEF Calm
<1>. QED  BY <1>3, <1>4, <1>5, <1>6, <1>7, <1>8, <1>9, <1>10, WriteStep

\* The rows of a handler that stops half-way are not calm any more; the other rows of
\* a batch that goes on are still in its hands, as it read them.
LEMMA FailStep ==
  ASSUME IInv, NEW p \in Process, Fail(p)
  PROVE  IInv'
<1>1. /\ TypeOK /\ TablesOK /\ HandlerOK(p) /\ proc[p] \in Handler
      /\ UNCHANGED <<ticket, tx, requests>>
  BY DEF IInv, TypeOK, Fail
<1>2. Touches(p) \subseteq Ticket
  BY <1>1 DEF Touches, HandlerOK, Idle, TablesOK, Handler, Step, GivesBack
<1>3. TablesOK' /\ \A t \in Ticket : Exists(t)' <=> Exists(t)
  BY <1>1 DEF TablesOK, Exists
<1>4. \A t \in Ticket : /\ OpenOn(t)' = OpenOn(t)
                        /\ CompletedOn(t)' = CompletedOn(t)
                        /\ CopiesOf(t)' = CopiesOf(t)
  BY <1>1 DEF OpenOn, CompletedOn, CopiesOf
<1>5. CASE Fault(Touches(p)) /\ Finish(p)
  <2>1. /\ proc'[p] = Idle /\ proc' \in [Process -> Handler]
        /\ \A q \in Process \ {p} : proc'[q] = proc[q]
    BY <1>1, <1>5 DEF Finish, TypeOK, Idle, Handler, Step
  <2>2. HandlerOK(p)' /\ Touches(p)' = {} /\ proc'[p].id = NoTx
    BY <2>1 DEF HandlerOK, Touches, Idle, GivesBack
  <2>3. TypeOK'
    BY <1>1, <1>2, <1>5, <2>1, BoundsAssumption DEF TypeOK, Fault
  <2>4. Calm' \subseteq Calm /\ \A t \in Calm' : t \notin Touches(p)
    BY <1>5 DEF Calm, Fault
  <2>5. ASSUME NEW t \in Calm' PROVE Same(p, t)
    BY <1>1, <1>4, <2>4 DEF Same, OpenOn, Calm
  <2>. QED  BY <1>1, <1>3, <2>1, <2>2, <2>3, <2>4, <2>5, WriteStep
<1>6. ASSUME NEW x \in proc[p].batch, NEW again \in {"giveBack", "assign"},
             proc[p].step \in {"activate", "close"} => x = proc[p].tx,
             proc[p].step # "idle",
             again = (IF proc[p].step = "assign" THEN "assign" ELSE "giveBack"),
             Fault(Touches(p) \cap {tx[x].row}),
             NextInBatch(p, x, again),
             proc[p].step \in GivesBack \cup {"assign"}
      PROVE  IInv'
  <2>1. /\ proc' \in [Process -> Handler]
        /\ \A q \in Process \ {p} : proc'[q] = proc[q]
        /\ proc'[p].step \in {"idle", again}
        /\ proc'[p].step = "idle" => proc'[p] = Idle
        /\ proc'[p].batch \subseteq proc[p].batch
        /\ proc'[p].id \in {proc[p].id, NoTx}
        /\ proc'[p].row = NoTicket
        /\ proc'[p].step = "assign" => proc'[p].by = proc[p].by
    BY <1>1, <1>6, NextInBatchFacts DEF HandlerOK
  <2>2. HandlerOK(p)'
    BY <1>1, <1>6, <2>1 DEF HandlerOK, GivesBack, Handler, Idle
  <2>3. Touches(p)' \subseteq Touches(p)
    <3>1. CASE proc[p].step \in GivesBack
      BY <1>1, <1>6, <3>1, RestTouches DEF GivesBack
    <3>2. CASE proc[p].step = "assign"
      BY <1>6, <2>1, <3>2 DEF Touches, GivesBack, Idle
    <3>. QED  BY <1>6, <3>1, <3>2
  <2>4. TypeOK'
    BY <1>1, <1>2, <1>6, <2>1, BoundsAssumption DEF TypeOK, Fault
  <2>5. Calm' \subseteq Calm /\ \A t \in Calm' : t \in Ticket /\ t \notin Touches(p) \cap {tx[x].row}
    BY <1>6 DEF Calm, Fault
  <2>6. ASSUME NEW t \in Calm' PROVE Same(p, t) \/ Owned(p, t)
    <3>1. CASE t \notin Touches(p)
      BY <1>1, <1>4, <2>5, <3>1 DEF Same, OpenOn
    <3>2. CASE t \in Touches(p)
      <4>1. /\ t \in Calm /\ RowOK(t) /\ Fresh(p, t)
            /\ \A q \in Process \ {p} : t \notin Touches(q)
        BY <2>5, <3>2 DEF IInv, Isolation
      <4>2. t # tx[x].row
        BY <2>5, <3>2
      <4>3. proc[p].step \in GivesBack
        BY <1>1, <1>6, <3>2 DEF HandlerOK, Touches
      <4>4. \A q \in Process : proc[q].step = "close" /\ tx[proc[q].tx].row = t =>
              proc'[q].step = "close" /\ tx'[proc'[q].tx].row = t
        BY <1>1, <1>6, <2>1, <4>2
      <4>5. \A q \in Process : proc[q].step = "open" => proc'[q] = proc[q]
        BY <2>1, <4>3 DEF GivesBack
      <4>6. RowOK(t)'
        BY <1>1, <1>4, <2>5, <4>1, <4>4, <4>5 DEF RowOK
      <4>7. Fresh(p, t)'
        BY <1>1, <1>6, <2>1, <4>1, <4>3 DEF Fresh, GivesBack
      <4>. QED  BY <4>1, <4>6, <4>7 DEF Owned
    <3>. QED  BY <3>1, <3>2
  <2>. QED  BY <1>1, <1>3, <2>1, <2>2, <2>3, <2>4, <2>5, <2>6, WriteStep
<1>7. proc[p].batch # {} => proc[p].step \in GivesBack \cup {"assign"}
  BY <1>1 DEF HandlerOK
<1>. QED
  <2>1. proc[p].step # "idle"
    BY DEF Fail
  <2>2. CASE Fault(Touches(p)) /\ Finish(p)
    BY <1>5, <2>2
  <2>3. CASE \E x \in proc[p].batch :
               /\ proc[p].step \in {"activate", "close"} => x = proc[p].tx
               /\ Fault(Touches(p) \cap {tx[x].row})
               /\ NextInBatch(p, x, IF proc[p].step = "assign" THEN "assign" ELSE "giveBack")
    <3>1. PICK x \in proc[p].batch :
               /\ proc[p].step \in {"activate", "close"} => x = proc[p].tx
               /\ Fault(Touches(p) \cap {tx[x].row})
               /\ NextInBatch(p, x, IF proc[p].step = "assign" THEN "assign" ELSE "giveBack")
      BY <2>3
    <3>2. CASE proc[p].step = "assign"
      BY <1>6, <1>7, <2>1, <3>1, <3>2
    <3>3. CASE proc[p].step # "assign"
      BY <1>6, <1>7, <2>1, <3>1, <3>3
    <3>. QED  BY <3>2, <3>3
  <2>. QED  BY <2>2, <2>3 DEF Fail

\* So are the rows an administrator writes.
LEMMA AdminStep ==
  ASSUME IInv, NEW r \in Ticket,
         \/ \E s \in TicketStatus : AdminSetStatus(r, s)
         \/ \E v \in User : AdminTransfer(r, v)
  PROVE  IInv'
<1>1. /\ TypeOK /\ TablesOK /\ Exists(r)
      /\ UNCHANGED <<tx, proc, requests>>
      /\ faults < MaxFaults /\ faults' = faults + 1
      /\ disturbed' = disturbed \cup {r}
  BY DEF IInv, Fault, AdminSetStatus, AdminTransfer, Exists
<1>2. PICK row \in TicketRow :
        /\ row.status # "NONE" /\ row.copyOf = ticket[r].copyOf
        /\ ticket' = [ticket EXCEPT ![r] = row]
  <2>1. ticket[r] \in TicketRow
    BY <1>1 DEF TypeOK
  <2>2. CASE \E s \in TicketStatus : AdminSetStatus(r, s)
    <3>1. PICK s \in TicketStatus : AdminSetStatus(r, s)
      BY <2>2
    <3>2. [ticket[r] EXCEPT !.status = s] \in TicketRow
      BY <2>1 DEF TicketRow
    <3>3. s # "NONE"
      BY DEF TicketStatus
    <3>. QED  BY <1>1, <2>1, <3>1, <3>2, <3>3 DEF AdminSetStatus, TicketRow
  <2>3. CASE \E v \in User : AdminTransfer(r, v)
    <3>1. PICK v \in User : AdminTransfer(r, v)
      BY <2>3
    <3>2. [ticket[r] EXCEPT !.owner = v, !.status = "TRANSFERRED"] \in TicketRow
      BY <2>1 DEF TicketRow, TicketStatus
    <3>3. ticket' = [ticket EXCEPT ![r] = [ticket[r] EXCEPT !.owner = v, !.status = "TRANSFERRED"]]
      BY <1>1, <2>1, <3>1 DEF AdminTransfer, TypeOK, TicketRow
    <3>. QED  BY <2>1, <3>2, <3>3 DEF TicketRow
  <2>. QED  BY <2>2, <2>3
<1>3. /\ ticket' \in [Ticket -> TicketRow] /\ TablesOK'
      /\ \A t \in Ticket : Exists(t)' <=> Exists(t)
      /\ \A t \in Ticket : /\ OpenOn(t)' = OpenOn(t)
                           /\ CompletedOn(t)' = CompletedOn(t)
                           /\ CopiesOf(t)' = CopiesOf(t)
      /\ \A t \in Ticket : t # r => ticket'[t] = ticket[t]
  BY <1>1, <1>2, TicketWrite
<1>4. TypeOK'
  BY <1>1, <1>3, BoundsAssumption DEF TypeOK
<1>5. Cron \in Process /\ HandlerOK(Cron)
  BY DEF Process, IInv
<1>6. HandlerOK(Cron)' /\ Touches(Cron)' = Touches(Cron)
  BY <1>1, <1>3, <1>5 DEF HandlerOK, Touches, Exists
<1>7. Calm' \subseteq Calm /\ \A t \in Calm' : t \in Ticket /\ t # r
  BY <1>1 DEF Calm
<1>8. ASSUME NEW t \in Calm'
      PROVE  Same(Cron, t)
  BY <1>1, <1>3, <1>7 DEF Same, OpenOn
<1>. QED  BY <1>1, <1>3, <1>4, <1>5, <1>6, <1>7, <1>8, WriteStep

----------------------------------------------------------------------------
\* Bought tickets, no transfer and no handler in flight.
LEMMA InitIInv == ASSUME Init PROVE IInv
<1>1. \A t \in Ticket : /\ ticket[t] \in TicketRow
                        /\ ticket[t].copyOf = NoTicket /\ ticket[t].entries = 0
                        /\ ticket[t].unused = TRUE
                        /\ ticket[t].status \in {"NONE", "PAID"}
                        /\ ticket[t].status = "NONE" => ticket[t] = NoRow
  <2> SUFFICES ASSUME NEW t \in Ticket
               PROVE  /\ ticket[t] \in TicketRow
                      /\ ticket[t].copyOf = NoTicket /\ ticket[t].entries = 0
                      /\ ticket[t].unused = TRUE
                      /\ ticket[t].status \in {"NONE", "PAID"}
                      /\ ticket[t].status = "NONE" => ticket[t] = NoRow
    OBVIOUS
  <2>1. CASE ticket[t] = NoRow
    BY <2>1 DEF NoRow, TicketRow
  <2>2. CASE \E u \in User : ticket[t] = [NoRow EXCEPT !.status = "PAID", !.owner = u]
    <3>1. PICK u \in User : ticket[t] = [NoRow EXCEPT !.status = "PAID", !.owner = u]
      BY <2>2
    <3>2. ticket[t] = [status |-> "PAID", owner |-> u, unused |-> TRUE,
                       copyOf |-> NoTicket, entries |-> 0]
      BY <3>1 DEF NoRow
    <3>. QED  BY <3>2 DEF TicketRow, TicketStatus
  <2>3. ticket[t] \in {NoRow} \cup {[NoRow EXCEPT !.status = "PAID", !.owner = u] : u \in User}
    BY DEF Init
  <2>. QED  BY <2>1, <2>2, <2>3
<1>2. TypeOK
  <2>1. ticket \in [Ticket -> TicketRow]
    BY <1>1 DEF Init
  <2>2. NoTransfer \in TxRow /\ Idle \in Handler
    BY DEF NoTransfer, TxRow, Idle, Handler, Step
  <2>3. tx \in [Tx -> TxRow] /\ proc \in [Process -> Handler]
    BY <2>2 DEF Init
  <2>4. disturbed \subseteq Ticket /\ faults \in 0..MaxFaults /\ requests \in 0..MaxRequests
    <3>1. disturbed = {} /\ faults = 0 /\ requests = 0
      BY DEF Init
    <3>. QED  BY <3>1, BoundsAssumption
  <2>. QED  BY <2>1, <2>3, <2>4 DEF TypeOK
<1>3. TablesOK
  BY <1>1 DEF Init, TablesOK, NoTransfer, Exists
<1>4. \A p \in Process : HandlerOK(p) /\ Touches(p) = {} /\ proc[p].id = NoTx
  BY DEF Init, HandlerOK, Idle, GivesBack, Touches
<1>5. \A t \in Ticket : OpenOn(t) = {} /\ CompletedOn(t) = {} /\ CopiesOf(t) = {}
  BY <1>1, NoneAssumption DEF Init, OpenOn, CompletedOn, CopiesOf, NoTransfer
<1>6. \A t \in Calm : RowOK(t)
  BY <1>1, <1>5 DEF RowOK, Calm
<1>. QED  BY <1>2, <1>3, <1>4, <1>6 DEF IInv, KeysUnique, Isolation

\* Every step of the system preserves the inductive invariant.
LEMMA NextIInv == ASSUME IInv, [Next]_vars PROVE IInv'
<1>1. ASSUME NEW p \in Process, Continue(p)
      PROVE  IInv'
  BY <1>1, FreezeStep, OpenStep, CommitStep, GiveBackStep, ActivateStep, CloseStep,
     AssignStep, MoveStep, RecordStep, MarkStep, VoidStep DEF Continue
<1>2. CASE UNCHANGED vars
  BY <1>2 DEF vars, IInv, TypeOK, TablesOK, HandlerOK, KeysUnique, Isolation, RowOK, Fresh,
     Calm, Exists, Touches, OpenOn, CompletedOn, CopiesOf
<1>. QED
  BY <1>1, <1>2, BeginStep, ExpireStep, FailStep, AdminStep DEF Next

\* The inductive invariant holds in every reachable state, for any number of users,
\* rows, transactions, concurrent handlers and faults.
THEOREM InductiveInvariant == Spec => []IInv
<1>. QED  BY InitIInv, NextIInv, PTL DEF Spec

\* Every row, transaction and handler stays well formed.
THEOREM TypeCorrect == Spec => []TypeOK
<1>1. IInv => TypeOK
  BY DEF IInv
<1>. QED  BY <1>1, InductiveInvariant, PTL

\* acceptTransfer never issues two replacements of a row whose handlers did not overlap,
\* although it looks at the transaction only and the row may be scanned, cancelled or
\* sold in between.
THEOREM ReplacedOnceHolds == Spec => []ReplacedOnce
<1>1. IInv => ReplacedOnce
  BY DEF IInv, RowOK, Calm, ReplacedOnce
<1>. QED  BY <1>1, InductiveInvariant, PTL

\* Such a row is under offer to one recipient at most, and out of the sender's wallet
\* once a transfer of it has completed.
THEOREM OneTransferAtATimeHolds == Spec => []OneTransferAtATime
<1>1. IInv => OneTransferAtATime
  BY DEF IInv, RowOK, Calm, OneTransferAtATime
<1>. QED  BY <1>1, InductiveInvariant, PTL

\* A FROZEN ticket that no handler is working on is under an open transfer of its owner:
\* accept, reject, cancel and the expiry job never leave one behind.
THEOREM FrozenIsOfferedHolds == Spec => []FrozenIsOffered
<1>1. ASSUME IInv, NEW t \in Ticket \ disturbed, ticket[t].status = "FROZEN", ~Busy(t)
      PROVE  \E x \in OpenOn(t) : tx[x].from = ticket[t].owner
  <2>1. RowOK(t) /\ t \in Calm
    BY <1>1 DEF IInv, Calm
  <2>2. \A p \in Process : ~(proc[p].step = "open" /\ proc[p].row = t)
    BY <1>1, NoneAssumption DEF Busy, Touches, GivesBack
  <2>. QED  BY <1>1, <2>1, <2>2 DEF RowOK
<1>2. IInv => FrozenIsOffered
  BY <1>1 DEF FrozenIsOffered
<1>. QED  BY <1>2, InductiveInvariant, PTL

\* The door lets such a row in once.
THEOREM EntersOnceHolds == Spec => []EntersOnce
<1>1. IInv => EntersOnce
  BY DEF IInv, RowOK, Calm, EntersOnce
<1>. QED  BY <1>1, InductiveInvariant, PTL

=============================================================================
