-------------------------------- MODULE Venue --------------------------------
(***************************************************************************)
(* The day of one event at its venue: organizers assign staff, who check   *)
(* in and let tickets in at the door, by QR code or by signing an NFC      *)
(* challenge that only lives in the memory of the process; bars charge     *)
(* consumable tickets; and the seat map is held, released and blocked.     *)
(* Every handler reads rows, decides, and writes one row later.  Roles but *)
(* STAFF pass the door's check of the scanner and are left out, as are     *)
(* transfers of tickets (TicketTransfer).                                  *)
(*                                                                         *)
(* What every model has (Init, Next, Spec, handlers, faults) carries a     *)
(* name of its own here, so that EventLifecycle and this module can be     *)
(* extended together, by the module of their proofs.                       *)
(***************************************************************************)
EXTENDS Naturals

CONSTANTS
  Staff,      \* users with the role STAFF
  Ticket,     \* tickets of the event
  Consumable, \* those that carry a balance
  Total,      \* that balance
  Amount,     \* what may be charged at once
  Challenge,  \* ids of NFC challenges
  Seat,       \* seats of the place
  Caller,     \* slots for handlers in flight
  None,
  MaxFailures, \* bound on failures
  MaxCalls     \* bound on calls

ASSUME TicketAssumption == Consumable \subseteq Ticket
ASSUME AmountAssumption == Total \in Nat /\ Amount \subseteq Nat \ {0}
ASSUME VenueNoneAssumption == None \notin Staff \cup Ticket \cup Challenge \cup Seat
ASSUME VenueBoundsAssumption == MaxFailures \in Nat /\ MaxCalls \in Nat

VARIABLES
  staff,      \* the EventStaffAssignment row of a user
  window,     \* whether date_checkin_open and date_checkin_close have passed
  nfc,        \* the map nfcChallenges, in memory
  ticket,     \* the Ticket table
  seat,       \* the EventSeatStatus table
  call,       \* what every handler in flight has read and where it is
  uses,       \* history: how many people a challenge let in
  contended,  \* history: rows on which two handlers met
  failures,   \* history: number of failures so far
  calls       \* history: number of calls so far

door == <<staff, window, nfc, ticket, uses>>
history == <<contended, failures, calls>>
venueVars == <<door, seat, call, history>>

----------------------------------------------------------------------------
\* A row is a table and a key; a ticket counts as two, one for the door (its status) and
\* one for the bars (its balance), since neither handler looks at what the other writes.
Row == ({"staff"} \X Staff) \cup ({"door", "purse"} \X Ticket)
       \cup ({"nfc"} \X Challenge) \cup ({"seat"} \X Seat)

\* "in" is checked_in.
Assignment == {"none", "assigned", "in"}

\* ACTIVE stands for PAID too, and USED for all that the door refuses.
TicketStatus == {"ACTIVE", "TRANSFERRED", "USED"}

\* entries counts how often the door let the ticket in: ticket_first_time is 1 while it is 0.
\* key is device_public_key and spent consumable_used.
TicketRow == [status: TicketStatus, entries: Nat, key: BOOLEAN, spent: Nat]

\* live: held_until has not passed.
SeatRow == [status: {"NONE", "AVAILABLE", "HELD", "BLOCKED"}, live: BOOLEAN]

Admits(t) == ticket[t].entries = 0 /\ ticket[t].status # "USED"

\* to is the assignment to write, or the status of the seat; unused is what the door read of
\* the ticket.
Call == [step: {"idle", "insertStaff", "updateStaff", "nfcTicket", "scanner", "window",
                "mark", "charge", "writeSeat"},
         who: Staff \cup {None}, ticket: Ticket \cup {None}, purse: Ticket \cup {None},
         challenge: Challenge \cup {None}, seat: Seat \cup {None},
         to: Assignment \cup {"AVAILABLE", "HELD", "BLOCKED"}, n: Amount \cup {0},
         unused: BOOLEAN]

NoCall == [step |-> "idle", who |-> None, ticket |-> None, purse |-> None,
           challenge |-> None, seat |-> None, to |-> "none", n |-> 0, unused |-> FALSE]

\* The rows a handler read and means to write.
Rows(h) == {r \in {<<"door", h.ticket>>, <<"purse", h.purse>>, <<"nfc", h.challenge>>,
                   <<"seat", h.seat>>} : r[2] # None}

----------------------------------------------------------------------------
VenueInit ==
  /\ staff \in [Staff -> Assignment]
  /\ window \in {"before", "open"}
  /\ nfc = [c \in Challenge |-> "none"]
  /\ ticket \in [Ticket -> [status: {"ACTIVE"}, entries: {0}, key: BOOLEAN, spent: {0}]]
  /\ seat = [s \in Seat |-> [status |-> "NONE", live |-> FALSE]]
  /\ call = [p \in Caller |-> NoCall]
  /\ uses = [c \in Challenge |-> 0]
  /\ contended = {}
  /\ failures = 0
  /\ calls = 0

\* Handler p read what it needs and goes on as h.
StartCall(p, h) ==
  /\ call[p].step = "idle"
  /\ call' = [call EXCEPT ![p] = h]
  /\ contended' = contended \cup {r \in Rows(h) : \E q \in Caller : r \in Rows(call[q])}
  /\ UNCHANGED <<door, seat, failures>>

Goto(p, s) == call' = [call EXCEPT ![p].step = s]
EndCall(p) == call' = [call EXCEPT ![p] = NoCall]

----------------------------------------------------------------------------
\* assignStaffToEvent.
AssignStaff(p, u) ==
  /\ staff[u] = "none"
  /\ StartCall(p, [NoCall EXCEPT !.step = "insertStaff", !.who = u, !.to = "assigned"])

\* removeStaffFromEvent.
RemoveStaff(p, u) ==
  /\ staff[u] # "none"
  /\ StartCall(p, [NoCall EXCEPT !.step = "updateStaff", !.who = u, !.to = "none"])

\* checkInStaff.
CheckIn(p, u) ==
  /\ staff[u] # "none"
  /\ window = "open"
  /\ StartCall(p, [NoCall EXCEPT !.step = "updateStaff", !.who = u, !.to = "in"])

\* checkOutStaff.
CheckOut(p, u) ==
  /\ staff[u] = "in"
  /\ StartCall(p, [NoCall EXCEPT !.step = "updateStaff", !.who = u, !.to = "assigned"])

\* An insert fails when there is a row (event_id and user_id are unique), an update or a
\* delete when there is none.  Whoever read the old row relies on it no more.
WriteStaff(p) ==
  LET h == call[p] IN
  /\ h.step \in {"insertStaff", "updateStaff"}
  /\ IF (h.step = "insertStaff") = (staff[h.who] = "none")
     THEN /\ staff' = [staff EXCEPT ![h.who] = h.to]
          /\ contended' = contended \cup {r \in {<<"staff", h.who>>} :
                                            \E q \in Caller \ {p} : call[q].who = h.who}
     ELSE UNCHANGED <<staff, contended>>
  /\ EndCall(p)
  /\ UNCHANGED <<window, nfc, ticket, uses, seat, failures, calls>>

----------------------------------------------------------------------------
\* POST of a device's public key, by the owner of the ticket.
RegisterPublicKey(t) ==
  /\ ticket' = [ticket EXCEPT ![t].key = TRUE]
  /\ UNCHANGED <<staff, window, nfc, uses, seat, call, history>>

\* generateNFCChallenge: nothing is awaited between the check and the new entry.
GenerateNFCChallenge(u, c) ==
  /\ staff[u] = "in"
  /\ nfc[c] = "none"
  /\ nfc' = [nfc EXCEPT ![c] = "live"]
  /\ UNCHANGED <<staff, window, ticket, uses, seat, call, history>>

\* The 15 seconds of a challenge are over.
ChallengeExpires(c) ==
  /\ nfc[c] = "live"
  /\ nfc' = [nfc EXCEPT ![c] = "gone"]
  /\ UNCHANGED <<staff, window, ticket, uses, seat, call, history>>

\* validateNFCTicket: the challenge is looked up before the ticket is awaited.
ValidateNFCTicket(p, u, t, c) ==
  /\ nfc[c] = "live"
  /\ StartCall(p, [NoCall EXCEPT !.step = "nfcTicket", !.who = u, !.ticket = t, !.challenge = c])

\* Variant: the challenge stays valid.
ReadNFCTicketKeeps(p, valid) ==
  LET h == call[p] IN
  /\ h.step = "nfcTicket"
  /\ IF ticket[h.ticket].key /\ valid
     THEN call' = [call EXCEPT ![p].step = "scanner", ![p].unused = Admits(h.ticket)]
     ELSE EndCall(p)
  /\ UNCHANGED <<door, seat, history>>

\* The ticket is there; the signature is checked (valid) and the challenge deleted, with
\* no await between.  A wrong signature leaves the challenge.
ReadNFCTicket(p, valid) ==
  LET h == call[p] IN
  /\ h.step = "nfcTicket"
  /\ IF ticket[h.ticket].key /\ valid
     THEN /\ call' = [call EXCEPT ![p].step = "scanner", ![p].unused = Admits(h.ticket)]
          /\ nfc' = [nfc EXCEPT ![h.challenge] = "gone"]
     ELSE EndCall(p) /\ UNCHANGED nfc
  /\ UNCHANGED <<staff, window, ticket, uses, seat, history>>

\* validateTicket, of a token or code that is right.
ValidateTicket(p, u, t) ==
  StartCall(p, [NoCall EXCEPT !.step = "scanner", !.who = u, !.ticket = t, !.unused = Admits(t)])

\* The scanner's assignment is read.
CheckScanner(p) ==
  /\ call[p].step = "scanner"
  /\ IF staff[call[p].who] = "in" THEN Goto(p, "window") ELSE EndCall(p)
  /\ UNCHANGED <<door, seat, history>>

\* The event's check-in window is read (and the locality's, for a QR code), and the ticket
\* that was read at the start is examined.
CheckWindow(p) ==
  /\ call[p].step = "window"
  /\ IF window = "open" /\ call[p].unused THEN Goto(p, "mark") ELSE EndCall(p)
  /\ UNCHANGED <<door, seat, history>>

MarkAsUsed(p) ==
  LET h == call[p] IN
  /\ h.step = "mark"
  /\ ticket' = [ticket EXCEPT ![h.ticket].entries = @ + 1, ![h.ticket].status = "USED"]
  /\ uses' = [c \in Challenge |-> IF c = h.challenge THEN uses[c] + 1 ELSE uses[c]]
  /\ EndCall(p)
  /\ UNCHANGED <<staff, window, nfc, seat, history>>

\* The check-in window: time, or a PUT of the event that moves its dates.
MoveWindow(w) ==
  /\ window' = w
  /\ UNCHANGED <<staff, nfc, ticket, uses, seat, call, history>>

\* updateTicketStatus, by PAYPAC: any status over any other, but ticket_first_time stays.
\* adminTransferTicket writes TRANSFERRED in the same way.
UpdateTicketStatus(t, x) ==
  /\ ticket' = [ticket EXCEPT ![t].status = x]
  /\ UNCHANGED <<staff, window, nfc, uses, seat, call, contended, failures>>

----------------------------------------------------------------------------
\* Variant: the amount is compared with the total.
RegisterConsumptionOfTotal(p, t, n) ==
  /\ t \in Consumable
  /\ ticket[t].status = "ACTIVE"
  /\ n <= Total
  /\ StartCall(p, [NoCall EXCEPT !.step = "charge", !.purse = t, !.n = n])

\* registerConsumption: a ticket the door has USED cannot be charged any more.
RegisterConsumption(p, t, n) ==
  /\ t \in Consumable
  /\ ticket[t].status = "ACTIVE"
  /\ ticket[t].spent + n <= Total
  /\ StartCall(p, [NoCall EXCEPT !.step = "charge", !.purse = t, !.n = n])

\* One transaction: the TicketConsumption row and the increment of consumable_used.
Charge(p) ==
  LET h == call[p] IN
  /\ h.step = "charge"
  /\ ticket' = [ticket EXCEPT ![h.purse].spent = @ + h.n]
  /\ EndCall(p)
  /\ UNCHANGED <<staff, window, nfc, uses, seat, history>>

----------------------------------------------------------------------------
\* initializeForEvent: one createMany that skips the rows there are.
InitializeForEvent ==
  /\ seat' = [s \in Seat |-> IF seat[s].status = "NONE"
                             THEN [status |-> "AVAILABLE", live |-> FALSE] ELSE seat[s]]
  /\ UNCHANGED <<door, call, history>>

\* Variant: a hold that is not over is overlooked.
HoldSeatAgain(p, s) ==
  /\ seat[s].status \in {"AVAILABLE", "HELD"}
  /\ StartCall(p, [NoCall EXCEPT !.step = "writeSeat", !.seat = s, !.to = "HELD"])

\* holdSeat: a seat that is free, or whose hold is over.
HoldSeat(p, s) ==
  /\ seat[s].status \in {"AVAILABLE", "HELD"}
  /\ ~(seat[s].status = "HELD" /\ seat[s].live)
  /\ StartCall(p, [NoCall EXCEPT !.step = "writeSeat", !.seat = s, !.to = "HELD"])

\* releaseSeat, by anybody: nothing says whose hold it is, and a block is lifted too.
ReleaseSeat(p, s) ==
  /\ seat[s].status # "NONE"
  /\ StartCall(p, [NoCall EXCEPT !.step = "writeSeat", !.seat = s, !.to = "AVAILABLE"])

\* blockSeat, by the organizer: a hold does not prevent it.
BlockSeat(p, s) ==
  /\ seat[s].status # "NONE"
  /\ StartCall(p, [NoCall EXCEPT !.step = "writeSeat", !.seat = s, !.to = "BLOCKED"])

\* updateStatus: held_until is set with HELD and cleared otherwise.
UpdateSeat(p) ==
  LET h == call[p] IN
  /\ h.step = "writeSeat"
  /\ seat' = [seat EXCEPT ![h.seat] = [status |-> h.to, live |-> h.to = "HELD"]]
  /\ EndCall(p)
  /\ UNCHANGED <<door, history>>

\* The ten minutes of a hold are over.
HoldExpires(s) ==
  /\ seat[s].live
  /\ seat' = [seat EXCEPT ![s].live = FALSE]
  /\ UNCHANGED <<door, call, history>>

\* releaseExpiredHolds: one updateMany, which looks at status and held_until itself.
ReleaseExpiredHolds ==
  /\ seat' = [s \in Seat |-> IF seat[s].status = "HELD" /\ ~seat[s].live
                             THEN [seat[s] EXCEPT !.status = "AVAILABLE"] ELSE seat[s]]
  /\ UNCHANGED <<door, call, history>>

----------------------------------------------------------------------------
\* Faults, at most MaxFaults of them: a call fails and ends its handler, or a restart ends
\* all of them and empties the memory.
FailCall(p) ==
  /\ call[p].step # "idle"
  /\ failures < MaxFailures
  /\ failures' = failures + 1
  /\ EndCall(p)
  /\ UNCHANGED <<door, seat, contended, calls>>

Restart ==
  /\ failures < MaxFailures
  /\ failures' = failures + 1
  /\ call' = [p \in Caller |-> NoCall]
  /\ nfc' = [c \in Challenge |-> IF nfc[c] = "live" THEN "gone" ELSE nfc[c]]
  /\ UNCHANGED <<staff, window, ticket, uses, seat, contended, calls>>

BeginCall(p) ==
  /\ calls < MaxCalls
  /\ calls' = calls + 1
  /\ \/ \E u \in Staff : \/ AssignStaff(p, u) \/ RemoveStaff(p, u)
                         \/ CheckIn(p, u) \/ CheckOut(p, u)
     \/ \E u \in Staff, t \in Ticket : ValidateTicket(p, u, t)
     \/ \E u \in Staff, t \in Ticket, c \in Challenge : ValidateNFCTicket(p, u, t, c)
     \/ \E t \in Ticket, n \in Amount : RegisterConsumption(p, t, n)
     \/ \E s \in Seat : HoldSeat(p, s) \/ ReleaseSeat(p, s) \/ BlockSeat(p, s)

ContinueCall(p) ==
  \/ WriteStaff(p) \/ \E valid \in BOOLEAN : ReadNFCTicket(p, valid)
  \/ CheckScanner(p) \/ CheckWindow(p) \/ MarkAsUsed(p) \/ Charge(p) \/ UpdateSeat(p)

\* Handlers of one call, and time.
Other ==
  \/ \E t \in Ticket : RegisterPublicKey(t)
  \/ \E u \in Staff, c \in Challenge : GenerateNFCChallenge(u, c)
  \/ \E c \in Challenge : ChallengeExpires(c)
  \/ \E s \in Seat : HoldExpires(s)
  \/ InitializeForEvent \/ ReleaseExpiredHolds
  \/ \E w \in {"before", "open", "closed"} : MoveWindow(w)

VenueNext ==
  \/ \E p \in Caller : BeginCall(p) \/ ContinueCall(p) \/ FailCall(p)
  \/ /\ calls < MaxCalls /\ calls' = calls + 1
     /\ \E t \in Ticket, x \in TicketStatus : UpdateTicketStatus(t, x)
  \/ Other \/ Restart

VenueSpec == VenueInit /\ [][VenueNext]_venueVars

----------------------------------------------------------------------------
VenueTypeOK ==
  /\ staff \in [Staff -> Assignment]
  /\ window \in {"before", "open", "closed"}
  /\ nfc \in [Challenge -> {"none", "live", "gone"}]
  /\ ticket \in [Ticket -> TicketRow]
  /\ seat \in [Seat -> SeatRow]
  /\ call \in [Caller -> Call]
  /\ uses \in [Challenge -> Nat]
  /\ contended \subseteq Row
  /\ failures \in 0..MaxFailures
  /\ calls \in 0..MaxCalls

\* By QR code, by NFC or by both, with scans that come one after another, though PAYPAC
\* makes a ticket active again that was used.
EntersOnce == \A t \in Ticket : <<"door", t>> \notin contended => ticket[t].entries <= 1

\* One signature lets in one ticket: a challenge is deleted before anything that may
\* fail, and stays deleted across a restart.
ChallengeAdmitsOne ==
  \A c \in Challenge : <<"nfc", c>> \notin contended => uses[c] <= 1

\* A scan that got past the check is that of a member of staff who is still checked in,
\* unless he checked out or was removed during the scan.
ScannerIsCheckedIn ==
  \A p \in Caller :
    call[p].step \in {"window", "mark"} /\ <<"staff", call[p].who>> \notin contended
      => staff[call[p].who] = "in"

\* What the door promises: it admits a ticket once, on a challenge that admits nobody
\* else, and only to staff on duty, through restarts and failures, however handlers of
\* different tickets, challenges and members of staff interleave.
DoorHolds == EntersOnce /\ ChallengeAdmitsOne /\ ScannerIsCheckedIn

\* The bars never charge more than the ticket carries, as long as no two of them charge it
\* at the same moment; the door may scan it meanwhile.
BalanceHolds ==
  \A t \in Ticket : <<"purse", t>> \notin contended => ticket[t].spent <= Total

\* A seat is not to be had: a hold of it is not over, or it is blocked.
Taken(s) == (seat[s].status = "HELD" /\ seat[s].live) \/ seat[s].status = "BLOCKED"

WritesSeat(p, s, x) == UpdateSeat(p) /\ call[p].seat = s /\ call[p].to = x

\* A seat that is taken is given to nobody else, whatever comes between the reading and the
\* writing of holdSeat: only time or a releaseSeat makes it free again (which anybody may
\* call, see the README), not the sweep of expired holds, nor a map initialized again while
\* requests are in flight; and no other hold is written over it unless two requests for the
\* seat overlapped.
SeatIsKept ==
  [][\A s \in Seat : Taken(s) =>
       /\ \/ Taken(s)'
          \/ HoldExpires(s)
          \/ \E p \in Caller : WritesSeat(p, s, "AVAILABLE")
       /\ \A p \in Caller : WritesSeat(p, s, "HELD") => <<"seat", s>> \in contended]_venueVars

=============================================================================
