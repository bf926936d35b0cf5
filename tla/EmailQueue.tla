----------------------------- MODULE EmailQueue -----------------------------
(***************************************************************************)
(* The queue of outgoing emails: handlers all over the backend insert      *)
(* messages, a timer (or PAYPAC, by hand) takes the oldest pending ones    *)
(* and sends them through Brevo one after another, PAYPAC retries or       *)
(* deletes a message, and another timer deletes old ones.  A run that is   *)
(* not over when the next one starts works on the same rows.               *)
(*                                                                         *)
(* What every model has (Init, Next, Spec, handlers, faults) carries a     *)
(* name of its own here, so that Accounts and this module can be extended  *)
(* together, by the module of their proofs.                                *)
(***************************************************************************)
EXTENDS Naturals, FiniteSets

CONSTANTS
  MaxMessages,  \* bound on the rows of the queue
  BatchSize,    \* how many messages one run takes (50 in the code)
  Run,          \* slots for runs of the processor in flight
  Command,      \* slots for commands of PAYPAC in flight
  MaxMailFaults,  \* bound on failures
  MaxCommands   \* bound on commands of PAYPAC

ASSUME SizeAssumption == MaxMessages \in Nat /\ BatchSize \in Nat \ {0}
ASSUME SlotAssumption == Run \cap Command = {}
ASSUME MailBoundsAssumption == MaxMailFaults \in Nat /\ MaxCommands \in Nat

VARIABLES
  queue,      \* the NotificationMessageQueue table
  delivered,  \* external: how many times Brevo accepted each message
  task,       \* what every handler in flight has read and where it is
  contested,  \* history: messages on which two handlers met, or one failed
  mailFaults, \* history: number of faults so far
  commands    \* history: number of commands so far

mailVars == <<queue, delivered, task, contested, mailFaults, commands>>
history == <<contested, mailFaults, commands>>

Process == Run \cup Command

\* Ids are given in the order of insertion, which is that of createdAt.
Message == 1..MaxMessages

\* "NONE": not inserted yet; "GONE": deleted, and its id is never given again.
\* PENDING, SENT and FAILED are the statuses 0, 1 and 2.
Row == [status: {"NONE", "PENDING", "SENT", "FAILED", "GONE"}, due: BOOLEAN]

NoRow == [status |-> "NONE", due |-> FALSE]

\* step is the next call of the handler, on the first message of batch.
Sending == {"send", "markSent", "markFailed", "markException"}
Task == [step: Sending \cup {"idle", "reopen", "erase"}, batch: SUBSET Message]

NoTask == [step |-> "idle", batch |-> {}]

Pending == {m \in Message : queue[m].status = "PENDING" /\ queue[m].due}
Taken(m) == \E p \in Process : m \in task[p].batch

IsFirst(m, S) == m \in S /\ \A n \in S : m <= n

\* findPendingMessages: orderBy createdAt asc, take BatchSize.
IsOldest(batch, S) ==
  /\ batch \subseteq S
  /\ \A m \in batch, n \in S \ batch : m <= n
  /\ Cardinality(batch) <= BatchSize
  /\ Cardinality(batch) = BatchSize \/ batch = S

----------------------------------------------------------------------------
MailInit ==
  /\ queue = [m \in Message |-> NoRow]
  /\ delivered = [m \in Message |-> 0]
  /\ task = [p \in Process |-> NoTask]
  /\ contested = {}
  /\ mailFaults = 0
  /\ commands = 0

TakeUp(p, s, batch) ==
  /\ task[p].step = "idle"
  /\ task' = [task EXCEPT ![p] = [step |-> s, batch |-> batch]]
  /\ contested' = contested \cup {m \in batch : Taken(m)}
  /\ UNCHANGED <<queue, delivered, mailFaults>>

Proceed(p, s) == task' = [task EXCEPT ![p].step = s]
Finish(p)    == task' = [task EXCEPT ![p] = NoTask]

SetStatus(m, s) == queue' = [queue EXCEPT ![m].status = s]

\* The loop goes on with the next message.
NextInBatch(p, m) ==
  LET rest == task[p].batch \ {m} IN
  task' = [task EXCEPT ![p] = IF rest = {} THEN NoTask
                              ELSE [step |-> "send", batch |-> rest]]

----------------------------------------------------------------------------
\* queueEmail: whether the recipient's preferences let the message through is not
\* modelled; one that is refused leaves no row.  sendAt may lie in the future.
QueueEmail(m, due) ==
  /\ IsFirst(m, {n \in Message : queue[n].status = "NONE"})
  /\ queue' = [queue EXCEPT ![m] = [status |-> "PENDING", due |-> due]]
  /\ UNCHANGED <<delivered, task, history>>

\* Time passes sendAt.
FallDue(m) ==
  /\ queue[m].status # "NONE"
  /\ ~queue[m].due
  /\ queue' = [queue EXCEPT ![m].due = TRUE]
  /\ UNCHANGED <<delivered, task, history>>

\* processPendingMessages, by the timer or by PAYPAC: nothing keeps a second run off
\* the messages of a first.
ProcessPending(p) ==
  /\ Pending # {}
  /\ \E batch \in SUBSET Pending : IsOldest(batch, Pending) /\ TakeUp(p, "send", batch)
  /\ UNCHANGED commands

\* Brevo takes the message or refuses it.
SendEmail(p, m) ==
  /\ task[p].step = "send"
  /\ IsFirst(m, task[p].batch)
  /\ \/ delivered' = [delivered EXCEPT ![m] = @ + 1] /\ Proceed(p, "markSent")
     \/ Proceed(p, "markFailed") /\ UNCHANGED delivered
  /\ UNCHANGED <<queue, history>>

\* Variant: the outcome is not stored, and the loop goes on.
MarkForgotten(p, m) ==
  /\ task[p].step \in {"markSent", "markFailed"}
  /\ IsFirst(m, task[p].batch)
  /\ NextInBatch(p, m)
  /\ UNCHANGED <<queue, delivered, history>>

\* Variant: the two outcomes are swapped.
MarkSwapped(p, m) ==
  /\ task[p].step \in {"markSent", "markFailed"}
  /\ IsFirst(m, task[p].batch)
  /\ IF queue[m].status = "GONE" THEN Proceed(p, "markException") /\ UNCHANGED queue
     ELSE /\ SetStatus(m, IF task[p].step = "markSent" THEN "FAILED" ELSE "SENT")
          /\ NextInBatch(p, m)
  /\ UNCHANGED <<delivered, history>>

\* updateStatus throws for a row that is gone; the catch block of the message follows.
Mark(p, m) ==
  /\ task[p].step \in {"markSent", "markFailed"}
  /\ IsFirst(m, task[p].batch)
  /\ IF queue[m].status = "GONE" THEN Proceed(p, "markException") /\ UNCHANGED queue
     ELSE /\ SetStatus(m, IF task[p].step = "markSent" THEN "SENT" ELSE "FAILED")
          /\ NextInBatch(p, m)
  /\ UNCHANGED <<delivered, history>>

\* The catch block marks the message failed.  When that throws as well, nothing
\* catches it: the run ends and leaves the rest of its batch.
MarkException(p, m) ==
  /\ task[p].step = "markException"
  /\ IsFirst(m, task[p].batch)
  /\ IF queue[m].status = "GONE" THEN Finish(p) /\ UNCHANGED queue
     ELSE SetStatus(m, "FAILED") /\ NextInBatch(p, m)
  /\ UNCHANGED <<delivered, history>>

----------------------------------------------------------------------------
\* Variant: any message may be tried again.
RetryAnyMessage(p, m) ==
  /\ queue[m].status \notin {"NONE", "GONE"}
  /\ TakeUp(p, "reopen", {m})

\* POST /email-queue/:id/retry, by PAYPAC: only a failed message.
RetryMessage(p, m) ==
  /\ queue[m].status = "FAILED"
  /\ TakeUp(p, "reopen", {m})

Reopen(p, m) ==
  /\ task[p].step = "reopen"
  /\ m \in task[p].batch
  /\ IF queue[m].status = "GONE" THEN UNCHANGED queue ELSE SetStatus(m, "PENDING")
  /\ Finish(p)
  /\ UNCHANGED <<delivered, history>>

\* DELETE /email-queue/:id, by PAYPAC, whatever the status.
DeleteMessage(p, m) ==
  /\ queue[m].status \notin {"NONE", "GONE"}
  /\ TakeUp(p, "erase", {m})

Erase(p, m) ==
  /\ task[p].step = "erase"
  /\ m \in task[p].batch
  /\ SetStatus(m, "GONE")
  /\ Finish(p)
  /\ UNCHANGED <<delivered, history>>

\* One deleteMany takes the sent messages older than 30 days (which ones is time's
\* choice); a timer runs it every night, and PAYPAC may.
CleanOldMessages(old) ==
  /\ old # {}
  /\ \A m \in old : queue[m].status = "SENT"
  /\ queue' = [m \in Message |-> IF m \in old THEN [queue[m] EXCEPT !.status = "GONE"]
                                 ELSE queue[m]]
  /\ UNCHANGED <<delivered, task, history>>

----------------------------------------------------------------------------
\* Faults, at most MaxFaults of them, on the message a handler is working on: the rest
\* of its batch stays pending and comes to no harm.
MailFails(p, m) ==
  /\ task[p].step # "idle"
  /\ IsFirst(m, task[p].batch)
  /\ mailFaults < MaxMailFaults
  /\ mailFaults' = mailFaults + 1
  /\ contested' = contested \cup {m}
  /\ \/ \* a restart, or an error in the catch block
        Finish(p) /\ UNCHANGED delivered
     \/ \* the update of the status fails
        /\ task[p].step \in {"markSent", "markFailed"}
        /\ Proceed(p, "markException")
        /\ UNCHANGED delivered
     \/ \* Brevo takes the message and its answer is lost
        /\ task[p].step = "send"
        /\ delivered' = [delivered EXCEPT ![m] = @ + 1]
        /\ Proceed(p, "markFailed")
  /\ UNCHANGED <<queue, commands>>

Begin(p) ==
  /\ commands < MaxCommands
  /\ commands' = commands + 1
  /\ \E m \in Message : RetryMessage(p, m) \/ DeleteMessage(p, m)

WorkOn(p) ==
  \E m \in Message : SendEmail(p, m) \/ Mark(p, m) \/ MarkException(p, m)
                     \/ Reopen(p, m) \/ Erase(p, m)

MailNext ==
  \/ \E m \in Message, due \in BOOLEAN : QueueEmail(m, due)
  \/ \E m \in Message : FallDue(m)
  \/ \E p \in Run : ProcessPending(p)
  \/ \E p \in Command : Begin(p)
  \/ \E old \in SUBSET Message : CleanOldMessages(old)
  \/ \E p \in Process : WorkOn(p)
  \/ \E p \in Process, m \in Message : MailFails(p, m)

MailSpec == MailInit /\ [][MailNext]_mailVars

\* The timer fires every five minutes, a run in flight goes on, and time passes.
MailFairSpec ==
  /\ MailSpec
  /\ WF_mailVars(\E p \in Run : ProcessPending(p))
  /\ \A p \in Process : WF_mailVars(WorkOn(p))
  /\ \A m \in Message : WF_mailVars(FallDue(m))

----------------------------------------------------------------------------
MailTypeOK ==
  /\ queue \in [Message -> Row]
  /\ delivered \in [Message -> Nat]
  /\ task \in [Process -> Task]
  /\ contested \subseteq Message
  /\ mailFaults \in 0..MaxMailFaults
  /\ commands \in 0..MaxCommands

\* A message no two handlers met on, and none was cut off at, is what the table says of
\* it, when no handler has it: PENDING and FAILED have not reached the recipient, SENT has
\* once, however often the queue is processed and PAYPAC retries.  And whoever met on it
\* and whatever failed, SENT means that Brevo took it, the one thing PAYPAC relies on
\* when it does not retry.
StatusIsTrue ==
  /\ \A m \in Message \ contested : ~Taken(m) =>
       /\ queue[m].status \in {"PENDING", "FAILED"} => delivered[m] = 0
       /\ queue[m].status = "SENT" => delivered[m] = 1
  /\ \A m \in Message : queue[m].status = "SENT" => delivered[m] > 0

\* A message that is due is sent, refused or deleted in the end, even when runs
\* overlap, crash, or end early because PAYPAC deleted a message under them.
DueIsProcessed ==
  \A m \in Message : m \in Pending ~> m \notin Pending

\* The fate of a message, for the abstract specification.
FateOf(m) ==
  IF m \in contested THEN "contested"
  ELSE IF delivered[m] = 1 THEN "delivered"
  ELSE IF delivered[m] > 1 THEN "repeated"
  ELSE IF queue[m].status = "NONE" THEN "none"
  ELSE IF queue[m].status = "PENDING" THEN "waiting"
  ELSE IF queue[m].status = "FAILED" THEN "refused"
  ELSE IF queue[m].status = "GONE" THEN "dropped"
  ELSE "lost"

Fates == [m \in Message |-> FateOf(m)]

Promise == INSTANCE Outbox WITH box <- Fates

\* The queue keeps the promise of Outbox: every step of any handler is, for the
\* messages, one of its steps or none.
KeepsPromise == Promise!Spec

=============================================================================
