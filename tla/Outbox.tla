------------------------------- MODULE Outbox -------------------------------
(***************************************************************************)
(* What the email queue promises for each message: it is delivered at most *)
(* once, it is not delivered after it was dropped, and only a message that *)
(* was not delivered is tried again.  The promise ends for a message that  *)
(* two handlers work on at once, or whose handler is cut off: such a       *)
(* message is "contested" from then on.                                    *)
(***************************************************************************)
CONSTANT Message   \* ids of messages
VARIABLE box       \* what became of each message

Fate == {"none", "waiting", "delivered", "refused", "dropped", "contested"}

Init == box = [m \in Message |-> "none"]

Becomes(m, from, to) == box[m] \in from /\ box' = [box EXCEPT ![m] = to]

Queue(m)   == Becomes(m, {"none"}, "waiting")
Deliver(m) == Becomes(m, {"waiting"}, "delivered")
Refuse(m)  == Becomes(m, {"waiting"}, "refused")
Retry(m)   == Becomes(m, {"refused"}, "waiting")
Drop(m)    == Becomes(m, {"waiting", "refused"}, "dropped")

\* Handlers met on these messages, or one was cut off.
Contest(S) == box' = [m \in Message |-> IF m \in S THEN "contested" ELSE box[m]]

Next ==
  \/ \E m \in Message : Queue(m) \/ Deliver(m) \/ Refuse(m) \/ Retry(m) \/ Drop(m)
  \/ \E S \in SUBSET Message : Contest(S)

Spec == Init /\ [][Next]_box

=============================================================================
