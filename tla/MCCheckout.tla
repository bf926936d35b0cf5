----------------------------- MODULE MCCheckout -----------------------------
EXTENDS Checkout, TLC

CONSTANTS u1, a1, c1, b1, b2, i1, i2, l1, l2, s1, p1, p2

\* One ticket, or two as two items of the same locality: of the stage's, as long as that is
\* where the stage is.
MCItem == [stage |-> s1, locality |-> l1, qty |-> 1]
MCCart == {<<MCItem>>, <<MCItem, MCItem>>}

\* Half the price once, or more than the price.
MCOffer == {[type |-> 1, value |-> 50, max |-> 1, min |-> 0],
            [type |-> 2, value |-> 150, max |-> 0, min |-> 2]}

\* The kind alone, which may turn 150 into a percentage, or both.
MCEdit == {[type |-> 1, value |-> 0], [type |-> 2, value |-> 3]}

\* Half of what is paid, or a fixed amount for two tickets with a discount for the buyer.
MCRule == {[reward |-> "PERCENTAGE", amount |-> 50, min |-> 0, original |-> FALSE,
            cutType |-> 0, cutValue |-> 0],
           [reward |-> "FIXED_AMOUNT", amount |-> 1, min |-> 2, original |-> TRUE,
            cutType |-> 1, cutValue |-> 50]}

\* The event has room for two tickets and a locality for one, until they are edited.  Who
\* was registered as a promoter has no balance yet, and carts that name a locality with the
\* stage of another from the start are looked at where nobody has a code.
MCInit ==
  /\ Init
  /\ event.max = 2 /\ \A l \in Locality : locality[l].quota = 1
  /\ appointed # {} => \A b \in Balance : balance[b] = NoBalance
  /\ stage[s1].locality # l1 => appointed = {} /\ \A c \in Code : ~Exists(c)
MCSpec == MCInit /\ [][Next]_vars

MCSymmetry == Permutations(Balance) \cup Permutations(Invoice) \cup Permutations(Request)
=============================================================================
