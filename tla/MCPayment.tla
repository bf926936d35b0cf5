----------------------------- MODULE MCPayment -----------------------------
EXTENDS Payment, TLC

CONSTANTS u1, i1, i2, x1, x2, x3, p1, p2

\* Invoices, Transactions rows and request slots are alike.
MCSymmetry == Permutations(Invoice) \cup Permutations(Txn) \cup Permutations(Request)

\* One cart that takes the whole opening balance and brings a promoter's code.
MCCart == {[points |-> 2, code |-> TRUE]}
=============================================================================
