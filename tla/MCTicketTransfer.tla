-------------------------- MODULE MCTicketTransfer --------------------------
EXTENDS TicketTransfer, TLC

CONSTANTS u1, u2, t1, t2, t3, x1, x2, r1

\* Rows that do not exist yet, transaction ids and users are alike.
MCSymmetry == Permutations(User) \cup Permutations(Ticket \ Sold) \cup Permutations(Tx)
=============================================================================
