--------------------------- MODULE MCTicketResale ---------------------------
EXTENDS TicketResale, TLC

CONSTANTS u1, u2, u3, t1, t2, o1, o2, i1, i2, r1

\* Users, offers and invoices are alike.
MCSymmetry == Permutations(User) \cup Permutations(Offer) \cup Permutations(Invoice)
=============================================================================
