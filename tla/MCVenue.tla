------------------------------- MODULE MCVenue -------------------------------
\* A small instance of Venue.
EXTENDS Venue, TLC

Symmetry == Permutations(Ticket) \cup Permutations(Caller)

=============================================================================
