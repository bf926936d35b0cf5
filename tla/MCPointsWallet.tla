--------------------------- MODULE MCPointsWallet ---------------------------
\* A small instance of PointsWallet.
EXTENDS PointsWallet

=============================================================================
