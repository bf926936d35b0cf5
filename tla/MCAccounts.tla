----------------------------- MODULE MCAccounts -----------------------------
\* A small instance of Accounts.
EXTENDS Accounts, TLC

=============================================================================
