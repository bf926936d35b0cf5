-------------------------- MODULE MCEventLifecycle --------------------------
EXTENDS EventLifecycle, TLC

CONSTANTS e1, e2, r1, c1

\* Only the sales of an event with a company end up in a liquidation.
MCMaxSales == [e \in Event |-> IF e \in Company THEN 1 ELSE 0]
=============================================================================
