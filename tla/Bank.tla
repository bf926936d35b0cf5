-------------------------------- MODULE Bank --------------------------------
(***************************************************************************)
(* What the points wallet promises: points enter by an award, leave by a   *)
(* redemption and otherwise only move from one user to another, all at     *)
(* once; and nobody spends more than he has, unless two of his own         *)
(* spendings met (he is then "contested").                                 *)
(***************************************************************************)
EXTENDS Integers

CONSTANTS User,    \* customers
          Amount   \* how many points one operation may concern
VARIABLES balance,   \* the points of every user
          contested  \* the users two of whose spendings met

vars == <<balance, contested>>

Init == balance \in [User -> Nat] /\ contested = {}

MaySpend(u, n) == balance[u] >= n \/ u \in contested

Award(u, n)  == balance' = [balance EXCEPT ![u] = @ + n]
Redeem(u, n) == MaySpend(u, n) /\ balance' = [balance EXCEPT ![u] = @ - n]
Transfer(u, v, n) ==
  u # v /\ MaySpend(u, n) /\ balance' = [balance EXCEPT ![u] = @ - n, ![v] = @ + n]

Contest(u) == contested' = contested \cup {u} /\ UNCHANGED balance

Next ==
  \/ \E u \in User, n \in Amount :
       /\ Award(u, n) \/ Redeem(u, n) \/ \E v \in User : Transfer(u, v, n)
       /\ UNCHANGED contested
  \/ \E u \in User : Contest(u)

Spec == Init /\ [][Next]_vars

=============================================================================
