------------------------------ MODULE Accounts ------------------------------
(***************************************************************************)
(* What the registration flow promises about an account, with none of its  *)
(* transactions, locks or mail: one step per change a client can observe.  *)
(* Registration implements it (Registration!AccountsSpec).                 *)
(***************************************************************************)
CONSTANTS Ids,               \* accounts that registrations may create
          EmailOf, NameOf    \* the keys an account is created with

VARIABLE account             \* account[u]: where u is in its life

States == {"absent", "pending", "active", "removed"}

TypeOK == account \in [Ids -> States]

Live == {u \in Ids : account[u] \in {"pending", "active"}}

Become(u, from, to) ==
    /\ account[u] \in from
    /\ account' = [account EXCEPT ![u] = to]

Init == account = [u \in Ids |-> "absent"]

\* An account is created pending, and only if no live account has its keys.
Create(u) ==
    /\ \A v \in Live : EmailOf[v] # EmailOf[u] /\ NameOf[v] # NameOf[u]
    /\ Become(u, {"absent"}, "pending")

\* Its invitation is accepted: once, and never after the account is gone.
Accept(u) == Become(u, {"pending"}, "active")

\* The registration is rolled back.
Withdraw(u) == Become(u, {"pending", "active"}, "removed")

Next == \E u \in Ids : Create(u) \/ Accept(u) \/ Withdraw(u)

Spec == Init /\ [][Next]_account
=============================================================================
