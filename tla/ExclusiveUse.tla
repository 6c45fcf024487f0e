---------------------------- MODULE ExclusiveUse ----------------------------
(***************************************************************************)
(* What a pool promises to its users: a resource is lent to one user at a  *)
(* time, a user has one resource at a time, and what is lent was free.     *)
(***************************************************************************)
CONSTANTS Users, Resources, Nobody

VARIABLE holder  \* who has a resource

ExclusiveInit == holder = [r \in Resources |-> Nobody]

Lend(r, u) ==
    /\ holder[r] = Nobody
    /\ \A s \in Resources : holder[s] # u
    /\ holder' = [holder EXCEPT ![r] = u]

GiveBack(r) ==
    /\ holder[r] # Nobody
    /\ holder' = [holder EXCEPT ![r] = Nobody]

ExclusiveNext ==
    \E r \in Resources : GiveBack(r) \/ \E u \in Users : Lend(r, u)

ExclusiveSpec == ExclusiveInit /\ [][ExclusiveNext]_holder
=============================================================================
