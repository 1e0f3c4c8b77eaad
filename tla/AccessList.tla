----------------------------- MODULE AccessList -----------------------------
(* What SharingManager promises to one caller at a time: an entity has one    *)
(* role or none, and an update is one step.  It cannot promise all or         *)
(* nothing: there is no rollback between its two calls (a TODO in             *)
(* update_architecture_roles).                                                *)
CONSTANTS Entity, PublicUser

Role == {"viewer", "editor", "owner"}
Wish == Role \cup {"none", "keep"}

VARIABLE role     \* the role of each entity, "none" if it has none

Init ==
    \E e \in Entity \ {PublicUser} :
        role = [x \in Entity |-> IF x = e THEN "owner" ELSE "none"]

(* The roles asked for replace the roles there are.                           *)
Change(wish) ==
    role' = [e \in Entity |-> IF wish[e] = "keep" THEN role[e] ELSE wish[e]]

(* Stopped between its calls, an update leaves the entities whose role it was *)
(* to change without one.                                                     *)
Lose(wish) ==
    role' = [e \in Entity |->
                IF wish[e] \in {"keep", role[e]} THEN role[e] ELSE "none"]

(* Only an owner may ask, and the public user may only become a viewer.       *)
Next ==
    /\ \E e \in Entity : role[e] = "owner"
    /\ \E wish \in [Entity -> Wish] :
          /\ wish[PublicUser] \notin {"editor", "owner"}
          /\ Change(wish) \/ Lose(wish)

Spec == Init /\ [][Next]_role
=============================================================================
