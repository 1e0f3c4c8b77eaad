------------------------------ MODULE Sharing ------------------------------
(* The roles of one architecture in OpenFGA, and the requests that change     *)
(* them: PUT /api/architecture/{id}/access (src/src/main.py), through         *)
(* ArchitectureHandler.update_architecture_access to SharingManager.          *)
(*                                                                            *)
(* The roles are tuples (entity, role).  An update reads the tuples page by   *)
(* page, deletes the ones of the entities whose role changes in one call and  *)
(* writes the new ones in another.  Each call is an await: other updates run  *)
(* in between, and each call may fail without the ones before it being undone. *)
(* An update slot is used again once its request was answered, so the number  *)
(* of updates of a behaviour is not bounded.                                  *)
EXTENDS Integers, FiniteSets

CONSTANTS
    Update,       \* the update requests that may be in flight at once
    Entity,       \* users, teams and organizations (members)
    PublicUser,   \* "user:*", a member of Entity
    PageSize,     \* tuples per page of a read (25 in the code)
    MaxRead,      \* a read stops when it has this many (100 in the code)
    Serial,       \* an update starts only when no other is in flight
    Faults        \* a call to OpenFGA may fail although its tuples are right

ASSUME PublicAssumption == PublicUser \in Entity
ASSUME PagesAssumption == PageSize \in Nat \ {0} /\ MaxRead \in Nat \ {0}
ASSUME DisciplineAssumption == Serial \in BOOLEAN /\ Faults \in BOOLEAN

(* What a request says of an entity: a role, "none" (JSON null: remove its    *)
(* role), or "keep" (the entity is not in the dictionary).                    *)
Role == {"viewer", "editor", "owner"}
Wish == Role \cup {"none", "keep"}

VARIABLES
    tuples,       \* the tuples of the architecture in OpenFGA
    phase,        \* per update: its next call, or how it was answered
    ask,          \* per update: entity_roles of the request
    seen          \* per update: the tuples its read has returned so far

vars == <<tuples, phase, ask, seen>>

Tuple == [user : Entity, role : Role]
Grant(e, r) == [user |-> e, role |-> r]
Answered == {"idle", "ok", "failed"}
NothingAsked == [e \in Entity |-> "keep"]

(* The roles an entity has.                                                   *)
RolesOf(e) == {r \in Role : Grant(e, r) \in tuples}
Owners == {e \in Entity : Grant(e, "owner") \in tuples}

-----------------------------------------------------------------------------
(* The dictionary of get_architecture_roles: the dictionaries of owners,      *)
(* viewers and editors are merged in this order, the last one wins.           *)
ReadRole(S, e) ==
    IF Grant(e, "editor") \in S THEN "editor"
    ELSE IF Grant(e, "viewer") \in S THEN "viewer"
    ELSE IF Grant(e, "owner") \in S THEN "owner"
    ELSE "none"

(* roles_to_remove and roles_to_add, from what was asked and what was read.   *)
BugRemovesAnyAsked(wish, S) ==
    {Grant(e, ReadRole(S, e)) : e \in {x \in Entity :
        ReadRole(S, x) # "none" /\ wish[x] # "keep"}}

BugRemovesOthers(wish, S) ==
    {Grant(e, ReadRole(S, e)) : e \in {x \in Entity :
        ReadRole(S, x) # "none" /\ wish[x] # ReadRole(S, x)}}

BugOnlyRemovesNull(wish, S) ==
    {Grant(e, ReadRole(S, e)) : e \in {x \in Entity :
        ReadRole(S, x) # "none" /\ wish[x] = "none"}}

RolesToRemove(wish, S) ==
    {Grant(e, ReadRole(S, e)) : e \in {x \in Entity :
        /\ ReadRole(S, x) # "none"
        /\ wish[x] \notin {"keep", ReadRole(S, x)}}}

RolesToAdd(wish, S) ==
    {Grant(e, wish[e]) : e \in {x \in Entity :
        wish[x] \in Role \ {ReadRole(S, x)}}}

(* The public user is a viewer or nothing.                                    *)
BugPublicMayEdit(wish) == wish[PublicUser] = "owner"
BadForPublic(wish) == wish[PublicUser] \in {"editor", "owner"}

-----------------------------------------------------------------------------
(* new_architecture wrote the owner's tuple before the first update.          *)
Init ==
    /\ \E e \in Entity \ {PublicUser} : tuples = {Grant(e, "owner")}
    /\ phase = [u \in Update |-> "idle"]
    /\ ask = [u \in Update |-> NothingAsked]
    /\ seen = [u \in Update |-> {}]

InFlight(u) == phase[u] \notin Answered

(* The request arrives from an owner (can_share), and is allowed to go on.    *)
Start(u) ==
    /\ ~InFlight(u)
    /\ Serial => \A v \in Update : ~InFlight(v)
    /\ Owners # {}
    /\ \E wish \in [Entity -> Wish] \ {NothingAsked} :
          ask' = [ask EXCEPT ![u] = wish]
    /\ phase' = [phase EXCEPT ![u] = "read"]
    /\ UNCHANGED <<tuples, seen>>

(* The coroutine ends: what it knew is gone.                                  *)
Answer(u, how) ==
    /\ phase' = [phase EXCEPT ![u] = how]
    /\ ask' = [ask EXCEPT ![u] = NothingAsked]
    /\ seen' = [seen EXCEPT ![u] = {}]

(* read_tuples asks for one page more while it has fewer than MaxRead tuples  *)
(* and there are more; the order is that of OpenFGA.                          *)
Rest(u) == tuples \ seen[u]

NextPage(u) ==
    {page \in SUBSET Rest(u) :
        IF Cardinality(Rest(u)) <= PageSize THEN page = Rest(u)
        ELSE Cardinality(page) = PageSize}

BugFirstPageOnly(u, page) == TRUE

ReadEnds(u, page) ==
    \/ page = Rest(u)
    \/ Cardinality(seen[u] \cup page) >= MaxRead

ReadPage(u) ==
    /\ phase[u] = "read"
    /\ \E page \in NextPage(u) :
          /\ ~ReadEnds(u, page)
          /\ seen' = [seen EXCEPT ![u] = @ \cup page]
    /\ UNCHANGED <<tuples, phase, ask>>

(* The last page: the loop of update_architecture_roles runs, and the first   *)
(* call it needs is next.  Nothing to call: the request is answered.          *)
BugEither(u, read) ==
    IF RolesToAdd(ask[u], read) # {} THEN "write"
    ELSE IF RolesToRemove(ask[u], read) # {} THEN "delete" ELSE "ok"

Plan(u, read) ==
    IF RolesToRemove(ask[u], read) # {} THEN "delete"
    ELSE IF RolesToAdd(ask[u], read) # {} THEN "write" ELSE "ok"

ReadLastPage(u) ==
    /\ phase[u] = "read"
    /\ ~BadForPublic(ask[u])
    /\ \E page \in NextPage(u) :
          LET read == seen[u] \cup page IN
          /\ ReadEnds(u, page)
          /\ IF Plan(u, read) = "ok" THEN Answer(u, "ok")
             ELSE /\ phase' = [phase EXCEPT ![u] = Plan(u, read)]
                  /\ seen' = [seen EXCEPT ![u] = read]
                  /\ UNCHANGED ask
    /\ UNCHANGED tuples

(* The loop raises ValueError, answered as an internal error.                 *)
RefusePublic(u) ==
    /\ phase[u] = "read"
    /\ BadForPublic(ask[u])
    /\ \E page \in NextPage(u) : ReadEnds(u, page)
    /\ Answer(u, "failed")
    /\ UNCHANGED tuples

(* What update u deletes and writes.                                          *)
Removals(u) == RolesToRemove(ask[u], seen[u])
Additions(u) == RolesToAdd(ask[u], seen[u])

(* The effect of a call to delete or to write tuples, all or nothing.         *)
Delete(u) == tuples' = tuples \ Removals(u)
Write(u) == tuples' = tuples \cup Additions(u)

DeleteTuples(u) ==
    /\ phase[u] = "delete"
    /\ Removals(u) \subseteq tuples
    /\ Delete(u)
    /\ IF Additions(u) = {} THEN Answer(u, "ok")
       ELSE /\ phase' = [phase EXCEPT ![u] = "write"]
            /\ UNCHANGED <<ask, seen>>

WriteTuples(u) ==
    /\ phase[u] = "write"
    /\ Additions(u) \cap tuples = {}
    /\ Write(u)
    /\ Answer(u, "ok")

(* OpenFGA refuses to delete a tuple it does not have, and to write one it    *)
(* has; the exception is answered as an internal error.                       *)
CallRefused(u) ==
    /\ \/ phase[u] = "delete" /\ ~(Removals(u) \subseteq tuples)
       \/ phase[u] = "write" /\ Additions(u) \cap tuples # {}
    /\ Answer(u, "failed")
    /\ UNCHANGED tuples

(* A call fails before or after it took effect, or the server stops.          *)
CallFails(u) ==
    /\ Faults
    /\ InFlight(u)
    /\ \/ UNCHANGED tuples
       \/ phase[u] = "delete" /\ Removals(u) \subseteq tuples
          /\ Delete(u)
       \/ phase[u] = "write" /\ Additions(u) \cap tuples = {}
          /\ Write(u)
    /\ Answer(u, "failed")

(* Nobody may share any more: no owner is left.                               *)
Locked ==
    /\ Owners = {}
    /\ \A u \in Update : ~InFlight(u)
    /\ UNCHANGED vars

Next ==
    \/ \E u \in Update :
          \/ Start(u) \/ ReadPage(u) \/ ReadLastPage(u) \/ RefusePublic(u)
          \/ DeleteTuples(u) \/ WriteTuples(u) \/ CallRefused(u) \/ CallFails(u)
    \/ Locked

Spec == Init /\ [][Next]_vars

-----------------------------------------------------------------------------
(* Properties.                                                                *)

(* The variables have their types.                                            *)
TypeOK ==
    /\ tuples \subseteq Tuple
    /\ phase \in [Update -> Answered \cup {"read", "delete", "write"}]
    /\ ask \in [Update -> [Entity -> Wish]]
    /\ seen \in [Update -> SUBSET Tuple]

(* The public user never gets a role that lets it change the architecture,    *)
(* whatever updates run at once: the test of update_architecture_roles comes  *)
(* before its first call.                                                     *)
PublicOnlyViews == RolesOf(PublicUser) \subseteq {"viewer"}

(* "Only the entities in this dictionary will have their roles updated": the  *)
(* roles of an entity change only while an update that names it is in flight, *)
(* also when updates overlap and calls fail.                                  *)
OnlyNamedChange ==
    [][\A e \in Entity :
          RolesOf(e)' # RolesOf(e)
             => \E u \in Update : InFlight(u) /\ ask[u][e] # "keep"]_vars

(* "If an entity has an existing role, it will be overwritten": never two     *)
(* roles for one entity.  Two roles make get_architecture_roles report one of *)
(* them, and a later removal take only that one away.  Holds one update at a  *)
(* time; faults do not break it.                                              *)
OneRole == \A e \in Entity : \A r, s \in RolesOf(e) : r = s

(* An update that was answered 200 did what it says: every entity in the      *)
(* dictionary has the role asked for, or none if it was null.                 *)
AnsweredAsAsked ==
    [][\A u \in Update :
          InFlight(u) /\ phase'[u] = "ok"
             => \A e \in Entity :
                   ask[u][e] # "keep" => RolesOf(e)' = {ask[u][e]} \ {"none"}]_vars

(* Sending an entity the role it already has does not take it away, not even  *)
(* between the two calls or when the second one fails: clients send the whole *)
(* dictionary.                                                                *)
KeptRoleStays ==
    [][\A u \in Update, e \in Entity :
          InFlight(u) /\ ask[u][e] \in RolesOf(e)
             => ask[u][e] \in RolesOf(e)']_vars

(* One at a time, updates are steps of AccessList: the roles change at once,  *)
(* and a failure either changes nothing, changes everything, or leaves the    *)
(* entities whose role was to change without one.  Roles deleted by an update *)
(* that has yet to write are shown as still there.                            *)
Deleted == UNION {Removals(u) : u \in {v \in Update : phase[v] = "write"}}

ShownRole == [e \in Entity |-> ReadRole(tuples \cup Deleted, e)]

Abstract == INSTANCE AccessList WITH role <- ShownRole

AtomicAccess == Abstract!Spec
=============================================================================
