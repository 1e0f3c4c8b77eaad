---------------------------- MODULE SharingProofs ----------------------------
(* What role updates keep: with any number of updates at once, and, one at a  *)
(* time, that roles asked for stay, that 200 means done, and that the updates *)
(* implement AccessList.                                                      *)
EXTENDS Sharing, FiniteSetTheorems, TLAPS

-----------------------------------------------------------------------------
(* Any number of updates at once.                                             *)

LEMMA InitTypes == Init => TypeOK
<1> SUFFICES ASSUME Init PROVE TypeOK
  OBVIOUS
<1>1. tuples \subseteq Tuple
  BY DEF Init, Tuple, Grant, Role
<1>2. ask \in [Update -> [Entity -> Wish]]
  BY DEF Init, NothingAsked, Wish, Role
<1>3. phase \in [Update -> Answered \cup {"read", "delete", "write"}]
      /\ seen \in [Update -> SUBSET Tuple]
  BY DEF Init, Answered
<1> QED BY <1>1, <1>2, <1>3 DEF TypeOK

\* What is to be written are tuples: "none" and "keep" are not roles.
LEMMA AdditionsAreTuples ==
  ASSUME NEW u \in Update, ask[u] \in [Entity -> Wish]
  PROVE  Additions(u) \subseteq Tuple
BY DEF Additions, RolesToAdd, Grant, Tuple

LEMMA AnswerTypes ==
  ASSUME TypeOK, NEW u \in Update, NEW how \in Answered, Answer(u, how),
         tuples' \subseteq Tuple
  PROVE  TypeOK'
<1>1. NothingAsked \in [Entity -> Wish]
  BY DEF NothingAsked, Wish
<1> QED BY <1>1 DEF TypeOK, Answer

LEMMA StepTypes == TypeOK /\ [Next]_vars => TypeOK'
<1> SUFFICES ASSUME TypeOK, [Next]_vars PROVE TypeOK'
  OBVIOUS
<1> USE DEF Answered
<1>1. ASSUME NEW u \in Update, Start(u) PROVE TypeOK'
  BY <1>1 DEF Start, TypeOK
<1>2. ASSUME NEW u \in Update, ReadPage(u) PROVE TypeOK'
  BY <1>2 DEF ReadPage, TypeOK, NextPage, Rest
<1>3. ASSUME NEW u \in Update, ReadLastPage(u) PROVE TypeOK'
  <2> PICK page \in NextPage(u) :
        IF Plan(u, seen[u] \cup page) = "ok" THEN Answer(u, "ok")
        ELSE /\ phase' = [phase EXCEPT ![u] = Plan(u, seen[u] \cup page)]
             /\ seen' = [seen EXCEPT ![u] = seen[u] \cup page]
             /\ UNCHANGED ask
    BY <1>3 DEF ReadLastPage
  <2>1. CASE Plan(u, seen[u] \cup page) = "ok"
    BY <1>3, <2>1, AnswerTypes DEF ReadLastPage, TypeOK
  <2>2. CASE Plan(u, seen[u] \cup page) # "ok"
    <3>1. page \subseteq Tuple
      BY DEF NextPage, Rest, TypeOK
    <3>2. Plan(u, seen[u] \cup page) \in {"delete", "write", "ok"}
      BY DEF Plan
    <3> QED BY <1>3, <2>2, <3>1, <3>2 DEF ReadLastPage, TypeOK
  <2> QED BY <2>1, <2>2
<1>4. ASSUME NEW u \in Update, RefusePublic(u) PROVE TypeOK'
  BY <1>4, AnswerTypes DEF RefusePublic, TypeOK
<1>5. ASSUME NEW u \in Update, DeleteTuples(u) PROVE TypeOK'
  <2>1. tuples' \subseteq Tuple
    BY <1>5 DEF DeleteTuples, Delete, TypeOK
  <2>2. CASE Additions(u) = {}
    BY <1>5, <2>1, <2>2, AnswerTypes DEF DeleteTuples
  <2>3. CASE Additions(u) # {}
    BY <1>5, <2>1, <2>3 DEF DeleteTuples, TypeOK
  <2> QED BY <2>2, <2>3
<1>6. ASSUME NEW u \in Update, WriteTuples(u) PROVE TypeOK'
  <2>1. tuples' \subseteq Tuple
    BY <1>6, AdditionsAreTuples DEF WriteTuples, Write, TypeOK
  <2> QED BY <1>6, <2>1, AnswerTypes DEF WriteTuples
<1>7. ASSUME NEW u \in Update, CallRefused(u) PROVE TypeOK'
  BY <1>7, AnswerTypes DEF CallRefused, TypeOK
<1>8. ASSUME NEW u \in Update, CallFails(u) PROVE TypeOK'
  <2>1. tuples' \subseteq Tuple
    BY <1>8, AdditionsAreTuples DEF CallFails, Write, Delete, TypeOK
  <2> QED BY <1>8, <2>1, AnswerTypes DEF CallFails
<1>9. ASSUME UNCHANGED vars PROVE TypeOK'
  BY <1>9 DEF TypeOK, vars
<1> QED BY <1>1, <1>2, <1>3, <1>4, <1>5, <1>6, <1>7, <1>8, <1>9 DEF Next, Locked

(* The variables of the role updates have their types.                        *)
THEOREM SharingTypes == Spec => []TypeOK
BY InitTypes, StepTypes, PTL DEF Spec

\* An update past its read does not make the public user more than a viewer.
PublicChecked ==
  \A u \in Update : phase[u] \in {"delete", "write"} => ~BadForPublic(ask[u])

PublicInv == TypeOK /\ PublicChecked /\ PublicOnlyViews

LEMMA AdditionsSparePublic ==
  ASSUME NEW u \in Update, ask[u] \in [Entity -> Wish], ~BadForPublic(ask[u]),
         NEW r \in Role, Grant(PublicUser, r) \in Additions(u)
  PROVE  r = "viewer"
BY PublicAssumption DEF Additions, RolesToAdd, Grant, BadForPublic, Role

LEMMA PublicStep == PublicInv /\ [Next]_vars => PublicInv'
<1> SUFFICES ASSUME PublicInv, [Next]_vars PROVE PublicInv'
  OBVIOUS
<1>1. TypeOK' BY StepTypes DEF PublicInv
<1>2. PublicChecked'
  <2> USE DEF PublicInv, PublicChecked, TypeOK
  <2>1. ASSUME NEW u \in Update, Start(u) PROVE PublicChecked'
    BY <2>1 DEF Start
  <2>2. ASSUME NEW u \in Update, ReadPage(u) PROVE PublicChecked'
    BY <2>2 DEF ReadPage
  <2>3. ASSUME NEW u \in Update, ReadLastPage(u) PROVE PublicChecked'
    BY <2>3 DEF ReadLastPage, Answer
  <2>4. ASSUME NEW u \in Update, NEW how \in Answered, Answer(u, how)
        PROVE  PublicChecked'
    BY <2>4 DEF Answer, Answered
  <2>5. ASSUME NEW u \in Update, DeleteTuples(u) PROVE PublicChecked'
    BY <2>4, <2>5 DEF DeleteTuples, Answered
  <2>6. CASE UNCHANGED vars
    BY <2>6 DEF vars
  <2> QED
    BY <2>1, <2>2, <2>3, <2>4, <2>5, <2>6
    DEF Next, Locked, RefusePublic, WriteTuples, CallRefused, CallFails, Answered
<1>3. PublicOnlyViews'
  <2>1. CASE tuples' \subseteq tuples
    BY <2>1 DEF PublicInv, PublicOnlyViews, RolesOf
  <2>2. ASSUME NEW u \in Update, phase[u] = "write", Write(u)
        PROVE  PublicOnlyViews'
    BY <2>2, AdditionsSparePublic
    DEF PublicInv, PublicOnlyViews, PublicChecked, RolesOf, Write, TypeOK
  <2>3. tuples' \subseteq tuples \/ \E u \in Update : phase[u] = "write" /\ Write(u)
    BY DEF Next, Locked, vars, Start, ReadPage, ReadLastPage, RefusePublic,
           DeleteTuples, WriteTuples, CallRefused, CallFails, Delete
  <2> QED BY <2>1, <2>2, <2>3
<1> QED BY <1>1, <1>2, <1>3 DEF PublicInv

(* However many updates run at once and whatever fails, the public user never *)
(* gets more than the role of a viewer.                                       *)
THEOREM PublicIsViewer == Spec => []PublicOnlyViews
<1>1. Init => PublicInv
  <2> SUFFICES ASSUME Init PROVE PublicInv
    OBVIOUS
  <2>1. PublicOnlyViews
    BY DEF Init, PublicOnlyViews, RolesOf, Grant
  <2> QED BY <2>1, InitTypes DEF Init, PublicInv, PublicChecked
<1> QED BY <1>1, PublicStep, PTL DEF Spec, PublicInv

\* A call to OpenFGA touches only entities the request names.
LEMMA StepNames ==
  ASSUME TypeOK, [Next]_vars, NEW e \in Entity, RolesOf(e)' # RolesOf(e)
  PROVE  \E u \in Update : InFlight(u) /\ ask[u][e] # "keep"
<1>1. PICK u \in Update : phase[u] \in {"delete", "write"} /\ (Delete(u) \/ Write(u))
  BY DEF Next, Locked, vars, Start, ReadPage, ReadLastPage, RefusePublic,
         DeleteTuples, WriteTuples, CallRefused, CallFails, RolesOf
<1>2. PICK r \in Role : Grant(e, r) \in Removals(u) \cup Additions(u)
  BY <1>1 DEF RolesOf, Delete, Write
<1>3. ask[u][e] # "keep"
  BY <1>2 DEF Removals, Additions, RolesToRemove, RolesToAdd, Grant, Role
<1> QED BY <1>1, <1>3 DEF InFlight, Answered

(* Roles change only by an update in flight that names the entity.            *)
THEOREM OthersKeepTheirRoles == Spec => OnlyNamedChange
<1>1. TypeOK /\ [Next]_vars =>
        [\A e \in Entity :
           RolesOf(e)' # RolesOf(e)
             => \E u \in Update : InFlight(u) /\ ask[u][e] # "keep"]_vars
  BY StepNames
<1> QED BY <1>1, SharingTypes, PTL DEF Spec, OnlyNamedChange

-----------------------------------------------------------------------------
(* One update at a time, with no more roles given than a read returns.        *)

OneAtATime == Serial = TRUE

\* A read that stops at MaxRead tuples has read them all.
BoundNotMet == IsFiniteSet(tuples) /\ Cardinality(tuples) <= MaxRead

FewEntities == IsFiniteSet(Entity) /\ Cardinality(Entity) <= MaxRead

OneRoleIn(S) == \A e \in Entity : \A r, s \in Role :
                   Grant(e, r) \in S /\ Grant(e, s) \in S => r = s

HasOwner(S) == \E e \in Entity : Grant(e, "owner") \in S

\* A set of tuples with one role per entity has no more tuples than entities,
\* so among few entities a read is not cut short.
LEMMA FewTuples ==
  ASSUME FewEntities, NEW S \in SUBSET Tuple, OneRoleIn(S)
  PROVE  IsFiniteSet(S) /\ Cardinality(S) <= MaxRead
<1> DEFINE f == [t \in S |-> t.user]
<1>1. f \in [S -> Entity]
  BY DEF Tuple
<1>2. ASSUME NEW t \in S, NEW v \in S, f[t] = f[v] PROVE t = v
  <2>1. t = Grant(t.user, t.role) /\ v = Grant(v.user, v.role)
    BY DEF Tuple, Grant
  <2>2. t.user = v.user /\ t.user \in Entity /\ t.role \in Role /\ v.role \in Role
    BY <1>2 DEF Tuple
  <2>3. t.role = v.role
    BY <2>1, <2>2 DEF OneRoleIn
  <2> QED BY <2>1, <2>2, <2>3
<1>3. f \in Injection(S, Entity)
  BY <1>1, <1>2 DEF Injection, IsInjective
<1>4. IsFiniteSet(S) /\ Cardinality(S) <= Cardinality(Entity)
  BY <1>3, FS_Injection DEF FewEntities
<1> QED BY <1>4, FS_CardinalityType, PagesAssumption DEF FewEntities

\* A read that ends has seen every tuple.
LEMMA ReadsAll ==
  ASSUME BoundNotMet, TypeOK, NEW u \in Update,
         seen[u] \subseteq tuples, NEW page \in NextPage(u), ReadEnds(u, page)
  PROVE  seen[u] \cup page = tuples
<1> DEFINE read == seen[u] \cup page
<1>1. page \subseteq Rest(u)
  BY DEF NextPage
<1>2. read \in SUBSET tuples
  BY <1>1 DEF Rest
<1>3. CASE page = Rest(u)
  BY <1>3 DEF Rest
<1>4. CASE Cardinality(read) >= MaxRead
  <2>1. IsFiniteSet(tuples) /\ Cardinality(tuples) <= MaxRead
    BY DEF BoundNotMet
  <2>2. IsFiniteSet(read) /\ Cardinality(read) <= Cardinality(tuples)
        /\ (Cardinality(tuples) = Cardinality(read) => tuples = read)
    BY <1>2, <2>1, FS_Subset
  <2>3. Cardinality(read) \in Nat /\ Cardinality(tuples) \in Nat
    BY <2>1, <2>2, FS_CardinalityType
  <2> QED BY <1>4, <2>1, <2>2, <2>3, PagesAssumption
<1> QED BY <1>3, <1>4 DEF ReadEnds

\* What an update with a complete read makes of the tuples, and what is left
\* if it stops after deleting.
Kept(S, wish) == S \ RolesToRemove(wish, S)
Changed(S, wish) == Kept(S, wish) \cup RolesToAdd(wish, S)

LEMMA KeptHasOneRole ==
  ASSUME NEW S, NEW wish, OneRoleIn(S)
  PROVE  OneRoleIn(Kept(S, wish))
BY DEF OneRoleIn, Kept

\* With one role per entity, the role reported is the role there is.
LEMMA ReadRoleIsRole ==
  ASSUME NEW S, OneRoleIn(S), NEW e \in Entity
  PROVE  /\ \A r \in Role : Grant(e, r) \in S <=> ReadRole(S, e) = r
         /\ ReadRole(S, e) \in Role \cup {"none"}
BY DEF OneRoleIn, ReadRole, Role

LEMMA KeptRole ==
  ASSUME NEW S, OneRoleIn(S), NEW wish \in [Entity -> Wish], NEW e \in Entity
  PROVE  ReadRole(Kept(S, wish), e) =
           IF wish[e] \in {"keep", ReadRole(S, e)} THEN ReadRole(S, e) ELSE "none"
<1>1. \A r \in Role : Grant(e, r) \in RolesToRemove(wish, S) <=>
        r = ReadRole(S, e) /\ wish[e] \notin {"keep", ReadRole(S, e)}
  BY DEF RolesToRemove, Grant, Role
<1>2. \A r \in Role : Grant(e, r) \in Kept(S, wish) <=>
        r = ReadRole(S, e) /\ wish[e] \in {"keep", ReadRole(S, e)}
  BY <1>1, ReadRoleIsRole DEF Kept
<1> QED BY <1>2, ReadRoleIsRole DEF ReadRole, Role

LEMMA ChangedRole ==
  ASSUME NEW S, OneRoleIn(S), NEW wish \in [Entity -> Wish], NEW e \in Entity
  PROVE  /\ \A r, s \in Role : Grant(e, r) \in Changed(S, wish)
                               /\ Grant(e, s) \in Changed(S, wish) => r = s
         /\ ReadRole(Changed(S, wish), e) =
              IF wish[e] = "keep" THEN ReadRole(S, e) ELSE wish[e]
         /\ wish[e] # "keep" =>
              \A r \in Role : Grant(e, r) \in Changed(S, wish) <=> r = wish[e]
<1>1. \A r \in Role : Grant(e, r) \in RolesToRemove(wish, S) <=>
        r = ReadRole(S, e) /\ wish[e] \notin {"keep", ReadRole(S, e)}
  BY DEF RolesToRemove, Grant, Role
<1>2. \A r \in Role : Grant(e, r) \in RolesToAdd(wish, S) <=>
        r = wish[e] /\ r # ReadRole(S, e)
  BY DEF RolesToAdd, Grant, Role
<1>3. \A r \in Role : Grant(e, r) \in Changed(S, wish) <=>
        IF wish[e] = "keep" THEN r = ReadRole(S, e) ELSE r = wish[e]
  BY <1>1, <1>2, ReadRoleIsRole DEF Changed, Kept, Role, Wish
<1>4. wish[e] \in Wish
  OBVIOUS
<1> QED BY <1>3, <1>4, ReadRoleIsRole DEF ReadRole, Role, Wish

LEMMA ChangedHasOneRole ==
  ASSUME NEW S, OneRoleIn(S), NEW wish \in [Entity -> Wish]
  PROVE  OneRoleIn(Changed(S, wish))
BY ChangedRole DEF OneRoleIn

\* What an update knows of the tuples at each of its steps.
Knows(u) ==
  /\ phase[u] \in Answered => seen[u] = {}
  /\ phase[u] = "read" => seen[u] \subseteq tuples /\ HasOwner(tuples)
  /\ phase[u] = "delete" =>
       seen[u] = tuples /\ HasOwner(tuples) /\ ~BadForPublic(ask[u])
  /\ phase[u] = "write" =>
       /\ OneRoleIn(seen[u]) /\ HasOwner(seen[u]) /\ ~BadForPublic(ask[u])
       /\ tuples = Kept(seen[u], ask[u])

Alone == \A u, v \in Update : InFlight(u) /\ InFlight(v) => u = v

SerialInv == TypeOK /\ Alone /\ OneRoleIn(tuples) /\ \A u \in Update : Knows(u)

LEMMA InitSerial == Init => SerialInv
<1> SUFFICES ASSUME Init PROVE SerialInv
  OBVIOUS
<1>1. OneRoleIn(tuples)
  BY DEF Init, OneRoleIn, Grant
<1>2. \A u \in Update : phase[u] = "idle" /\ seen[u] = {}
  BY DEF Init
<1> QED BY <1>1, <1>2, InitTypes DEF SerialInv, Alone, InFlight, Answered, Knows

\* Only the update in flight, or one that starts, changes anything.
LEMMA OthersIdle ==
  ASSUME SerialInv, NEW u \in Update, InFlight(u) \/ (\A v \in Update : ~InFlight(v)),
         \A v \in Update \ {u} : phase'[v] = phase[v] /\ seen'[v] = seen[v],
         OneRoleIn(tuples)', TypeOK', Knows(u)'
  PROVE  SerialInv'
<1>1. \A v \in Update \ {u} : ~InFlight(v) /\ ~InFlight(v)'
  BY DEF SerialInv, Alone, InFlight
<1>2. \A v \in Update \ {u} : Knows(v)'
  BY <1>1 DEF SerialInv, Knows, InFlight, Answered
<1> QED BY <1>1, <1>2 DEF SerialInv, Alone

\* Answering forgets everything.
LEMMA AnswerSerial ==
  ASSUME SerialInv, NEW u \in Update, InFlight(u), NEW how \in Answered,
         Answer(u, how), OneRoleIn(tuples)', TypeOK'
  PROVE  SerialInv'
<1>1. phase'[u] = how /\ seen'[u] = {}
      /\ \A v \in Update \ {u} : phase'[v] = phase[v] /\ seen'[v] = seen[v]
  BY DEF Answer, SerialInv, TypeOK
<1>2. Knows(u)'
  BY <1>1 DEF Knows, Answered
<1> QED BY <1>1, <1>2, OthersIdle

\* The tuples an update leaves at each of its calls.
LEMMA CallEffects ==
  ASSUME SerialInv, NEW u \in Update
  PROVE  /\ phase[u] = "delete" /\ Delete(u) => tuples' = Kept(tuples, ask[u])
         /\ phase[u] = "write" /\ Write(u) => tuples' = Changed(seen[u], ask[u])
BY DEF SerialInv, Knows, Delete, Write, Removals, Additions, Kept, Changed

LEMMA SerialStep ==
  ASSUME OneAtATime, BoundNotMet, SerialInv, [Next]_vars
  PROVE  SerialInv'
<1>1. TypeOK' BY StepTypes DEF SerialInv
<1>2. OneRoleIn(tuples) /\ TypeOK /\ \A u \in Update : Knows(u) /\ ask[u] \in [Entity -> Wish]
  BY DEF SerialInv, TypeOK
<1> USE DEF Answered
<1>3. ASSUME NEW u \in Update, Start(u) PROVE SerialInv'
  <2>1. phase'[u] = "read" /\ seen'[u] = {} /\ tuples' = tuples /\ HasOwner(tuples)
    BY <1>2, <1>3 DEF Start, Knows, InFlight, TypeOK, HasOwner, Owners
  <2>2. Knows(u)'
    BY <2>1 DEF Knows, HasOwner
  <2>3. \A v \in Update : ~InFlight(v)
    BY <1>3 DEF Start, OneAtATime
  <2>4. \A v \in Update \ {u} : phase'[v] = phase[v] /\ seen'[v] = seen[v]
    BY <1>2, <1>3 DEF Start, TypeOK
  <2> QED BY <1>1, <1>2, <2>1, <2>2, <2>3, <2>4, OthersIdle DEF OneRoleIn
<1>4. ASSUME NEW u \in Update, ReadPage(u) PROVE SerialInv'
  <2>1. phase'[u] = "read" /\ seen'[u] \subseteq tuples /\ tuples' = tuples
        /\ \A v \in Update \ {u} : phase'[v] = phase[v] /\ seen'[v] = seen[v]
    BY <1>2, <1>4 DEF ReadPage, Knows, NextPage, Rest, TypeOK
  <2>2. Knows(u)'
    BY <1>2, <1>4, <2>1 DEF ReadPage, Knows, HasOwner
  <2>3. InFlight(u)
    BY <1>4 DEF ReadPage, InFlight
  <2> QED BY <1>1, <1>2, <2>1, <2>2, <2>3, OthersIdle DEF OneRoleIn
<1>5. ASSUME NEW u \in Update, ReadLastPage(u) PROVE SerialInv'
  <2>1. PICK page \in NextPage(u) :
          /\ ReadEnds(u, page)
          /\ IF Plan(u, seen[u] \cup page) = "ok" THEN Answer(u, "ok")
             ELSE /\ phase' = [phase EXCEPT ![u] = Plan(u, seen[u] \cup page)]
                  /\ seen' = [seen EXCEPT ![u] = seen[u] \cup page]
                  /\ UNCHANGED ask
    BY <1>5 DEF ReadLastPage
  <2>2. phase[u] = "read" /\ ~BadForPublic(ask[u]) /\ tuples' = tuples /\ InFlight(u)
    BY <1>5 DEF ReadLastPage, InFlight
  <2>3. seen[u] \cup page = tuples
    BY <1>2, <2>1, <2>2, ReadsAll DEF Knows
  <2>4. OneRoleIn(tuples)'
    BY <1>2, <2>2 DEF OneRoleIn
  <2>5. CASE Plan(u, tuples) = "ok"
    BY <1>1, <2>1, <2>2, <2>3, <2>4, <2>5, AnswerSerial
  <2>6. CASE Plan(u, tuples) # "ok"
    <3>1. phase'[u] = Plan(u, tuples) /\ seen'[u] = tuples /\ ask' = ask
          /\ \A v \in Update \ {u} : phase'[v] = phase[v] /\ seen'[v] = seen[v]
      BY <1>2, <2>1, <2>3, <2>6 DEF TypeOK
    <3>2. \/ Plan(u, tuples) = "delete"
          \/ Plan(u, tuples) = "write" /\ tuples = Kept(tuples, ask[u])
      BY <2>6 DEF Plan, Kept
    <3>3. Knows(u)'
      BY <1>2, <2>2, <3>1, <3>2
      DEF Knows, HasOwner, OneRoleIn, Kept, BadForPublic, RolesToRemove
    <3> QED BY <1>1, <2>2, <2>4, <3>1, <3>3, OthersIdle
  <2> QED BY <2>5, <2>6
<1>6. ASSUME NEW u \in Update, RefusePublic(u) PROVE SerialInv'
  BY <1>1, <1>2, <1>6, AnswerSerial DEF RefusePublic, InFlight, OneRoleIn
<1>7. ASSUME NEW u \in Update, DeleteTuples(u) PROVE SerialInv'
  <2>1. phase[u] = "delete" /\ InFlight(u) /\ tuples' = Kept(tuples, ask[u])
    BY <1>7, CallEffects DEF DeleteTuples, InFlight
  <2>2. OneRoleIn(tuples)'
    BY <1>2, <2>1, KeptHasOneRole DEF OneRoleIn
  <2>3. CASE Additions(u) = {}
    BY <1>1, <1>7, <2>1, <2>2, <2>3, AnswerSerial DEF DeleteTuples
  <2>4. CASE Additions(u) # {}
    <3>1. phase'[u] = "write" /\ ask' = ask /\ seen' = seen
          /\ \A v \in Update \ {u} : phase'[v] = phase[v] /\ seen'[v] = seen[v]
      BY <1>2, <1>7, <2>4 DEF DeleteTuples, TypeOK
    <3>2. Knows(u)'
      BY <1>2, <2>1, <3>1
      DEF Knows, HasOwner, OneRoleIn, Kept, BadForPublic, RolesToRemove
    <3> QED BY <1>1, <2>1, <2>2, <3>1, <3>2, OthersIdle
  <2> QED BY <2>3, <2>4
<1>8. ASSUME NEW u \in Update, WriteTuples(u) PROVE SerialInv'
  <2>1. tuples' = Changed(seen[u], ask[u]) /\ OneRoleIn(seen[u]) /\ InFlight(u)
    BY <1>2, <1>8, CallEffects DEF WriteTuples, Knows, InFlight
  <2>2. OneRoleIn(tuples)'
    BY <1>2, <2>1, ChangedHasOneRole DEF OneRoleIn
  <2> QED BY <1>1, <1>8, <2>1, <2>2, AnswerSerial DEF WriteTuples
<1>9. ASSUME NEW u \in Update, CallRefused(u) PROVE SerialInv'
  BY <1>1, <1>2, <1>9, AnswerSerial DEF CallRefused, InFlight, OneRoleIn
<1>10. ASSUME NEW u \in Update, CallFails(u) PROVE SerialInv'
  <2>1. CASE UNCHANGED tuples
    BY <1>1, <1>2, <1>10, <2>1, AnswerSerial DEF CallFails, OneRoleIn
  <2>2. CASE phase[u] = "delete" /\ Delete(u)
    <3>1. OneRoleIn(tuples)'
      BY <1>2, <2>2, CallEffects, KeptHasOneRole DEF OneRoleIn
    <3> QED BY <1>1, <1>10, <3>1, AnswerSerial DEF CallFails
  <2>3. CASE phase[u] = "write" /\ Write(u)
    <3>1. OneRoleIn(tuples)'
      BY <1>2, <2>3, CallEffects, ChangedHasOneRole DEF OneRoleIn, Knows
    <3> QED BY <1>1, <1>10, <3>1, AnswerSerial DEF CallFails
  <2> QED BY <1>10, <2>1, <2>2, <2>3 DEF CallFails
<1>11. ASSUME UNCHANGED vars PROVE SerialInv'
  <2>1. \A u \in Update : Knows(u)'
    BY <1>2, <1>11
    DEF vars, Knows, HasOwner, OneRoleIn, Kept, BadForPublic, RolesToRemove
  <2> QED BY <1>1, <1>11, <2>1 DEF SerialInv, Alone, InFlight, OneRoleIn, vars
<1> QED BY <1>3, <1>4, <1>5, <1>6, <1>7, <1>8, <1>9, <1>10, <1>11 DEF Next, Locked

LEMMA SerialInvHolds ==
  ASSUME OneAtATime
  PROVE  Spec /\ []BoundNotMet => []SerialInv
<1>1. SerialInv /\ BoundNotMet /\ [Next]_vars => SerialInv'
  BY OneAtATime, SerialStep
<1> QED BY <1>1, InitSerial, PTL DEF Spec

(* Updates that come one at a time never give an architecture more tuples     *)
(* than a read returns when there are no more entities than that: the         *)
(* condition of the theorems below cannot fail there.                         *)
THEOREM FewEntitiesAreRead ==
  ASSUME OneAtATime, FewEntities
  PROVE  Spec => []BoundNotMet
<1>1. SerialInv => BoundNotMet
  BY FewTuples DEF SerialInv, TypeOK, BoundNotMet
<1>2. SerialInv /\ BoundNotMet /\ [Next]_vars => SerialInv'
  BY OneAtATime, SerialStep
<1> QED BY <1>1, <1>2, InitSerial, PTL DEF Spec

(* One update at a time, whoever the entities are: as long as an architecture *)
(* has no more tuples than a read returns, no entity ever has two roles,      *)
(* whatever fails.                                                            *)
THEOREM RolesAreUnique ==
  ASSUME OneAtATime
  PROVE  Spec /\ []BoundNotMet => []OneRole
<1>1. SerialInv => OneRole
  BY DEF SerialInv, OneRoleIn, OneRole, RolesOf
<1> QED BY <1>1, SerialInvHolds, PTL

-----------------------------------------------------------------------------
(* The action properties.                                                     *)

\* A call changes the tuples only for the one update in flight.
LEMMA TuplesChange ==
  ASSUME SerialInv, [Next]_vars, NEW u \in Update, InFlight(u)
  PROVE  \/ tuples \subseteq tuples'
         \/ phase[u] = "delete" /\ tuples' = Kept(tuples, ask[u])
<1>1. \/ tuples \subseteq tuples'
      \/ \E v \in Update : phase[v] = "delete" /\ Delete(v)
  BY DEF Next, Locked, vars, Start, ReadPage, ReadLastPage, RefusePublic,
         DeleteTuples, WriteTuples, CallRefused, CallFails, Write
<1>2. ASSUME NEW v \in Update, phase[v] = "delete" PROVE v = u
  BY <1>2 DEF SerialInv, Alone, InFlight, Answered
<1> QED BY <1>1, <1>2, CallEffects

(* One at a time, as long as an architecture has no more tuples than a read   *)
(* returns: an entity that has the role an update asks for it keeps it        *)
(* throughout the update, whatever fails.                                     *)
THEOREM RolesAskedForStay ==
  ASSUME OneAtATime
  PROVE  Spec /\ []BoundNotMet => KeptRoleStays
<1>1. ASSUME SerialInv, [Next]_vars, NEW u \in Update, NEW e \in Entity,
             InFlight(u), ask[u][e] \in RolesOf(e)
      PROVE  ask[u][e] \in RolesOf(e)'
  <2>1. PICK wish \in [Entity -> Wish] : wish = ask[u]
    BY <1>1 DEF SerialInv, TypeOK
  <2>2. wish[e] \in Role /\ Grant(e, wish[e]) \in tuples
    BY <1>1, <2>1 DEF RolesOf
  <2>3. CASE tuples \subseteq tuples'
    BY <2>1, <2>2, <2>3 DEF RolesOf
  <2>4. CASE phase[u] = "delete" /\ tuples' = Kept(tuples, wish)
    <3>1. ReadRole(tuples, e) = wish[e]
      BY <1>1, <2>2, ReadRoleIsRole DEF SerialInv
    <3>2. Grant(e, wish[e]) \notin RolesToRemove(wish, tuples)
      BY <3>1 DEF RolesToRemove, Grant
    <3> QED BY <2>1, <2>2, <2>4, <3>2 DEF Kept, RolesOf
  <2> QED BY <1>1, <2>1, <2>3, <2>4, TuplesChange
<1>2. SerialInv /\ [Next]_vars =>
        [\A u \in Update, e \in Entity :
           InFlight(u) /\ ask[u][e] \in RolesOf(e)
             => ask[u][e] \in RolesOf(e)']_vars
  BY <1>1
<1> QED BY <1>2, SerialInvHolds, PTL DEF Spec, KeptRoleStays

\* An update is answered "ok" when the tuples are as its wish makes them.
LEMMA OkIsChanged ==
  ASSUME BoundNotMet, SerialInv, [Next]_vars, NEW u \in Update, InFlight(u), phase'[u] = "ok"
  PROVE  \E S : OneRoleIn(S) /\ tuples' = Changed(S, ask[u])
<1> USE DEF Answered
<1>1. TypeOK /\ OneRoleIn(tuples) /\ Knows(u)
  BY DEF SerialInv
<1>2. ASSUME NEW v \in Update, NEW how \in Answered, Answer(v, how) PROVE v = u /\ how = "ok"
  BY <1>1, <1>2 DEF Answer, InFlight, TypeOK
<1>3. ASSUME NEW v \in Update, ReadLastPage(v)
      PROVE  \E S : OneRoleIn(S) /\ tuples' = Changed(S, ask[u])
  <2>1. PICK page \in NextPage(v) :
          /\ ReadEnds(v, page)
          /\ IF Plan(v, seen[v] \cup page) = "ok" THEN Answer(v, "ok")
             ELSE /\ phase' = [phase EXCEPT ![v] = Plan(v, seen[v] \cup page)]
                  /\ seen' = [seen EXCEPT ![v] = seen[v] \cup page]
                  /\ UNCHANGED ask
    BY <1>3 DEF ReadLastPage
  <2>2. Plan(v, seen[v] \cup page) = "ok" /\ v = u
    <3>1. CASE Plan(v, seen[v] \cup page) = "ok"
      BY <1>2, <2>1, <3>1
    <3>2. CASE Plan(v, seen[v] \cup page) # "ok"
      BY <1>1, <2>1, <3>2 DEF TypeOK, InFlight
    <3> QED BY <3>1, <3>2
  <2>3. seen[u] \cup page = tuples
    BY <1>1, <1>3, <2>1, <2>2, ReadsAll DEF Knows, ReadLastPage
  <2>4. RolesToRemove(ask[u], tuples) = {} /\ RolesToAdd(ask[u], tuples) = {}
    BY <2>2, <2>3 DEF Plan
  <2>5. tuples' = Changed(tuples, ask[u])
    BY <1>3, <2>4 DEF Changed, Kept, ReadLastPage
  <2> QED BY <1>1, <2>5
<1>4. ASSUME NEW v \in Update, DeleteTuples(v)
      PROVE  \E S : OneRoleIn(S) /\ tuples' = Changed(S, ask[u])
  <2>1. v = u /\ Additions(v) = {}
    <3>1. CASE Additions(v) = {}
      BY <1>2, <1>4, <3>1 DEF DeleteTuples
    <3>2. CASE Additions(v) # {}
      BY <1>1, <1>4, <3>2 DEF DeleteTuples, TypeOK, InFlight
    <3> QED BY <3>1, <3>2
  <2>2. seen[u] = tuples /\ tuples' = Kept(tuples, ask[u])
    BY <1>1, <1>4, <2>1, CallEffects DEF DeleteTuples, Knows
  <2>3. tuples' = Changed(tuples, ask[u])
    BY <2>1, <2>2 DEF Changed, Additions
  <2> QED BY <1>1, <2>3
<1>5. ASSUME NEW v \in Update, WriteTuples(v)
      PROVE  \E S : OneRoleIn(S) /\ tuples' = Changed(S, ask[u])
  <2>1. v = u /\ phase[u] = "write" /\ Write(u)
    BY <1>2, <1>5 DEF WriteTuples
  <2> QED BY <1>1, <2>1, CallEffects DEF Knows
<1>6. ~\E v \in Update : RefusePublic(v) \/ CallRefused(v) \/ CallFails(v)
  BY <1>2 DEF RefusePublic, CallRefused, CallFails
<1>7. ~\E v \in Update : Start(v) \/ ReadPage(v)
  BY <1>1 DEF Start, ReadPage, TypeOK, InFlight
<1>8. ~UNCHANGED vars
  BY DEF vars, InFlight
<1> QED BY <1>3, <1>4, <1>5, <1>6, <1>7, <1>8 DEF Next, Locked

(* One at a time, as long as an architecture has no more tuples than a read   *)
(* returns: an update that was answered 200 did what it says.                 *)
THEOREM OkMeansDone ==
  ASSUME OneAtATime
  PROVE  Spec /\ []BoundNotMet => AnsweredAsAsked
<1>1. ASSUME BoundNotMet, SerialInv, [Next]_vars, NEW u \in Update, InFlight(u), phase'[u] = "ok",
             NEW e \in Entity, ask[u][e] # "keep"
      PROVE  RolesOf(e)' = {ask[u][e]} \ {"none"}
  <2>1. PICK wish \in [Entity -> Wish] : wish = ask[u]
    BY <1>1 DEF SerialInv, TypeOK
  <2>2. PICK S : OneRoleIn(S) /\ tuples' = Changed(S, wish)
    BY <1>1, <2>1, OkIsChanged
  <2>3. \A r \in Role : Grant(e, r) \in Changed(S, wish) <=> r = wish[e]
    BY <1>1, <2>1, <2>2, ChangedRole
  <2>4. RolesOf(e)' = {r \in Role : r = wish[e]}
    BY <2>2, <2>3 DEF RolesOf
  <2>5. wish[e] \in Role \cup {"none"} /\ "none" \notin Role
    BY <1>1, <2>1 DEF Wish, Role
  <2> QED BY <2>1, <2>4, <2>5
<1>2. SerialInv /\ BoundNotMet /\ [Next]_vars =>
        [\A u \in Update :
          InFlight(u) /\ phase'[u] = "ok"
             => \A e \in Entity :
                   ask[u][e] # "keep" => RolesOf(e)' = {ask[u][e]} \ {"none"}]_vars
  BY <1>1
<1> QED BY <1>2, SerialInvHolds, PTL DEF Spec, AnsweredAsAsked

-----------------------------------------------------------------------------
(* The refinement.                                                            *)

RolesIn(S) == [e \in Entity |-> ReadRole(S, e)]

\* What is shown while update u is in flight, or nobody is.
ShownTuples(u) == IF phase[u] = "write" THEN seen[u] ELSE tuples

\* What an update removes it has read.
LEMMA RemovesSeen ==
  ASSUME NEW S, NEW wish
  PROVE  Kept(S, wish) \cup RolesToRemove(wish, S) = S
<1>1. RolesToRemove(wish, S) \subseteq S
  BY DEF RolesToRemove, ReadRole
<1> QED BY <1>1 DEF Kept

LEMMA ShownInFlight ==
  ASSUME SerialInv, NEW u \in Update, InFlight(u) \/ (\A v \in Update : ~InFlight(v))
  PROVE  ShownRole = RolesIn(ShownTuples(u))
<1>1. \A v \in Update : phase[v] = "write" => v = u
  BY DEF SerialInv, Alone, InFlight, Answered
<1>2. CASE phase[u] = "write"
  <2>1. Deleted = Removals(u)
    BY <1>1, <1>2 DEF Deleted
  <2>2. tuples \cup Deleted = seen[u]
    BY <1>2, <2>1, RemovesSeen DEF SerialInv, Knows, Removals
  <2> QED BY <1>2, <2>2 DEF ShownRole, RolesIn, ShownTuples
<1>3. CASE phase[u] # "write"
  <2>1. Deleted = {}
    BY <1>1, <1>3 DEF Deleted
  <2>2. tuples \cup Deleted = tuples
    BY <2>1
  <2> QED BY <1>3, <2>2 DEF ShownRole, RolesIn, ShownTuples
<1> QED BY <1>2, <1>3

\* The same of the state a step leads to.
LEMMA ShownAfter ==
  ASSUME SerialInv', NEW u \in Update, InFlight(u)' \/ (\A v \in Update : ~InFlight(v)')
  PROVE  ShownRole' = RolesIn(ShownTuples(u)')
<1>1. \A v \in Update : phase'[v] = "write" => v = u
  BY DEF SerialInv, Alone, InFlight, Answered
<1>2. CASE phase'[u] = "write"
  <2>1. Deleted' = Removals(u)'
    BY <1>1, <1>2 DEF Deleted
  <2>2. tuples' \cup Deleted' = seen'[u]
    BY <1>2, <2>1, RemovesSeen DEF SerialInv, Knows, Removals
  <2> QED BY <1>2, <2>2 DEF ShownRole, RolesIn, ShownTuples
<1>3. CASE phase'[u] # "write"
  <2>1. Deleted' = {}
    BY <1>1, <1>3 DEF Deleted
  <2>2. tuples' \cup Deleted' = tuples'
    BY <2>1
  <2> QED BY <1>3, <2>2 DEF ShownRole, RolesIn, ShownTuples
<1> QED BY <1>2, <1>3

\* From one role per entity, the two ways an update ends are steps of
\* AccessList.
LEMMA AbstractStep ==
  ASSUME NEW S, NEW T, NEW wish \in [Entity -> Wish], OneRoleIn(S), HasOwner(S),
         ~BadForPublic(wish), ShownRole = RolesIn(S), ShownRole' = RolesIn(T),
         T = Kept(S, wish) \/ T = Changed(S, wish)
  PROVE  Abstract!Next
<1>1. PICK e \in Entity : Grant(e, "owner") \in S
  BY DEF HasOwner
<1>2. ShownRole[e] = "owner"
  BY <1>1, ReadRoleIsRole DEF RolesIn, Role
<1>3. CASE T = Kept(S, wish)
  <2>1. Abstract!Lose(wish)
    BY <1>3, KeptRole DEF Abstract!Lose, RolesIn
  <2> QED BY <1>2, <2>1 DEF Abstract!Next, Abstract!Wish, Abstract!Role, Wish, Role, BadForPublic
<1>4. CASE T = Changed(S, wish)
  <2>1. Abstract!Change(wish)
    BY <1>4, ChangedRole DEF Abstract!Change, RolesIn
  <2> QED BY <1>2, <2>1 DEF Abstract!Next, Abstract!Wish, Abstract!Role, Wish, Role, BadForPublic
<1> QED BY <1>3, <1>4

LEMMA InitMaps == Init => Abstract!Init
<1> SUFFICES ASSUME Init PROVE Abstract!Init
  OBVIOUS
<1>1. PICK o \in Entity \ {PublicUser} : tuples = {Grant(o, "owner")}
  BY DEF Init
<1>2. Deleted = {}
  BY DEF Init, Deleted
<1>3. \A e \in Entity : ReadRole(tuples \cup Deleted, e) = IF e = o THEN "owner" ELSE "none"
  BY <1>1, <1>2 DEF ReadRole, Grant
<1> QED BY <1>1, <1>3 DEF Abstract!Init, ShownRole

\* An update that ends where it would leave the tuples as they are shown, as
\* Kept or as Changed is a step of AccessList or none.
LEMMA AnswerMaps ==
  ASSUME SerialInv, SerialInv', NEW u \in Update, InFlight(u), NEW how \in Answered,
         Answer(u, how),
         \/ tuples' = ShownTuples(u)
         \/ /\ phase[u] \in {"delete", "write"}
            /\ \/ tuples' = Kept(ShownTuples(u), ask[u])
               \/ tuples' = Changed(ShownTuples(u), ask[u])
  PROVE  [Abstract!Next]_ShownRole
<1>1. phase'[u] = how /\ \A v \in Update \ {u} : phase'[v] = phase[v]
  BY DEF Answer, SerialInv, TypeOK
<1>2. \A v \in Update : ~InFlight(v)'
  BY <1>1 DEF SerialInv, Alone, InFlight
<1>3. ShownRole' = RolesIn(tuples')
  <2>1. ShownRole' = RolesIn(ShownTuples(u)')
    BY <1>2, ShownAfter
  <2>2. ShownTuples(u)' = tuples'
    BY <1>1 DEF ShownTuples, Answered
  <2> QED BY <2>1, <2>2 DEF RolesIn
<1>4. ShownRole = RolesIn(ShownTuples(u))
  BY ShownInFlight
<1>5. CASE tuples' = ShownTuples(u)
  BY <1>3, <1>4, <1>5
<1>6. CASE phase[u] \in {"delete", "write"} /\ tuples' # ShownTuples(u)
  <2>1. OneRoleIn(ShownTuples(u)) /\ HasOwner(ShownTuples(u))
        /\ ~BadForPublic(ask[u]) /\ ask[u] \in [Entity -> Wish]
    BY <1>6 DEF SerialInv, Knows, ShownTuples, TypeOK
  <2> QED BY <1>3, <1>4, <1>6, <2>1, AbstractStep
<1> QED BY <1>5, <1>6

\* A step that answers nothing changes nothing that is shown.
LEMMA StutterMaps ==
  ASSUME SerialInv, SerialInv', NEW u \in Update,
         InFlight(u) \/ (\A v \in Update : ~InFlight(v)), InFlight(u)',
         ShownTuples(u)' = ShownTuples(u)
  PROVE  ShownRole' = ShownRole
<1>1. ShownRole = RolesIn(ShownTuples(u))
  BY ShownInFlight
<1>2. ShownRole' = RolesIn(ShownTuples(u)')
  BY ShownAfter
<1> QED BY <1>1, <1>2 DEF RolesIn

LEMMA StepMaps ==
  ASSUME OneAtATime, BoundNotMet, SerialInv, SerialInv', [Next]_vars
  PROVE  [Abstract!Next]_ShownRole
<1> USE DEF Answered
<1>1. TypeOK /\ OneRoleIn(tuples) /\ \A u \in Update : Knows(u)
  BY DEF SerialInv
<1>2. ASSUME NEW u \in Update, Start(u) PROVE ShownRole' = ShownRole
  <2>1. phase'[u] = "read" /\ tuples' = tuples /\ \A v \in Update : ~InFlight(v)
    BY <1>1, <1>2 DEF Start, TypeOK, OneAtATime
  <2>2. InFlight(u)' /\ ShownTuples(u)' = ShownTuples(u)
    BY <2>1 DEF InFlight, ShownTuples
  <2> QED BY <2>1, <2>2, StutterMaps
<1>3. ASSUME NEW u \in Update, ReadPage(u) PROVE ShownRole' = ShownRole
  <2>1. InFlight(u) /\ InFlight(u)' /\ ShownTuples(u)' = ShownTuples(u)
    BY <1>3 DEF ReadPage, InFlight, ShownTuples
  <2> QED BY <2>1, StutterMaps
<1>4. ASSUME NEW u \in Update, ReadLastPage(u) PROVE [Abstract!Next]_ShownRole
  <2>1. PICK page \in NextPage(u) :
          /\ ReadEnds(u, page)
          /\ IF Plan(u, seen[u] \cup page) = "ok" THEN Answer(u, "ok")
             ELSE /\ phase' = [phase EXCEPT ![u] = Plan(u, seen[u] \cup page)]
                  /\ seen' = [seen EXCEPT ![u] = seen[u] \cup page]
                  /\ UNCHANGED ask
    BY <1>4 DEF ReadLastPage
  <2>2. phase[u] = "read" /\ tuples' = tuples /\ InFlight(u) /\ ShownTuples(u) = tuples
    BY <1>4 DEF ReadLastPage, InFlight, ShownTuples
  <2>3. seen[u] \cup page = tuples
    BY <1>1, <2>1, <2>2, ReadsAll DEF Knows
  <2>4. CASE Plan(u, tuples) = "ok"
    BY <2>1, <2>2, <2>3, <2>4, AnswerMaps
  <2>5. CASE Plan(u, tuples) # "ok"
    <3>1. phase'[u] \in {"delete", "write"} /\ seen'[u] = tuples
      BY <1>1, <2>1, <2>3, <2>5 DEF TypeOK, Plan
    <3>2. InFlight(u)' /\ ShownTuples(u)' = ShownTuples(u)
      BY <2>2, <3>1 DEF InFlight, ShownTuples
    <3> QED BY <2>2, <3>2, StutterMaps
  <2> QED BY <2>4, <2>5
<1>5. ASSUME NEW u \in Update, RefusePublic(u) PROVE [Abstract!Next]_ShownRole
  BY <1>5, AnswerMaps DEF RefusePublic, InFlight, ShownTuples
<1>6. ASSUME NEW u \in Update, DeleteTuples(u) PROVE [Abstract!Next]_ShownRole
  <2>1. phase[u] = "delete" /\ InFlight(u) /\ ShownTuples(u) = tuples /\ seen[u] = tuples
        /\ tuples' = Kept(tuples, ask[u])
    BY <1>1, <1>6, CallEffects DEF DeleteTuples, InFlight, ShownTuples, Knows
  <2>2. CASE Additions(u) = {}
    BY <1>6, <2>1, <2>2, AnswerMaps DEF DeleteTuples
  <2>3. CASE Additions(u) # {}
    <3>1. phase'[u] = "write" /\ seen' = seen
      BY <1>1, <1>6, <2>3 DEF DeleteTuples, TypeOK
    <3>2. InFlight(u)' /\ ShownTuples(u)' = ShownTuples(u)
      BY <2>1, <3>1 DEF InFlight, ShownTuples
    <3> QED BY <2>1, <3>2, StutterMaps
  <2> QED BY <2>2, <2>3
<1>7. ASSUME NEW u \in Update, WriteTuples(u) PROVE [Abstract!Next]_ShownRole
  BY <1>7, CallEffects, AnswerMaps DEF WriteTuples, InFlight, ShownTuples
<1>8. ASSUME NEW u \in Update, phase[u] = "write", UNCHANGED tuples
      PROVE  tuples' = Kept(ShownTuples(u), ask[u])
  BY <1>1, <1>8 DEF Knows, ShownTuples
<1>9. ASSUME NEW u \in Update, CallRefused(u) PROVE [Abstract!Next]_ShownRole
  BY <1>8, <1>9, AnswerMaps DEF CallRefused, InFlight, ShownTuples
<1>10. ASSUME NEW u \in Update, CallFails(u) PROVE [Abstract!Next]_ShownRole
  BY <1>8, <1>10, CallEffects, AnswerMaps DEF CallFails, ShownTuples
<1>11. ASSUME UNCHANGED vars PROVE ShownRole' = ShownRole
  BY <1>11 DEF vars, ShownRole, Deleted, Removals
<1> QED BY <1>2, <1>3, <1>4, <1>5, <1>6, <1>7, <1>9, <1>10, <1>11 DEF Next, Locked

(* One at a time, as long as an architecture has no more tuples than a read   *)
(* returns, role updates implement AccessList: each takes effect at once or,  *)
(* when it fails, at worst costs the entities it was to change their role.    *)
THEOREM UpdatesAreAtomic ==
  ASSUME OneAtATime
  PROVE  Spec /\ []BoundNotMet => AtomicAccess
<1>1. SerialInv /\ SerialInv' /\ BoundNotMet /\ [Next]_vars => [Abstract!Next]_ShownRole
  BY OneAtATime, StepMaps
<1> QED BY <1>1, SerialInvHolds, InitMaps, PTL DEF Spec, AtomicAccess, Abstract!Spec
=============================================================================
