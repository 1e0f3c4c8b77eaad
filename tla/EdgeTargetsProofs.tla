------------------------- MODULE EdgeTargetsProofs -------------------------
(* Proofs about EdgeTargets, for any number of updates, nodes, environments   *)
(* and versions: its safety properties.                                       *)
EXTENDS EdgeTargets, TLAPS

(* An update that starts leaves the types intact; on: the version on the      *)
(* screen, base: the targets to go on from.                                   *)
LEMMA StartsTypes ==
    ASSUME TypeOK, NEW u \in Update, NEW on \in Version, NEW source \in Source \cup {None},
           NEW base \in [updating : BOOLEAN, version : 0 .. MaxVersion,
                         targets : [Source -> Version \cup {None}]],
           Starts(u, on, source, base)
    PROVE  /\ update' \in [Update -> UpdateState]
           /\ shown' \in [updating : BOOLEAN, version : 0 .. MaxVersion,
                          targets : [Source -> Version \cup {None}]]
  BY DEF Starts, TypeOK, UpdateState, Step

LEMMA NoTargetsTypes ==
    NoTargets \in [updating : BOOLEAN, version : 0 .. MaxVersion,
                   targets : [Source -> Version \cup {None}]]
  BY MaxVersionAssumption DEF NoTargets

LEMMA AskedTypes ==
    ASSUME update \in [Update -> UpdateState], NEW u \in Update
    PROVE  [update EXCEPT ![u].step = "asked"] \in [Update -> UpdateState]
  BY DEF UpdateState, Step

LEMMA InitTypes == Init => TypeOK
  <1> SUFFICES ASSUME Init PROVE TypeOK
    OBVIOUS
  <1>1. update \in [Update -> UpdateState]
    BY DEF Init, NoUpdate, UpdateState, Step, Token
  <1>2. screen \in Version
    BY DEF Init, Version
  <1> QED
    BY <1>1, <1>2, NoTargetsTypes DEF Init, TypeOK

LEMMA NextTypes == TypeOK /\ [Next]_vars => TypeOK'
  <1> SUFFICES ASSUME TypeOK, [Next]_vars PROVE TypeOK'
    OBVIOUS
  <1> USE MaxVersionAssumption
  <1>1. ASSUME NEW u \in Update, Edit(u) PROVE TypeOK'
    <2>1. latest[screen.env] + 1 \in 1 .. MaxVersion
      BY <1>1 DEF Edit, TypeOK, Version
    <2>2. latest' \in [Env -> 1 .. MaxVersion] /\ current' \in [Env -> 1 .. MaxVersion]
      BY <1>1, <2>1 DEF Edit, TypeOK, Version
    <2>3. screen' \in Version
      BY <1>1, <2>2 DEF Edit, TypeOK, Version
    <2>4. Starts(u, screen', None, NoTargets)
      BY <1>1 DEF Edit, Reset
    <2> QED
      BY <1>1, <2>2, <2>3, <2>4, StartsTypes, NoTargetsTypes DEF Edit, TypeOK
  <1>2. ASSUME NEW u \in Update, Refresh(u) PROVE TypeOK'
    <2>1. screen' \in Version
      BY <1>2 DEF Refresh, Version
    <2>2. Starts(u, screen', None, shown) /\ shown \in [updating : BOOLEAN,
              version : 0 .. MaxVersion, targets : [Source -> Version \cup {None}]]
      BY <1>2 DEF Refresh, TypeOK
    <2> QED
      BY <1>2, <2>1, <2>2, StartsTypes DEF Refresh, TypeOK
  <1>3. ASSUME NEW u \in Update, NEW n \in Source, ConnectStart(u, n) PROVE TypeOK'
    <2>1. Starts(u, screen, n, shown) /\ shown \in [updating : BOOLEAN,
              version : 0 .. MaxVersion, targets : [Source -> Version \cup {None}]]
      BY <1>3 DEF ConnectStart, TypeOK
    <2>2. screen \in Version
      BY DEF TypeOK
    <2> QED
      BY <1>3, <2>1, <2>2, StartsTypes DEF ConnectStart, TypeOK
  <1>4. ASSUME NEW u \in Update, Refreshed(u) PROVE TypeOK'
    <2>1. update' \in [Update -> UpdateState]
      BY <1>4, AskedTypes DEF Refreshed, TypeOK
    <2>2. shown' \in [updating : BOOLEAN, version : 0 .. MaxVersion,
                      targets : [Source -> Version \cup {None}]]
      BY <1>4 DEF Refreshed, TypeOK
    <2> QED
      BY <1>4, <2>1, <2>2 DEF Refreshed, TypeOK, Token
  <1>5. ASSUME NEW u \in Update, RefreshFails(u) PROVE TypeOK'
    BY <1>5 DEF RefreshFails, TypeOK, UpdateState, Step, Token, NoUpdate
  <1>6. ASSUME NEW u \in Update, NotSignedIn(u) PROVE TypeOK'
    <2>1. update' \in [Update -> UpdateState]
      BY <1>6, AskedTypes DEF NotSignedIn, TypeOK
    <2>2. shown' \in [updating : BOOLEAN, version : 0 .. MaxVersion,
                      targets : [Source -> Version \cup {None}]]
      BY <1>6 DEF NotSignedIn, TypeOK
    <2> QED
      BY <1>6, <2>1, <2>2 DEF NotSignedIn, TypeOK
  <1>7. ASSUME NEW u \in Update, Answer(u) PROVE TypeOK'
    <2>1. PICK reads \in BOOLEAN : update' = [update EXCEPT ![u] =
               IF reads /\ current[@.of.env] = @.of.version
               THEN [@ EXCEPT !.step = "answered", !.token = "old"] ELSE Failed]
      BY <1>7 DEF Answer
    <2>2. update' \in [Update -> UpdateState]
      <3>1. Failed \in UpdateState
        BY DEF UpdateState, Step, Token, Failed, NoUpdate
      <3>2. update \in [Update -> UpdateState]
        BY DEF TypeOK
      <3>3. [update[u] EXCEPT !.step = "answered", !.token = "old"] \in UpdateState
        BY <3>2 DEF UpdateState, Step, Token
      <3> QED
        BY <2>1, <3>1, <3>2, <3>3
    <2> QED
      BY <1>7, <2>2 DEF Answer, TypeOK
  <1>8. ASSUME NEW u \in Update, NoAnswer(u) PROVE TypeOK'
    BY <1>8 DEF NoAnswer, TypeOK, UpdateState, Step, Token, Failed, NoUpdate
  <1>9. ASSUME NEW u \in Update, Receive(u) PROVE TypeOK'
    <2>1. Targets(u) \in [Source -> Version \cup {None}]
      BY DEF Targets, TypeOK, UpdateState
    <2>2. shown' \in [updating : BOOLEAN, version : 0 .. MaxVersion,
                      targets : [Source -> Version \cup {None}]]
      BY <1>9, <2>1 DEF Receive, TypeOK, Version
    <2>3. update' \in [Update -> UpdateState]
      BY <1>9 DEF Receive, TypeOK, UpdateState, Step, Token, NoUpdate
    <2> QED
      BY <1>9, <2>2, <2>3 DEF Receive, TypeOK
  <1>10. ASSUME NEW u \in Update, Ignore(u) PROVE TypeOK'
    <2>1. update' \in [Update -> UpdateState]
      BY <1>10 DEF Ignore, TypeOK, UpdateState, Step, Token, NoUpdate
    <2> QED
      BY <1>10, <2>1 DEF Ignore, NotUpdating, TypeOK
  <1>11. CASE Expire
    BY <1>11 DEF Expire, TypeOK, Token
  <1>12. CASE GoTo
    <2>1. PICK v \in 1 .. latest[screen.env] : screen' = [screen EXCEPT !.version = v]
      BY <1>12 DEF GoTo
    <2>2. latest[screen.env] \in 1 .. MaxVersion
      BY DEF TypeOK, Version
    <2>3. screen' \in Version
      BY <2>1, <2>2 DEF TypeOK, Version
    <2> QED
      BY <1>12, <2>3 DEF GoTo, TypeOK
  <1>13. CASE SetCurrent
    BY <1>13 DEF SetCurrent, TypeOK, Version
  <1>14. ASSUME NEW e \in Env, OtherUser(e) PROVE TypeOK'
    <2>1. latest' \in [Env -> 1 .. MaxVersion]
      BY <1>14 DEF OtherUser, TypeOK
    <2> QED
      BY <1>14, <2>1 DEF OtherUser, TypeOK
  <1>15. CASE UNCHANGED vars
    BY <1>15 DEF vars, TypeOK
  <1> QED
    BY <1>1, <1>2, <1>3, <1>4, <1>5, <1>6, <1>7, <1>8, <1>9, <1>10, <1>11, <1>12, <1>13,
       <1>14, <1>15 DEF Next

(* Every variable keeps its type, however updates overlap and fail (TypeOK).  *)
THEOREM TypeCorrect == Spec => []TypeOK
  BY InitTypes, NextTypes, PTL DEF Spec

-----------------------------------------------------------------------------
(* The mark that an update is under way is set by an update that waits, and   *)
(* every way out of an update clears it.  An update that waits only stops     *)
(* waiting in a step that clears the mark (UpdatingMeansWaiting).             *)
THEOREM NobodyWaitsInVain == Spec => []UpdatingMeansWaiting
  <1>1. Init => UpdatingMeansWaiting
    BY DEF Init, NoTargets, UpdatingMeansWaiting
  <1>2. TypeOK /\ UpdatingMeansWaiting /\ [Next]_vars => UpdatingMeansWaiting'
    <2> SUFFICES ASSUME TypeOK, UpdatingMeansWaiting, [Next]_vars, shown'.updating
                 PROVE  \E u \in Update : update'[u].step \in {"asked", "answered", "failed"}
      BY DEF UpdatingMeansWaiting
    <2> DEFINE Waits(w) == update[w].step \in {"asked", "answered", "failed"}
    <2>0. ASSUME NEW u \in Update, NEW on, NEW source, NEW base, Starts(u, on, source, base),
                 base = shown \/ ~base.updating
          PROVE  \E w \in Update : Waits(w)'
      <3>1. CASE token = "live"
        BY <2>0, <3>1 DEF Starts, TypeOK
      <3>2. CASE token # "live"
        <4>1. shown' = base /\ base = shown
          BY <2>0, <3>2 DEF Starts
        <4>2. PICK w \in Update : Waits(w)
          BY <4>1 DEF UpdatingMeansWaiting
        <4> QED
          BY <2>0, <4>2 DEF Starts, TypeOK
      <3> QED
        BY <3>1, <3>2
    <2>1. ASSUME NEW u \in Update, Edit(u) PROVE \E w \in Update : Waits(w)'
      BY <2>0, <2>1 DEF Edit, Reset, NoTargets
    <2>2. ASSUME NEW u \in Update,
                 Refresh(u) \/ \E n \in Source : ConnectStart(u, n)
          PROVE \E w \in Update : Waits(w)'
      BY <2>0, <2>2 DEF Refresh, ConnectStart
    <2>3. ASSUME NEW u \in Update, Refreshed(u) \/ NotSignedIn(u)
          PROVE \E w \in Update : Waits(w)'
      BY <2>3 DEF Refreshed, NotSignedIn, TypeOK, UpdateState
    <2>4. ASSUME NEW u \in Update, RefreshFails(u) PROVE \E w \in Update : Waits(w)'
      <3>1. PICK w \in Update : Waits(w)
        BY <2>4 DEF RefreshFails, UpdatingMeansWaiting
      <3> QED
        BY <2>4, <3>1 DEF RefreshFails, TypeOK
    <2>5. ASSUME NEW u \in Update, Answer(u) \/ NoAnswer(u)
          PROVE \E w \in Update : Waits(w)'
      <3>1. update[u] \in UpdateState
        BY DEF TypeOK
      <3>2. update'[u].step \in {"answered", "failed"}
        <4>1. Failed.step = "failed"
          BY DEF Failed, NoUpdate
        <4>2. update'[u] = Failed \/ update'[u] = [update[u] EXCEPT !.step = "answered", !.token = "old"]
          BY <2>5 DEF Answer, NoAnswer, TypeOK
        <4> QED
          BY <3>1, <4>1, <4>2 DEF UpdateState
      <3> QED
        BY <3>2
    <2>6. ASSUME NEW u \in Update, Receive(u) \/ Ignore(u) PROVE FALSE
      BY <2>6 DEF Receive, Ignore, NotUpdating, TypeOK
    <2>7. ASSUME Expire \/ GoTo \/ SetCurrent \/ (\E e \in Env : OtherUser(e)) \/ UNCHANGED vars
          PROVE \E w \in Update : Waits(w)'
      BY <2>7 DEF Expire, GoTo, SetCurrent, OtherUser, vars, UpdatingMeansWaiting
    <2> QED
      BY <2>1, <2>2, <2>3, <2>4, <2>5, <2>6, <2>7 DEF Next
  <1> QED
    BY <1>1, <1>2, TypeCorrect, PTL DEF Spec

-----------------------------------------------------------------------------
(* The steps that bring targets in: those of an answer, for the version on    *)
(* the screen; all other steps keep the targets or forget them.               *)
LEMMA TargetSteps ==
    ASSUME TypeOK, [Next]_vars, NEW n \in Source
    PROVE  \/ shown'.targets[n] = shown.targets[n]
           \/ shown'.targets[n] = None
           \/ shown'.targets[n] = screen /\ screen' = screen
  <1>1. ASSUME NEW u \in Update, NEW on, NEW source, NEW base, Starts(u, on, source, base),
               base = shown \/ base = NoTargets
        PROVE  shown'.targets[n] \in {None, shown.targets[n]}
    BY <1>1 DEF Starts, NoTargets, TypeOK
  <1>2. ASSUME NEW u \in Update,
               Edit(u) \/ Refresh(u) \/ \E m \in Source : ConnectStart(u, m)
        PROVE shown'.targets[n] \in {None, shown.targets[n]}
    BY <1>1, <1>2 DEF Edit, Refresh, ConnectStart, Reset
  <1>3. ASSUME NEW u \in Update, Refreshed(u) \/ NotSignedIn(u) \/ Ignore(u)
        PROVE shown'.targets = shown.targets
    BY <1>3 DEF Refreshed, NotSignedIn, Ignore, NotUpdating, TypeOK
  <1>4. ASSUME NEW u \in Update, Receive(u)
        PROVE /\ shown'.targets[n] \in {screen, shown.targets[n]}
              /\ screen' = screen
    BY <1>4 DEF Receive, IsOfScreen, Targets
  <1>5. ASSUME NEW u \in Update, RefreshFails(u) \/ Answer(u) \/ NoAnswer(u)
        PROVE shown' = shown
    BY <1>5 DEF RefreshFails, Answer, NoAnswer
  <1>6. ASSUME Expire \/ GoTo \/ SetCurrent \/ (\E e \in Env : OtherUser(e)) \/ UNCHANGED vars
        PROVE shown' = shown
    BY <1>6 DEF Expire, GoTo, SetCurrent, OtherUser, vars
  <1> QED
    BY <1>2, <1>3, <1>4, <1>5, <1>6 DEF Next

(* While only edits change the screen, all the targets the store has are for  *)
(* what is on it.  A partial answer keeps the rest: that is why this is said  *)
(* of the targets whatever version they bear.                                 *)
TargetsInv == onlyEdits => \A n \in Source : shown.targets[n] \in {None, screen}

(* A connection is not judged by the targets of another version, as long as   *)
(* only edits change the screen (TargetsOfScreen).                            *)
THEOREM TargetsAreOfScreen == Spec => []TargetsOfScreen
  <1>1. Init => TargetsInv
    BY DEF Init, NoTargets, TargetsInv
  <1>2. TypeOK /\ TargetsInv /\ [Next]_vars => TargetsInv'
    <2> SUFFICES ASSUME TypeOK, TargetsInv, [Next]_vars, onlyEdits', NEW n \in Source
                 PROVE  shown'.targets[n] \in {None, screen'}
      BY DEF TargetsInv
    <2>1. ASSUME NEW u \in Update, Edit(u) PROVE shown'.targets[n] = None
      BY <2>1 DEF Edit, Starts, Reset, NoTargets
    <2>2. onlyEdits /\ (screen' = screen \/ \E u \in Update : Edit(u))
      <3>1. ASSUME NEW u \in Update,
                   ~Edit(u),
                   \/ Refresh(u) \/ \E m \in Source : ConnectStart(u, m)
                   \/ Refreshed(u) \/ RefreshFails(u) \/ NotSignedIn(u)
                   \/ Answer(u) \/ NoAnswer(u) \/ Receive(u) \/ Ignore(u)
            PROVE onlyEdits /\ screen' = screen
        BY <3>1 DEF Refresh, ConnectStart, Refreshed, RefreshFails, NotSignedIn, Answer,
                    NoAnswer, Receive, Ignore
      <3>2. ASSUME Expire \/ GoTo \/ SetCurrent \/ (\E e \in Env : OtherUser(e))
                   \/ UNCHANGED vars
            PROVE onlyEdits /\ screen' = screen
        BY <3>2 DEF Expire, GoTo, SetCurrent, OtherUser, vars
      <3>3. ASSUME NEW u \in Update, Edit(u) PROVE onlyEdits
        BY <3>3 DEF Edit
      <3> QED
        BY <3>1, <3>2, <3>3 DEF Next
    <2>3. CASE screen' = screen
      BY <2>2, <2>3, TargetSteps DEF TargetsInv
    <2> QED
      BY <2>1, <2>2, <2>3
  <1>3. TargetsInv => TargetsOfScreen
    BY DEF TargetsInv, TargetsOfScreen
  <1> QED
    BY <1>1, <1>2, <1>3, TypeCorrect, PTL DEF Spec
=============================================================================
