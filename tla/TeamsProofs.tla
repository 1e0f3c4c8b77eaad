---------------------------- MODULE TeamsProofs ----------------------------
(* Proofs about Teams, for any users, organizations, teams, names and calls:  *)
(* the types; that the two stores agree on the organization of a team; and, as*)
(* long as calls do not overlap, that names are unique, that members of a team*)
(* are in its organization and that only stopped creations leave ghosts.      *)
EXTENDS Teams, TLAPS

-----------------------------------------------------------------------------
(* Types.  What a call writes is made of its arguments: they must be there.   *)
Arguments ==
    \A c \in Call : IF ~Runs(c) THEN call[c].step = "idle" ELSE
        /\ call[c].user \in User
        /\ call[c].kind \in OfOrg => call[c].org \in Org
        /\ call[c].kind \notin OfOrg => call[c].team \in Team
        /\ call[c].kind = "create" =>
              /\ call[c].name \in Name
              /\ call[c].step # "start" => call[c].org \in Org

TypeInv == TypeOK /\ Arguments

LEMMA NoCallTypes == NoCall \in CallState /\ NoCall.kind = "none" /\ NoCall.step = "idle"
  BY DEF NoCall, CallState, Kind, Step, Opt

LEMMA InitTypes == Init => TypeInv
  <1> SUFFICES ASSUME Init PROVE TypeInv
    OBVIOUS
  <1>1. PICK home \in [User -> Org], admins \in SUBSET User :
            tuples = {Grant(u, "member", home[u]) : u \in User}
                     \cup {Grant(u, "admin", home[u]) : u \in admins}
    BY DEF Init
  <1>2. tuples \subseteq Tuple
    BY <1>1 DEF Grant, Tuple
  <1>3. \A g \in tuples : g.user \in User /\ g.object \in Org
    BY <1>1 DEF Grant
  <1>4. wasAdmin \subseteq User \X Org
    BY <1>3 DEF Init
  <1>5. call \in [Call -> CallState] /\ Arguments
    BY NoCallTypes DEF Init, Arguments, Runs
  <1> QED
    BY <1>2, <1>4, <1>5 DEF Init, TypeInv, TypeOK

(* The state of one call changes, to one with its arguments.                  *)
LEMMA CallTypes ==
    ASSUME TypeInv, NEW c \in Call, NEW s \in CallState, call' = [call EXCEPT ![c] = s],
           IF s.kind = "none" THEN s.step = "idle" ELSE
              /\ s.user \in User
              /\ s.kind \in OfOrg => s.org \in Org
              /\ s.kind \notin OfOrg => s.team \in Team
              /\ s.kind = "create" => s.name \in Name /\ (s.step # "start" => s.org \in Org)
    PROVE  call' \in [Call -> CallState] /\ Arguments'
  BY DEF TypeInv, TypeOK, Arguments, Runs

LEMMA EndsTypes ==
    ASSUME TypeInv, NEW c \in Call, Ends(c)
    PROVE  call' \in [Call -> CallState] /\ Arguments'
  BY CallTypes, NoCallTypes DEF Ends

LEMMA LeavesTypes ==
    ASSUME TypeInv, NEW c \in Call, Leaves(c)
    PROVE  TypeInv'
  BY EndsTypes DEF Leaves, history, TypeInv, TypeOK

LEMMA GoesTypes ==
    ASSUME TypeInv, NEW c \in Call, NEW step \in Step \ {"start"}, Goes(c, step),
           call[c].step # "start", Runs(c)
    PROVE  call' \in [Call -> CallState] /\ Arguments'
  <1> DEFINE s == [call[c] EXCEPT !.step = step]
  <1>1. call[c] \in CallState
    BY DEF TypeInv, TypeOK
  <1>2. s \in CallState /\ call' = [call EXCEPT ![c] = s]
    BY <1>1 DEF Goes, CallState
  <1>3. /\ s.kind = call[c].kind /\ s.user = call[c].user /\ s.org = call[c].org
        /\ s.team = call[c].team /\ s.name = call[c].name /\ s.step = step
    BY <1>1 DEF CallState
  <1> HIDE DEF s
  <1> QED
    BY <1>2, <1>3, CallTypes DEF TypeInv, Arguments, Runs

LEMMA OrganizationTypes ==
    /\ \A u : UsersOrganization(u) \in Opt(Org)
    /\ \A c, t : TeamOrganization(c, t) \in Opt(Org)
  BY DEF UsersOrganization, TeamOrganization, Opt

(* The tuple of a call is one of a user, in a team or an organization.        *)
LEMMA TupleTypes ==
    ASSUME TypeInv, NEW c \in Call, Runs(c)
    PROVE  /\ TupleOf(c) \in Tuple
           /\ TupleOf(c).relation \in {"member", "admin"}
           /\ call[c].kind = "addOrgAdmin" => <<call[c].user, call[c].org>> \in User \X Org
  BY DEF TypeInv, Arguments, TupleOf, Grant, Tuple, OfOrg

LEMMA BeginCreateTypes ==
    ASSUME TypeInv, NEW c \in Call, BeginCreate(c)
    PROVE  TypeInv'
  <1>1. PICK u \in User, t \in Team \ drawn, n \in Name :
          /\ call' = [call EXCEPT ![c] = [NoCall EXCEPT
                !.kind = "create", !.step = "start", !.user = u, !.team = t, !.name = n]]
          /\ drawn' = drawn \cup {t}
    BY DEF BeginCreate
  <1> DEFINE s == [NoCall EXCEPT
                !.kind = "create", !.step = "start", !.user = u, !.team = t, !.name = n]
  <1>2. s \in CallState
    BY DEF NoCall, CallState, Kind, Step, Opt
  <1>3. s.kind = "create" /\ s.step = "start" /\ s.user = u /\ s.team = t /\ s.name = n
    BY DEF NoCall
  <1>4. "create" \notin OfOrg
    BY DEF OfOrg
  <1>5. call' \in [Call -> CallState] /\ Arguments'
    <2> HIDE DEF s
    <2> QED
      BY <1>1, <1>2, <1>3, <1>4, CallTypes DEF s
  <1> QED
    BY <1>1, <1>5 DEF BeginCreate, MayBegin, TypeInv, TypeOK

LEMMA BeginTypes ==
    ASSUME TypeInv, NEW c \in Call, Begin(c)
    PROVE  TypeInv'
  <1>1. PICK kind \in OfTeam \cup OfOrg, u \in User, x \in {r.id : r \in rows} \cup Org :
          /\ kind \in OfTeam <=> x \in Team
          /\ call' = [call EXCEPT ![c] = [NoCall EXCEPT
                !.kind = kind, !.step = FirstStep(kind), !.user = u,
                !.team = IF x \in Team THEN x ELSE None,
                !.org = IF x \in Org THEN x ELSE None]]
    BY DEF Begin
  <1> DEFINE s == [NoCall EXCEPT
                !.kind = kind, !.step = FirstStep(kind), !.user = u,
                !.team = IF x \in Team THEN x ELSE None,
                !.org = IF x \in Org THEN x ELSE None]
  <1>2. kind \in OfOrg => kind \notin OfTeam
    BY DEF OfTeam, OfOrg
  <1>3. x \in Team \/ x \in Org
    BY DEF TypeInv, TypeOK, Row
  <1>4. FirstStep(kind) \in Step
    BY DEF FirstStep, Step, OfTeam, OfOrg
  <1>5. s \in CallState
    <2>1. (IF x \in Team THEN x ELSE None) \in Opt(Team) /\ (IF x \in Org THEN x ELSE None) \in Opt(Org)
      BY DEF Opt
    <2>2. kind \in Kind
      BY DEF Kind, OfTeam, OfOrg
    <2>3. u \in Opt(User)
      BY DEF Opt
    <2> DEFINE team == IF x \in Team THEN x ELSE None
               org == IF x \in Org THEN x ELSE None
               first == FirstStep(kind)
    <2>4. first \in Step /\ team \in Opt(Team) /\ org \in Opt(Org)
      BY <1>4, <2>1
    <2>5. s = [NoCall EXCEPT !.kind = kind, !.step = first, !.user = u, !.team = team, !.org = org]
      OBVIOUS
    <2> HIDE DEF s, team, org, first
    <2> QED
      BY <2>2, <2>3, <2>4, <2>5, NoCallTypes DEF CallState
  <1>6. s.kind = kind /\ s.user = u /\ (x \in Team => s.team = x) /\ (x \in Org => s.org = x)
    BY DEF NoCall
  <1>7. kind # "create" /\ kind # "none"
    BY DEF OfTeam, OfOrg
  <1>8. call' \in [Call -> CallState] /\ Arguments'
    <2>1. call' = [call EXCEPT ![c] = s]
      BY <1>1
    <2> HIDE DEF s
    <2>2. /\ s.kind # "none" /\ s.kind # "create" /\ s.user \in User
          /\ s.kind \in OfOrg => s.org \in Org
          /\ s.kind \notin OfOrg => s.team \in Team
      BY <1>1, <1>2, <1>3, <1>6, <1>7
    <2> QED
      BY <2>1, <2>2, <1>5, CallTypes
  <1> QED
    BY <1>1, <1>8 DEF Begin, MayBegin, TypeInv, TypeOK

LEMMA StartTypes ==
    ASSUME TypeInv, NEW c \in Call, Start(c)
    PROVE  TypeInv'
  <1> DEFINE o == UsersOrganization(call[c].user)
             s == [call[c] EXCEPT !.org = o, !.step = "name"]
  <1>1. CASE o = None
    BY <1>1, LeavesTypes DEF Start
  <1>2. CASE o # None
    <2>1. call[c] \in CallState /\ call[c].kind = "create"
      BY DEF TypeInv, TypeOK, Start, At
    <2>2. o \in Org
      BY <1>2, OrganizationTypes DEF Opt
    <2>3. call' = [call EXCEPT ![c] = s] /\ Same
      BY <1>2, <2>1 DEF Start, TypeInv, TypeOK
    <2>4. s \in CallState /\ s.kind = "create" /\ s.user = call[c].user /\ s.org = o
          /\ s.team = call[c].team /\ s.name = call[c].name
      BY <2>1, <2>2 DEF CallState, Step, Opt
    <2>5. call[c].user \in User /\ call[c].team \in Team /\ call[c].name \in Name
      BY <2>1 DEF TypeInv, Arguments, Runs, OfOrg
    <2>6. "create" \notin OfOrg
      BY DEF OfOrg
    <2>7. call' \in [Call -> CallState] /\ Arguments'
      <3> HIDE DEF s, o
      <3> QED
        BY <2>2, <2>3, <2>4, <2>5, <2>6, CallTypes
    <2> QED
      BY <2>3, <2>7 DEF Same, history, TypeInv, TypeOK
  <1> QED
    BY <1>1, <1>2

(* The read that decides for an update, whatever it compares with.            *)
LEMMA ReadsTypes ==
    ASSUME TypeInv, NEW c \in Call, Runs(c), call[c].step # "start",
           NEW o \in Opt(Org), NEW next \in Step \ {"start"}, Reads(c, o, next)
    PROVE  TypeInv'
  <1> DEFINE s == [call[c] EXCEPT !.seen = o, !.step = next]
  <1>1. CASE Leaves(c)
    BY <1>1, LeavesTypes
  <1>2. CASE ~Leaves(c)
    <2>1. call[c] \in CallState
      BY DEF TypeInv, TypeOK
    <2>2. call' = [call EXCEPT ![c] = s] /\ Same
      BY <1>2 DEF Reads, TypeInv, TypeOK
    <2>3. s \in CallState /\ s.kind = call[c].kind /\ s.user = call[c].user
          /\ s.org = call[c].org /\ s.team = call[c].team /\ s.name = call[c].name
      BY <2>1 DEF CallState
    <2>4. call' \in [Call -> CallState] /\ Arguments'
      <3> HIDE DEF s
      <3> QED
        BY <2>2, <2>3, CallTypes DEF TypeInv, Arguments, Runs
    <2> QED
      BY <2>2, <2>4 DEF Same, history, TypeInv, TypeOK
  <1> QED
    BY <1>1, <1>2

LEMMA WriteOrganizationTypes ==
    ASSUME TypeInv, NEW c \in Call, WriteOrganization(c)
    PROVE  TypeInv'
  <1> DEFINE s == [call[c] EXCEPT !.step = "user", !.own = {RowOf(c)}]
  <1>1. call[c] \in CallState /\ call[c].kind = "create" /\ Runs(c) /\ call[c].step # "start"
    BY DEF TypeInv, TypeOK, WriteOrganization, At, Runs
  <1>2. call[c].team \in Team /\ call[c].org \in Org /\ call[c].name \in Name
    BY <1>1 DEF TypeInv, Arguments, OfOrg
  <1>3. RowOf(c) \in Row /\ Grant(call[c].org, "organization", call[c].team) \in Tuple
    BY <1>2 DEF RowOf, Row, Grant, Tuple
  <1>4. call' = [call EXCEPT ![c] = s]
    BY DEF WriteOrganization, TypeInv, TypeOK
  <1>5. s \in CallState /\ s.kind = call[c].kind /\ s.user = call[c].user
        /\ s.org = call[c].org /\ s.team = call[c].team /\ s.name = call[c].name
    BY <1>1, <1>3 DEF CallState, Step
  <1>6. call' \in [Call -> CallState] /\ Arguments'
    <2> HIDE DEF s
    <2> QED
      BY <1>1, <1>4, <1>5, CallTypes DEF TypeInv, Arguments
  <1> QED
    BY <1>3, <1>6 DEF WriteOrganization, history, TypeInv, TypeOK

LEMMA RemoveTypes ==
    ASSUME TypeInv, NEW c \in Call, ListTeams(c) \/ NextTeam(c) \/ LeaveTeam(c) \/ NoTeamLeft(c)
    PROVE  TypeInv'
  <1>1. /\ call[c] \in CallState /\ call[c].kind = "removeOrgMember" /\ Runs(c)
        /\ call[c].step # "start"
    BY DEF TypeInv, TypeOK, ListTeams, NextTeam, LeaveTeam, NoTeamLeft, At, Runs
  <1>2. "removeOrgMember" \in OfOrg /\ {"next", "leave", "delete"} \subseteq Step \ {"start"}
    BY DEF OfOrg, Step
  <1>3. CASE Leaves(c)
    BY <1>3, LeavesTypes
  <1>4. CASE ListTeams(c) /\ ~Leaves(c)
    <2> DEFINE s == [call[c] EXCEPT !.teams = TeamsOf(call[c].user), !.step = "next"]
    <2>1. call' = [call EXCEPT ![c] = s] /\ Same
      BY <1>4 DEF ListTeams, TypeInv, TypeOK
    <2>2. s \in CallState /\ s.kind = call[c].kind /\ s.user = call[c].user /\ s.org = call[c].org
      BY <1>1, <1>2 DEF CallState, TeamsOf
    <2>3. call' \in [Call -> CallState] /\ Arguments'
      <3> HIDE DEF s
      <3> QED
        BY <1>1, <1>2, <2>1, <2>2, CallTypes DEF TypeInv, Arguments
    <2> QED
      BY <2>1, <2>3 DEF Same, history, TypeInv, TypeOK
  <1>5. CASE NextTeam(c) /\ ~Leaves(c)
    <2>1. PICK t \in call[c].teams :
            /\ call' = [call EXCEPT ![c].teams = @ \ {t}, ![c].team = t,
                  ![c].step = IF TeamOrganization(c, t) = call[c].org THEN "leave" ELSE "next"]
            /\ Same
      BY <1>5 DEF NextTeam
    <2> DEFINE s == [call[c] EXCEPT !.teams = @ \ {t}, !.team = t,
                  !.step = IF TeamOrganization(c, t) = call[c].org THEN "leave" ELSE "next"]
    <2>2. call' = [call EXCEPT ![c] = s]
      BY <2>1 DEF TypeInv, TypeOK
    <2>3. s \in CallState /\ s.kind = call[c].kind /\ s.user = call[c].user /\ s.org = call[c].org
      BY <1>1, <1>2 DEF CallState, Opt
    <2>4. call' \in [Call -> CallState] /\ Arguments'
      <3> HIDE DEF s
      <3> QED
        BY <1>1, <1>2, <2>2, <2>3, CallTypes DEF TypeInv, Arguments
    <2> QED
      BY <2>1, <2>4 DEF Same, history, TypeInv, TypeOK
  <1>6. CASE LeaveTeam(c) /\ ~Leaves(c)
    <2>1. Goes(c, "next") /\ tuples' \subseteq tuples
      BY <1>6 DEF LeaveTeam
    <2> QED
      BY <1>1, <1>2, <1>6, <2>1, GoesTypes DEF LeaveTeam, history, TypeInv, TypeOK
  <1>7. CASE NoTeamLeft(c)
    BY <1>1, <1>2, <1>7, GoesTypes DEF NoTeamLeft, Same, history, TypeInv, TypeOK
  <1> QED
    BY <1>3, <1>4, <1>5, <1>6, <1>7

LEMMA NextTypes == TypeInv /\ [Next]_vars => TypeInv'
  <1> SUFFICES ASSUME TypeInv, [Next]_vars PROVE TypeInv'
    OBVIOUS
  <1>0. {"organization", "user", "team", "write", "commit"} \subseteq Step \ {"start"}
    BY DEF Step
  <1>1. ASSUME NEW c \in Call, CheckName(c) \/ CheckAdmins(c) \/ CheckTeams(c) PROVE TypeInv'
    <2>1. CASE Leaves(c)
      BY <2>1, LeavesTypes
    <2>2. CASE ~Leaves(c)
      <3>1. Same /\ \E step \in {"organization", "user", "team"} : Goes(c, step)
        BY <1>1, <2>2 DEF CheckName, CheckAdmins, CheckTeams
      <3>2. Runs(c) /\ call[c].step # "start"
        BY <1>1 DEF CheckName, CheckAdmins, CheckTeams, At, Runs
      <3> QED
        BY <1>0, <3>1, <3>2, GoesTypes DEF Same, history, TypeInv, TypeOK
    <2> QED
      BY <2>1, <2>2
  <1>2. ASSUME NEW c \in Call, ReadUser(c) \/ ReadTeam(c), Runs(c) PROVE TypeInv'
    <2>1. \E o \in Opt(Org), next \in {"user", "team", "write"} : Reads(c, o, next)
      BY <1>2, OrganizationTypes DEF ReadUser, ReadTeam
    <2>2. call[c].step # "start"
      BY <1>2 DEF ReadUser, ReadTeam
    <2> QED
      BY <1>0, <1>2, <2>1, <2>2, ReadsTypes
  <1>3. ASSUME NEW c \in Call, WriteTuple(c), Runs(c) PROVE TypeInv'
    <2>1. CASE TupleOf(c) \in tuples
      BY <1>3, <2>1, LeavesTypes DEF WriteTuple
    <2>2. CASE TupleOf(c) \notin tuples
      <3>1. "commit" \in Step \ {"start"} /\ call[c].step # "start"
        BY <1>0, <1>3 DEF WriteTuple
      <3>2. Goes(c, "commit") \/ Ends(c)
        BY <1>3, <2>2 DEF WriteTuple
      <3>3. call' \in [Call -> CallState] /\ Arguments'
        BY <1>3, <3>1, <3>2, GoesTypes, EndsTypes
      <3> QED
        <4>0. /\ TupleOf(c) \in Tuple
              /\ call[c].kind = "addOrgAdmin" => <<call[c].user, call[c].org>> \in User \X Org
          BY <1>3, TupleTypes
        <4>1. tuples' \subseteq Tuple /\ rows' = rows /\ drawn' = drawn
              /\ stopped' = stopped /\ overlapped' = overlapped
          BY <1>3, <2>2, <4>0 DEF WriteTuple, TypeInv, TypeOK
        <4>2. wasAdmin' \subseteq User \X Org
          BY <1>3, <2>2, <4>0 DEF WriteTuple, TypeInv, TypeOK
        <4> QED
          BY <3>3, <4>1, <4>2 DEF TypeInv, TypeOK
    <2> QED
      BY <2>1, <2>2
  <1>4. ASSUME NEW c \in Call, Commit(c) PROVE TypeInv'
    <2>1. call[c].own \subseteq Row
      BY DEF TypeInv, TypeOK, CallState
    <2> QED
      BY <1>4, <2>1, EndsTypes DEF Commit, history, TypeInv, TypeOK
  <1>5. ASSUME NEW c \in Call, DeleteTuple(c) PROVE TypeInv'
    BY <1>5, EndsTypes DEF DeleteTuple, history, TypeInv, TypeOK
  <1>6. ASSUME NEW c \in Call, Crash(c) PROVE TypeInv'
    <2>1. call[c].kind = "create" => call[c].team \in Team
      BY <1>6 DEF Crash, TypeInv, Arguments, OfOrg
    <2> QED
      BY <1>6, <2>1, EndsTypes DEF Crash, TypeInv, TypeOK
  <1>7. ASSUME UNCHANGED vars PROVE TypeInv'
    BY <1>7 DEF vars, TypeInv, TypeOK, Arguments, Runs
  <1>8. ASSUME NEW c \in Call, ReadUser(c) \/ ReadTeam(c) \/ WriteTuple(c) PROVE Runs(c)
    BY <1>8 DEF ReadUser, ReadTeam, WriteTuple, TypeInv, Arguments
  <1> QED
    BY <1>1, <1>2, <1>3, <1>4, <1>5, <1>6, <1>7, <1>8, BeginCreateTypes, BeginTypes, StartTypes,
       WriteOrganizationTypes, RemoveTypes DEF Next

LEMMA TypesHold == Spec => []TypeInv
  BY InitTypes, NextTypes, PTL DEF Spec

(* Every variable keeps its type, whatever overlaps, fails or stops (TypeOK). *)
THEOREM TypeCorrect == Spec => []TypeOK
  BY TypesHold, PTL DEF TypeInv

-----------------------------------------------------------------------------
(* What steps change.  Of a creation its team and name never; its organization *)
(* and its row not after the row was added.                                   *)
Creating(c) == call[c].kind = "create"
Early(c) == call[c].step \in {"start", "name", "organization"}
SameTeam(c) == call'[c].team = call[c].team /\ call'[c].name = call[c].name
SameRow(c) == call'[c].org = call[c].org /\ call'[c].own = call[c].own

(* A step of one call leaves the others alone.                                *)
StepOf(c) ==
    \/ BeginCreate(c) \/ Begin(c)
    \/ Start(c) \/ CheckName(c) \/ WriteOrganization(c) \/ Commit(c)
    \/ CheckAdmins(c) \/ CheckTeams(c) \/ ReadUser(c) \/ ReadTeam(c) \/ WriteTuple(c)
    \/ ListTeams(c) \/ NextTeam(c) \/ LeaveTeam(c) \/ NoTeamLeft(c) \/ DeleteTuple(c)
    \/ Crash(c)

LEMMA OneCallSteps ==
    ASSUME TypeInv, NEW c \in Call, StepOf(c), NEW d \in Call \ {c}
    PROVE  call'[d] = call[d]
  <1>1. call \in [Call -> CallState]
    BY DEF TypeInv, TypeOK
  <1>2. ASSUME \/ Ends(c)
               \/ \E step : Goes(c, step)
               \/ \E o, next : Reads(c, o, next)
        PROVE call'[d] = call[d]
    BY <1>1, <1>2 DEF Ends, Goes, Reads, Leaves
  <1>3. ASSUME Commit(c) \/ CheckName(c) \/ CheckAdmins(c) \/ CheckTeams(c) \/ ReadUser(c)
               \/ ReadTeam(c) \/ WriteTuple(c) \/ LeaveTeam(c) \/ NoTeamLeft(c)
               \/ DeleteTuple(c) \/ Crash(c)
        PROVE call'[d] = call[d]
    <2>1. \/ Ends(c)
          \/ \E step : Goes(c, step)
          \/ \E o, next : Reads(c, o, next)
      BY <1>3 DEF Commit, CheckName, CheckAdmins, CheckTeams, ReadUser, ReadTeam, WriteTuple,
                  LeaveTeam, NoTeamLeft, DeleteTuple, Crash, Leaves
    <2> QED
      BY <1>2, <2>1
  <1>4. CASE BeginCreate(c) \/ Begin(c)
    BY <1>1, <1>4 DEF BeginCreate, Begin
  <1>5. CASE Start(c) \/ WriteOrganization(c)
    BY <1>1, <1>5 DEF Start, WriteOrganization, Leaves, Ends
  <1>6. CASE ListTeams(c) \/ NextTeam(c)
    BY <1>1, <1>6 DEF ListTeams, NextTeam, Leaves, Ends
  <1> QED
    BY <1>3, <1>4, <1>5, <1>6 DEF StepOf

(* A creation that runs after a step of its own.                              *)
LEMMA CreationSteps ==
    ASSUME TypeInv, NEW c \in Call, StepOf(c), Creating(c)'
    PROVE  \/ BeginCreate(c)
           \/ /\ Creating(c) /\ SameTeam(c)
              /\ \/ /\ Early(c) /\ Early(c)'
                    /\ call'[c].step = "organization" => ~NameTaken(c) /\ call'[c].org = call[c].org
                 \/ WriteOrganization(c)
                 \/ ~Early(c) /\ ~Early(c)' /\ SameRow(c)
  <1>1. call \in [Call -> CallState] /\ call[c] \in CallState
    BY DEF TypeInv, TypeOK
  <1>2. ~Ends(c) /\ ~Leaves(c)
    BY <1>1, NoCallTypes DEF Ends, Leaves, Creating
  <1>3. ~Begin(c)
    <2> SUFFICES ASSUME Begin(c) PROVE FALSE
      OBVIOUS
    <2>1. PICK kind \in OfTeam \cup OfOrg : call'[c].kind = kind
      BY <1>1, NoCallTypes DEF Begin, NoCall
    <2> QED
      BY <2>1 DEF Creating, OfTeam, OfOrg
  <1>4. CASE Start(c)
    BY <1>1, <1>2, <1>4 DEF Start, At, Early, Creating, SameTeam, CallState
  <1>5. CASE CheckName(c)
    BY <1>1, <1>2, <1>5 DEF CheckName, At, Goes, Early, Creating, SameTeam, CallState
  <1>6. CASE WriteOrganization(c)
    BY <1>1, <1>6 DEF WriteOrganization, At, Creating, SameTeam, CallState
  <1>7. CASE CheckAdmins(c) \/ CheckTeams(c)
    BY <1>1, <1>2, <1>7 DEF CheckAdmins, CheckTeams, At, Goes, Creating, CallState
  <1>8. CASE ReadUser(c) \/ ReadTeam(c)
    <2>1. \E o, next : next \in {"user", "team", "write"} /\ Reads(c, o, next)
      BY <1>8 DEF ReadUser, ReadTeam
    <2>2. PICK o, next : /\ next \in {"user", "team", "write"}
                         /\ call' = [call EXCEPT ![c].seen = o, ![c].step = next]
      BY <1>2, <2>1 DEF Reads
    <2>3. ~Early(c)
      BY <1>8 DEF ReadUser, ReadTeam, Early
    <2> QED
      BY <1>1, <2>2, <2>3 DEF Early, Creating, SameTeam, SameRow, CallState
  <1>9. CASE WriteTuple(c)
    BY <1>1, <1>2, <1>9 DEF WriteTuple, Goes, Early, Creating, SameTeam, SameRow, CallState
  <1>10. ~ListTeams(c) /\ ~NextTeam(c) /\ ~LeaveTeam(c) /\ ~NoTeamLeft(c)
    <2>1. ~LeaveTeam(c) /\ ~NoTeamLeft(c)
      BY <1>1, <1>2 DEF LeaveTeam, NoTeamLeft, At, Goes, Creating, CallState
    <2>2. ~ListTeams(c)
      BY <1>1, <1>2 DEF ListTeams, At, Creating, CallState
    <2>3. ASSUME NextTeam(c) PROVE FALSE
      <3>1. PICK t, step : call' = [call EXCEPT ![c].teams = @ \ {t}, ![c].team = t, ![c].step = step]
        BY <1>2, <2>3 DEF NextTeam
      <3>2. call'[c].kind = call[c].kind
        BY <1>1, <3>1 DEF CallState
      <3> QED
        BY <2>3, <3>2 DEF NextTeam, At, Creating
    <2> QED
      BY <2>1, <2>2, <2>3
  <1>11. ~Commit(c) /\ ~DeleteTuple(c) /\ ~Crash(c)
    BY <1>2 DEF Commit, DeleteTuple, Crash
  <1> QED
    BY <1>3, <1>4, <1>5, <1>6, <1>7, <1>8, <1>9, <1>10, <1>11 DEF StepOf

(* Rows are added by a commit; the organization of a team is written once, by *)
(* its creation; a uuid is drawn when one begins.                             *)
LEMMA StoreSteps ==
    ASSUME TypeInv, NEW c \in Call, StepOf(c)
    PROVE  /\ rows' = IF Commit(c) THEN rows \cup call[c].own ELSE rows
           /\ Commit(c) => call' = [call EXCEPT ![c] = NoCall] /\ Creating(c) /\ ~Early(c)
           /\ ~BeginCreate(c) => drawn' = drawn
           /\ \A t : OrgsOfTeam(t)' =
                 IF WriteOrganization(c) /\ t = call[c].team
                 THEN OrgsOfTeam(t) \cup {call[c].org} ELSE OrgsOfTeam(t)
  <1>0. Leaves(c) => rows' = rows /\ drawn' = drawn
    BY DEF Leaves
  <1>1. /\ rows' = IF Commit(c) THEN rows \cup call[c].own ELSE rows
        /\ ~BeginCreate(c) => drawn' = drawn
    <2>1. CASE BeginCreate(c) \/ Begin(c) \/ Commit(c)
      <3>1. BeginCreate(c) => ~Commit(c)
        BY DEF BeginCreate, MayBegin, Runs, Commit, At
      <3>2. Begin(c) => ~Commit(c) /\ rows' = rows /\ drawn' = drawn
        BY DEF Begin, MayBegin, Runs, Commit, At
      <3>3. BeginCreate(c) => rows' = rows
        BY DEF BeginCreate
      <3>4. Commit(c) => rows' = rows \cup call[c].own /\ drawn' = drawn
        BY DEF Commit
      <3> QED
        BY <2>1, <3>1, <3>2, <3>3, <3>4
    <2>2. CASE Start(c) \/ CheckName(c) \/ WriteOrganization(c) \/ CheckAdmins(c) \/ CheckTeams(c)
      <3>1. rows' = rows /\ drawn' = drawn
        BY <2>2, <1>0 DEF Start, CheckName, WriteOrganization, CheckAdmins, CheckTeams, Same
      <3>2. ~Commit(c)
        BY <2>2 DEF Start, CheckName, WriteOrganization, CheckAdmins, CheckTeams, Commit, At
      <3> QED
        BY <3>1, <3>2
    <2>3. CASE ReadUser(c) \/ ReadTeam(c) \/ WriteTuple(c)
      <3>1. rows' = rows /\ drawn' = drawn
        BY <2>3, <1>0 DEF ReadUser, ReadTeam, Reads, WriteTuple, Same
      <3>2. ~Commit(c)
        BY <2>3 DEF ReadUser, ReadTeam, WriteTuple, Commit, At
      <3> QED
        BY <3>1, <3>2
    <2>4. CASE ListTeams(c) \/ NextTeam(c) \/ LeaveTeam(c) \/ NoTeamLeft(c) \/ DeleteTuple(c)
      <3>1. rows' = rows /\ drawn' = drawn
        BY <2>4, <1>0 DEF ListTeams, NextTeam, LeaveTeam, NoTeamLeft, DeleteTuple, Same
      <3>2. ~Commit(c)
        BY <2>4 DEF ListTeams, NextTeam, LeaveTeam, NoTeamLeft, DeleteTuple, Commit, At
      <3> QED
        BY <3>1, <3>2
    <2>5. CASE Crash(c) /\ ~Commit(c)
      BY <2>5 DEF Crash
    <2> QED
      BY <2>1, <2>2, <2>3, <2>4, <2>5 DEF StepOf
  <1>2. Commit(c) => call' = [call EXCEPT ![c] = NoCall] /\ Creating(c) /\ ~Early(c)
    BY DEF Commit, Ends, At, Creating, Early
  <1>3. ASSUME NEW t, WriteOrganization(c)
        PROVE  OrgsOfTeam(t)' = IF t = call[c].team THEN OrgsOfTeam(t) \cup {call[c].org}
                                ELSE OrgsOfTeam(t)
    <2>1. call[c].org \in Org
      BY <1>3 DEF WriteOrganization, At, TypeInv, Arguments, Runs
    <2> QED
      BY <1>3, <2>1 DEF WriteOrganization, OrgsOfTeam, Has, Grant
  <1>4. ASSUME NEW t, ~WriteOrganization(c) PROVE OrgsOfTeam(t)' = OrgsOfTeam(t)
    <2>1. ASSUME NEW o, NEW g, g.relation # "organization",
                 tuples' = tuples \cup {g} \/ tuples' = tuples \ {g} \/ tuples' = tuples
          PROVE Has(o, "organization", t)' <=> Has(o, "organization", t)
      <3>1. Grant(o, "organization", t) # g
        BY <2>1 DEF Grant
      <3> QED
        BY <2>1, <3>1 DEF Has
    <2>2. \E g : /\ g.relation # "organization"
                 /\ tuples' = tuples \cup {g} \/ tuples' = tuples \ {g} \/ tuples' = tuples
      <3> DEFINE m == Grant(call[c].user, "member", call[c].team)
      <3>1. m.relation # "organization"
        BY DEF Grant
      <3>2. TupleOf(c).relation # "organization"
        BY DEF TupleOf, Grant
      <3>3. \/ tuples' = tuples
            \/ tuples' = tuples \ {m}
            \/ tuples' = tuples \cup {TupleOf(c)}
            \/ tuples' = tuples \ {TupleOf(c)}
        BY <1>4 DEF StepOf, BeginCreate, Begin, Start, CheckName, Commit, CheckAdmins,
               CheckTeams, ReadUser, ReadTeam, Reads, WriteTuple, ListTeams, NextTeam, LeaveTeam,
               NoTeamLeft, DeleteTuple, Crash, Same, Leaves
      <3> HIDE DEF m
      <3> QED
        BY <3>1, <3>2, <3>3
    <2> QED
      BY <2>1, <2>2 DEF OrgsOfTeam
  <1> QED
    BY <1>1, <1>2, <1>3, <1>4

-----------------------------------------------------------------------------
(* A new team is known to nobody else: its uuid is drawn for one creation,    *)
(* which writes its organization to both stores, and nothing else does.       *)
Fresh ==
    /\ \A r \in rows : r.id \in drawn /\ OrgsOfTeam(r.id) = {r.organization}
    /\ \A t \in Team \ drawn : OrgsOfTeam(t) = {}
    /\ \A c \in Call : Creating(c) =>
          /\ call[c].team \in drawn
          /\ \A r \in rows : r.id # call[c].team
          /\ \A d \in Call : Creating(d) /\ call[d].team = call[c].team => d = c
          /\ IF Early(c) THEN OrgsOfTeam(call[c].team) = {}
             ELSE /\ call[c].own = {RowOf(c)}
                  /\ OrgsOfTeam(call[c].team) = {call[c].org}

LEMMA InitFresh == Init => Fresh
  <1> SUFFICES ASSUME Init PROVE Fresh
    OBVIOUS
  <1>1. \A c \in Call : ~Creating(c)
    BY NoCallTypes DEF Init, Creating
  <1>2. \A g \in tuples : g.relation \in {"member", "admin"}
    BY DEF Init, Grant
  <1>3. \A t : OrgsOfTeam(t) = {}
    BY <1>2 DEF OrgsOfTeam, Has, Grant
  <1> QED
    BY <1>1, <1>3 DEF Init, Fresh

LEMMA NextFresh == TypeInv /\ Fresh /\ [Next]_vars => Fresh'
  <1> SUFFICES ASSUME TypeInv, Fresh, [Next]_vars PROVE Fresh'
    OBVIOUS
  <1>1. CASE UNCHANGED vars
    BY <1>1 DEF vars, Fresh, OrgsOfTeam, Has, Creating, Early, RowOf
  <1>2. ASSUME NEW c \in Call, StepOf(c) PROVE Fresh'
    <2>0. call \in [Call -> CallState] /\ drawn \subseteq Team /\ rows \subseteq Row
      BY DEF TypeInv, TypeOK
    <2>1. CASE BeginCreate(c)
      <3>1. PICK t \in Team \ drawn : /\ call'[c].team = t /\ call'[c].step = "start"
                                      /\ drawn' = drawn \cup {t}
        BY <2>0, <2>1, NoCallTypes DEF BeginCreate, NoCall
      <3>2. rows' = rows /\ \A x : OrgsOfTeam(x)' = OrgsOfTeam(x)
        BY <2>1 DEF BeginCreate, OrgsOfTeam, Has
      <3>3. \A d \in Call \ {c} : call'[d] = call[d]
        BY <1>2, OneCallSteps
      <3>4. Early(c)'
        BY <3>1 DEF Early
      <3>5. \A r \in rows : r.id # t
        BY <3>1 DEF Fresh
      <3>6. \A d \in Call : Creating(d) => call[d].team # t
        BY <3>1 DEF Fresh
      <3> QED
        BY <3>1, <3>2, <3>3, <3>4, <3>5, <3>6 DEF Fresh, Creating, Early, RowOf
    <2>2. CASE ~BeginCreate(c)
      <3>1. drawn' = drawn
        BY <1>2, <2>2, StoreSteps
      <3>2. \A d \in Call \ {c} : call'[d] = call[d]
        BY <1>2, OneCallSteps
      <3>3. \A d \in Call : Creating(d)' => Creating(d) /\ SameTeam(d)
        BY <1>2, <2>2, <3>2, CreationSteps DEF Creating, SameTeam
      <3>4. WriteOrganization(c) => Creating(c) /\ Early(c)
        BY DEF WriteOrganization, At, Creating, Early
      <3>5. ASSUME NEW r \in rows' PROVE r.id \in drawn' /\ OrgsOfTeam(r.id)' = {r.organization}
        <4>1. r \in rows \/ (Commit(c) /\ r = RowOf(c) /\ Creating(c) /\ ~Early(c))
          <5>1. CASE Commit(c)
            <6>1. Creating(c) /\ ~Early(c) /\ rows' = rows \cup call[c].own
              BY <1>2, <5>1, StoreSteps
            <6>2. call[c].own = {RowOf(c)}
              BY <6>1 DEF Fresh
            <6> QED
              BY <3>5, <5>1, <6>1, <6>2
          <5>2. CASE ~Commit(c)
            BY <1>2, <3>5, <5>2, StoreSteps
          <5> QED
            BY <5>1, <5>2
        <4>2. r.id \in drawn /\ OrgsOfTeam(r.id) = {r.organization}
          BY <4>1 DEF Fresh, RowOf
        <4>3. ~(WriteOrganization(c) /\ r.id = call[c].team)
          BY <3>4, <4>1 DEF Fresh
        <4> QED
          BY <1>2, <3>1, <4>2, <4>3, StoreSteps
      <3>6. ASSUME NEW t \in Team \ drawn' PROVE OrgsOfTeam(t)' = {}
        <4>1. ~(WriteOrganization(c) /\ t = call[c].team)
          BY <3>1, <3>4 DEF Fresh
        <4> QED
          BY <1>2, <3>1, <4>1, StoreSteps DEF Fresh
      <3>7. ASSUME NEW d \in Call, Creating(d)'
            PROVE  /\ call'[d].team \in drawn'
                   /\ \A r \in rows' : r.id # call'[d].team
                   /\ \A e \in Call : Creating(e)' /\ call'[e].team = call'[d].team => e = d
                   /\ IF Early(d)' THEN OrgsOfTeam(call[d].team)' = {}
                      ELSE /\ call'[d].own = {RowOf(d)'}
                           /\ OrgsOfTeam(call[d].team)' = {call'[d].org}
        <4>1. Creating(d) /\ call'[d].team = call[d].team /\ call'[d].name = call[d].name
          BY <3>3, <3>7 DEF SameTeam
        <4>2. call'[d].team \in drawn'
          BY <3>1, <4>1 DEF Fresh
        <4>3. \A e \in Call : Creating(e)' /\ call'[e].team = call'[d].team => e = d
          BY <3>3, <4>1 DEF Fresh, SameTeam
        <4>4. ASSUME NEW r \in rows' PROVE r.id # call'[d].team
          <5>1. CASE r \in rows
            BY <4>1, <5>1 DEF Fresh
          <5>2. CASE r \notin rows
            <6>1. Commit(c) /\ r = RowOf(c) /\ Creating(c)
              BY <1>2, <4>4, <5>2, StoreSteps DEF Fresh
            <6>2. call'[c] = NoCall
              BY <1>2, <2>0, <6>1, StoreSteps
            <6>3. d # c
              BY <3>7, <6>2, NoCallTypes DEF Creating
            <6> QED
              BY <4>1, <6>1, <6>3 DEF Fresh, RowOf
          <5> QED
            BY <5>1, <5>2
        <4>5. CASE d = c /\ WriteOrganization(c)
          <5>1. Early(c) /\ ~Early(c)'
            BY <2>0, <3>4, <4>5 DEF WriteOrganization, Early, CallState
          <5>2. call'[c].own = {RowOf(c)} /\ call'[c].org = call[c].org
            BY <2>0, <4>5 DEF WriteOrganization, CallState
          <5>3. RowOf(c)' = RowOf(c)
            BY <4>1, <4>5, <5>2 DEF RowOf
          <5>4. OrgsOfTeam(call[c].team) = {}
            BY <4>1, <4>5, <5>1 DEF Fresh
          <5>5. OrgsOfTeam(call[c].team)' = {call[c].org}
            BY <1>2, <2>0, <4>1, <4>5, <5>4, StoreSteps
          <5> QED
            BY <4>1, <4>2, <4>3, <4>4, <4>5, <5>1, <5>2, <5>3, <5>5
        <4>6. CASE ~(d = c /\ WriteOrganization(c))
          <5>1. \/ Early(d) /\ Early(d)'
                \/ ~Early(d) /\ ~Early(d)' /\ SameRow(d)
            BY <1>2, <2>2, <3>2, <3>7, <4>6, CreationSteps DEF Early, SameRow
          <5>2. ~(WriteOrganization(c) /\ call[d].team = call[c].team)
            BY <3>4, <4>1, <4>6 DEF Fresh
          <5>3. OrgsOfTeam(call[d].team)' = OrgsOfTeam(call[d].team)
            BY <1>2, <4>1, <5>2, StoreSteps
          <5>4. SameRow(d) => RowOf(d)' = RowOf(d)
            BY <4>1 DEF SameRow, RowOf
          <5> QED
            BY <4>1, <4>2, <4>3, <4>4, <5>1, <5>3, <5>4 DEF Fresh, SameRow
        <4> QED
          BY <4>5, <4>6
      <3> QED
        BY <3>5, <3>6, <3>7 DEF Fresh
    <2> QED
      BY <2>1, <2>2
  <1> QED
    BY <1>1, <1>2 DEF Next, StepOf

(* The tuple and the row of a team name the same one organization, whatever   *)
(* overlaps, fails or stops (StoresAgree, set_team_organization).             *)
THEOREM StoresAlwaysAgree == Spec => []StoresAgree
  <1>1. Fresh => StoresAgree
    BY DEF Fresh, StoresAgree
  <1> QED
    BY <1>1, InitFresh, NextFresh, TypesHold, PTL DEF Spec

-----------------------------------------------------------------------------
(* Without overlap no other call adds a row between the check of a name and   *)
(* the commit.                                                                *)
Alone == \A c, d \in Call : Runs(c) /\ Runs(d) => c = d
Checked == \A c \in Call :
    Creating(c) /\ call[c].step \notin {"start", "name"} => ~NameTaken(c)
NamesInv == ~overlapped => UniqueNames /\ Alone /\ Checked

LEMMA AloneSteps ==
    ASSUME TypeInv, NEW c \in Call, StepOf(c), ~overlapped', ~overlapped => Alone
    PROVE  /\ ~overlapped
           /\ \A d \in Call \ {c} : ~Runs(d) /\ ~Runs(d)'
  <1>1. CASE BeginCreate(c) \/ Begin(c)
    <2>1. ~overlapped /\ \A d \in Call : ~Runs(d)
      BY <1>1 DEF BeginCreate, Begin, MayBegin
    <2> QED
      BY <2>1, OneCallSteps DEF Runs
  <1>2. CASE ~(BeginCreate(c) \/ Begin(c))
    <2>1. Runs(c)
      BY <1>2 DEF StepOf, Start, CheckName, WriteOrganization, Commit, CheckAdmins, CheckTeams,
             ReadUser, ReadTeam, WriteTuple, ListTeams, NextTeam, LeaveTeam, NoTeamLeft,
             DeleteTuple, Crash, At, Runs, TypeInv, Arguments
    <2>2. overlapped' = overlapped
      <3>1. Leaves(c) => overlapped' = overlapped
        BY DEF Leaves, history
      <3>2. Same => overlapped' = overlapped
        BY DEF Same, history
      <3>3. CASE Start(c) \/ CheckName(c) \/ CheckAdmins(c) \/ CheckTeams(c) \/ ListTeams(c)
                 \/ NextTeam(c) \/ NoTeamLeft(c)
        BY <3>1, <3>2, <3>3 DEF Start, CheckName, CheckAdmins, CheckTeams, ListTeams, NextTeam,
                                NoTeamLeft
      <3>4. CASE ReadUser(c) \/ ReadTeam(c)
        BY <3>1, <3>2, <3>4 DEF ReadUser, ReadTeam, Reads
      <3>5. CASE WriteOrganization(c) \/ Commit(c) \/ DeleteTuple(c) \/ Crash(c)
        BY <3>5 DEF WriteOrganization, Commit, DeleteTuple, Crash, history
      <3>6. CASE WriteTuple(c) \/ LeaveTeam(c)
        BY <3>1, <3>6 DEF WriteTuple, LeaveTeam, history
      <3> QED
        BY <1>2, <3>3, <3>4, <3>5, <3>6 DEF StepOf
    <2> QED
      BY <2>1, <2>2, OneCallSteps DEF Alone, Runs
  <1> QED
    BY <1>1, <1>2

(* As long as no two calls overlapped, an organization has one team of a name *)
(* (UniqueNames): the check of set_team_organization still holds at the commit. *)
THEOREM NamesAreUnique == Spec => []UniqueNames
  <1>1. Init => NamesInv
    BY NoCallTypes DEF Init, NamesInv, UniqueNames, Alone, Checked, Runs, Creating
  <1>2. TypeInv /\ Fresh /\ NamesInv /\ [Next]_vars => NamesInv'
    <2> SUFFICES ASSUME TypeInv, Fresh, NamesInv, [Next]_vars, ~overlapped'
                 PROVE  UniqueNames' /\ Alone' /\ Checked'
      BY DEF NamesInv
    <2>1. CASE UNCHANGED vars
      BY <2>1 DEF vars, NamesInv, UniqueNames, Alone, Checked, Runs, Creating, NameTaken
    <2>2. ASSUME NEW c \in Call, StepOf(c) PROVE UniqueNames' /\ Alone' /\ Checked'
      <3>0. call \in [Call -> CallState] /\ call[c] \in CallState
        BY DEF TypeInv, TypeOK
      <3>1. ~overlapped /\ \A d \in Call \ {c} : ~Runs(d) /\ ~Runs(d)'
        BY <2>2, AloneSteps DEF NamesInv
      <3>2. Alone'
        BY <3>1 DEF Alone
      <3>3. UniqueNames'
        <4>1. CASE ~Commit(c)
          BY <2>2, <3>1, <4>1, StoreSteps DEF NamesInv, UniqueNames
        <4>2. CASE Commit(c)
          <5>1. rows' = rows \cup {RowOf(c)}
            BY <2>2, <4>2, StoreSteps DEF Fresh
          <5>2. ~NameTaken(c)
            BY <3>1, <4>2 DEF Commit, At, Creating, NamesInv, Checked
          <5> QED
            BY <3>1, <5>1, <5>2 DEF NamesInv, UniqueNames, NameTaken, RowOf
        <4> QED
          BY <4>1, <4>2
      <3>4. ASSUME NEW d \in Call, Creating(d)', call'[d].step \notin {"start", "name"}
            PROVE  ~NameTaken(d)'
        <4>1. d = c
          BY <3>1, <3>4 DEF Creating, Runs
        <4>2. ~BeginCreate(c)
          BY <3>0, <3>4, <4>1, NoCallTypes DEF BeginCreate, NoCall
        <4>3. rows' = rows
          <5>1. Commit(c) => call'[c] = NoCall
            BY <2>2, <3>0, StoreSteps
          <5> QED
            BY <2>2, <3>4, <4>1, <5>1, NoCallTypes, StoreSteps DEF Creating
        <4>4. Creating(c) /\ call'[c].name = call[c].name
          BY <2>2, <3>4, <4>1, <4>2, CreationSteps DEF SameTeam
        <4>5. ~NameTaken(c) /\ call'[c].org = call[c].org
          <5>1. CASE WriteOrganization(c)
            BY <3>0, <3>1, <4>4, <5>1 DEF WriteOrganization, At, NamesInv, Checked, CallState
          <5>2. CASE ~Early(c) /\ SameRow(c)
            BY <3>1, <4>4, <5>2 DEF NamesInv, Checked, Early, SameRow
          <5>3. CASE Early(c) /\ Early(c)'
            <6>1. call'[c].step = "organization"
              BY <3>4, <4>1, <5>3 DEF Early
            <6>2. ~WriteOrganization(c)
              BY <3>0, <6>1 DEF WriteOrganization, CallState
            <6> QED
              BY <2>2, <3>4, <4>1, <4>2, <5>3, <6>1, <6>2, CreationSteps
          <5> QED
            BY <2>2, <3>4, <4>1, <4>2, <5>1, <5>2, <5>3, CreationSteps
        <4> QED
          BY <4>1, <4>3, <4>4, <4>5 DEF NameTaken
      <3> QED
        BY <3>2, <3>3, <3>4 DEF Checked
    <2> QED
      BY <2>1, <2>2 DEF Next, StepOf
  <1>3. NamesInv => UniqueNames
    BY DEF NamesInv, UniqueNames
  <1> QED
    BY <1>1, <1>2, <1>3, InitFresh, NextFresh, TypesHold, PTL DEF Spec

-----------------------------------------------------------------------------
(* Without overlap what a call has read is still so when it writes.  The      *)
(* steps of a call of each kind:                                              *)
StepsOf(kind) ==
    CASE kind = "none" -> {"idle"}
      [] kind = "create" -> {"start", "name", "organization", "user", "team", "write", "commit"}
      [] kind = "addMember" -> {"teams", "team", "user", "write"}
      [] kind = "addAdmin" -> {"admins", "user", "team", "write"}
      [] kind = "addOrgMember" -> {"write"}
      [] kind = "addOrgAdmin" -> {"user", "write"}
      [] kind = "removeOrgMember" -> {"teams", "next", "leave", "delete"}
      [] kind \in {"removeMember", "removeAdmin", "removeOrgAdmin"} -> {"delete"}

InTeam(u, t, o) == Has(u, "member", t) /\ Has(o, "organization", t)

(* A creation: nobody knows its team before it writes the organization; the   *)
(* user is in that organization; the team has no administrator.               *)
CreateKnows(c) ==
    /\ Early(c) => \A g \in tuples : g.object # call[c].team
    /\ call[c].step # "start" => OrgsOf(call[c].user) = {call[c].org}
    /\ Early(c) \/ call[c].step = "user" => call[c].seen = None
    /\ call[c].step = "team" => call[c].seen = call[c].org
    /\ call[c].step # "commit" => TupleOf(c) \notin tuples

(* add_team_member: the organization it read is that of the team, then that   *)
(* of the user too.                                                           *)
AddKnows(c) ==
    /\ call[c].step \in {"teams", "team"} => call[c].seen = None
    /\ call[c].step \in {"user", "write"} => OrgsOfTeam(call[c].team) = {call[c].seen}
    /\ call[c].step = "write" => OrgsOf(call[c].user) = {call[c].seen}

(* remove_org_member: the teams of the organization the user is still in are  *)
(* those it has yet to leave.                                                 *)
RemoveKnows(c) ==
    call[c].step # "teams" => \A t \in Team : InTeam(call[c].user, t, call[c].org) =>
        \/ call[c].step \in {"next", "leave"} /\ t \in call[c].teams
        \/ call[c].step = "leave" /\ t = call[c].team

Knows(c) ==
    /\ call[c].step \in StepsOf(call[c].kind)
    /\ call[c].kind \in OfTeam => \E r \in rows : r.id = call[c].team
    /\ Creating(c) => CreateKnows(c)
    /\ call[c].kind = "addMember" => AddKnows(c)
    /\ call[c].kind = "removeOrgMember" => RemoveKnows(c)

KnownDrawn == \A g \in tuples : g.object \in Team => g.object \in drawn
AdminsWere == \A u \in User, o \in Org : Has(u, "admin", o) => <<u, o>> \in wasAdmin

MembersInv ==
    ~overlapped => /\ Alone /\ KnownDrawn /\ AdminsWere /\ MembersInOrg /\ NoGhosts
                   /\ \A c \in Call : Knows(c)

(* What the reads of an organization return.                                  *)
LEMMA Organizations ==
    /\ \A u : \A o \in Org : UsersOrganization(u) = o <=> OrgsOf(u) = {o}
    /\ \A c, t : \A o \in Org : TeamOrganization(c, t) = o => OrgsOfTeam(t) = {o}
    /\ \A c, t : \A r \in rows \cup call[c].own :
          r.id = t /\ r.organization \in Org /\ OrgsOfTeam(t) = {r.organization}
              => TeamOrganization(c, t) = r.organization
  <1>1. ASSUME NEW u, NEW o \in Org PROVE UsersOrganization(u) = o <=> OrgsOf(u) = {o}
    BY NoneAssumption DEF UsersOrganization
  <1>2. ASSUME NEW c, NEW t, \E r \in rows \cup call[c].own : r.id = t /\ OrgsOfTeam(t) = {r.organization},
               \E o \in Org : OrgsOfTeam(t) = {o}
        PROVE  OrgsOfTeam(t) = {TeamOrganization(c, t)}
    BY <1>2 DEF TeamOrganization
  <1>3. \A t, x : OrgsOfTeam(t) = {x} => x \in Org
    BY DEF OrgsOfTeam
  <1>4. ASSUME NEW c, NEW t, NEW o \in Org, TeamOrganization(c, t) = o PROVE OrgsOfTeam(t) = {o}
    <2>1. \E r \in rows \cup call[c].own : r.id = t /\ OrgsOfTeam(t) = {r.organization}
      BY <1>4, NoneAssumption DEF TeamOrganization
    <2> QED
      BY <1>2, <1>3, <1>4, <2>1
  <1>5. ASSUME NEW c, NEW t, NEW r \in rows \cup call[c].own, r.id = t, r.organization \in Org,
               OrgsOfTeam(t) = {r.organization}
        PROVE  TeamOrganization(c, t) = r.organization
    BY <1>2, <1>5
  <1> QED
    BY <1>1, <1>4, <1>5

(* What a step does to the tuples, and to what is remembered of them.         *)
LEMMA TupleSteps ==
    ASSUME NEW c \in Call, StepOf(c)
    PROVE  /\ stopped \subseteq stopped' /\ wasAdmin \subseteq wasAdmin'
           /\ \/ tuples' = tuples /\ ~WriteOrganization(c)
              \/ /\ WriteOrganization(c)
                 /\ tuples' = tuples \cup {Grant(call[c].org, "organization", call[c].team)}
              \/ /\ WriteTuple(c) /\ TupleOf(c) \notin tuples
                 /\ tuples' = tuples \cup {TupleOf(c)}
                 /\ call[c].kind = "addOrgAdmin" => <<call[c].user, call[c].org>> \in wasAdmin'
              \/ /\ LeaveTeam(c)
                 /\ tuples' = tuples \ {Grant(call[c].user, "member", call[c].team)}
              \/ DeleteTuple(c) /\ tuples' = tuples \ {TupleOf(c)}
  <1>1. Leaves(c) \/ Same => /\ tuples' = tuples /\ stopped' = stopped /\ wasAdmin' = wasAdmin
    BY DEF Leaves, Same, history
  <1>2. CASE BeginCreate(c) \/ Begin(c)
    BY <1>2 DEF BeginCreate, Begin, MayBegin, WriteOrganization, At, Runs
  <1>3. CASE Start(c) \/ CheckName(c) \/ CheckAdmins(c) \/ CheckTeams(c) \/ ReadUser(c)
             \/ ReadTeam(c) \/ ListTeams(c) \/ NextTeam(c) \/ NoTeamLeft(c)
    <2>1. Leaves(c) \/ Same
      BY <1>3 DEF Start, CheckName, CheckAdmins, CheckTeams, ReadUser, ReadTeam, Reads, ListTeams,
                  NextTeam, NoTeamLeft
    <2>2. ~WriteOrganization(c)
      BY <1>3 DEF Start, CheckName, CheckAdmins, CheckTeams, ReadUser, ReadTeam, ListTeams,
                  NextTeam, NoTeamLeft, WriteOrganization, At
    <2> QED
      BY <1>1, <2>1, <2>2
  <1>4. CASE WriteOrganization(c)
    BY <1>4 DEF WriteOrganization, history
  <1>5. CASE Commit(c)
    BY <1>5 DEF Commit, history, WriteOrganization, At
  <1>6. CASE WriteTuple(c)
    <2>1. ~WriteOrganization(c)
      BY <1>6 DEF WriteTuple, WriteOrganization, At
    <2> QED
      BY <1>1, <1>6, <2>1 DEF WriteTuple
  <1>7. CASE LeaveTeam(c)
    <2>1. ~WriteOrganization(c)
      BY <1>7 DEF LeaveTeam, WriteOrganization, At
    <2> QED
      BY <1>1, <1>7, <2>1 DEF LeaveTeam, history
  <1>8. CASE DeleteTuple(c)
    BY <1>8 DEF DeleteTuple, history
  <1>9. CASE Crash(c) /\ ~WriteOrganization(c)
    BY <1>9 DEF Crash
  <1> QED
    BY <1>2, <1>3, <1>4, <1>5, <1>6, <1>7, <1>8, <1>9 DEF StepOf

(* A creation whose organization is kept has nothing left to fail on: it goes *)
(* on, commits or is stopped.                                                 *)
LEMMA CreationGoesOn ==
    ASSUME TypeInv, Fresh, NEW c \in Call, StepOf(c), Knows(c), Creating(c), ~Early(c)
    PROVE  \/ Creating(c)' /\ SameTeam(c)
           \/ Commit(c)
           \/ Crash(c)
  <1>0. call \in [Call -> CallState] /\ call[c] \in CallState
    BY DEF TypeInv, TypeOK
  <1>1. /\ call[c].kind = "create" /\ call[c].step \in {"user", "team", "write", "commit"}
        /\ call[c].team \in Team /\ call[c].org \in Org
    BY DEF Creating, Early, Knows, StepsOf, TypeInv, Arguments, Runs, OfOrg
  <1>2. CreateKnows(c) /\ OrgsOfTeam(call[c].team) = {call[c].org} /\ RowOf(c) \in call[c].own
    BY DEF Knows, Fresh
  <1>3. ASSUME NEW step, Goes(c, step) PROVE Creating(c)' /\ SameTeam(c)
    BY <1>0, <1>3 DEF Goes, CallState, Creating, SameTeam
  <1>4. ASSUME NEW next, Reads(c, call[c].org, next), Expected(c, call[c].org) = call[c].org
        PROVE  Creating(c)' /\ SameTeam(c)
    BY <1>0, <1>1, <1>4, NoneAssumption DEF Reads, CallState, Creating, SameTeam
  <1>5. CASE ReadUser(c)
    <2>1. UsersOrganization(call[c].user) = call[c].org
      BY <1>1, <1>2, <1>5, Organizations DEF ReadUser, CreateKnows
    <2>2. Expected(c, call[c].org) = call[c].org
      BY <1>1, <1>2, <1>5 DEF ReadUser, CreateKnows, Expected
    <2> QED
      BY <1>4, <1>5, <2>1, <2>2 DEF ReadUser
  <1>6. CASE ReadTeam(c)
    <2>1. TeamOrganization(c, call[c].team) = call[c].org
      BY <1>1, <1>2, Organizations DEF RowOf
    <2>2. Expected(c, call[c].org) = call[c].org
      BY <1>1, <1>2, <1>6 DEF ReadTeam, CreateKnows, Expected
    <2> QED
      BY <1>4, <1>6, <2>1, <2>2 DEF ReadTeam
  <1>7. CASE WriteTuple(c)
    <2>1. TupleOf(c) \notin tuples
      BY <1>2, <1>7 DEF WriteTuple, CreateKnows
    <2> QED
      BY <1>1, <1>3, <1>7, <2>1 DEF WriteTuple
  <1>8. ~BeginCreate(c) /\ ~Begin(c)
    BY <1>1 DEF BeginCreate, Begin, MayBegin, Runs
  <1>9. /\ ~Start(c) /\ ~CheckName(c) /\ ~WriteOrganization(c) /\ ~CheckAdmins(c) /\ ~CheckTeams(c)
        /\ ~ListTeams(c) /\ ~NextTeam(c) /\ ~LeaveTeam(c) /\ ~NoTeamLeft(c) /\ ~DeleteTuple(c)
    BY <1>1 DEF Start, CheckName, WriteOrganization, CheckAdmins, CheckTeams, ListTeams, NextTeam,
                LeaveTeam, NoTeamLeft, DeleteTuple, At
  <1> QED
    BY <1>5, <1>6, <1>7, <1>8, <1>9 DEF StepOf

(* The team or organization of the tuple a call writes.                       *)
LEMMA WrittenObject ==
    ASSUME TypeInv, Fresh, NEW c \in Call, WriteTuple(c), Knows(c)
    PROVE  LET g == TupleOf(c) IN
           /\ g.user = call[c].user /\ call[c].user \in User
           /\ \/ /\ call[c].kind \in {"addOrgMember", "addOrgAdmin"}
                 /\ g.object = call[c].org /\ g.object \in Org /\ g.object \notin Team
                 /\ g.relation = "admin" => call[c].kind = "addOrgAdmin"
              \/ /\ call[c].kind \in {"create", "addMember", "addAdmin"}
                 /\ g.object = call[c].team /\ g.object \in Team /\ g.object \notin Org
                 /\ g.object \in drawn
                 /\ g.relation = "member" => call[c].kind = "addMember"
                 /\ Creating(c) \/ \E r \in rows : r.id = call[c].team
  <1>1. call[c].kind \in Kind /\ call[c].step = "write" /\ call[c].step \in StepsOf(call[c].kind)
    BY DEF WriteTuple, TypeInv, TypeOK, CallState, Knows
  <1>2. call[c].kind \in {"create", "addMember", "addAdmin", "addOrgMember", "addOrgAdmin"}
    BY <1>1 DEF StepsOf, Kind
  <1>3. call[c].user \in User
    BY <1>2 DEF TypeInv, Arguments, Runs
  <1>4. CASE call[c].kind \in {"addOrgMember", "addOrgAdmin"}
    <2>1. call[c].org \in Org
      BY <1>4 DEF TypeInv, Arguments, Runs, OfOrg
    <2> QED
      BY <1>3, <1>4, <2>1, ObjectsAssumption DEF TupleOf, Grant, OfOrg
  <1>5. CASE call[c].kind \in {"create", "addMember", "addAdmin"}
    <2>1. call[c].team \in Team
      BY <1>5 DEF TypeInv, Arguments, Runs, OfOrg
    <2>2. Creating(c) \/ \E r \in rows : r.id = call[c].team
      BY <1>5 DEF Creating, Knows, OfTeam
    <2>3. call[c].team \in drawn
      BY <2>2 DEF Fresh
    <2> QED
      BY <1>3, <1>5, <2>1, <2>2, <2>3, ObjectsAssumption DEF TupleOf, Grant, OfOrg
  <1> QED
    BY <1>2, <1>4, <1>5

LEMMA DrawnKept ==
    ASSUME TypeInv, Fresh, NEW c \in Call, StepOf(c), Knows(c), KnownDrawn
    PROVE  KnownDrawn'
  <1>1. drawn \subseteq drawn'
    <2>1. CASE BeginCreate(c)
      BY <2>1 DEF BeginCreate
    <2> QED
      BY <2>1, StoreSteps
  <1>2. CASE WriteOrganization(c)
    <2>1. call[c].team \in drawn
      BY <1>2 DEF WriteOrganization, At, Creating, Fresh
    <2> QED
      BY <1>1, <1>2, <2>1 DEF WriteOrganization, KnownDrawn, Grant
  <1>3. CASE WriteTuple(c) /\ tuples' = tuples \cup {TupleOf(c)}
    BY <1>1, <1>3, WrittenObject DEF KnownDrawn
  <1>4. CASE tuples' \subseteq tuples
    BY <1>1, <1>4 DEF KnownDrawn
  <1> QED
    BY <1>2, <1>3, <1>4, TupleSteps

LEMMA AdminsKept ==
    ASSUME TypeInv, Fresh, NEW c \in Call, StepOf(c), Knows(c), AdminsWere
    PROVE  AdminsWere'
  <1> SUFFICES ASSUME NEW u \in User, NEW o \in Org, Grant(u, "admin", o) \in tuples'
               PROVE  <<u, o>> \in wasAdmin'
    BY DEF AdminsWere, Has
  <1>1. CASE Grant(u, "admin", o) \in tuples
    BY <1>1, TupleSteps DEF AdminsWere, Has
  <1>2. CASE Grant(u, "admin", o) \notin tuples
    <2>1. Grant(u, "admin", o) # Grant(call[c].org, "organization", call[c].team)
      BY DEF Grant
    <2>2. /\ WriteTuple(c) /\ TupleOf(c) = Grant(u, "admin", o)
          /\ call[c].kind = "addOrgAdmin" => <<call[c].user, call[c].org>> \in wasAdmin'
      BY <1>2, <2>1, TupleSteps
    <2>3. TupleOf(c).user = u /\ TupleOf(c).relation = "admin" /\ TupleOf(c).object = o
      BY <2>2 DEF Grant
    <2> QED
      BY <2>2, <2>3, WrittenObject
  <1> QED
    BY <1>1, <1>2

(* A team with tuples and no row: its creation runs on or was stopped.        *)
LEMMA GhostsKept ==
    ASSUME TypeInv, Fresh, NEW c \in Call, StepOf(c), Knows(c), NoGhosts, ~overlapped,
           \A d \in Call \ {c} : ~Runs(d)
    PROVE  NoGhosts'
  <1> SUFFICES ASSUME NEW g \in tuples', g.object \in Team
               PROVE  \/ \E r \in rows' : r.id = g.object
                      \/ g.object \in stopped'
                      \/ \E d \in Call : Creating(d)' /\ call'[d].team = g.object
    BY DEF NoGhosts, Creating
  <1>0. rows \subseteq rows' /\ stopped \subseteq stopped'
    BY StoreSteps, TupleSteps
  <1>1. ASSUME Creating(c), ~Early(c), call[c].team = g.object
        PROVE  \/ \E r \in rows' : r.id = g.object
               \/ g.object \in stopped'
               \/ Creating(c)' /\ call'[c].team = g.object
    <2>1. CASE Commit(c)
      <3>1. RowOf(c) \in rows' /\ RowOf(c).id = g.object
        BY <1>1, <2>1, StoreSteps DEF Fresh, RowOf
      <3> QED
        BY <3>1
    <2>2. CASE Crash(c)
      BY <1>1, <2>2 DEF Crash, Creating
    <2> QED
      BY <1>1, <2>1, <2>2, CreationGoesOn DEF SameTeam
  <1>2. CASE g \in tuples
    <2>1. CASE Creating(c) /\ call[c].team = g.object
      <3>1. ~Early(c)
        BY <1>2, <2>1 DEF Knows, CreateKnows
      <3> QED
        BY <1>1, <2>1, <3>1
    <2>2. CASE ~(Creating(c) /\ call[c].team = g.object)
      <3>1. \A d \in Call : ~(call[d].kind = "create" /\ call[d].team = g.object)
        BY <2>2 DEF Creating, Runs
      <3> QED
        BY <1>0, <1>2, <3>1 DEF NoGhosts
    <2> QED
      BY <2>1, <2>2
  <1>3. CASE g \notin tuples
    <2>1. CASE WriteOrganization(c)
      <3>1. g = Grant(call[c].org, "organization", call[c].team)
        BY <1>3, <2>1 DEF WriteOrganization
      <3>2. g.object = call[c].team /\ Creating(c)' /\ call'[c].team = call[c].team
        BY <2>1, <3>1 DEF WriteOrganization, Grant, At, Creating, TypeInv, TypeOK, CallState
      <3> QED
        BY <3>2
    <2>2. CASE ~WriteOrganization(c)
      <3>1. WriteTuple(c) /\ g = TupleOf(c)
        <4>1. \/ tuples' \subseteq tuples
              \/ WriteTuple(c) /\ tuples' = tuples \cup {TupleOf(c)}
          BY <2>2, TupleSteps
        <4> QED
          BY <1>3, <4>1
      <3>2. /\ g.object = call[c].team
            /\ Creating(c) \/ \E r \in rows : r.id = call[c].team
        BY <3>1, WrittenObject
      <3>3. Creating(c) => ~Early(c)
        BY <3>1 DEF WriteTuple, Early
      <3> QED
        BY <1>0, <1>1, <3>2, <3>3
    <2> QED
      BY <2>1, <2>2
  <1> QED
    BY <1>2, <1>3

(* A member of a team is in its organization, or was its administrator: what  *)
(* adds the one has read the other, and what takes the other away has taken   *)
(* the one first.                                                             *)
LEMMA MembersKept ==
    ASSUME TypeInv, Fresh, NEW c \in Call, StepOf(c), Knows(c), AdminsWere, MembersInOrg,
           ~overlapped
    PROVE  MembersInOrg'
  <1> SUFFICES ASSUME NEW u \in User, NEW t \in Team, NEW o \in Org,
                      Grant(u, "member", t) \in tuples', Grant(o, "organization", t) \in tuples'
               PROVE  \/ Grant(u, "member", o) \in tuples'
                      \/ Grant(u, "admin", o) \in tuples'
                      \/ <<u, o>> \in wasAdmin'
    BY DEF MembersInOrg, Has, IsIn
  <1> DEFINE Held == Grant(u, "member", t) \in tuples /\ Grant(o, "organization", t) \in tuples
             In == Grant(u, "member", o) \in tuples \/ Grant(u, "admin", o) \in tuples
  <1>0. wasAdmin \subseteq wasAdmin'
    BY TupleSteps
  <1>1. Held => In \/ <<u, o>> \in wasAdmin
    BY DEF MembersInOrg, Has, IsIn
  <1>2. \A x, y, z : Grant(x, y, z).user = x /\ Grant(x, y, z).relation = y /\ Grant(x, y, z).object = z
    BY DEF Grant
  <1>3. call[c] \in CallState
    BY DEF TypeInv, TypeOK
  <1>4. CASE tuples' = tuples
    BY <1>0, <1>1, <1>4
  <1>5. CASE WriteOrganization(c)
    <2> DEFINE g == Grant(call[c].org, "organization", call[c].team)
    <2>1. tuples' = tuples \cup {g} /\ Creating(c) /\ Early(c)
      BY <1>5 DEF WriteOrganization, At, Creating, Early
    <2>2. Grant(u, "member", t) # g /\ Grant(u, "member", t).object = t
      BY <1>2
    <2>3. Grant(u, "member", t) \in tuples
      BY <2>1, <2>2
    <2>4. Grant(o, "organization", t) # g
      <3>1. t # call[c].team
        BY <2>1, <2>2, <2>3 DEF Knows, CreateKnows
      <3> QED
        BY <1>2, <3>1
    <2>5. Held
      BY <2>1, <2>3, <2>4
    <2> QED
      BY <1>0, <1>1, <2>1, <2>5
  <1>6. CASE WriteTuple(c) /\ tuples' = tuples \cup {TupleOf(c)}
    <2>1. TupleOf(c).relation \in {"member", "admin"}
      BY <1>2 DEF TupleOf
    <2>2. Grant(o, "organization", t) \in tuples
      <3>1. Grant(o, "organization", t) # TupleOf(c)
        BY <1>2, <2>1
      <3> QED
        BY <1>6, <3>1
    <2>3. CASE Grant(u, "member", t) \in tuples
      BY <1>0, <1>1, <1>6, <2>2, <2>3
    <2>4. CASE Grant(u, "member", t) = TupleOf(c)
      <3>1. TupleOf(c).user = u /\ TupleOf(c).object = t /\ TupleOf(c).relation = "member"
        BY <1>2, <2>4
      <3>2. call[c].kind = "addMember" /\ call[c].user = u /\ call[c].team = t
        BY <1>6, <3>1, WrittenObject
      <3>3. OrgsOfTeam(t) = {call[c].seen} /\ OrgsOf(u) = {call[c].seen}
        BY <1>6, <3>2 DEF WriteTuple, Knows, AddKnows
      <3>4. o \in OrgsOfTeam(t)
        BY <2>2 DEF OrgsOfTeam, Has
      <3>5. o \in OrgsOf(u)
        BY <3>3, <3>4
      <3>6. In
        BY <3>5 DEF OrgsOf, IsIn, Has
      <3> QED
        BY <1>6, <3>6
    <2> QED
      BY <1>6, <2>3, <2>4
  <1>7. CASE LeaveTeam(c) /\ tuples' = tuples \ {Grant(call[c].user, "member", call[c].team)}
    <2>1. call[c].team # o
      BY <1>3, NoneAssumption, ObjectsAssumption DEF CallState, Opt
    <2>2. Grant(u, "member", o) # Grant(call[c].user, "member", call[c].team)
      BY <1>2, <2>1
    <2>3. Grant(u, "admin", o) # Grant(call[c].user, "member", call[c].team)
      BY <1>2
    <2>4. Held
      BY <1>7
    <2> QED
      BY <1>0, <1>1, <1>7, <2>2, <2>3, <2>4
  <1>8. CASE DeleteTuple(c) /\ tuples' = tuples \ {TupleOf(c)}
    <2>1. Held
      BY <1>8
    <2>2. call[c].kind \in {"removeMember", "removeAdmin", "removeOrgMember", "removeOrgAdmin"}
      <3>1. call[c].kind \in Kind /\ "delete" \in StepsOf(call[c].kind)
        BY <1>3, <1>8 DEF CallState, DeleteTuple, Knows
      <3> QED
        BY <3>1 DEF Kind, StepsOf
    <2>3. CASE TupleOf(c) # Grant(u, "member", o) /\ TupleOf(c) # Grant(u, "admin", o)
      BY <1>0, <1>1, <1>8, <2>1, <2>3
    <2>4. CASE TupleOf(c) = Grant(u, "admin", o)
      <3>1. <<u, o>> \in wasAdmin \/ Grant(u, "admin", o) \notin tuples
        BY DEF AdminsWere, Has
      <3>2. Grant(u, "member", o) # TupleOf(c)
        BY <1>2, <2>4
      <3> QED
        BY <1>0, <1>1, <1>8, <2>1, <3>1, <3>2
    <2>5. CASE TupleOf(c) = Grant(u, "member", o)
      <3>1. call[c].kind = "removeOrgMember" /\ call[c].user = u /\ call[c].org = o
        <4>1. TupleOf(c).user = u /\ TupleOf(c).object = o /\ TupleOf(c).relation = "member"
          BY <1>2, <2>5
        <4>2. call[c].kind \in {"removeMember", "removeOrgMember"} /\ call[c].user = u
          BY <1>2, <2>2, <4>1 DEF TupleOf
        <4>3. o \notin Opt(Team)
          BY NoneAssumption, ObjectsAssumption DEF Opt
        <4>4. CASE call[c].kind = "removeMember"
          BY <1>2, <1>3, <4>1, <4>3, <4>4 DEF TupleOf, OfOrg, CallState
        <4>5. CASE call[c].kind = "removeOrgMember"
          BY <1>2, <4>1, <4>2, <4>5 DEF TupleOf, OfOrg
        <4> QED
          BY <4>2, <4>4, <4>5
      <3>2. ~InTeam(u, t, o)
        BY <1>8, <3>1 DEF DeleteTuple, Knows, RemoveKnows
      <3> QED
        BY <2>1, <3>2 DEF InTeam, Has
    <2> QED
      BY <2>3, <2>4, <2>5
  <1> QED
    BY <1>4, <1>5, <1>6, <1>7, <1>8, TupleSteps

-----------------------------------------------------------------------------
(* What the call that runs knows stays so: nobody else runs.                  *)
LEMMA EndsKnows ==
    ASSUME NEW c, call'[c].kind = "none", call'[c].step = "idle"
    PROVE  Knows(c)'
  BY DEF Knows, StepsOf, Creating, OfTeam

LEMMA GoesFields ==
    ASSUME TypeInv, NEW c \in Call, NEW step, Goes(c, step)
    PROVE  /\ call'[c].step = step /\ call'[c].kind = call[c].kind /\ call'[c].user = call[c].user
           /\ call'[c].team = call[c].team /\ call'[c].org = call[c].org
           /\ call'[c].seen = call[c].seen /\ call'[c].teams = call[c].teams
  BY DEF TypeInv, TypeOK, CallState, Goes

LEMMA ReadsFields ==
    ASSUME TypeInv, NEW c \in Call, NEW o, NEW next, Reads(c, o, next), ~Leaves(c)
    PROVE  /\ o # None /\ o = Expected(c, o)
           /\ call'[c].step = next /\ call'[c].seen = o
           /\ call'[c].kind = call[c].kind /\ call'[c].user = call[c].user
           /\ call'[c].team = call[c].team /\ call'[c].org = call[c].org
           /\ tuples' = tuples /\ rows' = rows
  BY DEF TypeInv, TypeOK, CallState, Reads, Same

LEMMA BeginKnows ==
    ASSUME TypeInv, NEW c \in Call, KnownDrawn, BeginCreate(c) \/ Begin(c)
    PROVE  Knows(c)'
  <1>0. call \in [Call -> CallState]
    BY DEF TypeInv, TypeOK
  <1>1. CASE BeginCreate(c)
    <2>1. PICK t \in Team \ drawn : /\ call'[c].kind = "create" /\ call'[c].step = "start"
                                    /\ call'[c].team = t /\ call'[c].seen = None
      <3>1. PICK u \in User, t \in Team \ drawn, n \in Name :
                call' = [call EXCEPT ![c] = [NoCall EXCEPT
                    !.kind = "create", !.step = "start", !.user = u, !.team = t, !.name = n]]
        BY <1>1 DEF BeginCreate
      <3>2. call'[c] = [NoCall EXCEPT
                !.kind = "create", !.step = "start", !.user = u, !.team = t, !.name = n]
        BY <1>0, <3>1
      <3> QED
        BY <3>2 DEF NoCall
    <2>2. \A g \in tuples' : g.object # t
      BY <1>1 DEF BeginCreate, KnownDrawn
    <2>3. TupleOf(c)' = Grant(call'[c].user, "admin", t)
      BY <2>1 DEF TupleOf, OfOrg
    <2>4. TupleOf(c)' \notin tuples'
      <3>1. TupleOf(c)'.object = t
        BY <2>3 DEF Grant
      <3> QED
        BY <2>2, <3>1
    <2>5. CreateKnows(c)'
      BY <2>1, <2>2, <2>4 DEF CreateKnows, Early
    <2> QED
      BY <2>1, <2>5 DEF Knows, StepsOf, Creating, OfTeam
  <1>2. CASE Begin(c)
    <2>1. PICK kind \in OfTeam \cup OfOrg, x \in {r.id : r \in rows} \cup Org :
              /\ kind \in OfTeam <=> x \in Team
              /\ call'[c].kind = kind /\ call'[c].step = FirstStep(kind)
              /\ call'[c].team = (IF x \in Team THEN x ELSE None)
              /\ call'[c].seen = None
      <3>1. PICK kind \in OfTeam \cup OfOrg, u \in User, x \in {r.id : r \in rows} \cup Org :
              /\ kind \in OfTeam <=> x \in Team
              /\ call' = [call EXCEPT ![c] = [NoCall EXCEPT
                    !.kind = kind, !.step = FirstStep(kind), !.user = u,
                    !.team = IF x \in Team THEN x ELSE None,
                    !.org = IF x \in Org THEN x ELSE None]]
        BY <1>2 DEF Begin
      <3> DEFINE first == FirstStep(kind)
                 team == IF x \in Team THEN x ELSE None
                 org == IF x \in Org THEN x ELSE None
      <3>2. call'[c] = [NoCall EXCEPT !.kind = kind, !.step = first, !.user = u,
                                      !.team = team, !.org = org]
        BY <1>0, <3>1
      <3>3. /\ call'[c].kind = kind /\ call'[c].step = first /\ call'[c].team = team
            /\ call'[c].seen = None
        <4> HIDE DEF first, team, org
        <4> QED
          BY <3>2 DEF NoCall
      <3> QED
        BY <3>1, <3>3
    <2>2. kind # "create"
      BY DEF OfTeam, OfOrg
    <2>3. FirstStep(kind) \in StepsOf(kind)
      BY DEF FirstStep, StepsOf, OfTeam, OfOrg
    <2>4. kind \in OfTeam => \E r \in rows' : r.id = call'[c].team
      BY <1>2, <2>1, ObjectsAssumption DEF Begin
    <2>5. kind = "addMember" => AddKnows(c)'
      BY <2>1 DEF AddKnows, FirstStep
    <2>6. kind = "removeOrgMember" => RemoveKnows(c)'
      BY <2>1 DEF RemoveKnows, FirstStep
    <2> QED
      BY <2>1, <2>2, <2>3, <2>4, <2>5, <2>6 DEF Knows, Creating
  <1> QED
    BY <1>1, <1>2

LEMMA CreateStepsKnow ==
    ASSUME TypeInv, Fresh, NEW c \in Call, Knows(c), ~Leaves(c),
           Start(c) \/ CheckName(c) \/ WriteOrganization(c)
    PROVE  Knows(c)'
  <1>0. call \in [Call -> CallState] /\ call[c] \in CallState
    BY DEF TypeInv, TypeOK
  <1>1. call[c].kind = "create" /\ Early(c)
    BY DEF Start, CheckName, WriteOrganization, At, Early
  <1>2. CreateKnows(c) /\ call[c].team \in Team /\ call[c].user \in User
    BY <1>1 DEF Knows, Creating, TypeInv, Arguments, Runs, OfOrg
  <1>3. CASE Start(c)
    <2>1. PICK o \in Org : o = UsersOrganization(call[c].user)
      BY <1>3, OrganizationTypes DEF Start, Opt
    <2>2. /\ call'[c].kind = "create" /\ call'[c].step = "name" /\ call'[c].org = o
          /\ call'[c].user = call[c].user /\ call'[c].team = call[c].team
          /\ call'[c].seen = call[c].seen /\ tuples' = tuples
      BY <1>0, <1>1, <1>3, <2>1, NoneAssumption DEF Start, Same, CallState
    <2>3. OrgsOf(call[c].user) = {o}
      BY <2>1, Organizations
    <2>4. CreateKnows(c)'
      BY <1>1, <1>2, <2>2, <2>3 DEF CreateKnows, Early, OrgsOf, IsIn, Has, TupleOf, OfOrg
    <2> QED
      BY <2>2, <2>4 DEF Knows, StepsOf, Creating, OfTeam
  <1>4. CASE CheckName(c)
    <2>1. Goes(c, "organization") /\ tuples' = tuples /\ call[c].step = "name"
      BY <1>4 DEF CheckName, Same, At
    <2>2. CreateKnows(c)'
      BY <1>1, <1>2, <2>1, GoesFields DEF CreateKnows, Early, OrgsOf, IsIn, Has, TupleOf, OfOrg
    <2> QED
      BY <1>1, <2>1, <2>2, GoesFields DEF Knows, StepsOf, Creating, OfTeam
  <1>5. CASE WriteOrganization(c)
    <2> DEFINE g == Grant(call[c].org, "organization", call[c].team)
    <2>1. /\ call'[c].kind = "create" /\ call'[c].step = "user" /\ call'[c].org = call[c].org
          /\ call'[c].user = call[c].user /\ call'[c].team = call[c].team
          /\ call'[c].seen = call[c].seen /\ tuples' = tuples \cup {g}
          /\ call[c].step = "organization"
      BY <1>0, <1>1, <1>5 DEF WriteOrganization, At, CallState
    <2>2. ASSUME NEW u, NEW r \in {"member", "admin"}, NEW x
          PROVE  Grant(u, r, x) \in tuples' <=> Grant(u, r, x) \in tuples
      <3>1. Grant(u, r, x) # g
        BY DEF Grant
      <3> QED
        BY <2>1, <3>1
    <2>3. OrgsOf(call[c].user)' = OrgsOf(call[c].user)
      BY <2>1, <2>2 DEF OrgsOf, IsIn, Has
    <2>4. TupleOf(c)' \notin tuples'
      <3>1. TupleOf(c) = Grant(call[c].user, "admin", call[c].team) /\ TupleOf(c)' = TupleOf(c)
        BY <1>1, <2>1 DEF TupleOf, OfOrg
      <3> QED
        BY <1>2, <2>1, <2>2, <3>1 DEF CreateKnows
    <2>5. CreateKnows(c)'
      BY <1>1, <1>2, <2>1, <2>3, <2>4 DEF CreateKnows, Early
    <2> QED
      BY <2>1, <2>5 DEF Knows, StepsOf, Creating, OfTeam
  <1> QED
    BY <1>3, <1>4, <1>5

LEMMA ReadStepsKnow ==
    ASSUME TypeInv, Fresh, NEW c \in Call, Knows(c), ~Leaves(c),
           CheckAdmins(c) \/ CheckTeams(c) \/ ReadUser(c) \/ ReadTeam(c)
    PROVE  Knows(c)'
  <1>0. call[c].kind \in Kind /\ call[c].step \in StepsOf(call[c].kind)
    BY DEF TypeInv, TypeOK, CallState, Knows
  <1>1. CASE CheckAdmins(c)
    <2>1. Goes(c, "user") /\ rows' = rows /\ call[c].kind = "addAdmin"
      BY <1>1 DEF CheckAdmins, At, Same
    <2> QED
      BY <2>1, GoesFields DEF Knows, StepsOf, Creating, OfTeam
  <1>2. CASE CheckTeams(c)
    <2>1. Goes(c, "team") /\ rows' = rows /\ call[c].kind = "addMember" /\ call[c].step = "teams"
      BY <1>2 DEF CheckTeams, At, Same
    <2> QED
      BY <2>1, GoesFields DEF Knows, StepsOf, Creating, OfTeam, AddKnows
  <1>3. ASSUME rows' = rows, tuples' = tuples, call'[c].kind = call[c].kind,
               call'[c].team = call[c].team
        PROVE  call'[c].kind \in OfTeam => \E r \in rows' : r.id = call'[c].team
    BY <1>3 DEF Knows
  <1>4. CASE ReadUser(c)
    <2>1. PICK o, next : /\ o = UsersOrganization(call[c].user)
                         /\ next = (IF call[c].kind \in {"create", "addAdmin"} THEN "team" ELSE "write")
                         /\ Reads(c, o, next)
      BY <1>4 DEF ReadUser
    <2>2. /\ o # None /\ o = Expected(c, o)
          /\ call'[c].step = next /\ call'[c].seen = o
          /\ call'[c].kind = call[c].kind /\ call'[c].user = call[c].user
          /\ call'[c].team = call[c].team /\ call'[c].org = call[c].org
          /\ tuples' = tuples /\ rows' = rows
      BY <2>1, ReadsFields
    <2>3. o \in Org /\ OrgsOf(call[c].user) = {o}
      BY <2>1, <2>2, OrganizationTypes, Organizations DEF Opt
    <2>4. /\ call[c].step = "user"
          /\ call[c].kind \in {"create", "addMember", "addAdmin", "addOrgAdmin"}
      BY <1>0, <1>4 DEF ReadUser, StepsOf, Kind
    <2>5. CASE call[c].kind = "create"
      <3>1. CreateKnows(c)
        BY <2>5 DEF Knows, Creating
      <3>2. o = call[c].org
        BY <2>3, <2>4, <3>1 DEF CreateKnows
      <3>3. CreateKnows(c)'
        BY <2>1, <2>2, <2>3, <2>4, <2>5, <3>1, <3>2
           DEF CreateKnows, Early, OrgsOf, IsIn, Has, TupleOf, OfOrg
      <3> QED
        BY <2>1, <2>2, <2>5, <3>3 DEF Knows, StepsOf, Creating, OfTeam
    <2>6. CASE call[c].kind = "addMember"
      <3>1. AddKnows(c)
        BY <2>6 DEF Knows
      <3>2. OrgsOfTeam(call[c].team) = {call[c].seen}
        BY <2>4, <3>1 DEF AddKnows
      <3>3. call[c].seen \in Org
        BY <3>2 DEF OrgsOfTeam
      <3>4. o = call[c].seen
        BY <2>2, <2>6, <3>3, NoneAssumption DEF Expected
      <3>5. AddKnows(c)'
        BY <2>1, <2>2, <2>3, <2>6, <3>2, <3>4 DEF AddKnows, OrgsOf, OrgsOfTeam, IsIn, Has
      <3> QED
        BY <1>3, <2>1, <2>2, <2>6, <3>5 DEF Knows, StepsOf, Creating
    <2>7. CASE call[c].kind \in {"addAdmin", "addOrgAdmin"}
      BY <1>3, <2>1, <2>2, <2>7 DEF Knows, StepsOf, Creating
    <2> QED
      BY <2>4, <2>5, <2>6, <2>7
  <1>5. CASE ReadTeam(c)
    <2>1. PICK o, next : /\ o = TeamOrganization(c, call[c].team)
                         /\ next = (IF call[c].kind = "addMember" THEN "user" ELSE "write")
                         /\ Reads(c, o, next)
      BY <1>5 DEF ReadTeam
    <2>2. /\ o # None /\ o = Expected(c, o)
          /\ call'[c].step = next /\ call'[c].seen = o
          /\ call'[c].kind = call[c].kind /\ call'[c].user = call[c].user
          /\ call'[c].team = call[c].team /\ call'[c].org = call[c].org
          /\ tuples' = tuples /\ rows' = rows
      BY <2>1, ReadsFields
    <2>3. o \in Org /\ OrgsOfTeam(call[c].team) = {o}
      BY <2>1, <2>2, OrganizationTypes, Organizations DEF Opt
    <2>4. call[c].step = "team" /\ call[c].kind \in {"create", "addMember", "addAdmin"}
      BY <1>0, <1>5 DEF ReadTeam, StepsOf, Kind
    <2>5. CASE call[c].kind = "create"
      <3>1. CreateKnows(c)
        BY <2>5 DEF Knows, Creating
      <3>2. CreateKnows(c)'
        BY <2>1, <2>2, <2>4, <2>5, <3>1 DEF CreateKnows, Early, OrgsOf, IsIn, Has, TupleOf, OfOrg
      <3> QED
        BY <2>1, <2>2, <2>5, <3>2 DEF Knows, StepsOf, Creating, OfTeam
    <2>6. CASE call[c].kind = "addMember"
      <3>1. AddKnows(c)'
        BY <2>1, <2>2, <2>3, <2>6 DEF AddKnows, OrgsOfTeam, Has
      <3> QED
        BY <1>3, <2>1, <2>2, <2>6, <3>1 DEF Knows, StepsOf, Creating
    <2>7. CASE call[c].kind = "addAdmin"
      BY <1>3, <2>1, <2>2, <2>7 DEF Knows, StepsOf, Creating
    <2> QED
      BY <2>4, <2>5, <2>6, <2>7
  <1> QED
    BY <1>1, <1>2, <1>4, <1>5

LEMMA RemoveStepsKnow ==
    ASSUME TypeInv, Fresh, NEW c \in Call, Knows(c), ~Leaves(c),
           ListTeams(c) \/ NextTeam(c) \/ LeaveTeam(c) \/ NoTeamLeft(c)
    PROVE  Knows(c)'
  <1>0. call \in [Call -> CallState] /\ call[c] \in CallState
    BY DEF TypeInv, TypeOK
  <1>1. call[c].kind = "removeOrgMember" /\ call[c].org \in Org
    BY DEF ListTeams, NextTeam, LeaveTeam, NoTeamLeft, At, TypeInv, Arguments, Runs, OfOrg
  <1>2. RemoveKnows(c)
    BY <1>1 DEF Knows
  <1>3. ASSUME call'[c].kind = "removeOrgMember", call'[c].step \in {"next", "leave", "delete"},
               RemoveKnows(c)'
        PROVE  Knows(c)'
    BY <1>3 DEF Knows, StepsOf, Creating, OfTeam
  <1>4. CASE ListTeams(c)
    <2>1. /\ call'[c].kind = "removeOrgMember" /\ call'[c].step = "next"
          /\ call'[c].user = call[c].user /\ call'[c].org = call[c].org
          /\ call'[c].teams = TeamsOf(call[c].user) /\ tuples' = tuples
      BY <1>0, <1>1, <1>4 DEF ListTeams, Same, CallState
    <2>2. RemoveKnows(c)'
      BY <2>1 DEF RemoveKnows, InTeam, TeamsOf, IsIn, Has
    <2> QED
      BY <1>3, <2>1, <2>2
  <1>5. CASE NextTeam(c)
    <2>1. PICK t \in call[c].teams, o \in Org : /\ o = TeamOrganization(c, t)
            /\ call' = [call EXCEPT ![c].teams = @ \ {t}, ![c].team = t,
                  ![c].step = IF o = call[c].org THEN "leave" ELSE "next"]
            /\ tuples' = tuples
      BY <1>5, OrganizationTypes DEF NextTeam, Same, Opt
    <2>2. /\ call'[c].kind = "removeOrgMember"
          /\ call'[c].step = IF o = call[c].org THEN "leave" ELSE "next"
          /\ call'[c].user = call[c].user /\ call'[c].org = call[c].org
          /\ call'[c].team = t /\ call'[c].teams = call[c].teams \ {t}
      BY <1>0, <1>1, <2>1 DEF CallState
    <2>3. Has(call[c].org, "organization", t) => call[c].org = o
      <3>1. OrgsOfTeam(t) = {o}
        BY <2>1, Organizations
      <3> QED
        BY <1>1, <3>1 DEF OrgsOfTeam
    <2>4. call[c].step = "next"
      BY <1>5 DEF NextTeam, At
    <2>5. ASSUME NEW x \in Team, InTeam(call[c].user, x, call[c].org)'
          PROVE  \/ x \in call'[c].teams
                 \/ call'[c].step = "leave" /\ x = call'[c].team
      <3>1. InTeam(call[c].user, x, call[c].org)
        BY <2>1, <2>2, <2>5 DEF InTeam, Has
      <3>2. x \in call[c].teams /\ Has(call[c].org, "organization", x)
        BY <1>2, <2>4, <3>1 DEF RemoveKnows, InTeam
      <3> QED
        BY <2>2, <2>3, <3>2
    <2>6. RemoveKnows(c)'
      BY <2>2, <2>5 DEF RemoveKnows
    <2> QED
      BY <1>3, <2>2, <2>6
  <1>6. CASE LeaveTeam(c)
    <2> DEFINE g == Grant(call[c].user, "member", call[c].team)
    <2>1. Goes(c, "next") /\ tuples' = tuples \ {g} /\ call[c].step = "leave"
      BY <1>6 DEF LeaveTeam, At
    <2>2. RemoveKnows(c)'
      BY <1>1, <1>2, <2>1, GoesFields DEF RemoveKnows, InTeam, Has
    <2> QED
      BY <1>1, <1>3, <2>1, <2>2, GoesFields
  <1>7. CASE NoTeamLeft(c)
    <2>1. Goes(c, "delete") /\ tuples' = tuples /\ call[c].step = "next" /\ call[c].teams = {}
      BY <1>7 DEF NoTeamLeft, At, Same
    <2>2. RemoveKnows(c)'
      BY <1>1, <1>2, <2>1, GoesFields DEF RemoveKnows, InTeam, Has
    <2> QED
      BY <1>1, <1>3, <2>1, <2>2, GoesFields
  <1> QED
    BY <1>4, <1>5, <1>6, <1>7

LEMMA KnowsKept ==
    ASSUME TypeInv, Fresh, NEW c \in Call, StepOf(c), Knows(c), KnownDrawn
    PROVE  Knows(c)'
  <1>0. call \in [Call -> CallState] /\ call[c] \in CallState
    BY DEF TypeInv, TypeOK
  <1>1. Ends(c) => Knows(c)'
    BY <1>0, NoCallTypes, EndsKnows DEF Ends
  <1>2. CASE Leaves(c) \/ Commit(c) \/ DeleteTuple(c) \/ Crash(c)
    BY <1>1, <1>2 DEF Leaves, Commit, DeleteTuple, Crash
  <1>3. CASE WriteTuple(c) /\ ~Leaves(c)
    <2>1. CASE call[c].kind = "create"
      <3>1. Goes(c, "commit") /\ tuples' = tuples \cup {TupleOf(c)} /\ call[c].step = "write"
        BY <1>3, <2>1 DEF WriteTuple
      <3>2. TupleOf(c).object \notin Org
        BY <1>3, <2>1, WrittenObject
      <3>3. ASSUME NEW u, NEW r, NEW o \in Org
            PROVE  Grant(u, r, o) \in tuples' <=> Grant(u, r, o) \in tuples
        <4>1. Grant(u, r, o) # TupleOf(c)
          BY <3>2 DEF Grant
        <4> QED
          BY <3>1, <4>1
      <3>4. OrgsOf(call[c].user) = {call[c].org}
        BY <2>1, <3>1 DEF Knows, Creating, CreateKnows
      <3>5. OrgsOf(call[c].user)' = {call[c].org}
        BY <3>1, <3>3, <3>4, GoesFields DEF OrgsOf, IsIn, Has
      <3>6. CreateKnows(c)'
        BY <3>1, <3>5, GoesFields DEF CreateKnows, Early
      <3> QED
        BY <2>1, <3>1, <3>6, GoesFields DEF Knows, StepsOf, Creating, OfTeam
    <2>2. CASE call[c].kind # "create"
      BY <1>1, <1>3, <2>2 DEF WriteTuple
    <2> QED
      BY <2>1, <2>2
  <1>4. CASE BeginCreate(c) \/ Begin(c)
    BY <1>4, BeginKnows
  <1>5. CASE ~Leaves(c) /\ (Start(c) \/ CheckName(c) \/ WriteOrganization(c))
    BY <1>5, CreateStepsKnow
  <1>6. CASE ~Leaves(c) /\ (CheckAdmins(c) \/ CheckTeams(c) \/ ReadUser(c) \/ ReadTeam(c))
    BY <1>6, ReadStepsKnow
  <1>7. CASE ~Leaves(c) /\ (ListTeams(c) \/ NextTeam(c) \/ LeaveTeam(c) \/ NoTeamLeft(c))
    BY <1>7, RemoveStepsKnow
  <1> QED
    BY <1>2, <1>3, <1>4, <1>5, <1>6, <1>7 DEF StepOf

LEMMA InitMembers == Init => MembersInv
  <1> SUFFICES ASSUME Init PROVE MembersInv
    OBVIOUS
  <1>1. \A g \in tuples : g.object \in Org /\ g.relation # "organization"
    BY DEF Init, Grant
  <1>2. KnownDrawn /\ NoGhosts
    BY <1>1, ObjectsAssumption DEF KnownDrawn, NoGhosts
  <1>3. MembersInOrg
    BY <1>1 DEF MembersInOrg, Has, Grant
  <1>4. AdminsWere
    <2> SUFFICES ASSUME NEW u \in User, NEW o \in Org, Grant(u, "admin", o) \in tuples
                 PROVE  <<u, o>> \in wasAdmin
      BY DEF AdminsWere, Has
    <2>1. PICK g \in tuples : g.relation = "admin" /\ g.user = u /\ g.object = o
      BY DEF Grant
    <2> QED
      BY <2>1 DEF Init
  <1>5. \A c \in Call : call[c].kind = "none" /\ call[c].step = "idle"
    BY NoCallTypes DEF Init
  <1>6. Alone /\ \A c \in Call : Knows(c)
    BY <1>5 DEF Alone, Runs, Knows, StepsOf, Creating, OfTeam
  <1> QED
    BY <1>2, <1>3, <1>4, <1>6 DEF MembersInv

LEMMA NextMembers == TypeInv /\ Fresh /\ MembersInv /\ [Next]_vars => MembersInv'
  <1> SUFFICES ASSUME TypeInv, Fresh, MembersInv, [Next]_vars, ~overlapped'
               PROVE  /\ Alone' /\ KnownDrawn' /\ AdminsWere' /\ MembersInOrg' /\ NoGhosts'
                      /\ \A c \in Call : Knows(c)'
    BY DEF MembersInv
  <1>1. CASE UNCHANGED vars
    <2>1. Alone /\ KnownDrawn /\ AdminsWere /\ MembersInOrg /\ NoGhosts /\ \A c \in Call : Knows(c)
      BY <1>1 DEF vars, MembersInv
    <2>2. Alone' /\ KnownDrawn' /\ AdminsWere'
      BY <1>1, <2>1 DEF vars, Alone, Runs, KnownDrawn, AdminsWere, Has
    <2>3. MembersInOrg'
      BY <1>1, <2>1 DEF vars, MembersInOrg, Has, IsIn
    <2>4. NoGhosts'
      BY <1>1, <2>1 DEF vars, NoGhosts
    <2>5. ASSUME NEW c \in Call PROVE Knows(c)'
      <3>1. CreateKnows(c)' <=> CreateKnows(c)
        BY <1>1 DEF vars, CreateKnows, Early, OrgsOf, IsIn, Has, TupleOf
      <3>2. AddKnows(c)' <=> AddKnows(c)
        BY <1>1 DEF vars, AddKnows, OrgsOf, OrgsOfTeam, IsIn, Has
      <3>3. RemoveKnows(c)' <=> RemoveKnows(c)
        BY <1>1 DEF vars, RemoveKnows, InTeam, Has
      <3> QED
        BY <1>1, <2>1, <3>1, <3>2, <3>3 DEF vars, Knows, Creating
    <2> QED
      BY <2>2, <2>3, <2>4, <2>5
  <1>2. ASSUME NEW c \in Call, StepOf(c)
        PROVE  /\ Alone' /\ KnownDrawn' /\ AdminsWere' /\ MembersInOrg' /\ NoGhosts'
               /\ \A d \in Call : Knows(d)'
    <2>1. ~overlapped /\ \A d \in Call \ {c} : ~Runs(d) /\ ~Runs(d)'
      BY <1>2, AloneSteps DEF MembersInv
    <2>2. Alone'
      BY <2>1 DEF Alone
    <2>3. KnownDrawn /\ AdminsWere /\ MembersInOrg /\ NoGhosts /\ Knows(c)
      BY <2>1 DEF MembersInv
    <2>4. KnownDrawn' /\ AdminsWere' /\ MembersInOrg' /\ NoGhosts' /\ Knows(c)'
      BY <1>2, <2>1, <2>3, DrawnKept, AdminsKept, MembersKept, GhostsKept, KnowsKept
    <2>5. ASSUME NEW d \in Call \ {c} PROVE Knows(d)'
      <3>1. call[d].kind = "none" /\ call[d].step = "idle"
        BY <2>1 DEF Runs, TypeInv, Arguments
      <3> QED
        <4>1. call'[d] = call[d]
          BY <1>2, OneCallSteps
        <4> QED
          BY <3>1, <4>1, EndsKnows
    <2> QED
      BY <2>2, <2>4, <2>5
  <1> QED
    BY <1>1, <1>2 DEF Next, StepOf

LEMMA MembersHold == Spec => []MembersInv
  <1>1. Spec => []TypeInv
    BY TypesHold
  <1>2. Spec => []Fresh
    BY InitFresh, NextFresh, TypesHold, PTL DEF Spec
  <1> QED
    BY <1>1, <1>2, InitMembers, NextMembers, PTL DEF Spec

(* As long as no two calls overlapped, a member of a team is in the           *)
(* organization of the team, wherever calls stop, unless an administrator left *)
(* it so (MembersInOrg: add_team_member and remove_org_member).               *)
THEOREM MembersStayInOrg == Spec => []MembersInOrg
  <1>1. MembersInv => MembersInOrg
    BY DEF MembersInv, MembersInOrg
  <1> QED
    BY <1>1, MembersHold, PTL

(* As long as no two calls overlapped, only a creation that was stopped leaves *)
(* tuples of a team without a row (NoGhosts): once the organization is written *)
(* no check of create_team fails.                                             *)
THEOREM OnlyStopsLeaveGhosts == Spec => []NoGhosts
  <1>1. MembersInv => NoGhosts
    BY DEF MembersInv, NoGhosts
  <1> QED
    BY <1>1, MembersHold, PTL
=============================================================================
