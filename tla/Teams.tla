------------------------------- MODULE Teams -------------------------------
(* Teams and organizations: TeamsManager (src/src/auth_service) over the      *)
(* tuples of OpenFGA and the rows of the teams table, and POST /api/teams.    *)
(*                                                                            *)
(* Who belongs to what is a tuple, the name of a team a row.  A call of the   *)
(* manager is a coroutine that gives way at each of its reads and writes.     *)
(* OpenFGA keeps a tuple at once and for good; the row is kept when the       *)
(* transaction of the request commits.  A call slot is used again when the    *)
(* call has ended, so the number of calls of a behaviour is not bounded.      *)
EXTENDS FiniteSets

CONSTANTS
    Call,      \* the calls that may run at once
    User, Org,
    Team,      \* the uuids create_team may draw
    Name,      \* the names of teams
    None       \* undefined

ASSUME NoneAssumption == None \notin User \cup Org \cup Team \cup Name

(* OpenFGA names an object by its type and its id ("team:...",                *)
(* "organization:...").                                                       *)
ASSUME ObjectsAssumption == Team \cap Org = {}

VARIABLES
    tuples,    \* OpenFGA: who is what of which team or organization
    rows,      \* the committed rows of the teams table
    call,      \* per call: what it does, its next step, what it knows
    drawn,     \* the teams whose uuid was drawn
    stopped,   \* the teams whose creation did not end because its call stopped
    wasAdmin,  \* who has ever been an administrator of an organization
    overlapped \* two calls have run at once

vars == <<tuples, rows, call, drawn, stopped, wasAdmin, overlapped>>
history == <<stopped, wasAdmin, overlapped>>

Grant(u, r, o) == [user |-> u, relation |-> r, object |-> o]
Has(u, r, o) == Grant(u, r, o) \in tuples

Tuple ==
    [user : User, relation : {"member", "admin"}, object : Team \cup Org]
    \cup [user : Org, relation : {"organization"}, object : Team]
Row == [id : Team, organization : Org, name : Name]

(* "member" of the model: who has the tuple, or is an administrator.          *)
IsIn(u, o) == Has(u, "member", o) \/ Has(u, "admin", o)
OrgsOf(u) == {o \in Org : IsIn(u, o)}
TeamsOf(u) == {t \in Team : IsIn(u, t)}
OrgsOfTeam(t) == {o \in Org : Has(o, "organization", t)}

-----------------------------------------------------------------------------
(* The calls.  team, org, user, name: the arguments; seen: the organization a *)
(* check has read; teams: those remove_org_member has yet to look at; own:    *)
(* the row the transaction adds.                                              *)
Kind == {"none", "create", "addMember", "addAdmin", "removeMember", "removeAdmin",
         "addOrgMember", "addOrgAdmin", "removeOrgMember", "removeOrgAdmin"}
Step == {"idle", "start", "name", "organization", "admins", "teams", "user", "team",
         "write", "next", "leave", "delete", "commit"}
Opt(S) == S \cup {None}
CallState == [kind : Kind, step : Step, user : Opt(User), team : Opt(Team), org : Opt(Org),
              name : Opt(Name), seen : Opt(Org), teams : SUBSET Team, own : SUBSET Row]

NoCall == [kind |-> "none", step |-> "idle", user |-> None, team |-> None, org |-> None,
           name |-> None, seen |-> None, teams |-> {}, own |-> {}]

Runs(c) == call[c].kind # "none"
At(c, kinds, step) == call[c].kind \in kinds /\ call[c].step = step
Goes(c, step) == call' = [call EXCEPT ![c].step = step]
Ends(c) == call' = [call EXCEPT ![c] = NoCall]

(* Each user starts in one organization; its first member is its administrator *)
(* or there is none.                                                          *)
Init ==
    /\ \E home \in [User -> Org], admins \in SUBSET User :
          tuples = {Grant(u, "member", home[u]) : u \in User}
                   \cup {Grant(u, "admin", home[u]) : u \in admins}
    /\ rows = {}
    /\ call = [c \in Call |-> NoCall]
    /\ drawn = {}
    /\ stopped = {}
    /\ overlapped = FALSE
    /\ wasAdmin = {<<g.user, g.object>> : g \in {x \in tuples : x.relation = "admin"}}

FirstStep(kind) ==
    CASE kind = "addAdmin" -> "admins"
      [] kind \in {"addMember", "removeOrgMember"} -> "teams"
      [] kind = "addOrgAdmin" -> "user"
      [] kind = "addOrgMember" -> "write"
      [] kind \in {"removeMember", "removeAdmin", "removeOrgAdmin"} -> "delete"

OfTeam == {"addMember", "addAdmin", "removeMember", "removeAdmin"}
OfOrg == {"addOrgMember", "addOrgAdmin", "removeOrgMember", "removeOrgAdmin"}

MayBegin(c) ==
    /\ ~Runs(c)
    /\ overlapped' = (overlapped \/ \E d \in Call : Runs(d))
    /\ UNCHANGED <<stopped, wasAdmin>>

(* POST /api/teams; the uuid is new.                                          *)
BeginCreate(c) ==
    /\ MayBegin(c)
    /\ \E u \in User, t \in Team \ drawn, n \in Name :
          /\ call' = [call EXCEPT ![c] = [NoCall EXCEPT
                !.kind = "create", !.step = "start", !.user = u, !.team = t, !.name = n]]
          /\ drawn' = drawn \cup {t}
    /\ UNCHANGED <<tuples, rows>>

(* A call of the manager on a team that is listed, or an organization.        *)
Begin(c) ==
    /\ MayBegin(c)
    /\ \E kind \in OfTeam \cup OfOrg, u \in User, x \in {r.id : r \in rows} \cup Org :
          /\ kind \in OfTeam <=> x \in Team
          /\ call' = [call EXCEPT ![c] = [NoCall EXCEPT
                !.kind = kind, !.step = FirstStep(kind), !.user = u,
                !.team = IF x \in Team THEN x ELSE None,
                !.org = IF x \in Org THEN x ELSE None]]
    /\ UNCHANGED <<tuples, rows, drawn>>

(* The call raises, or has nothing to do.  Its transaction adds nothing.      *)
Leaves(c) == Ends(c) /\ UNCHANGED <<tuples, rows, drawn, history>>

-----------------------------------------------------------------------------
(* The reads that decide.  get_users_organization gives the one organization  *)
(* of a user; its callers fail if there is none and it raises if there are     *)
(* more.                                                                      *)
UsersOrganization(u) == IF \E o \in Org : OrgsOf(u) = {o}
                        THEN CHOOSE o \in Org : OrgsOf(u) = {o} ELSE None

(* get_team_organization: the tuple and the row, if there is one of each and  *)
(* they agree.                                                                *)
TeamOrganization(c, t) ==
    IF \E r \in rows \cup call[c].own : r.id = t /\ OrgsOfTeam(t) = {r.organization}
    THEN CHOOSE o \in Org : OrgsOfTeam(t) = {o} ELSE None

(* get_users_teams raises if a team of the user has no row.                   *)
TeamsKnown(u) == \A t \in TeamsOf(u) : \E r \in rows : r.id = t

-----------------------------------------------------------------------------
(* create_team.                                                               *)
Same == UNCHANGED <<tuples, rows, drawn, history>>

BugStart(c) ==
    /\ At(c, {"create"}, "start")
    /\ IF OrgsOf(call[c].user) # {}
       THEN /\ call' = [call EXCEPT ![c].org = CHOOSE o \in OrgsOf(call[c].user) : TRUE,
                                    ![c].step = "name"]
            /\ Same
       ELSE Leaves(c)

(* The endpoint creates the team in the organization of the user.             *)
Start(c) ==
    /\ At(c, {"create"}, "start")
    /\ LET o == UsersOrganization(call[c].user) IN
       IF o # None THEN call' = [call EXCEPT ![c].org = o, ![c].step = "name"] /\ Same
       ELSE Leaves(c)

BugNameTaken(c) == \E r \in rows : r.name = call[c].name /\ r.organization # call[c].org

NameTaken(c) == \E r \in rows : r.name = call[c].name /\ r.organization = call[c].org

CheckName(c) ==
    /\ At(c, {"create"}, "name")
    /\ IF NameTaken(c) THEN Leaves(c) ELSE Goes(c, "organization") /\ Same

RowOf(c) == [id |-> call[c].team, organization |-> call[c].org, name |-> call[c].name]

(* The uuid is new: the team has no organization, no administrator and no     *)
(* tuple yet.  The row is merged into the session, which sees it from then on. *)
BugWriteOrganization(c) ==
    /\ At(c, {"create"}, "organization")
    /\ rows' = rows \cup {RowOf(c)}
    /\ call' = [call EXCEPT ![c].step = "user"]
    /\ UNCHANGED <<tuples, drawn, history>>

WriteOrganization(c) ==
    /\ At(c, {"create"}, "organization")
    /\ tuples' = tuples \cup {Grant(call[c].org, "organization", call[c].team)}
    /\ call' = [call EXCEPT ![c].step = "user", ![c].own = {RowOf(c)}]
    /\ UNCHANGED <<rows, drawn, history>>

Commit(c) ==
    /\ At(c, {"create"}, "commit")
    /\ rows' = rows \cup call[c].own
    /\ Ends(c)
    /\ UNCHANGED <<tuples, drawn, history>>

-----------------------------------------------------------------------------
(* add_team_admin, which create_team ends with, add_team_member and           *)
(* add_org_admin.                                                             *)
CheckAdmins(c) ==
    /\ At(c, {"addAdmin"}, "admins")
    /\ IF Has(call[c].user, "admin", call[c].team) THEN Leaves(c)
       ELSE Goes(c, "user") /\ Same

CheckTeams(c) ==
    /\ At(c, {"addMember"}, "teams")
    /\ IF TeamsKnown(call[c].user) /\ call[c].team \notin TeamsOf(call[c].user)
       THEN Goes(c, "team") /\ Same
       ELSE Leaves(c)

(* The organization of the user and that of the team are read one after the   *)
(* other, the user's first for an administrator, and compared.                *)
Expected(c, o) ==
    CASE call[c].kind = "addOrgAdmin" -> call[c].org
      [] call[c].seen # None -> call[c].seen
      [] OTHER -> o

Reads(c, o, next) ==
    IF o # None /\ o = Expected(c, o)
    THEN call' = [call EXCEPT ![c].seen = o, ![c].step = next] /\ Same
    ELSE Leaves(c)

ReadUser(c) ==
    /\ call[c].step = "user"
    /\ Reads(c, UsersOrganization(call[c].user),
             IF call[c].kind \in {"create", "addAdmin"} THEN "team" ELSE "write")

ReadTeam(c) ==
    /\ call[c].step = "team"
    /\ Reads(c, TeamOrganization(c, call[c].team),
             IF call[c].kind = "addMember" THEN "user" ELSE "write")

(* The tuple a call adds or takes away.                                       *)
TupleOf(c) ==
    Grant(call[c].user,
          IF call[c].kind \in {"addMember", "removeMember", "addOrgMember", "removeOrgMember"}
          THEN "member" ELSE "admin",
          IF call[c].kind \in OfOrg THEN call[c].org ELSE call[c].team)

(* OpenFGA refuses to write a tuple it has.                                   *)
WriteTuple(c) ==
    /\ call[c].step = "write"
    /\ IF TupleOf(c) \in tuples THEN Leaves(c)
       ELSE /\ tuples' = tuples \cup {TupleOf(c)}
            /\ IF call[c].kind = "create" THEN Goes(c, "commit") ELSE Ends(c)
            /\ wasAdmin' = wasAdmin \cup
                  (IF call[c].kind = "addOrgAdmin" THEN {<<call[c].user, call[c].org>>} ELSE {})
            /\ UNCHANGED <<rows, drawn, stopped, overlapped>>

-----------------------------------------------------------------------------
(* remove_org_member: from the teams of the organization one by one, then     *)
(* from the organization.  OpenFGA refuses to delete a tuple it has not.      *)
BugListTeams(c) ==
    /\ At(c, {"removeOrgMember"}, "teams")
    /\ Goes(c, "delete")
    /\ Same

ListTeams(c) ==
    /\ At(c, {"removeOrgMember"}, "teams")
    /\ IF TeamsKnown(call[c].user)
       THEN call' = [call EXCEPT ![c].teams = TeamsOf(call[c].user), ![c].step = "next"] /\ Same
       ELSE Leaves(c)

NextTeam(c) ==
    /\ At(c, {"removeOrgMember"}, "next")
    /\ \E t \in call[c].teams :
          LET o == TeamOrganization(c, t) IN
          IF o # None
          THEN /\ call' = [call EXCEPT ![c].teams = @ \ {t}, ![c].team = t,
                              ![c].step = IF o = call[c].org THEN "leave" ELSE "next"]
               /\ Same
          ELSE Leaves(c)

LeaveTeam(c) ==
    /\ At(c, {"removeOrgMember"}, "leave")
    /\ IF Has(call[c].user, "member", call[c].team)
       THEN /\ tuples' = tuples \ {Grant(call[c].user, "member", call[c].team)}
            /\ Goes(c, "next")
            /\ UNCHANGED <<rows, drawn, history>>
       ELSE Leaves(c)

NoTeamLeft(c) ==
    /\ At(c, {"removeOrgMember"}, "next")
    /\ call[c].teams = {}
    /\ Goes(c, "delete")
    /\ Same

(* The one call of the other removals and the last of remove_org_member.      *)
DeleteTuple(c) ==
    /\ call[c].step = "delete"
    /\ tuples' = tuples \ {TupleOf(c)}
    /\ Ends(c)
    /\ UNCHANGED <<rows, drawn, history>>

-----------------------------------------------------------------------------
(* The process stops, or the call of a store fails: what OpenFGA was told     *)
(* before stays, the transaction is rolled back.                              *)
Crash(c) ==
    /\ Runs(c)
    /\ Ends(c)
    /\ stopped' = IF call[c].kind = "create" THEN stopped \cup {call[c].team} ELSE stopped
    /\ UNCHANGED <<tuples, rows, drawn, wasAdmin, overlapped>>

Next ==
    \E c \in Call :
        \/ BeginCreate(c) \/ Begin(c)
        \/ Start(c) \/ CheckName(c) \/ WriteOrganization(c) \/ Commit(c)
        \/ CheckAdmins(c) \/ CheckTeams(c) \/ ReadUser(c) \/ ReadTeam(c) \/ WriteTuple(c)
        \/ ListTeams(c) \/ NextTeam(c) \/ LeaveTeam(c) \/ NoTeamLeft(c) \/ DeleteTuple(c)
        \/ Crash(c)

Spec == Init /\ [][Next]_vars

-----------------------------------------------------------------------------
(* Properties.                                                                *)

(* The types of the variables.                                                *)
TypeOK ==
    /\ tuples \subseteq Tuple
    /\ rows \subseteq Row
    /\ call \in [Call -> CallState]
    /\ drawn \subseteq Team
    /\ stopped \subseteq Team
    /\ wasAdmin \subseteq User \X Org
    /\ overlapped \in BOOLEAN

(* The two stores agree on every team that has a row: it belongs to that one  *)
(* organization, so get_team_organization finds it, whatever overlaps or      *)
(* stops (set_team_organization).                                             *)
StoresAgree == \A r \in rows : OrgsOfTeam(r.id) = {r.organization}

(* As long as no two calls overlapped:                                        *)

(* an organization has one team of a name (set_team_organization);            *)
UniqueNames ==
    ~overlapped => \A r, s \in rows :
        r.name = s.name /\ r.organization = s.organization => r = s

(* who is a member of a team is in its organization: add_team_member asks,    *)
(* and remove_org_member leaves the teams first, wherever it stops, unless who *)
(* was in it as an administrator left it so;                                  *)
MembersInOrg ==
    ~overlapped => \A u \in User, t \in Team, o \in Org :
        Has(u, "member", t) /\ Has(o, "organization", t)
            => IsIn(u, o) \/ <<u, o>> \in wasAdmin

(* a team that has tuples and no row is being created, or its creation was    *)
(* stopped: no check of create_team fails after the first tuple is kept.      *)
(* Without the row get_users_teams raises for everyone in the team.           *)
NoGhosts ==
    ~overlapped => \A g \in tuples : g.object \in Team =>
        \/ \E r \in rows : r.id = g.object
        \/ g.object \in stopped
        \/ \E c \in Call : call[c].kind = "create" /\ call[c].team = g.object
=============================================================================
