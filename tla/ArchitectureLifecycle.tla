----------------------- MODULE ArchitectureLifecycle -----------------------
(* The life of architectures: created, cloned, renamed and deleted            *)
(* (ArchitectureHandler) while their environments are edited and promoted.    *)
(*                                                                            *)
(* An architecture is a row of architectures, its environments and versions   *)
(* in the database, a state.json per version in the bucket and the roles of   *)
(* its users in OpenFGA.  The rows change when the transaction of a request   *)
(* commits; an object and a role change when they are written, and stay.      *)
(*                                                                            *)
(* A role is never taken away here, so a request that was authorized stays    *)
(* so: it is checked together with the first read of the rows.  A slot is     *)
(* used again when its request has ended: their number is not bounded.        *)
EXTENDS Naturals, FiniteSets

CONSTANTS
    Slot,      \* the requests that may run at once
    User,
    Arch,      \* the uuids an architecture may draw
    Name,
    MaxHash,   \* bounds the versions that are ever made
    None       \* None of Python

ASSUME MaxHashAssumption == MaxHash \in Nat

VARIABLES
    roles,         \* OpenFGA: who is the owner of an architecture
    architectures, \* committed rows of the three tables
    environments,
    versions,
    objects,       \* the bucket: the state at each path
    request,       \* per slot: what it does, its next step, what it knows
    hashes,        \* the version hashes drawn so far: 1 .. hashes
    used,          \* the architectures whose uuid was drawn
    abandoned,     \* those whose creation did not end
    deleted,       \* those a request has deleted
    touched        \* the slots whose architecture changed since they began

tables == <<architectures, environments, versions>>
drawn == <<hashes, used>>
gone == <<abandoned, deleted>>
others == <<roles, tables, objects, drawn, gone>>
vars == <<others, request, touched>>

BASE_ENV_ID == "default"
PROD_ENV_ID == "prod"
Env == {BASE_ENV_ID, PROD_ENV_ID}
Path == Arch \X Env \X Nat       \* state/<architecture>/<env>/<version>
ASSUME NoneAssumption == None \notin Arch \cup Path
Hash == 0 .. MaxHash             \* 0: of the version 0; else also the state

Architecture == [id : Arch, name : Name, owner : User]
Environment == [architecture : Arch, id : Env, current : Nat]
Version == [path : Path, hash : Hash, tracks : Hash, location : Path \cup {None}]

EnvironmentsOf(a) == {e \in environments : e.architecture = a}
VersionsOf(a, env) == {v \in versions : v.path[1] = a /\ v.path[2] = env}
CurrentOf(a, env) == {v \in VersionsOf(a, env) : \E e \in EnvironmentsOf(a) :
                                                     e.id = env /\ e.current = v.path[3]}

(* get_state_from_fs                                                          *)
Stored(v) == IF v.location = None THEN v.path[3] = 0 ELSE v.location \in DOMAIN objects
StateOf(v) == IF v.location = None THEN 0 ELSE objects[v.location]

-----------------------------------------------------------------------------
(* A request.  arch: what it is for; new: the architecture it makes; todo and *)
(* copy: the environments and versions a clone has yet to copy; loaded: the   *)
(* versions a transaction deletes, by path; the other fields are the rows its *)
(* session adds, and the pointers it sets.                                    *)
Kind == {"none", "create", "clone", "rename", "delete", "edit"}
Step == {"idle", "owner", "environments", "environment", "versions", "load", "commit"}
Request == [kind : Kind, step : Step, arch : Arch \cup {None}, new : SUBSET Architecture,
            todo : SUBSET Environment, copy : SUBSET Version, loaded : SUBSET Path,
            addEnvironments : SUBSET Environment, addVersions : SUBSET Version]
NoRequest == [kind |-> "none", step |-> "idle", arch |-> None, new |-> {}, todo |-> {},
              copy |-> {}, loaded |-> {}, addEnvironments |-> {}, addVersions |-> {}]

At(s, kinds, step) == request[s].kind \in kinds /\ request[s].step = step
Becomes(s, r) == request' = [request EXCEPT ![s] = r]
Ends(s) == Becomes(s, NoRequest)

Init ==
    /\ roles = {} /\ objects = << >>
    /\ architectures = {} /\ environments = {} /\ versions = {}
    /\ request = [s \in Slot |-> NoRequest]
    /\ hashes = 0 /\ used = {} /\ abandoned = {} /\ deleted = {} /\ touched = {}

(* A user with a role on an architecture that exists: who may write may read. *)
Allowed(s, a) ==
    /\ request[s].kind = "none"
    /\ \E u \in User : <<u, a>> \in roles
    /\ \E x \in architectures : x.id = a

-----------------------------------------------------------------------------
(* new_architecture, and what clone_architecture shares with it: the role of  *)
(* the owner is written before any row.  The client may name another owner.   *)
EnvironmentRow(a, env, n) == [architecture |-> a, id |-> env, current |-> n]
VersionRow(a, env, n, h, t, l) ==
    [path |-> <<a, env, n>>, hash |-> h, tracks |-> t, location |-> l]

NewArchitecture(id, n, u) == {[id |-> id, name |-> n, owner |-> u]}

BeginCreate(s) ==
    /\ request[s].kind = "none"
    /\ \E id \in Arch \ used, n \in Name, u \in User :
          /\ used' = used \cup {id}
          /\ Becomes(s, [NoRequest EXCEPT
                !.kind = "create", !.step = "owner", !.new = NewArchitecture(id, n, u),
                !.addEnvironments = {EnvironmentRow(id, env, 0) : env \in Env},
                !.addVersions = {VersionRow(id, env, 0, 0, 0, None) : env \in Env}])
    /\ UNCHANGED <<roles, tables, objects, hashes, gone>>

BeginClone(s) ==
    /\ \E a \in Arch, id \in Arch \ used, n \in Name, u \in User :
          /\ Allowed(s, a)
          /\ used' = used \cup {id}
          /\ Becomes(s, [NoRequest EXCEPT !.kind = "clone", !.step = "owner", !.arch = a,
                             !.new = NewArchitecture(id, n, u)])
    /\ UNCHANGED <<roles, tables, objects, hashes, gone>>

BugAddOwner(s) ==
    /\ At(s, {"create", "clone"}, "owner")
    /\ roles' = roles \cup {<<x.owner, IF request[s].kind = "create" THEN x.id
                                       ELSE request[s].arch>> : x \in request[s].new}
    /\ Becomes(s, [request[s] EXCEPT !.step =
                      IF request[s].kind = "create" THEN "commit" ELSE "environments"])
    /\ UNCHANGED <<tables, objects, drawn, gone>>

AddOwner(s) ==
    /\ At(s, {"create", "clone"}, "owner")
    /\ roles' = roles \cup {<<x.owner, x.id>> : x \in request[s].new}
    /\ Becomes(s, [request[s] EXCEPT !.step =
                      IF request[s].kind = "create" THEN "commit" ELSE "environments"])
    /\ UNCHANGED <<tables, objects, drawn, gone>>

-----------------------------------------------------------------------------
(* clone_architecture: the environments in one statement, the versions of     *)
(* each in another, the state of each version from the bucket to the bucket.  *)
CopyOf(s, path) == <<(CHOOSE x \in request[s].new : TRUE).id, path[2], path[3]>>

ReadEnvironments(s) ==
    /\ At(s, {"clone"}, "environments")
    /\ Becomes(s, [request[s] EXCEPT !.step = "environment",
                                     !.todo = EnvironmentsOf(request[s].arch)])
    /\ UNCHANGED others

BugListVersions(s) ==
    /\ At(s, {"clone"}, "environment")
    /\ \E e \in request[s].todo :
          Becomes(s, [request[s] EXCEPT
             !.step = "versions", !.todo = @ \ {e},
             !.copy = {v \in VersionsOf(request[s].arch, e.id) : v.path[3] <= e.current},
             !.addEnvironments = @ \cup
                 {EnvironmentRow(x.id, e.id, e.current) : x \in request[s].new}])
    /\ UNCHANGED others

ListVersions(s) ==
    /\ At(s, {"clone"}, "environment")
    /\ \E e \in request[s].todo :
          Becomes(s, [request[s] EXCEPT
             !.step = "versions", !.todo = @ \ {e},
             !.copy = VersionsOf(request[s].arch, e.id),
             !.addEnvironments = @ \cup
                 {EnvironmentRow(x.id, e.id, e.current) : x \in request[s].new}])
    /\ UNCHANGED others

(* No await between the versions of an environment, but another process of    *)
(* the service may write an object.                                           *)
BugCopyVersion(s) ==
    /\ At(s, {"clone"}, "versions")
    /\ \E v \in request[s].copy :
          /\ Stored(v)
          /\ Becomes(s, [request[s] EXCEPT
                !.copy = @ \ {v},
                !.addVersions = @ \cup {[v EXCEPT !.path = CopyOf(s, v.path)]}])
    /\ UNCHANGED others

CopyVersion(s) ==
    /\ At(s, {"clone"}, "versions")
    /\ \E v \in request[s].copy :
          LET path == CopyOf(s, v.path)
              stored == v.location # None IN
          /\ Stored(v)
          /\ Becomes(s, [request[s] EXCEPT
                !.copy = @ \ {v},
                !.addVersions = @ \cup {[v EXCEPT
                    !.path = path, !.location = IF stored THEN path ELSE None]}])
          /\ objects' = [x \in DOMAIN objects \cup (IF stored THEN {path} ELSE {}) |->
                            IF stored /\ x = path THEN StateOf(v) ELSE objects[x]]
    /\ UNCHANGED <<roles, tables, drawn, gone>>

NextEnvironment(s) ==
    /\ At(s, {"clone"}, "versions")
    /\ request[s].copy = {}
    /\ Becomes(s, [request[s] EXCEPT !.step = "environment"])
    /\ UNCHANGED others

NoEnvironmentLeft(s) ==
    /\ At(s, {"clone"}, "environment")
    /\ request[s].todo = {}
    /\ Becomes(s, [request[s] EXCEPT !.step = "commit"])
    /\ UNCHANGED others

-----------------------------------------------------------------------------
(* rename_architecture and delete_architecture.  The cascade of the session   *)
(* selects the environments and versions it deletes; that the versions of one *)
(* environment are selected after those of the other changes nothing, for     *)
(* what was added to either since keeps the transaction from committing.      *)
BeginRename(s) ==
    /\ \E x \in architectures, n \in Name :
          /\ Allowed(s, x.id)
          /\ Becomes(s, [NoRequest EXCEPT !.kind = "rename", !.step = "commit",
                             !.arch = x.id, !.new = {[x EXCEPT !.name = n]}])
    /\ UNCHANGED others

BeginDelete(s) ==
    /\ \E a \in Arch :
          /\ Allowed(s, a)
          /\ Becomes(s, [NoRequest EXCEPT !.kind = "delete", !.step = "load", !.arch = a])
    /\ UNCHANGED others

LoadVersions(s) ==
    /\ At(s, {"delete"}, "load")
    /\ Becomes(s, [request[s] EXCEPT !.step = "commit",
          !.loaded = {v.path : v \in {w \in versions : w.path[1] = request[s].arch}}])
    /\ UNCHANGED others

-----------------------------------------------------------------------------
(* An edit, here, is what a run or a promotion does to the stores; its steps  *)
(* are those of VersionStore.  The state is in the bucket before the rows.    *)
Latest(a, env) == {v \in VersionsOf(a, env) : \A w \in VersionsOf(a, env) : w.path[3] <= v.path[3]}

Writes(s, a, env, n, tracks, loaded) ==
    LET path == <<a, env, n>> IN
    /\ hashes < MaxHash
    /\ hashes' = hashes + 1
    /\ objects' = [x \in DOMAIN objects \cup {path} |->
                      IF x = path THEN hashes' ELSE objects[x]]
    /\ Becomes(s, [NoRequest EXCEPT
          !.kind = "edit", !.step = "commit", !.arch = a, !.loaded = loaded,
          !.addEnvironments = {EnvironmentRow(a, env, n)},
          !.addVersions = {VersionRow(a, env, n, hashes', tracks, path)}])
    /\ UNCHANGED <<roles, tables, used, gone>>

(* From the current version, or from any, deleting those after it.            *)
Run(s) ==
    \E a \in Arch, env \in Env, overwrite \in BOOLEAN :
        /\ Allowed(s, a)
        /\ \E v \in IF overwrite THEN VersionsOf(a, env) ELSE CurrentOf(a, env),
              last \in Latest(a, env) :
              Writes(s, a, env, last.path[3] + 1, v.tracks,
                     {w.path : w \in {x \in VersionsOf(a, env) :
                                         overwrite /\ x.path[3] > v.path[3]}})

Promote(s) ==
    \E a \in Arch :
        /\ Allowed(s, a)
        /\ \E v \in CurrentOf(a, PROD_ENV_ID), b \in CurrentOf(a, BASE_ENV_ID) :
              /\ v.tracks # b.hash
              /\ Writes(s, a, PROD_ENV_ID, v.path[3] + 1, b.hash, {})

(* Undo and redo, answered at once.                                           *)
Move(s) ==
    /\ \E a \in Arch, env \in Env : \E v \in VersionsOf(a, env) :
          /\ Allowed(s, a)
          /\ environments' = {IF <<e.architecture, e.id>> = <<a, env>>
                              THEN [e EXCEPT !.current = v.path[3]] ELSE e : e \in environments}
    /\ UNCHANGED <<roles, architectures, versions, objects, request, drawn, gone>>

-----------------------------------------------------------------------------
(* The commits.  Foreign keys tie a version to its environment and that to    *)
(* its architecture; an update of a row that is gone fails; a delete of a row *)
(* that is gone does not.                                                     *)
CommitNew(s) ==
    /\ At(s, {"create", "clone"}, "commit")
    /\ architectures' = architectures \cup request[s].new
    /\ environments' = environments \cup request[s].addEnvironments
    /\ versions' = versions \cup request[s].addVersions
    /\ Ends(s)
    /\ UNCHANGED <<roles, objects, drawn, gone>>

BugRenames(s) == At(s, {"rename"}, "commit")

Renames(s) ==
    /\ At(s, {"rename"}, "commit")
    /\ \E x \in architectures : x.id = request[s].arch

CommitRename(s) ==
    /\ Renames(s)
    /\ architectures' = {x \in architectures : x.id # request[s].arch} \cup request[s].new
    /\ Ends(s)
    /\ UNCHANGED <<roles, environments, versions, objects, drawn, gone>>

Deletes(s) ==
    /\ At(s, {"delete"}, "commit")
    /\ \A v \in versions : v.path[1] = request[s].arch => v.path \in request[s].loaded

CommitDelete(s) ==
    /\ Deletes(s)
    /\ architectures' = {x \in architectures : x.id # request[s].arch}
    /\ environments' = environments \ EnvironmentsOf(request[s].arch)
    /\ versions' = {v \in versions : v.path[1] # request[s].arch}
    /\ deleted' = deleted \cup {request[s].arch}
    /\ Ends(s)
    /\ UNCHANGED <<roles, objects, drawn, abandoned>>

Adds(s) ==
    /\ At(s, {"edit"}, "commit")
    /\ \E e \in environments : e.architecture = request[s].arch
    /\ ~\E v \in versions, w \in request[s].addVersions : v.path = w.path

CommitEdit(s) ==
    /\ Adds(s)
    /\ versions' = {v \in versions : v.path \notin request[s].loaded} \cup request[s].addVersions
    /\ environments' = {e \in environments : \A f \in request[s].addEnvironments :
                           <<e.architecture, e.id>> # <<f.architecture, f.id>>}
                       \cup request[s].addEnvironments
    /\ Ends(s)
    /\ UNCHANGED <<roles, architectures, objects, drawn, gone>>

(* The transaction is rolled back: it may not commit, a state was not there   *)
(* to copy, the process stops or a store does not answer.                     *)
Fails(s) ==
    /\ request[s].kind # "none"
    /\ abandoned' = abandoned \cup (IF request[s].kind \in {"create", "clone"}
                                    THEN {x.id : x \in request[s].new} ELSE {})
    /\ Ends(s)
    /\ UNCHANGED <<roles, tables, objects, drawn, deleted>>

-----------------------------------------------------------------------------
(* What an architecture holds, and whether it changed since a clone of it     *)
(* began (for the properties).                                                *)
Content(a) ==
    [environments |-> {<<e.id, e.current>> : e \in EnvironmentsOf(a)},
     versions |-> {<<v.path[2], v.path[3], v.hash, v.tracks, StateOf(v)>> :
                      v \in {w \in versions : w.path[1] = a}}]

Touches ==
    touched' = {s \in Slot :
        /\ request[s].kind = "clone" /\ request'[s].kind = "clone"
        /\ s \in touched \/ \E a \in Arch : a = request[s].arch /\ Content(a)' # Content(a)}

Acts(s) ==
    \/ BeginCreate(s) \/ BeginClone(s) \/ AddOwner(s)
    \/ ReadEnvironments(s) \/ ListVersions(s) \/ CopyVersion(s)
    \/ NextEnvironment(s) \/ NoEnvironmentLeft(s)
    \/ BeginRename(s) \/ BeginDelete(s) \/ LoadVersions(s)
    \/ Run(s) \/ Promote(s) \/ Move(s)
    \/ CommitNew(s) \/ CommitRename(s) \/ CommitDelete(s) \/ CommitEdit(s) \/ Fails(s)

Next == (\E s \in Slot : Acts(s)) /\ Touches

Spec == Init /\ [][Next]_vars

-----------------------------------------------------------------------------
(* Properties.                                                                *)

(* The types of the variables.                                                *)
TypeOK ==
    /\ roles \subseteq User \X Arch
    /\ architectures \subseteq Architecture
    /\ environments \subseteq Environment
    /\ versions \subseteq Version
    /\ DOMAIN objects \subseteq Path /\ \A x \in DOMAIN objects : objects[x] \in Hash
    /\ request \in [Slot -> Request]
    /\ hashes \in Hash
    /\ used \subseteq Arch /\ abandoned \subseteq Arch /\ deleted \subseteq Arch
    /\ touched \subseteq Slot

(* The two stores agree, whatever overlaps or stops: the owner a row names    *)
(* has the role, so who finds an architecture in the list may open it; a role *)
(* without a row is that of an architecture that is being made, whose making  *)
(* was stopped, or that was deleted (clone_architecture writes the role       *)
(* first and nothing takes it back).                                          *)
RolesAgree ==
    /\ \A x \in architectures : <<x.owner, x.id>> \in roles
    /\ \A role \in roles :
          \/ role[2] \in abandoned \cup deleted
          \/ \E x \in architectures : x.id = role[2]
          \/ \E s \in Slot : \E x \in request[s].new : x.id = role[2]

(* Every version but the first of an environment has its own state in the     *)
(* bucket, under the name of its architecture: a clone shares nothing with    *)
(* its source, and outlives it (clone_architecture, delete_architecture).     *)
StatesKept ==
    \A v \in versions :
        IF v.path[3] = 0 THEN v.location = None
        ELSE v.location = v.path /\ v.path \in DOMAIN objects

(* Nothing of a deleted architecture comes back, though a run, a rename or    *)
(* another delete was under way: the transaction that comes last fails        *)
(* (delete_architecture).                                                     *)
DeletedIsGone ==
    /\ \A x \in architectures : x.id \notin deleted
    /\ \A e \in environments : e.architecture \notin deleted
    /\ \A v \in versions : v.path[1] \notin deleted

(* A clone is what its source was: the same environments at the same          *)
(* versions, the same states, prod tracking the same version, unless the      *)
(* source changed while it was read in several statements                     *)
(* (clone_architecture).                                                      *)
CloneIsSource ==
    [][\A s \in Slot : \A x \in request[s].new :
         request[s].kind = "clone" /\ s \notin touched /\ x \in architectures'
         => Content(x.id)' = Content(request[s].arch)]_vars
=============================================================================
