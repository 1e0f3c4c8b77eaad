----------------------------- MODULE VersionStore -----------------------------
(***************************************************************************)
(* The version store of one architecture: the rows of environment_versions *)
(* and environments in the database, the state.json and iac.zip objects in *)
(* the bucket, and the HTTP requests that read and change them.            *)
(*                                                                         *)
(* Every request runs in one database transaction (SessionLocal.begin()):  *)
(* its statements see what other transactions have committed, its own      *)
(* writes appear at the commit, an exception rolls them back. A put to the *)
(* bucket is outside the transaction: it is seen at once and stays.  A     *)
(* request gives way to the others at every await, so each action below is *)
(* the code between two awaits that other requests can tell apart.         *)
(*                                                                         *)
(* An engine state (resources.yaml and topology.yaml) is the set of edits  *)
(* it holds; a request that runs the engine adds one edit, named by the    *)
(* request itself, which also stands for the uuid it draws for the hash of *)
(* the version it adds.                                                    *)
(***************************************************************************)
EXTENDS Naturals, FiniteSets

CONSTANTS
  Request,   \* the requests of a behaviour
  Kinds,     \* the kinds of request that arrive for each environment
  Versions,  \* the version numbers a client may send
  Serial,    \* TRUE: a request arrives only when no other is in flight
  NoRequest, \* the hash of a version 0, which no run created
  NoRow      \* "no row loaded"

Run == "run"             \* POST .../run, overwrite = false
Overwrite == "overwrite" \* POST .../run, overwrite = true
Chat == "chat"           \* POST .../message
Set == "set"             \* POST .../environment/{env_id}
Undo == "undo"           \* GET .../prev, then POST of the version it returned
Redo == "redo"           \* GET .../next, then POST of the version it returned
Promote == "promote"     \* POST .../promote
Iac == "iac"             \* GET .../iac

RunKinds == {Run, Overwrite, Chat}
MoveKinds == {Set, Undo, Redo}
AllKinds == RunKinds \cup MoveKinds \cup {Promote, Iac}

BASE_ENV_ID == "default"
PROD_ENV_ID == "prod"
Env == {BASE_ENV_ID, PROD_ENV_ID}

\* Only prod is promoted to: the base tracks no environment.
ASSUME KindsAssumption ==
  Kinds \in [Env -> SUBSET AllKinds] /\ Promote \notin Kinds[BASE_ENV_ID]
ASSUME VersionsAssumption == Versions \subseteq Nat
ASSUME SerialAssumption == Serial \in BOOLEAN
ASSUME NoRequestAssumption == NoRequest \notin Request

Hash == Request \cup {NoRequest}
Content == SUBSET Request

(***************************************************************************)
(* A row of environment_versions. tracks is tracks.version_hash of the     *)
(* resource configuration (only rows of prod track a version), constraints *)
(* the edits stored with the version, stored and iac tell whether          *)
(* state_location and iac_location are set.                                *)
(***************************************************************************)
Row == [env : Env, version : Nat, hash : Hash, tracks : Hash,
        constraints : Content, stored : BOOLEAN, iac : BOOLEAN]

Path == Env \X Nat \* state/<architecture>/<env>/<version>

\* The answer of the handler: 2xx, 4xx, or 500 (an exception, a crash)
Answers == {"ok", "refused", "failed"}
\* The next step of a request that has not answered
Waiting == {"ask", "load", "move", "base", "collect", "engine", "latest",
            "future", "write", "commit"}
Phase == {"idle"} \cup Waiting \cup Answers

VARIABLES
  rows,      \* committed rows of environment_versions
  current,   \* environments.current, committed
  stateObj,  \* the state.json objects of the bucket, by path
  iacObj,    \* the iac.zip objects of the bucket, by path
  phase,     \* where each request is: its next step, or its answer
  job,       \* what each request asks for
  own,       \* the version row it works on (architecture, env_version)
  base,      \* promote: the row of the base environment (curr_base)
  overrides, \* promote: the edits made in the environment itself
  result,    \* what the engine or the IaC export returned to it
  target,    \* the version number it adds or moves to
  future     \* overwrite: the versions it has marked deleted

db == <<rows, current>>
bucket == <<stateObj, iacObj>>
session == <<own, base, overrides, result, target, future>>
vars == <<db, bucket, phase, job, session>>

Job == [kind : AllKinds, env : Env, version : Nat]

-----------------------------------------------------------------------------
(* The queries of EnvironmentVersionDAO.  Here and below, a definition whose  *)
(* name starts with Bug is a mistake the next one could contain; no action    *)
(* uses it.                                                                   *)

RowsOf(e) == {r \in rows : r.env = e}

\* get_environment_version
IsVersion(r, e, v) == r \in RowsOf(e) /\ r.version = v

\* get_current_version: joins the row with the pointer of its environment
IsCurrent(r, e) == IsVersion(r, e, current[e])

\* get_latest_version
IsLatest(r, e) == r \in RowsOf(e) /\ \A s \in RowsOf(e) : s.version <= r.version

\* get_previous_state
IsPrevious(r, e, v) ==
  /\ r \in RowsOf(e)
  /\ r.version < v
  /\ \A s \in RowsOf(e) : s.version < v => s.version <= r.version

\* get_next_state
IsNext(r, e, v) ==
  /\ r \in RowsOf(e)
  /\ r.version > v
  /\ \A s \in RowsOf(e) : s.version > v => s.version >= r.version

BugFutureVersions(e, v) == {r.version : r \in {s \in RowsOf(e) : s.version >= v}}

\* delete_future_versions
FutureVersions(e, v) == {r.version : r \in {s \in RowsOf(e) : s.version > v}}

\* get_all_versions_tracking_hash
TrackingRows(e, h) == {r \in RowsOf(e) : r.tracks = h}

PathOf(r) == <<r.env, r.version>>

\* get_state_from_fs: only a version 0 may have no location, its state is empty
StateOf(r) == IF r.stored THEN stateObj[PathOf(r)] ELSE {}

Put(objects, path, content) ==
  [x \in DOMAIN objects \cup {path} |-> IF x = path THEN content ELSE objects[x]]

-----------------------------------------------------------------------------
(* new_architecture: two environments, each with a version 0; prod tracks   *)
(* the version 0 of the base.  Both hashes are NoRequest: a version is      *)
(* looked up by hash in one environment only.                              *)

FirstRow(e) == [env |-> e, version |-> 0, hash |-> NoRequest, tracks |-> NoRequest,
                constraints |-> {}, stored |-> FALSE, iac |-> FALSE]

Init ==
  /\ rows = {FirstRow(e) : e \in Env}
  /\ current = [e \in Env |-> 0]
  /\ stateObj = <<>>
  /\ iacObj = <<>>
  /\ phase = [p \in Request |-> "idle"]
  /\ job = [p \in Request |-> [kind |-> Iac, env |-> BASE_ENV_ID, version |-> 0]]
  /\ own = [p \in Request |-> NoRow]
  /\ base = [p \in Request |-> NoRow]
  /\ overrides = [p \in Request |-> {}]
  /\ result = [p \in Request |-> {}]
  /\ target = [p \in Request |-> 0]
  /\ future = [p \in Request |-> {}]

Idle == [kind |-> Iac, env |-> BASE_ENV_ID, version |-> 0]

Goto(p, ph) == phase' = [phase EXCEPT ![p] = ph]

\* The request ends and its session is closed.  What a run computed is
\* remembered as long as a version of its making exists.
Close(p, answer) ==
  /\ Goto(p, answer)
  /\ job' = [job EXCEPT ![p] = Idle]
  /\ own' = [own EXCEPT ![p] = NoRow]
  /\ base' = [base EXCEPT ![p] = NoRow]
  /\ overrides' = [overrides EXCEPT ![p] = {}]
  /\ target' = [target EXCEPT ![p] = 0]
  /\ future' = [future EXCEPT ![p] = {}]

\* The handler returns or raises and nothing is committed.
Answer(p, answer) ==
  /\ Close(p, answer)
  /\ result' = [result EXCEPT ![p] = {}]
  /\ UNCHANGED <<db, bucket>>

\* The handler keeps the row it loaded and goes on.
Keep(p, r, next) ==
  /\ own' = [own EXCEPT ![p] = r]
  /\ Goto(p, next)
  /\ UNCHANGED <<db, bucket, job, base, overrides, result, target, future>>

\* The handler keeps what the engine returned and goes on.
Compute(p, state, next) ==
  /\ result' = [result EXCEPT ![p] = state]
  /\ Goto(p, next)
  /\ UNCHANGED <<db, bucket, job, own, base, overrides, future>>

InFlight(p) == phase[p] \in Waiting
At(p, kinds, step) == phase[p] = step /\ job[p].kind \in kinds

FirstStep(kind) ==
  CASE kind = Set  -> "move"
    [] kind = Chat -> "ask"
    [] OTHER       -> "load"

(***************************************************************************)
(* A request arrives and is authorised.  A client may send any version     *)
(* number: its copy of the environment may be out of date.                 *)
(***************************************************************************)
Arrive(p) ==
  /\ phase[p] = "idle"
  /\ Serial => \A q \in Request : ~InFlight(q)
  /\ \E e \in Env, v \in Versions : \E kind \in Kinds[e] :
       /\ job' = [job EXCEPT ![p] = [kind |-> kind, env |-> e, version |-> v]]
       /\ target' = [target EXCEPT ![p] = v]
       /\ Goto(p, FirstStep(kind))
  /\ UNCHANGED <<db, bucket, own, base, overrides, result, future>>

\* The process dies, or a call of the handler raises: the transaction rolls
\* back, what was put in the bucket stays.
Crash(p) == InFlight(p) /\ Answer(p, "failed")

-----------------------------------------------------------------------------
(* do_run and handle_message *)

\* handle_message has no case for these errors: they become a 500
Refusal(p) == IF job[p].kind = Chat THEN "failed" ELSE "refused"

\* handle_message reads the current version, then waits for the assistant
ChatLoad(p) ==
  /\ At(p, {Chat}, "ask")
  /\ \/ \E r \in rows :
          /\ IsCurrent(r, job[p].env)
          /\ job' = [job EXCEPT ![p].version = r.version]
          /\ Goto(p, "load")
          /\ UNCHANGED <<db, bucket, session>>
     \/ (~\E r \in rows : IsCurrent(r, job[p].env)) /\ Answer(p, "failed")

BugBuildsOn(p, r) ==
  /\ \E c \in rows : IsCurrent(c, job[p].env)
  /\ IsVersion(r, job[p].env, job[p].version)

\* The version a run builds on: the current one, if the client has seen it,
\* or with overwrite the one the client names.
BuildsOn(p, r) ==
  /\ \E c \in rows : IsCurrent(c, job[p].env)
  /\ IsVersion(r, job[p].env, job[p].version)
  /\ job[p].kind # Overwrite => IsCurrent(r, job[p].env)

RunLoad(p) ==
  /\ At(p, RunKinds, "load")
  /\ \/ \E r \in rows : BuildsOn(p, r) /\ Keep(p, r, "engine")
     \/ (~\E r \in rows : BuildsOn(p, r)) /\ Answer(p, Refusal(p))

RunEngine(p) ==
  /\ At(p, RunKinds, "engine")
  /\ Compute(p, StateOf(own[p]) \cup {p}, "latest")
  /\ UNCHANGED target

\* The engine fails, or the environment does not allow what it was asked or
\* what it did (TopologicalChangesNotAllowed, which handle_message does not know)
EngineRefuses(p) ==
  /\ At(p, RunKinds, "engine")
  /\ \E answer \in {"refused", Refusal(p)} : Answer(p, answer)

BugReadLatest(p) ==
  /\ At(p, RunKinds, "latest")
  /\ target' = [target EXCEPT ![p] = own[p].version + 1]
  /\ Goto(p, IF job[p].kind = Overwrite THEN "future" ELSE "write")
  /\ UNCHANGED <<db, bucket, job, own, base, overrides, result, future>>

ReadLatest(p) ==
  /\ At(p, RunKinds, "latest")
  /\ \E r \in rows :
       /\ IsLatest(r, job[p].env)
       /\ target' = [target EXCEPT ![p] = r.version + 1]
  /\ Goto(p, IF job[p].kind = Overwrite THEN "future" ELSE "write")
  /\ UNCHANGED <<db, bucket, job, own, base, overrides, result, future>>

DeleteFuture(p) ==
  /\ At(p, {Overwrite}, "future")
  /\ future' = [future EXCEPT ![p] = FutureVersions(job[p].env, job[p].version)]
  /\ Goto(p, "write")
  /\ UNCHANGED <<db, bucket, job, own, base, overrides, result, target>>

BugPathOfOwn(p) == <<job[p].env, own[p].version>>

TargetPath(p) == <<job[p].env, target[p]>>

WriteState(p) ==
  /\ At(p, RunKinds \cup {Promote}, "write")
  /\ stateObj' = Put(stateObj, TargetPath(p), result[p])
  /\ Goto(p, "commit")
  /\ UNCHANGED <<db, iacObj, job, session>>

(***************************************************************************)
(* add_environment_version, set_current_version and the commit.  The       *)
(* INSERT waits for a transaction that inserts the same key, so the row is *)
(* checked against committed rows, and the pointer is written last: the    *)
(* three are one step.  A new row with the key of a row marked deleted is  *)
(* flushed as one UPDATE of that row, which leaves a column the new object *)
(* never set (iac_location) alone or empty.                                *)
(***************************************************************************)
TargetRow(p, r) == IsVersion(r, job[p].env, target[p])

BugWritable(p) == TRUE

\* An INSERT needs a free key, an UPDATE a row.
Writable(p) == (\E r \in rows : TargetRow(p, r)) <=> target[p] \in future[p]

BugRowAfterOwn(p, iac) ==
  [env |-> job[p].env, version |-> own[p].version + 1, hash |-> p,
   tracks |-> IF job[p].kind = Promote THEN base[p].hash ELSE own[p].tracks,
   constraints |-> IF job[p].kind = Promote THEN overrides[p] ELSE {p},
   stored |-> TRUE, iac |-> iac]

BugRowNoOverrides(p, iac) ==
  [BugRowAfterOwn(p, iac) EXCEPT !.version = target[p],
     !.constraints = IF job[p].kind = Promote THEN {} ELSE {p}]

BugRowTracksCurrent(p, iac) ==
  [BugRowAfterOwn(p, iac) EXCEPT !.version = target[p],
     !.tracks = IF job[p].kind = Promote
                THEN (CHOOSE r \in rows : IsCurrent(r, BASE_ENV_ID)).hash ELSE own[p].tracks]

NewRow(p, iac) ==
  [env         |-> job[p].env,
   version     |-> target[p],
   hash        |-> p,
   tracks      |-> IF job[p].kind = Promote THEN base[p].hash ELSE own[p].tracks,
   constraints |-> IF job[p].kind = Promote THEN overrides[p] ELSE {p},
   stored      |-> TRUE,
   iac         |-> iac]

Deleted(p) == {r \in RowsOf(job[p].env) : r.version \in future[p]}

BugCommitVersion(p) ==
  /\ At(p, RunKinds \cup {Promote}, "commit")
  /\ Writable(p)
  /\ rows' = (rows \ Deleted(p)) \cup {NewRow(p, FALSE)}
  /\ Close(p, "ok")
  /\ UNCHANGED <<current, bucket, result>>

CommitVersion(p) ==
  /\ At(p, RunKinds \cup {Promote}, "commit")
  /\ Writable(p)
  /\ \E iac \in {FALSE} \cup {r.iac : r \in {s \in rows : TargetRow(p, s)}} :
       rows' = (rows \ Deleted(p)) \cup {NewRow(p, iac)}
  /\ current' = [current EXCEPT ![job[p].env] = target[p]]
  /\ Close(p, "ok")
  /\ UNCHANGED <<bucket, result>>

\* The key is taken (IntegrityError), or the row to update is gone
\* (StaleDataError).
CommitFails(p) ==
  /\ At(p, RunKinds \cup {Promote}, "commit")
  /\ ~Writable(p)
  /\ Answer(p, "failed")

-----------------------------------------------------------------------------
(* EnvironmentManager.promote *)

\* The tracked version is compared with the current version of the base.
\* In sync, the answer is the state of the environment, and a version 0
\* has none to answer with.
PromoteLoad(p) ==
  /\ At(p, {Promote}, "load")
  /\ \/ \E r, b \in rows :
          /\ IsCurrent(r, job[p].env)
          /\ IsCurrent(b, BASE_ENV_ID)
          /\ \/ r.tracks # b.hash /\ Keep(p, r, "base")
             \/ r.tracks = b.hash /\ Answer(p, IF r.stored THEN "ok" ELSE "failed")
     \/ /\ \/ ~\E r \in rows : IsCurrent(r, job[p].env)
           \/ ~\E b \in rows : IsCurrent(b, BASE_ENV_ID)
        /\ Answer(p, "refused")

\* curr_base is read again
PromoteBase(p) ==
  /\ At(p, {Promote}, "base")
  /\ \/ \E b \in rows :
          /\ IsCurrent(b, BASE_ENV_ID)
          /\ base' = [base EXCEPT ![p] = b]
          /\ Goto(p, "collect")
          /\ UNCHANGED <<db, bucket, job, own, overrides, result, target, future>>
     \/ (~\E b \in rows : IsCurrent(b, BASE_ENV_ID)) /\ Answer(p, "refused")

\* get_constraint_list_stream_since_last_promotion needs the version of the
\* base that the environment tracks; get_overrides gathers the edits of every
\* version of the environment that tracks it.
Tracked(r) == {b \in RowsOf(BASE_ENV_ID) : b.hash = r.tracks}

PromoteCollect(p) ==
  /\ At(p, {Promote}, "collect")
  /\ \/ \E r \in rows :
          /\ IsCurrent(r, job[p].env)
          /\ Tracked(r) # {}
          /\ overrides' = [overrides EXCEPT ![p] =
               UNION {s.constraints : s \in TrackingRows(job[p].env, r.tracks)}]
          /\ Goto(p, "engine")
          /\ UNCHANGED <<db, bucket, job, own, base, result, target, future>>
     \/ /\ ~\E r \in rows : IsCurrent(r, job[p].env) /\ Tracked(r) # {}
        /\ Answer(p, "refused")

BugPromoteAfterLatest(p) ==
  /\ At(p, {Promote}, "engine")
  /\ \E r \in rows : IsLatest(r, job[p].env)
                     /\ target' = [target EXCEPT ![p] = r.version + 1]
  /\ Compute(p, StateOf(base[p]) \cup overrides[p], "write")

\* An engine that fails or changes the topology ends in a 500: see Crash.
PromoteEngine(p) ==
  /\ At(p, {Promote}, "engine")
  /\ target' = [target EXCEPT ![p] = own[p].version + 1]
  /\ Compute(p, StateOf(base[p]) \cup overrides[p], "write")

-----------------------------------------------------------------------------
(* get_iac.  The client may leave the version out. *)

IacLoad(p) ==
  /\ At(p, {Iac}, "load")
  /\ \/ \E r \in rows :
          /\ IsCurrent(r, job[p].env)
          /\ \/ r.version # job[p].version /\ Answer(p, "refused")
             \/ r.iac /\ Answer(p, "ok")
             \/ ~r.iac /\ r.stored /\ Keep(p, r, "engine")
             \/ ~r.iac /\ ~r.stored /\ Answer(p, "refused")
     \/ (~\E r \in rows : IsCurrent(r, job[p].env)) /\ Answer(p, "failed")

ExportIac(p) ==
  /\ At(p, {Iac}, "engine")
  /\ Compute(p, StateOf(own[p]), "write")
  /\ UNCHANGED target

WriteIac(p) ==
  /\ At(p, {Iac}, "write")
  /\ iacObj' = Put(iacObj, PathOf(own[p]), result[p])
  /\ Goto(p, "commit")
  /\ UNCHANGED <<db, stateObj, job, session>>

\* update_environment_version: whatever row now has the key gets the location
CommitIac(p) ==
  /\ At(p, {Iac}, "commit")
  /\ \/ \E r \in rows :
          /\ PathOf(r) = PathOf(own[p])
          /\ rows' = (rows \ {r}) \cup {[r EXCEPT !.iac = TRUE]}
          /\ Close(p, "ok")
          /\ result' = [result EXCEPT ![p] = {}]
          /\ UNCHANGED <<current, bucket>>
     \/ (~\E r \in rows : PathOf(r) = PathOf(own[p])) /\ Answer(p, "failed")

-----------------------------------------------------------------------------
(* get_environments_previous_state, get_environments_next_state and         *)
(* set_current_version                                                      *)

Neighbour(p, r) ==
  \/ job[p].kind = Undo /\ IsPrevious(r, job[p].env, job[p].version)
  \/ job[p].kind = Redo /\ IsNext(r, job[p].env, job[p].version)

BugFindNeighbour(p) ==
  /\ At(p, {Undo, Redo}, "load")
  /\ \/ /\ \E r \in rows : Neighbour(p, r)
        /\ target' = [target EXCEPT ![p] =
             IF job[p].kind = Redo THEN job[p].version + 1
             ELSE IF job[p].version = 0 THEN 0 ELSE job[p].version - 1]
        /\ Goto(p, "move")
        /\ UNCHANGED <<db, bucket, job, own, base, overrides, result, future>>
     \/ (~\E r \in rows : Neighbour(p, r)) /\ Answer(p, "refused")

FindNeighbour(p) ==
  /\ At(p, {Undo, Redo}, "load")
  /\ \/ \E r \in rows :
          /\ Neighbour(p, r)
          /\ target' = [target EXCEPT ![p] = r.version]
          /\ Goto(p, "move")
          /\ UNCHANGED <<db, bucket, job, own, base, overrides, result, future>>
     \/ (~\E r \in rows : Neighbour(p, r)) /\ Answer(p, "refused")

\* No look at the rows: the version may not exist.
SetCurrentVersion(p) ==
  /\ At(p, MoveKinds, "move")
  /\ current' = [current EXCEPT ![job[p].env] = target[p]]
  /\ Close(p, "ok")
  /\ UNCHANGED <<rows, bucket, result>>

-----------------------------------------------------------------------------

\* Every request has been answered.
Quiet ==
  /\ \A p \in Request : phase[p] \in Answers
  /\ UNCHANGED vars

Step(p) ==
  \/ Arrive(p) \/ Crash(p)
  \/ ChatLoad(p) \/ RunLoad(p) \/ RunEngine(p) \/ EngineRefuses(p)
  \/ ReadLatest(p) \/ DeleteFuture(p)
  \/ WriteState(p) \/ CommitVersion(p) \/ CommitFails(p)
  \/ PromoteLoad(p) \/ PromoteBase(p) \/ PromoteCollect(p) \/ PromoteEngine(p)
  \/ IacLoad(p) \/ ExportIac(p) \/ WriteIac(p) \/ CommitIac(p)
  \/ FindNeighbour(p) \/ SetCurrentVersion(p)

Next == (\E p \in Request : Step(p)) \/ Quiet

Spec == Init /\ [][Next]_vars

-----------------------------------------------------------------------------
(* Types *)

OptRow == Row \cup {NoRow}

\* The variables keep their types; every object of the bucket lies at the path
\* of a version (ArchitectureStorage).
TypeOK ==
  /\ rows \subseteq Row
  /\ current \in [Env -> Nat]
  /\ DOMAIN stateObj \subseteq Path /\ \A x \in DOMAIN stateObj : stateObj[x] \in Content
  /\ DOMAIN iacObj \subseteq Path /\ \A x \in DOMAIN iacObj : iacObj[x] \in Content
  /\ phase \in [Request -> Phase]
  /\ job \in [Request -> Job]
  /\ own \in [Request -> OptRow]
  /\ base \in [Request -> OptRow]
  /\ overrides \in [Request -> Content]
  /\ result \in [Request -> Content]
  /\ target \in [Request -> Nat]
  /\ future \in [Request -> SUBSET Nat]

-----------------------------------------------------------------------------
(* Whatever requests run at the same time *)

\* An environment has at most one row per version, although two runs may
\* compute the same next version and an overwrite may reuse one (do_run).
UniqueVersions == \A r, s \in rows : PathOf(r) = PathOf(s) => r = s

\* Only set_current_version, which looks at no row, can leave an environment
\* pointing at no version: an overwrite that deletes the current version, or
\* one another request has just made current, always moves the pointer too.
DanglesBySetOnly ==
  [][\A e \in Env :
       (\E r \in rows : IsCurrent(r, e)) /\ ~(\E r \in rows : IsCurrent(r, e))'
       => \E p \in Request : SetCurrentVersion(p)]_vars

\* In this environment nobody moves back or overwrites.
Forward(e) == Kinds[e] \cap (MoveKinds \cup {Overwrite}) = {}

\* The current version of such an environment is its latest, whatever is done
\* to the other one (do_run, promote).
CurrentIsLatest ==
  \A e \in Env : Forward(e) => \E r \in rows : IsCurrent(r, e) /\ IsLatest(r, e)

\* A promotion is committed only if the version it started from is still the
\* current one: it takes the next number of that version, not of the latest,
\* so a run committed meanwhile makes it fail (promote). Holds of Forward(prod).
PromoteFromCurrent ==
  [][\A p \in Request :
       CommitVersion(p) /\ job[p].kind = Promote
       => own[p].version = current[job[p].env]]_vars

-----------------------------------------------------------------------------
(* When the numbers of an environment are taken in turn, whatever else overlaps *)

\* The request has read the version that the number it adds follows: a run the
\* latest, after the engine; a promotion the current one, when it began.
Numbered(p) ==
  \/ job[p].kind \in RunKinds /\ phase[p] \in {"future", "write", "commit"}
  \/ job[p].kind = Promote /\ phase[p] \in {"base", "collect", "engine", "write", "commit"}

\* Numbers of one environment are taken in turn, from that read to the answer.
InTurn ==
  \A p, q \in Request : Numbered(p) /\ Numbered(q) /\ job[p].env = job[q].env => p = q

TurnSpec == Init /\ [][Next /\ InTurn']_vars

\* The engine state that the version with this hash was created with.
Made(h) == IF h = NoRequest THEN {} ELSE result[h]

\* The IaC offered for a version was exported from the state of that version,
\* although the version may be deleted or replaced while the export runs, and
\* the archive is put before the row says so (get_iac).
IacOfState ==
  \A r \in rows :
    r.iac => PathOf(r) \in DOMAIN iacObj /\ iacObj[PathOf(r)] = Made(r.hash)

\* When the environment tracks the current version of the base (is_in_sync),
\* its state holds every edit of that version, although the base goes on
\* between the reads of a promotion and its commit (promote).
InSyncHasBase ==
  \A r, b \in rows :
    /\ IsCurrent(r, PROD_ENV_ID)
    /\ IsCurrent(b, BASE_ENV_ID)
    /\ r.tracks = b.hash
    => Made(b.hash) \subseteq Made(r.hash)

-----------------------------------------------------------------------------
(* When requests come one at a time, crashes included *)

\* The location of a version holds the state that was computed for it: the
\* objects left by requests that crashed or failed after their put are never
\* taken for the state of a version (write_state_to_fs before the commit).
OwnState(e) ==
  \A r \in RowsOf(e) :
    r.stored => PathOf(r) \in DOMAIN stateObj /\ stateObj[PathOf(r)] = Made(r.hash)

EveryOwnState == \A e \in Env : OwnState(e)

\* No edit is lost: the new version of a run holds the edits of the version
\* that was current until then, and its own.
RunKeepsEdits ==
  [][\A p \in Request, r \in rows :
       CommitVersion(p) /\ job[p].kind \in {Run, Chat} /\ IsCurrent(r, job[p].env)
       => result[p] = Made(r.hash) \cup {p}]_vars

\* The numbers of an environment's versions are never used again, so a client
\* with an old version cannot be taken for an up-to-date one: the latest
\* version never drops, although an overwrite deletes versions.
LatestNeverDrops ==
  [][\A e \in Env, r \in rows : IsLatest(r, e)
       => \E s \in rows' : s.env = e /\ s.version >= r.version]_vars

\* A promotion keeps the edits made in the environment itself (get_overrides):
\* those its current version holds are in the new one.
PromoteKeepsOverrides ==
  [][\A p \in Request, r \in rows :
       CommitVersion(p) /\ job[p].kind = Promote /\ IsCurrent(r, job[p].env)
       => Made(r.hash) \cap UNION {s.constraints : s \in RowsOf(job[p].env)}
            \subseteq result[p]]_vars

\* As long as nobody moves prod back, a promotion for which the engine has
\* returned a state is committed: the number it takes, one more than that of the
\* version it loaded, is free (EnvironmentManager.promote).
PromoteCommits ==
  [][\A p \in Request : ~(CommitFails(p) /\ job[p].kind = Promote)]_vars

\* Every environment has a current version.
CurrentExists == \A e \in Env : \E r \in rows : IsCurrent(r, e)

\* One at a time, requests behave as the steps of a version history, each at
\* its commit, crashes and refusals as none (VersionHistory.tla).
History == INSTANCE VersionHistory WITH
  Edit <- Request, NoEdit <- NoRequest, BaseEnv <- BASE_ENV_ID, ProdEnv <- PROD_ENV_ID,
  history <- {[env |-> r.env, version |-> r.version, hash |-> r.hash, tracks |-> r.tracks,
               constraints |-> r.constraints, state |-> StateOf(r)] : r \in rows},
  pointer <- current

AtomicRequests == History!Spec

=============================================================================
