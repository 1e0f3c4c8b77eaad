# Verification of InfraCopilot

TLA+ specifications of the InfraCopilot backend (`src/src`, Python) and of those
parts of its web client (`src/frontend`, TypeScript) whose state several
asynchronous functions share. Paths in this file are relative to the repository.

## 1. The system

A user edits an *architecture*. It has two *environments*, `default` (the base)
and `prod`, and each environment is a sequence of numbered *versions*. An edit (a
list of constraints, or a chat message turned into constraints) is sent to the
server, which gives the state of a version and the constraints to an external
engine and stores what the engine returns as a new version. `prod` is brought up
to date with the base by a *promotion*. A version can be exported as
infrastructure as code (IaC). Undo and redo move the pointer of an environment to
another of its versions.

| component | state it keeps | operations | what it calls |
|---|---|---|---|
| version store: `run_engine_handler.py`, `environment_manager.py`, `iac_handler.py`, the DAOs in `environment_management/` | rows of `environment_versions`, `environments.current` | run, run with overwrite, chat message, promote, export, previous, next, set current | engine, bucket, database |
| architecture storage: `state_manager/architecture_storage.py` | `state.json`, `iac.zip` in S3, one path per version | get and write state, get and write IaC | S3 |
| architecture handler: `architecture_handler.py` | rows of `architectures` | create, get, clone, rename, delete, list | OpenFGA, database |
| constraints, topology | none | parse, format, diff | |
| chat: `chat/` | none between requests | categorise, interpret, explain | OpenAI |
| engine service: `engine_service/` | the downloaded binaries | run, export, valid targets, resource types | processes, files |
| authorization: `auth_service/sharing_manager.py`, `main.py`, `model.fga` | role tuples in OpenFGA | check, share | OpenFGA |
| teams: `auth_service/teams_manager.py`, `teams_dao.py` | membership tuples, rows of `teams` | create, add, remove, parents, organization | OpenFGA, database |
| endpoints: `main.py`, `dependency_injection/` | none | one transaction per request | all of the above |
| editor store: `frontend/.../EditorStore.ts` | the client's copy of a version, unapplied constraints, previous and next state | apply, undo, redo, chat, refresh, promote | the endpoints |
| other client stores: `AuthStore.ts`, `sidebar-nav.ts` | tokens, navigation history | login, refresh, navigate | Auth0 |

### How they interact, and what is hard

* Each request is a coroutine in one of the nine worker processes of a server
  (`container_start.sh`). It runs in one database transaction, `async with
  SessionLocal.begin()` (`main.py`), and gives way to other requests at every
  `await`: each query, each engine run (an external process, seconds long), each call
  of OpenAI or OpenFGA. Requests of other processes need no await to come in between;
  the models put the calls of the stores in steps of their own, which covers both.
* The bucket is not part of the transaction. An object is put before the row that
  names it is committed, under a path made of the version number, so two requests
  that compute the same number write the same path.
* The database isolation is PostgreSQL's default, READ COMMITTED: a statement sees
  what was committed when it started.
* The client holds a copy of the environment that other clients make stale; a
  version number in the request is how staleness is noticed.
* The roles that decide who may do what are in a third store, OpenFGA, written in
  separate calls without rollback.

### What makes each component correct

* version store: no edit is lost; a version keeps the state it was made with; a
  number or hash names one version; the pointer names a version; numbers are not
  used again; promotion brings every edit of the base
  and keeps those of the environment; a crash or a failure leaves no trace.
* constraint streams: an edit that a later one contradicts is dropped, no other is.
* sharing: an entity has one role; an architecture has an owner; an update that
  fails half-way takes nothing away that was not asked for.
* architecture lifecycle: a clone is a copy of one moment; tuples, rows and
  objects exist together.
* teams: one organization per team, one team per name in it; who leaves an
  organization is in none of its teams.
* editor store: constraints entered are applied once, to the environment they were
  entered in; the copy on screen is one the server had; the editor is never locked
  for good.

## 2. Plan

In order, the most important behaviour first.

| | module | what | state |
|---|---|---|---|
| 1 | `VersionStore` | versions of one architecture under concurrent requests and crashes | done |
| 2 | `VersionHistory` | what it promises to one request at a time: each request is one step or none | done, checked and proved as a refinement |
| 3 | `VersionStoreProofs`, `VersionStoreSerialProofs` | types, uniqueness, the pointer, optimistic promotion, how much turn-taking is enough, what a lock per environment would give; one request at a time, and the refinement | done, proved |
| 4 | `ConstraintStream`, `ConstraintStreamProofs` | the streams of `environment_manager.py`: how constraints cancel and names are carried through promotions | done, proved |
| 5 | `Sharing`, `AccessList`, `SharingProofs` | role updates in separate calls, the bound on tuples read; that they implement one-step updates | done, proved |
| 6 | `EditorStore`, `EditorStoreProofs` | the client's asynchronous functions over its store | done; safety proved |
| 7 | `ArchitectureLifecycle`, `ArchitectureLifecycleProofs` | create, clone, rename, delete, edit across database, bucket and OpenFGA | done, proved |
| 8 | `Teams`, `TeamsProofs` | teams, members, administrators, organizations across database and OpenFGA | done, proved |
| 9 | `EdgeTargets`, `EdgeTargetsProofs` | the targets of an edge: client, token, service | done; safety proved |
| 10 | `Collaboration` | several `EditorStore`s over the `VersionStore` | not written: see section 10 |

Every safety property the runs check is a theorem, for every value of the constants, from
named assumptions. Only the two liveness properties, `Unlocks` of `EditorStore`
and `KnowsInTheEnd` of `EdgeTargets`, rest on TLC: liveness under fairness is out of
the prover's reach.

## 3. The version store

### Correspondence with the code

`VersionStore.tla` is one architecture. Its state is the committed rows (`rows`),
the pointers (`current`), the objects of the bucket by path (`stateObj`, `iacObj`)
and, per request, its local variables (`job`, `own`, `base`, `overrides`,
`result`, `target`, `future`) and its next step (`phase`).

* **A state of the engine is the set of edits it holds.** A request that runs the
  engine adds one edit, named by the request; the same name stands for the uuid it
  draws as `version_hash`. `result[p]` of an answered request is kept as long as
  the behaviour, as the record of what was computed for the version it made:
  properties use it, no action reads it then.
* **A step is the code between two awaits that another request can tell apart.**
  Consecutive reads of data that only the same statement uses are one step. The
  engine run is between the step before and the step that stores its result.
* **Commit.** `add_environment_version`, `set_current_version` and the flush at
  the end of the transaction are one action, `CommitVersion`. An INSERT whose key is being
  inserted by another transaction waits for it, and fails if it commits
  (`CommitFails`); the pointer is written after the row. A row marked deleted and
  a new row with the same key are flushed by SQLAlchemy as one UPDATE of that row:
  it needs the row to be there (`Writable`), and a column the new object never
  set, `iac_location`, may keep the old value. So a row of `rows` may carry `iac`
  over.
* **Bucket.** `WriteState` and `WriteIac` take effect at once and are never undone.
* **Errors.** Every `except` of the handlers is an answer `refused` (4xx) or
  `failed` (500); both roll back. `handle_message` has no case for the errors of
  `do_run`, so there they are `failed`. `Crash` lets any request stop at any step.
* **Undo and redo** are what the client does: it asks for the neighbour and then
  posts its number, in two requests; the model keeps them as one session of two steps.

Not in the module: deletion of the architecture while requests run, authorization
and "environment not found" (both are checked before anything is read), the text
of constraints and diffs, and the explanation a chat answer may carry.

### Runs

Where types are proved (`VersionStore`, `Sharing`, `Teams`, `ArchitectureLifecycle`,
`EditorStore`, `EdgeTargets`) no run repeats them; `ConstraintStream` is the exception, since
what may replace the overrides is a type there.

All three runs instantiate `VersionStoreMC.tla`; requests are interchangeable, so
`Symmetry` is sound (no run checks liveness).

| run | instance | shows |
|---|---|---|
| `serial_requests` | 5 requests of an editor, `Serial = TRUE`, versions 0..3, prod only forward | the properties of one client at a time, crashes included, that a promotion finds its number free (`PromoteCommits`), and the refinement `AtomicRequests` |
| `requests_in_turn` | 4 requests of an editor, overlapping, `TurnSpec`, versions 0..2, prod only forward | `IacOfState` and `InSyncHasBase`: what an export and a promotion make of versions that are deleted or replaced while they run |
| `concurrent_requests` | 3 requests, interleaved, of every kind in the base; in prod runs, chat, exports and promotions | what holds without any discipline; where nobody moves back or overwrites (prod) the pointer is the latest version and promotion is optimistic |

*Bounds.* `Request` bounds the number of requests of a behaviour, and with it
versions, edits and hashes; a request is not repeated. Five requests one at a time
are enough for: edit, undo, overwrite, edit again, and a promotion or an export of
the result; or edit, promote, edit prod, edit the base, promote again. Four that overlap are
enough for a run, an export of its version, and an undo and an overwrite during the export; or for a run,
a promotion and another run during the promotion. Three
interleaved requests are enough for two that compute the same number and a third
that deletes, moves or exports it. `Versions` are the numbers a client sends: one
more than the requests of the interesting behaviours can create is refused.

*Why three disciplines.* The code has no lock, and some properties hold only when requests do
not overlap (`serial_requests`); they are the contract a single user relies on, crashes at every
step included. `RunKeepsEdits`, for one, is broken by two overlapping runs, see below. Other properties
need only that two requests do not take a number of one environment at once, which is `InTurn` (see
Proofs): those about a promotion or an export that overlaps with overwrites, undo and
runs are checked under it (`requests_in_turn`), since without an overlap what they are about cannot
happen. `concurrent_requests` shows what survives without any of this. `CurrentIsLatest` and
`PromoteFromCurrent` are about an environment where clients only go forward (`Forward`), whatever they
do in the other one: in this run that is prod. That leaves no overwrite or move that meets a promotion in
one environment; `UniqueVersions` and `DanglesBySetOnly` are theorems for any kinds, and so is `UniqueHashes`, which is
local to the request that draws the hash and is proved only.

What these conditions exclude is not shown to be impossible: it happens, and is said under
"What does not hold".

*Fairness.* Every property is a safety property, so `Spec` states no fairness. No
request waits for another in the model, and `Quiet` lets a behaviour stutter only
when every request was answered, so TLC's deadlock check shows that no request is
ever stuck: some step is always possible for one in flight.

### What does not hold

These were seen while the properties were looked for; no run states them.

* `do_run` compares the client's version with the current one, awaits the engine, and
  takes the number after the *latest* version when it is back. Two runs from one version
  both commit; the second does not have the edit of the first. The check the error
  message promises ("Architecture state is not the latest") is made once, too early. So
  `RunKeepsEdits` is a property of requests that come one at a time, or at least one after another
  on an environment (`RunsKeepEditsPerEnv`).
* The number of a promotion is that of the version prod is at, plus one. After prod was
  moved back that number exists: the put replaces the state of an existing version (`EveryOwnState`), the
  insert fails and prod cannot be promoted. In `serial_requests` prod only moves forward
  (`ProdForward`), and there `PromoteCommits` says that no promotion fails for its number.
* Two runs that overlap may also compute one number. One of them loses at its insert, but has replaced
  `state.json` of the winner by then (`EveryOwnState`), and what is exported from that version is
  not its own (`IacOfState`).
* An overwrite in the base deletes the version prod tracks; promotion then answers
  (`PromoteCollect`) that the environment is not found.

### Proofs

`VersionStoreProofs.tla`, for every set of requests, kinds and versions:

* `TypeCorrect` (`TypeOK`). `TypeOK` alone is not inductive: `StateOf` reads the
  object at the path of a row. The invariant `TypeInv` adds that rows of the table
  (`RowsLocated`), rows a request loaded (`OwnLoaded`, `BaseLoaded`) and the row
  it is about to add (`TargetPut`) have their object. Objects are never removed,
  so only puts and commits matter.
* `VersionsAreUnique`, `HashesAreUnique`. All changes of the table have one of two
  forms (`RowSteps`): one row at a free number is added, in place of the ones
  marked deleted, or a row is marked exported. For hashes, `HashesOfDone`: a hash
  in the table is that of a request answered `ok`, which commits no more.
* `OnlySetDangles` from `RowSteps`.
* `PointerStaysLatest`, and `PromotionIsOptimistic` if prod is `Forward` (no move,
  no overwrite there). `ForwardInv`: the numbers of such an environment are exactly
  0..current, and a number computed by a request is at most one ahead of the pointer,
  since it came from a row that was in the table and the pointer only grows. A commit
  needs a free number, so it is current + 1 (`AddsNext`).

How much turn-taking the other properties need is the rest of the module. `InTurn` is a
condition on states, defined in `VersionStore`: two requests that add a version to one environment are not both between the
read that gives them their number (`Numbered`: for a run the latest row, once the engine is back; for
a promotion the current row, where it begins) and their answer. The code has no lock and guarantees no
such thing. What is proved is `Spec /\ []InTurn => ...`, assuming `ProdNeverBack` (no undo, redo or
choice of a version in prod), without which the number of a promotion is taken already:

* `StatesAreOwnInTurn`, `IacIsOwnInTurn`, `SyncedHoldsBaseInTurn`, `NumbersNeverReusedInTurn`,
  `PromotionsCommitInTurn`: the properties of `requests_in_turn`, and three of `serial_requests` that
  need no more; and
  `PromotionIsOptimisticInTurn`, which `concurrent_requests` checks for clients who only go forward in prod. Runs in the
  engine or at the assistant, exports, undo and redo in the base, a promotion and the runs
  of the base may all overlap, and anything may crash, a put that never commits included.
* The inductive invariant `TurnInv` is about every version somebody can still see (`Seen`): the rows,
  and what requests have loaded, which an overwrite may have deleted since. Each was made by a
  request that is done, has its state, holds the edits of the version it tracks, and is not
  past the latest row of its environment (`Settled`); a path belongs to one version (`OneHash`). An export may
  put its archive at the path of a deleted version: the path is not given to another.
* Of a request that adds (`Writer`): the number it computed is past every row of its environment
  (`NumberFree`), and so past every version seen: its put overwrites nothing.

It is not enough for the rest. `RunKeepsEdits` fails under it, since two runs may have loaded one
version before either of them has its number. So does `PromoteKeepsOverrides`: a run in
prod loads a version, an overwrite deletes that version, and the run commits after it; its version has
an edit that no row of prod records any more, and the next promotion drops it. And a move may
come to a version an overwrite has deleted.

What a lock per environment would give is `OnePerEnv`: no two requests are at work on one environment
(`AtWork`: a run or a promotion from the version it loads to its answer, a move from the version it
finds to its commit). It implies `InTurn`, and:

* `RunsKeepEditsPerEnv`, `PromotionsKeepOverridesPerEnv` and, assuming `SetNever` (clients move the
  base by undo and redo, not to a number of their own choice), `CurrentAlwaysExistsPerEnv`. Base and prod may still be worked on at the same time, and exports and crashes
  come anywhere.
* `WorkInv` adds to `TurnInv` that, of a request at work, what it has read of its environment is still so
  (`Worker`): nobody else adds, deletes or moves there (`OthersLeaveIt`). Where `get_overrides` looks
  for an edit of prod, there it is (`OverridesTracked`): an overwrite
  deletes the later versions only, so a version it leaves keeps the earlier one that lists the edit
  (`EarlierStay`), and a promotion lists what it gathered. No version of the base that a promotion can have
  read holds an edit of prod (`OverridesApart`), so what it does not gather it does not add.

The theorems use the assumptions named in `VersionStore` (`KindsAssumption`,
`VersionsAssumption`, `NoRequestAssumption`), which TLC evaluates in every run.

`VersionStoreSerialProofs.tla` proves everything `serial_requests` checks, and the properties of
`requests_in_turn` for requests one at a time, assuming
`OneAtATime`: `Serial`, and prod is never moved back. `CurrentAlwaysExists` and
`RequestsAreAtomic` also assume `SetNever`. `serial_requests` is an instance of both. Most of these properties are
about the states versions were made with, `Made(hash)`; a hash in the table is that of a
request that is done, whose result never changes. The inductive invariant is `SerialInv`:

* `StatesMade`: the object at the path of a row is the state it was made with. This is what a
  put could break, before its request commits or is lost: the number it computed is one more than
  the latest (`TargetNext`), so no row has the path. An overwrite numbers after the versions it deletes, too.
* `FollowsBase`: a version holds every edit of the version it tracks, of which `InSyncHasBase` is a case.
* `OverridesTracked`: where `get_overrides` looks for an edit of prod, there it is.
* `ProdLatest`: prod is at its latest version, so the number of a promotion is free.
* `SessionInv`: what the request in flight has read is still so, since it is alone
  (`Alone`) and, of what it read, only its own commit changes anything.

All but `RequestsAreAtomic` are corollaries: requests that come one at a time meet `OnePerEnv`
(`SerialIsPerEnv`). `RequestsAreAtomic` needs `Serial` itself, since a promotion that overlaps a
run of the base may commit a version of the base that is not the current one any more.

`RequestsAreAtomic` maps rows to the rows of `VersionHistory`, with their states in the place of
their paths: a commit is one step of the history (an edit, a promotion, a move), and every other
step, a put that never commits included, is none.

## 4. Sharing

### Correspondence with the code

`Sharing.tla` is one architecture's tuples in OpenFGA and the updates of
`SharingManager.update_architecture_roles`, called by
`PUT /api/architecture/{id}/access`. An update asks, per entity, for a role, for
`none` (JSON null) or for `keep` (absent from the dictionary). It reads the tuples
page by page (`ReadPage`, `ReadLastPage`), plans what to delete and to write
(`RolesToRemove`, `RolesToAdd`), deletes in one call (`DeleteTuples`) and writes in
another (`WriteTuples`). Each is an await, so other updates run in between.

* OpenFGA refuses a call as a whole if it deletes a tuple that is not there or writes
  one that is (`CallRefused`). A call may also fail, before or after its effect
  (`CallFails`), and nothing is rolled back.
* `ReadRole` merges the dictionaries of the three roles as `get_architecture_roles` does:
  if an entity has two roles, editor hides viewer, which hides owner.
* Only an owner may ask (`can_share`). Without one left the behaviour stops (`Locked`).
* `PageSize` and `MaxRead` stand for 25 and 100.

`AccessList.tla` is the promise to one caller at a time: an update changes all the roles
it names, or none, or, stopped half-way, leaves the entities it was to change without
one (there is no rollback, as a TODO in the code says). The refinement mapping
`ShownRole` shows tuples that an update deleted and has yet to replace as still there.

Not modelled: ownership through a team, the reading checks, and the summarized list.

### Runs

An update slot is used again once answered, so behaviours are infinite and the number
of updates is not bounded.

| run | instance | shows |
|---|---|---|
| `share_one_at_a_time` | 3 entities, one update in flight, faults; pages of 2, bound 3, so all the tuples are read | one role per entity, 200 means done, kept roles stay, updates are steps of `AccessList` |
| `share_together` | 2 entities, two updates in flight, faults | the public user only views; only entities that a request names change |

Three entities are an owner, one whose role changes and the public user: a page of two
makes the read take two calls. `OneRole` is a property of updates one at a time: of two
that overlap, each may have read the entity without the role the other writes, and the
entity is left with two. With `MaxRead` less than the number of entities,
`AnsweredAsAsked` fails: a role that was not read is taken to be absent, so a removal
removes nothing and is answered 200. In the code that takes more than 100 tuples.

### Proofs

`SharingProofs.tla`, for any sets of updates and entities and any page size:

* `SharingTypes`, `PublicIsViewer` and `OthersKeepTheirRoles` need no discipline.
  `PublicInv` adds that an update past its read has a request that passed the test
  for the public user.
* `RolesAreUnique` and `UpdatesAreAtomic` assume `OneAtATime` (`Serial`) and are stated for the
  behaviours in which there are never more than `MaxRead` tuples, so that a read returns them all
  (`Spec /\ []BoundNotMet => ...`), of any number of entities. With at most `MaxRead`
  entities that is every behaviour (`FewEntitiesAreRead`). `SerialInv`: at most one update
  is in flight (`Alone`); no entity has two tuples (`OneRoleIn`); what an update has seen is part of the tuples and, once it deletes,
  all of them, and once it writes the tuples are what it saw without its removals
  (`Knows`). `FewTuples` bounds the tuples by the entities,
  `ReadsAll` gives that the last page completes the read, and the rest
  is set algebra. `StepMaps` then takes each step to `Change`, `Lose` or a stutter.
* `RolesAskedForStay` and `OkMeansDone` follow from the same invariant: a role that is asked
  for and there is neither removed nor added, and an update answered 200 wrote all it had planned
  over what was left of all there was.

## 5. The editor store

### Correspondence with the code

`EditorStore.tla` is one open page, its store, and the server as it looks from there.
The store has the version on screen (`environmentVersion`), where undo and redo lead
(`previousState`, `nextState`), the flag the next apply sends (`willOverwriteState`) and
the queue (`unappliedConstraints`, `canApplyConstraints`). A `job` is a running call of an
asynchronous function, `lookups` are the two requests `refreshArchitecture` starts and does
not wait for. An action is the code between two awaits, and a request to the server is
three: sending it (which reads the store *then*), the server's step, and taking the answer.

| code | actions |
|---|---|
| `addGraphElements`, `onConnect`, `deleteElements`, `replaceResource`, `ConfigForm`, then `applyConstraints` | `Apply`, `SendRun`, `ServeRun`, `RefuseRun`, `ShowResult`, `ApplyFails`, then `ServeGet` ... |
| `sendChatMessage` | `SendChatMessage`, `SendChat`, `ReadForChat`, `ServeRun`, `RefuseRun`, `ShowResult`, `ChatFails` |
| `refreshArchitecture` | `ServeGet`, `Refreshed`, `RefreshFails`, `LookupNext`, `LookupPrev`, `LookupDone`, `LookupFails` |
| `goToPreviousState`, `goToNextState` | `Show`, `SendMove`, `ServeMove`, `RefuseMove`, `Moved`, `AskBeyond`, `ServeBeyond`, `Found`, `GoToFails` |
| `changeEnvironment` of `EnvironmentSection` | `ChangeEnvironment`, then `ServeGet` ... |

* A version is a number, an environment and the set of edits it holds, as in
  `VersionStore`; `adds` are the edits its run was asked for. What the server does is one
  step: interleaving within it is the subject of `VersionStore`. Runs, undo and chat
  use the same rules as there: a run without overwrite needs the current version, the number is one more
  than the latest before the deletion, and the pointer may be set to a number that is gone.
* A version of the environment that is asked for by number is answered by the current one: the
  endpoint does not use the number (`ServeGet`).
* `Covered` are the overlays: the user cannot click while an apply, an undo, a redo or a
  change of environment runs, but can while a chat message or a lookup does. They do not take the
  keyboard: Enter in a `ConfigForm`, whose constraints are passed along (`own`), or in the chat still
  arrives (`MayStart`, where the mouse needs `MayClick`). A button that has the focus and is pressed again by a key
  under an overlay is not considered. `Patient` is a user who waits for all that runs.
* Two lookups of one version that are at the same stage count as one.
* A page is opened on any version of a history with `Earlier` versions, with its lookups running
  (`Init`). The wait for `getIdToken` is a step of its own where what the code does after it depends on the
  store: an apply takes its version before it and the flag after it (`SendRun`), a chat message goes to the
  environment that is on screen after it (`SendChat`), a move reads its target again (`SendMove`).

Not modelled: selection, layout, access rights, the sidebar, the promotion dialog,
and the validation error that neither endpoint returns.

### Runs

| run | instance | shows |
|---|---|---|
| `editor_patient` | one function at a time, 2 environments, page opened on any version of a history of 3, 5 edits in all, runs that fail or lose their answer | `ScreenIsCurrent`, `UndoStaysInEnvironment`, `AppliesToCurrent` for a user who waits, and `Unlocks`: the editor does not stay covered |
| `editor_concurrent` | 2 functions at once, undo, apply, chat, another user, all faults, 3 edits | `AppliesToScreen`, `HeldVersions`, `AppliedOnce`, whatever overlaps and fails |
| `editor_undo` | one function at a time, a new architecture, 5 edits, chat, undo and redo | `UndoComesBack`: what `willOverwriteState` is for |

*Bounds.* `MaxEdits` bounds the versions of a behaviour: three are enough for an apply
that was sent, one that overtakes it and one that overwrites it; five, of which two
earlier, for undo and redo past an overwrite of a page that was opened on any of them, or for two
undos, a redo and an edit that must delete what both left. Jobs are reused. The slots are
interchangeable, so `EditorStoreMC` permutes them in the safety run that has two.

*Fairness.* `FairSpec` is weak fairness of the steps of each running function: every
call ends, if only by its time-out, and a promise that was resolved gets its turn.
The user's clicks and the detached lookups have none. `editor_patient` has runs that fail, and
no fault of the refresh that follows: see below. That this refresh is answered still needs that the
server has a current version, after any undo, redo and overwrite.

*What does not hold.* These are seen by changing one constant of a run.

* `refreshArchitecture` (`EditorStore.ts:556`) sets the overwrite flag when there is *no*
  next version, the opposite of `goToNextState`. A page opened on an undone version edits
  without overwrite, the versions that followed stay, and the server's previous version is
  one of them: an undo then shows a version of the other branch. This breaks
  `UndoComesBack`, with `Earlier = 2`, or with `"run"` in `Faults` (the handler of a failed apply
  refreshes), or with a second environment and `"switch"` in `Ops` of `editor_undo`. None of the other properties
  depends on the flag: they say on which version an edit is made, not what becomes of those after it. A chat
  message never overwrites, so `UndoComesBack` is about applies.
* With `"other"` in `Ops` of `editor_patient`, `AppliesToCurrent` fails (and of course `ScreenIsCurrent`):
  a page opened on the latest version overwrites, so the server does not check that it is up to date and
  deletes what another user added.
* With `Patient = FALSE` there, `UndoStaysInEnvironment` fails: `refreshArchitecture` shows the
  new environment while the neighbours are still those of the old one, until the lookups end.
* With `"refresh"` in `Faults` of `editor_patient`, `Unlocks` fails: the handler of a failed
  apply awaits a refresh before it unlocks, and if that fails the page stays covered. It
  fails also with two functions at once that include undo: an undo that was sent before an overwrite deleted
  its version sets the pointer after it, there is no current version to refresh to, and
  the apply that is failing does not unlock.
* A chat message unlocks the editor also while an apply runs, so two applies can run at
  once. `AppliesToScreen` and `AppliedOnce` hold all the same: each apply took its version and its edits
  when it began, and the server refuses the one that is late or lets it overwrite, which is
  what `willOverwriteState` says at the time.

### Proofs

`EditorStoreProofs.tla`, for any functions, environments, operations, faults and number of
edits: `TypeCorrect`, `BuildsOnScreen`, `NumbersAreForGood`, `NoEditTwice`. They are parts of one
inductive invariant, `IInv`:

* `JobsInv`: what a function carries at each of its steps (`Consistent`).
* `QueueInv`: the queue is empty while the editor is not locked, so an apply sends just its edit.
* `EditsInv`, `RowsInv`: the edits of runs that were not served are different, and none is in a row:
  the others are `Spent`.
* `NumbersInv`: every environment has a latest row, and its number is at most the number of
  spent edits. This is what bounds the numbers: each row uses up an edit, also when it replaces others.
* `KnownInv`: a version that the page, a function or a lookup holds fits the rows (`Fits`): there is a
  row with its number or a later one, and one with its number is that version. The number
  after the latest, read before the deletion, keeps it so. A run that the server accepts is then
  based on the very version that was on screen.

A step that enters no edit and adds no row is settled by what it makes of the jobs, the screen and the
lookups (`ClientStep`); `EnterEdit` and `CommitStep` are the other two kinds. 

For a user who waits, `ScreenStaysCurrent`, `MovesStayInEnvironment`, `EditsAreForCurrent` and `UndoOfAnEdit` assume
`Undisturbed`: `Patient`, nobody else edits, no move and no lookup fails, and where runs may
fail the refresh after a failed apply is answered and chat, which does not refresh, is not used.
They need `PatientInv`, which follows the one function that runs: when it has changed the
server and the screen not yet (`Awaited`), when it shows what the server has yet to move to
(`Ahead`), what it knows of the page (`KnowsRun`, `KnowsMove`), and that the neighbours and what
lookups found are rows of the environment on screen. `editor_patient` is one instance of it.

`UndoOfAnEdit` (`UndoComesBack`) assumes `Unrefreshed` as well, as `editor_undo` does: a new
architecture, no run that fails, no change of environment. Then only undo, redo
and results set the flag. `FlagInv` says that it is right: if the flag is off no version follows
the one on screen, unless a run has made one that is yet to be shown (`Unseen`), and
a version that redo leads to means that it is on. So a run either deletes all that follows its
version or nothing does, and what comes before the new version is the one it was made on (`BackToBase`).
`Unlocks` is liveness and model-checked only.

## 6. Constraint streams

### Correspondence with the code

`ConstraintStream.tla` is what a promotion does with constraints (`EnvironmentManager.promote`):
those of the base since the version the environment tracks are folded into one list, the
overrides of the environment into another, and the renamings of the first are substituted
in the second. Versions here carry one constraint each and the names that the resources
have; a *resource* is what keeps its overrides when the base renames it, so the model can
say what the code, which knows only names, ought to preserve.

* `Walk` is one turn of the inner loop, `Keep` the end of it. `stream.remove(x)` while
  `for x in stream` runs makes the walk pass over one element; `at` is its position.
* `Without` is Python's `list.remove`, by equality: external to the repository.
* `Substitute` is `substitute_name_changes`, `SubstituteNext` one renaming.
* `Refused` are the ends of a promotion that change nothing.

Constraints of constructs and edges cancel nothing and are not allowed outside the base,
so they are left out, with parsing and formatting. So are the constraints by which the base adds and
removes resources, of which there is a fixed set, and undo inside the environment, which continues
from an earlier version of it with the overrides that version has.

### Run

`constraint_stream`: 2 resources, 3 names, 2 values, 2 versions made in the base, 3 overrides.
`OverridesSurvive` compares what the environment carries with all that was ever asked for
there, by the present names of the resources: in both lists the same constraints must count, in the
same order (`SameStanding`), and one counts if no later `equals` is for the same property of the
same target (`Standing`). Three names and two versions let one resource take the name another gave up; three
overrides are what the walk needs to pass over one, and two values tell them apart. Versions
of the base can be undone and overwritten. (With one value, three versions were checked too.)

What it shows: the element the walk passes over is always one that does not count, since
the constraint that made it shorter follows. What does not hold: promote while the base is
moved back, and `get_all_versions_after_hash` returns renamings that the current base does
not have, so the overrides name resources that do not exist. `strayed` records it, the
property leaves it out, and the behaviour ends there (a bound).

### Proofs

`ConstraintStreamProofs.tla`, for any resources, names, properties and values and any bounds
(`BoundsAssumption`): `TypeCorrect` and `OverridesAlwaysSurvive`. `SameStanding` is a matching of
positions, not the result of a fold, so no induction over lists is needed:

* It is transitive, and kept by what the code does to a list: taking out an element that a later one
  overrules (`RemoveOne`), adding the same at the end of both (`AppendBoth`), giving the targets other
  names that stay distinct (`RenameBoth`).
* A turn of the walk takes out the first element equal to the one it is at (`WithoutIs`, `CutOut`).
  Both are overruled by the constraint that is about to be added, so with what is still to be
  folded the list has the same standing constraints, whichever element the walk passes over.
* The stream of the base is a `Chain`: it leads from the names the environment has to those of the base,
  one renaming at a time. The fold keeps it, since no renaming cancels another constraint, and each
  `SubstituteNext` goes one link along.

The inductive invariant has two parts. `TypeInv` adds to the types that the base is a history in
which each version follows from the one before (`History`) and that the lists of overrides
have resource constraints only (`Lists`). `SurvivalInv` says that the overrides hold what counts
(`Holds`), and of a promotion under way that what it has and what it has left do (`Folded`).

## 7. The life of an architecture

### Correspondence with the code

`ArchitectureLifecycle.tla` has the committed rows of the three tables, the bucket, the
owner tuples of OpenFGA and one request per slot. A slot is used again, so the number of
requests is not bounded; uuids and version hashes are (`Arch`, `MaxHash`).

| code | actions |
|---|---|
| `new_architecture` | `BeginCreate`, `AddOwner`, `CommitNew` |
| `clone_architecture` | `BeginClone`, `AddOwner`, `ReadEnvironments`, then per environment `ListVersions`, `CopyVersion` for each, `NextEnvironment`; `NoEnvironmentLeft`, `CommitNew` |
| `rename_architecture` | `BeginRename`, `CommitRename` |
| `delete_architecture` | `BeginDelete`, `LoadVersions`, `CommitDelete` |
| `do_run`, `promote` | `Run`, `Promote`, `CommitEdit`: their steps are in `VersionStore` |
| `set_current_version` | `Move` |
| any exception, a stop | `Fails` |

* What commits last may fail: an insert whose parent row is gone, an update of a row that is
  gone (`Renames`, `Adds`), and a delete whose cascade did not select a row that refers to what it deletes
  (`Deletes`). A delete of what is gone does nothing.
* The clone copies objects one by one, under its own path, while the source may be edited or deleted.
* Whether a user may act is read with the first rows: owner tuples are never taken away here.
* `touched` remembers that the source of a clone changed while it was read.

### Run

`lifecycle`: 2 requests at once, 2 uuids, 3 hashes, one user and one name (neither is
compared with anything). Two uuids are a source and its clone. Deadlock is not
checked: when uuids and hashes are used up and nothing is left, the bounded system stops.

What does not hold, and is not claimed: a clone of an architecture that is deleted between its
reads commits an environment that points at no version (hence `touched` in `CloneIsSource`);
roles and objects of deleted architectures stay for good (`RolesAgree` accounts for the roles);
a rename of an architecture that is gone answers 500.

### Proofs

`ArchitectureLifecycleProofs.tla`, for any slots, users, uuids, names and hashes, from
`NoneAssumption` and `MaxHashAssumption`: every invariant of the run.

* `TypeCorrect`: `Shape` adds that a creation makes exactly one architecture and adds rows of
  it only, and that other requests are for an architecture.
* `VersionsKeepStates`: `KeptInv` says of the versions a clone has yet to copy and of those a
  request is to add what `StatesKept` says of the rows. No object is removed, so what is kept stays so.
* `DeletedStaysGone`: `LiveInv`. An uuid is drawn once, so what is being made has no row, nobody else
  makes it and no request is for it (`Fresh`): no delete can come between a creation and its
  commit. An edit or a renaming that commits finds a row, which is of a live architecture.
* `RowsAndRolesAgree`: `RolesInv` adds that a request past the step of the role, or a renaming,
  knows an owner who has the role, and that a role without a row is accounted for.
* `ClonesAreTheirSource`: `CloneInv` says that, unless the source changed (`touched`), what a clone adds
  are copies of rows of the source (`RowsCopied`), all of them but for the environments and versions it has yet to
  read, with their states (`StatesCopied`). Its uuid is fresh, so no row of another request gets in
  between them, and the commit makes the two contents one (`CommitsSource`).

`GoesOn`, `StartsToMake`, `StartsOther` and `Ending` say once what each action does to the
request of its slot; the invariants use them.

## 8. Teams and organizations

### Correspondence with the code

`Teams.tla` has the tuples of OpenFGA for teams and organizations, the committed rows of
`teams`, and calls of `TeamsManager` that run at the same time. `create_team` is modelled
with its endpoint: `Start` (the user's organization), `CheckName`, `WriteOrganization` (the tuple, and
the row into the session), `ReadUser`, `ReadTeam`, `WriteTuple` (the administrator's), `Commit`. The others
are `CheckAdmins`, `CheckTeams`, `ReadUser`, `ReadTeam`, `WriteTuple` to add, `DeleteTuple` to
remove, and `ListTeams`, `NextTeam`, `LeaveTeam`, `NoTeamLeft`, `DeleteTuple` for
`remove_org_member`. `Crash` stops a call anywhere; the tuples stay.

* An administrator is a member: the relation of `model.fga` (`IsIn`).
* The organization of a team is in a tuple and in the row, and `get_team_organization` raises if they
  differ or are not one (`TeamOrganization`).
* Users begin in one organization (`Init`), and the calls for teams are about teams that are listed.

Not modelled: parents of teams. `set_team_parent` and `get_parent` list the tuples in the other
direction and prefix ids that have a prefix, so what they look for is never found.

### Run

`teams`: 2 calls at once, 1 user, 2 organizations, 2 teams, 2 names. The number of
calls is not bounded. One user is enough: what two calls do to each other they do over one
team or organization. (2 users and one call at a time were checked once: 9.8 million states.)

`StoresAgree` holds whatever overlaps. The other three hold as long as no two calls overlapped: two creations can
both find a name free; a user who is added to a team while being removed from the organization
stays in the team; a creation by a user who is being removed fails after its first tuple.

Seen and not claimed: `remove_org_member` leaves administrator tuples, and raises for a user who is
a team's administrator and not a member; `add_org_member` does not look for another organization, and
a user in two fails every check from then on; a ghost team makes `get_users_teams` raise.

### Proofs

`TeamsProofs.tla`, for any sets:

* `TypeCorrect`: `Arguments` says that each call has the arguments its steps use.
* `StoresAlwaysAgree` without any condition on overlap: the uuid of a team is fresh (`Fresh`), so until
  its row is kept only its creation writes its organization, and afterwards nobody does.
* `NamesAreUnique`: while calls do not overlap at most one runs (`Alone`), so the name it found
  free is free when it commits (`Checked`).
* `MembersStayInOrg` and `OnlyStopsLeaveGhosts`, under the same condition: `MembersInv` says of the one call
  that runs what its reads have told it and is still so (`Knows`). A creation is by a user of the
  organization it writes, so that no later check of it fails; a call that adds a member has compared the two
  organizations; one that removes a user from an organization has yet to leave just the teams there
  that the user is in. `ObjectsAssumption`, teams and organizations are different objects, is what the
  type prefixes of their ids are for.

## 9. The targets of an edge

### Correspondence with the code

`EdgeTargets.tla` is the page with the version on the screen, the targets it keeps and for which
version number, the updates that run, the token of `AuthStore`, and the service with the current
version of each environment. `updateEdgeTargets` is `Starts` (from `Edit`, `Refresh` or
`ConnectStart`), `Refreshed` / `RefreshFails` / `NotSignedIn`, `Answer` / `NoAnswer`, `Receive` / `Ignore`.

* The targets are named by the version they were worked out for; a partial answer keeps those of
  the other nodes (`Targets`).
* `onConnectStart` compares version numbers only; `updateEdgeTargets` compares the environment too.
* `getIdToken` stores the refreshed token and returns the one it read before: an inner `const` has the
  same name (`AuthStore.ts:79`). So `Refreshed` leaves the token of the update as it was.

### Run

`edge_targets`: 2 updates, 2 nodes, 2 environments, 2 versions of each. Two updates are one that is late
and one that overtakes it; two nodes make an answer partial.

*Fairness.* `LiveSpec`: calls are answered, answers are taken (promises that were resolved get their
turn), and the user keeps drawing from a node that has no targets. `KnowsInTheEnd` assumes `Calm`:
from some time on the screen and the service stay as they are and agree, the token does not expire
and no call that bears a live one is lost. It shows that the returned old token costs one call and no more.

`TargetsOfScreen` holds as long as only edits change the screen: `goToPreviousState` and a change of
environment do not forget targets, and versions of other environments have the same numbers.

### Proofs

`EdgeTargetsProofs.tla`, for any updates, nodes, environments and versions: the types,
`UpdatingMeansWaiting` and `TargetsOfScreen`. `UpdatingMeansWaiting` needs that an update that is refreshing is not counted, so that
the mark is set with the step; `TargetsOfScreen` that, while only edits change the screen, it stays in one
environment whose versions it shows in order, and that an answer for it is for one version. `KnowsInTheEnd` is
liveness and model-checked only.

## 10. Not modelled

* `Collaboration`, several editors over `VersionStore`: `EditorStore` has another user who edits the same
  environment, `VersionStore` has requests of any clients; the product of the two has no operation of its own.
* The sidebar's history (`sidebar-nav.ts`): synchronous functions over one list.
* The download of the engine (`fetcher.py`): a worker tests that the file exists and writes it in place.
  Another worker can run a part of it, and one that stops in between leaves it. Nothing rules this out,
  so no property holds of it; a run that fails is a step of every model that runs the engine.
* Chat, topology, parsing and formatting, prompts: text in, text out; their state is that of the request.
* Auth0: one call each; the cached management token is read and written without an await in between.
* Views, API wrappers, layout and assets of the web client; deployment.

## 11. Hazards

`PROJECT.json` lists what is hard to test in this code, each at its line, with the
properties that cover it. Two have none, and say why: promotion after an overwrite in the base, and the
download of the engine. What the code does there is not what one would promise.
A third was left out for being a single answer: a promotion that is in sync at version 0
answers with a state that is not there, and fails.
