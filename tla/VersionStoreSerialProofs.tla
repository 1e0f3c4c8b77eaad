----------------------- MODULE VersionStoreSerialProofs -----------------------
(* What the version store keeps when its requests come one at a time, crash   *)
(* as they may, and prod is never moved back: for any set of requests.        *)
EXTENDS VersionStoreProofs

USE DEF Env, BASE_ENV_ID, PROD_ENV_ID, AllKinds, RunKinds, MoveKinds,
        Run, Overwrite, Chat, Set, Undo, Redo, Promote, Iac

OneAtATime == Serial /\ Kinds[PROD_ENV_ID] \cap MoveKinds = {}

(***************************************************************************)
(* The inductive invariant, first what it says of the table.  A hash in    *)
(* the table names a request that is done, so the state it was made with   *)
(* never changes again; every property is about those states.              *)
(***************************************************************************)
Alone == \A p, q \in Request : InFlight(p) /\ InFlight(q) => p = q

NothingLeft == \A p \in Request : ~InFlight(p) => future[p] = {}

\* A state holds the edits of requests that are done, and of its own request.
FromDone ==
  /\ \A r \in rows : r.tracks \in Done \cup {NoRequest} /\ r.constraints \subseteq Done
  /\ \A p \in Request : result[p] \subseteq Done \cup {p}

\* What is at the location of a version is the state it was made with.
StatesMade == \A r \in rows : StateOf(r) = Made(r.hash)

\* A version holds every edit of the version it tracks, deleted or not.
FollowsBase == \A r \in rows : Made(r.tracks) \subseteq Made(r.hash)

ProdLatest == \E r \in rows : IsCurrent(r, PROD_ENV_ID) /\ IsLatest(r, PROD_ENV_ID)

\* The edits made in prod never reach the base.
OverridesOwn ==
  \A b \in RowsOf(BASE_ENV_ID), s \in RowsOf(PROD_ENV_ID) :
    Made(b.hash) \cap s.constraints = {}

TableInv ==
  /\ UniqueVersions /\ HashInv /\ FromDone
  /\ StatesMade /\ IacOfState /\ FollowsBase
  /\ ProdLatest /\ OverridesTracked /\ OverridesOwn

(***************************************************************************)
(* Then what it says of the session of the request in flight: what it has  *)
(* read is still so, since nobody else writes.                             *)
(***************************************************************************)
WithOwn == {"base", "collect", "engine", "latest", "future", "write", "commit"}
AddKinds == RunKinds \cup {Promote}

JobAllowed(p) == job[p].kind \in Kinds[job[p].env]

OwnRow(p) ==
  phase[p] \in WithOwn =>
    /\ own[p] \in RowsOf(job[p].env)
    /\ own[p].version = IF job[p].kind = Overwrite THEN job[p].version
                        ELSE current[job[p].env]

BaseRow(p) ==
  job[p].kind = Promote =>
    /\ phase[p] \in WithOwn =>
         \A b \in rows : IsCurrent(b, BASE_ENV_ID) => own[p].tracks # b.hash
    /\ phase[p] \in WithOwn \ {"base"} => base[p] \in rows /\ IsCurrent(base[p], BASE_ENV_ID)
    /\ phase[p] \in WithOwn \ {"base", "collect"} =>
         overrides[p] = UNION {s.constraints : s \in TrackingRows(job[p].env, own[p].tracks)}

ResultMade(p) ==
  phase[p] \in {"latest", "future", "write", "commit"} =>
    /\ job[p].kind \in RunKinds => result[p] = Made(own[p].hash) \cup {p}
    /\ job[p].kind = Promote => result[p] = Made(base[p].hash) \cup overrides[p]
    /\ job[p].kind = Iac => result[p] = Made(own[p].hash)

TargetNext(p) ==
  job[p].kind \in AddKinds /\ phase[p] \in {"future", "write", "commit"} =>
    /\ \E r \in rows : IsLatest(r, job[p].env) /\ target[p] = r.version + 1
    /\ job[p].kind = Promote => target[p] = own[p].version + 1

FutureGone(p) ==
  future[p] = IF job[p].kind = Overwrite /\ phase[p] \in {"write", "commit"}
              THEN FutureVersions(job[p].env, own[p].version) ELSE {}

PutDone(p) ==
  phase[p] = "commit" =>
    /\ job[p].kind \in AddKinds =>
         TargetPath(p) \in DOMAIN stateObj /\ stateObj[TargetPath(p)] = result[p]
    /\ job[p].kind = Iac =>
         PathOf(own[p]) \in DOMAIN iacObj /\ iacObj[PathOf(own[p])] = result[p]

SessionOf(p) ==
  /\ JobAllowed(p) /\ OwnRow(p) /\ BaseRow(p) /\ ResultMade(p)
  /\ TargetNext(p) /\ TargetExists(p) /\ FutureGone(p) /\ PutDone(p)

SessionInv == \A p \in Request : InFlight(p) => SessionOf(p)

SerialInv == TypeInv /\ Alone /\ NothingLeft /\ TableInv /\ SessionInv

-----------------------------------------------------------------------------
(* One request at a time *)

\* A step of one request finds the others idle or answered and leaves them so.
LEMMA OthersRest ==
  ASSUME OneAtATime, TypeInv, Alone, NEW p \in Request, Step(p)
  PROVE  /\ phase[p] # "ok"
         /\ \A q \in Request \ {p} :
              /\ ~InFlight(q)
              /\ phase'[q] = phase[q] /\ result'[q] = result[q] /\ future'[q] = future[q]
<1> USE DEF TypeInv, TypeOK
<1>1. Arrive(p) \/ InFlight(p)
  BY DEF Step, Arrive, Crash, InFlight, Waiting, At, ChatLoad, RunLoad, RunEngine,
         EngineRefuses, ReadLatest, DeleteFuture, WriteState, CommitVersion,
         CommitFails, PromoteLoad, PromoteBase, PromoteCollect, PromoteEngine,
         IacLoad, ExportIac, WriteIac, CommitIac, FindNeighbour, SetCurrentVersion
<1>2. /\ \E ph : phase' = [phase EXCEPT ![p] = ph]
      /\ UNCHANGED result \/ \E s : result' = [result EXCEPT ![p] = s]
      /\ UNCHANGED future \/ \E s : future' = [future EXCEPT ![p] = s]
  BY DEF Step, Arrive, Crash, ChatLoad, RunLoad, RunEngine,
         EngineRefuses, ReadLatest, DeleteFuture, WriteState, CommitVersion,
         CommitFails, PromoteLoad, PromoteBase, PromoteCollect, PromoteEngine,
         IacLoad, ExportIac, WriteIac, CommitIac, FindNeighbour, SetCurrentVersion,
         Goto, Close, Answer, Keep, Compute, session
<1>3. \A q \in Request \ {p} : ~InFlight(q)
  BY <1>1 DEF Arrive, OneAtATime, Alone
<1> QED BY <1>1, <1>2, <1>3 DEF InFlight, Waiting, Arrive

LEMMA StepKeepsAlone ==
  ASSUME OneAtATime, TypeInv, Alone, NEW p \in Request, Step(p)
  PROVE  Alone'
BY OthersRest DEF Alone, InFlight

LEMMA StepKeepsNothingLeft ==
  ASSUME OneAtATime, SerialInv, NEW p \in Request, Step(p)
  PROVE  NothingLeft'
<1> USE DEF SerialInv, TypeInv, TypeOK
<1>1. ASSUME NEW q \in Request \ {p}, ~InFlight(q)' PROVE future'[q] = {}
  BY <1>1, OthersRest DEF NothingLeft, InFlight
<1>2. ASSUME ~InFlight(p)' PROVE future'[p] = {}
  <2>1. CASE \E answer \in Answers : Close(p, answer)
    BY <2>1 DEF Close
  <2>2. CASE ~\E answer \in Answers : Close(p, answer)
    <3>1. ~\E answer \in Answers : Answer(p, answer)
      BY <2>2 DEF Answer
    <3>2. Refusal(p) \in Answers
      BY DEF Refusal, Answers
    <3>3. phase'[p] \in Waiting
      BY <2>2, <3>1, <3>2
         DEF Step, Arrive, Crash, ChatLoad, RunLoad, RunEngine,
             EngineRefuses, ReadLatest, DeleteFuture, WriteState, CommitVersion,
             CommitFails, PromoteLoad, PromoteBase, PromoteCollect, PromoteEngine,
             IacLoad, ExportIac, WriteIac, CommitIac, FindNeighbour, SetCurrentVersion,
             Goto, Keep, Compute, FirstStep, Waiting, Answers
    <3> QED BY <1>2, <3>3 DEF InFlight
  <2> QED BY <2>1, <2>2
<1> QED BY <1>1, <1>2 DEF NothingLeft

\* What a done request made stays; what is in the table is done.
LEMMA MadeStays ==
  ASSUME OneAtATime, SerialInv, NEW p \in Request, Step(p)
  PROVE  /\ p \notin Done /\ Done \subseteq Done' /\ p # NoRequest
         /\ \A h \in Done \cup {NoRequest} : h # p /\ Made(h)' = Made(h)
         /\ \A h \in Done \cup {NoRequest} : Made(h) \subseteq Done
         /\ \A r \in rows : /\ r.hash \in Done \cup {NoRequest}
                            /\ r.tracks \in Done \cup {NoRequest}
<1>1. \A q \in Request \ {p} : phase'[q] = phase[q] /\ result'[q] = result[q]
  BY OthersRest DEF SerialInv
<1>2. phase[p] # "ok"
  BY OthersRest DEF SerialInv
<1>3. p # NoRequest
  BY NoRequestAssumption
<1>4. \A h \in Done \cup {NoRequest} : h # p /\ Made(h)' = Made(h)
  BY <1>1, <1>2, <1>3 DEF Done, Made
<1>5. \A h \in Done \cup {NoRequest} : Made(h) \subseteq Done
  <2> SUFFICES ASSUME NEW h \in Done PROVE Made(h) \subseteq Done
    BY DEF Made
  <2> QED BY NoRequestAssumption DEF SerialInv, TableInv, FromDone, Done, Made
<1>6. \A r \in rows : r.hash \in Done \cup {NoRequest} /\ r.tracks \in Done \cup {NoRequest}
  BY DEF SerialInv, TableInv, HashInv, HashesOfDone, FromDone, Done
<1> QED BY <1>1, <1>2, <1>3, <1>4, <1>5, <1>6 DEF Done

-----------------------------------------------------------------------------
(* The table *)

\* A step that leaves the rows, prod's pointer and what is at their locations
LEMMA TableKept ==
  ASSUME OneAtATime, SerialInv, NEW p \in Request, Step(p),
         UNCHANGED rows, current'[PROD_ENV_ID] = current[PROD_ENV_ID],
         \A r \in rows : StateOf(r)' = StateOf(r),
         \A r \in rows : r.iac =>
           PathOf(r) \in DOMAIN iacObj' /\ iacObj'[PathOf(r)] = Made(r.hash),
         result'[p] \subseteq Done \cup {p}
  PROVE  TableInv'
<1> USE DEF SerialInv
<1>0. /\ Done \subseteq Done'
      /\ \A r \in rows : Made(r.hash)' = Made(r.hash) /\ Made(r.tracks)' = Made(r.tracks)
  BY MadeStays
<1>1. UniqueVersions'
  BY NextKeepsUniqueVersions DEF Next, TableInv
<1>2. HashInv'
  BY NextKeepsHashInv DEF Next, TableInv
<1>3. FromDone'
  <2>1. \A q \in Request : result'[q] \subseteq Done \cup {q}
    BY OthersRest DEF TableInv, FromDone
  <2> QED BY <1>0, <2>1 DEF TableInv, FromDone
<1>4. StatesMade'
  BY <1>0 DEF TableInv, StatesMade
<1>5. IacOfState'
  <2>1. \A r \in rows : PathOf(r)' = PathOf(r)
    BY DEF PathOf
  <2> QED BY <1>0, <2>1 DEF IacOfState
<1>6. FollowsBase'
  BY <1>0 DEF TableInv, FollowsBase
<1>7. ProdLatest'
  BY DEF TableInv, ProdLatest, IsCurrent, IsVersion, IsLatest, RowsOf
<1>8. OverridesTracked' /\ OverridesOwn'
  BY <1>0 DEF TableInv, OverridesTracked, OverridesOwn, RowsOf
<1> QED BY <1>1, <1>2, <1>3, <1>4, <1>5, <1>6, <1>7, <1>8 DEF TableInv

\* An export gives a row its location and changes nothing else of it.
LEMMA ExportKeepsTable ==
  ASSUME OneAtATime, SerialInv, NEW p \in Request, CommitIac(p), UNCHANGED bucket,
         result'[p] = {},
         rows' = (rows \ {own[p]}) \cup {[own[p] EXCEPT !.iac = TRUE]}, UNCHANGED current
  PROVE  TableInv'
<1> USE DEF SerialInv
<1>0. Step(p) /\ Next
  BY DEF Step, Next
<1>1. PICK o, n : o = own[p] /\ n = [own[p] EXCEPT !.iac = TRUE]
  OBVIOUS
<1>2. /\ o \in rows /\ o \in Row
      /\ PathOf(o) \in DOMAIN iacObj /\ iacObj[PathOf(o)] = Made(o.hash)
  <2>1. InFlight(p) /\ phase[p] = "commit" /\ job[p].kind = Iac
    BY DEF CommitIac, At, InFlight, Waiting
  <2>2. SessionOf(p)
    BY <2>1 DEF SessionInv
  <2> QED BY <1>1, <2>1, <2>2 DEF SessionOf, OwnRow, ResultMade, PutDone, WithOwn, RowsOf,
                                  TypeInv, TypeOK, PathOf
<1>3. /\ rows' = (rows \ {o}) \cup {n}
      /\ n.env = o.env /\ n.version = o.version /\ n.hash = o.hash /\ n.tracks = o.tracks
      /\ n.constraints = o.constraints /\ n.stored = o.stored /\ n.iac = TRUE
  BY <1>1, <1>2 DEF Row
<1>4. /\ Done \subseteq Done'
      /\ \A r \in rows : Made(r.hash)' = Made(r.hash) /\ Made(r.tracks)' = Made(r.tracks)
  BY <1>0, MadeStays
<1>5. UniqueVersions'
  BY <1>0, NextKeepsUniqueVersions DEF TableInv
<1>6. HashInv'
  BY <1>0, NextKeepsHashInv DEF TableInv
<1>7. FromDone'
  <2>1. \A q \in Request : result'[q] \subseteq Done \cup {q}
    BY <1>0, OthersRest DEF TableInv, FromDone
  <2> QED BY <1>2, <1>3, <1>4, <2>1 DEF TableInv, FromDone
<1>8. \A r \in rows : StateOf(r)' = StateOf(r) /\ PathOf(r)' = PathOf(r)
  BY DEF StateOf, PathOf, bucket
<1>9. StateOf(n)' = StateOf(o) /\ PathOf(n)' = PathOf(o) /\ Made(n.hash)' = Made(o.hash)
      /\ Made(n.tracks)' = Made(o.tracks)
  BY <1>2, <1>3, <1>4 DEF StateOf, PathOf, bucket, Made
<1>10. StatesMade'
  BY <1>2, <1>3, <1>4, <1>8, <1>9 DEF TableInv, StatesMade
<1>11. IacOfState'
  BY <1>2, <1>3, <1>4, <1>8, <1>9 DEF TableInv, IacOfState, bucket
<1>12. FollowsBase'
  BY <1>2, <1>3, <1>4, <1>9 DEF TableInv, FollowsBase
<1>13. ProdLatest'
  BY <1>2, <1>3 DEF TableInv, ProdLatest, IsCurrent, IsVersion, IsLatest, RowsOf
<1>14. OverridesTracked'
  BY <1>2, <1>3, <1>4, <1>9 DEF TableInv, OverridesTracked, RowsOf
<1>15. OverridesOwn'
  BY <1>2, <1>3, <1>4, <1>9 DEF TableInv, OverridesOwn, RowsOf
<1> QED BY <1>5, <1>6, <1>7, <1>10, <1>11, <1>12, <1>13, <1>14, <1>15 DEF TableInv

\* The request that is about to commit a version: the number it takes is
\* above every other, so the key is free, and what it put is what it computed.
LEMMA AboutToCommit ==
  ASSUME OneAtATime, SerialInv, NEW p \in Request, At(p, RunKinds \cup {Promote}, "commit")
  PROVE  /\ SessionOf(p) /\ job[p].env \in Env
         /\ own[p] \in RowsOf(job[p].env) /\ own[p] \in Row /\ target[p] \in Nat
         /\ \A s \in RowsOf(job[p].env) : s.version \in Nat /\ s.version < target[p]
         /\ Writable(p) /\ ~\E r \in rows : TargetRow(p, r)
         /\ TargetPath(p) \in DOMAIN stateObj /\ stateObj[TargetPath(p)] = result[p]
         /\ Deleted(p) = IF job[p].kind = Overwrite
                         THEN {s \in RowsOf(job[p].env) : s.version > own[p].version} ELSE {}
         /\ job[p].kind = Promote => job[p].env = PROD_ENV_ID
         /\ job[p].kind # Overwrite => own[p].version = current[job[p].env]
<1> USE DEF SerialInv, TypeInv, TypeOK
<1>1. /\ InFlight(p) /\ phase[p] = "commit" /\ job[p].kind \in AddKinds
      /\ job[p].kind \in RunKinds \cup {Promote}
  BY DEF At, InFlight, Waiting, AddKinds
<1>2. SessionOf(p) /\ job[p] \in Job
  BY <1>1 DEF SessionInv
<1>3. job[p].env \in Env
  BY <1>2 DEF Job
<1>4. own[p] \in RowsOf(job[p].env) /\ own[p] \in Row
      /\ (job[p].kind # Overwrite => own[p].version = current[job[p].env])
  BY <1>1, <1>2 DEF SessionOf, OwnRow, WithOwn, RowsOf
<1>5. \A s \in RowsOf(job[p].env) : s.version \in Nat /\ s.version < target[p]
  <2>1. PICK r \in rows : IsLatest(r, job[p].env) /\ target[p] = r.version + 1
    BY <1>1, <1>2 DEF SessionOf, TargetNext
  <2>2. \A s \in RowsOf(job[p].env) : s.version \in Nat /\ s.version <= r.version
    BY <2>1 DEF IsLatest, RowsOf, Row
  <2>3. r.version \in Nat
    BY DEF Row
  <2> QED BY <2>1, <2>2, <2>3
<1>6. target[p] \in Nat /\ ~\E r \in rows : TargetRow(p, r)
  BY <1>5 DEF TargetRow, IsVersion
<1>7. /\ Deleted(p) = IF job[p].kind = Overwrite
                      THEN {s \in RowsOf(job[p].env) : s.version > own[p].version} ELSE {}
      /\ target[p] \notin future[p]
  <2>1. future[p] = IF job[p].kind = Overwrite
                    THEN FutureVersions(job[p].env, own[p].version) ELSE {}
    BY <1>1, <1>2 DEF SessionOf, FutureGone
  <2>2. CASE job[p].kind = Overwrite
    <3>1. future[p] = {s.version : s \in {x \in RowsOf(job[p].env) : x.version > own[p].version}}
      BY <2>1, <2>2 DEF FutureVersions
    <3>2. Deleted(p) = {s \in RowsOf(job[p].env) : s.version > own[p].version}
      BY <3>1 DEF Deleted
    <3>3. target[p] \notin future[p]
      BY <1>5, <3>1
    <3> QED BY <2>2, <3>2, <3>3
  <2>3. CASE job[p].kind # Overwrite
    BY <2>1, <2>3 DEF Deleted
  <2> QED BY <2>2, <2>3
<1>8. Writable(p)
  BY <1>6, <1>7 DEF Writable
<1>9. TargetPath(p) \in DOMAIN stateObj /\ stateObj[TargetPath(p)] = result[p]
  BY <1>1, <1>2 DEF SessionOf, PutDone
<1>10. job[p].kind = Promote => job[p].env = PROD_ENV_ID
  BY <1>2, <1>3, KindsAssumption DEF SessionOf, JobAllowed
<1> QED BY <1>2, <1>3, <1>4, <1>5, <1>6, <1>7, <1>8, <1>9, <1>10

\* The row a commit adds, in constants: o the row it builds on, n the new one.
Commits(p, o, n) ==
  /\ o = own[p] /\ n = NewRow(p, FALSE)
  /\ rows' = (rows \ Deleted(p)) \cup {n}
  /\ current' = [current EXCEPT ![o.env] = n.version]
  /\ o \in rows /\ o \in Row /\ n \in Row /\ n.env = o.env /\ o.env = job[p].env
  /\ n.hash = p /\ n.stored /\ ~n.iac
  /\ \A s \in RowsOf(o.env) : s.version \in Nat /\ s.version < n.version
  /\ Deleted(p) = IF job[p].kind = Overwrite
                  THEN {s \in RowsOf(o.env) : s.version > o.version} ELSE {}
  /\ UNCHANGED <<stateObj, iacObj, result>> /\ StateOf(n) = result[p]

LEMMA CommitOfVersion ==
  ASSUME OneAtATime, SerialInv, NEW p \in Request, CommitVersion(p)
  PROVE  \E o, n : Commits(p, o, n)
<1> USE DEF SerialInv, TypeInv, TypeOK
<1>0. At(p, RunKinds \cup {Promote}, "commit")
  BY DEF CommitVersion
<1>1. PICK o, n : o = own[p] /\ n = NewRow(p, FALSE)
  OBVIOUS
<1>2. rows' = (rows \ Deleted(p)) \cup {n}
  BY <1>0, <1>1, AboutToCommit DEF CommitVersion
<1>3. n \in Row /\ Loaded(n)
  BY <1>0, <1>1, NewRowLoaded DEF Loaded
<1>4. n.env = job[p].env /\ n.version = target[p] /\ n.hash = p /\ n.stored /\ ~n.iac
  BY <1>1 DEF NewRow
<1>5. o \in rows /\ o \in Row /\ o.env = job[p].env
  BY <1>0, <1>1, AboutToCommit DEF RowsOf
<1>6. \A s \in RowsOf(o.env) : s.version \in Nat /\ s.version < n.version
  BY <1>0, <1>4, <1>5, AboutToCommit
<1>7. Deleted(p) = IF job[p].kind = Overwrite
                   THEN {s \in RowsOf(o.env) : s.version > o.version} ELSE {}
  BY <1>0, <1>1, <1>5, AboutToCommit
<1>8. current' = [current EXCEPT ![o.env] = n.version] /\ UNCHANGED <<stateObj, iacObj, result>>
  BY <1>4, <1>5 DEF CommitVersion, bucket
<1>9. StateOf(n) = result[p]
  <2>1. PathOf(n) = TargetPath(p)
    BY <1>4 DEF PathOf, TargetPath
  <2> QED BY <1>0, <1>4, <2>1, AboutToCommit DEF StateOf
<1> QED BY <1>1, <1>2, <1>3, <1>4, <1>5, <1>6, <1>7, <1>8, <1>9 DEF Commits

\* What a run commits
LEMMA CommitOfRun ==
  ASSUME OneAtATime, SerialInv, NEW p \in Request, CommitVersion(p), NEW o, NEW n,
         Commits(p, o, n), job[p].kind \in RunKinds
  PROVE  /\ result[p] = Made(o.hash) \cup {p}
         /\ n.tracks = o.tracks /\ n.constraints = {p}
<1>1. SessionOf(p) /\ phase[p] = "commit"
  BY AboutToCommit DEF CommitVersion, At
<1>2. result[p] = Made(o.hash) \cup {p}
  BY <1>1 DEF SessionOf, ResultMade, Commits
<1> QED BY <1>2 DEF Commits, NewRow

\* What a promotion commits, on top of the latest version of prod
LEMMA CommitOfPromotion ==
  ASSUME OneAtATime, SerialInv, NEW p \in Request, CommitVersion(p), NEW o, NEW n,
         Commits(p, o, n), job[p].kind = Promote
  PROVE  /\ o.env = PROD_ENV_ID /\ n.env = PROD_ENV_ID /\ Deleted(p) = {}
         /\ n.version = o.version + 1
         /\ o.version = current[PROD_ENV_ID]
         /\ \A s \in RowsOf(PROD_ENV_ID) : s.version <= o.version
         /\ n.constraints = UNION {s.constraints : s \in TrackingRows(PROD_ENV_ID, o.tracks)}
         /\ \E b \in RowsOf(BASE_ENV_ID) :
              /\ IsCurrent(b, BASE_ENV_ID) /\ n.tracks = b.hash /\ o.tracks # b.hash
              /\ result[p] = Made(b.hash) \cup n.constraints
<1> USE DEF SerialInv
<1>1. SessionOf(p) /\ phase[p] = "commit" /\ job[p].env = PROD_ENV_ID
  BY AboutToCommit DEF CommitVersion, At
<1>2. o.env = PROD_ENV_ID /\ n.env = PROD_ENV_ID /\ Deleted(p) = {} /\ o.version \in Nat
  BY <1>1 DEF Commits, Row
<1>3. o.version = current[PROD_ENV_ID] /\ n.version = o.version + 1
  BY <1>1, <1>2, AboutToCommit
     DEF SessionOf, TargetNext, AddKinds, Commits, NewRow, CommitVersion
<1>4. \A s \in RowsOf(PROD_ENV_ID) : s.version <= o.version
  <2>1. \A s \in RowsOf(PROD_ENV_ID) : s.version \in Nat /\ s.version < n.version
    BY <1>2 DEF Commits
  <2> QED BY <1>2, <1>3, <2>1
<1>5. /\ base[p] \in RowsOf(BASE_ENV_ID) /\ IsCurrent(base[p], BASE_ENV_ID)
      /\ own[p].tracks # base[p].hash
      /\ overrides[p] = UNION {s.constraints : s \in TrackingRows(job[p].env, own[p].tracks)}
  BY <1>1 DEF SessionOf, BaseRow, WithOwn, IsCurrent, IsVersion
<1>6. n.tracks = base[p].hash /\ n.constraints = overrides[p]
  BY DEF Commits, NewRow
<1>7. result[p] = Made(base[p].hash) \cup overrides[p]
  BY <1>1 DEF SessionOf, ResultMade
<1>8. n.constraints = UNION {s.constraints : s \in TrackingRows(PROD_ENV_ID, o.tracks)}
  <2>1. o = own[p]
    BY DEF Commits
  <2> QED BY <1>1, <1>5, <1>6, <2>1
<1>9. o = own[p]
  BY DEF Commits
<1> QED BY <1>2, <1>3, <1>4, <1>5, <1>6, <1>7, <1>8, <1>9

LEMMA CommitKeepsTable ==
  ASSUME OneAtATime, SerialInv, NEW p \in Request, CommitVersion(p)
  PROVE  TableInv'
<1> USE DEF SerialInv
<1>0. Step(p) /\ Next
  BY DEF Step, Next
<1>1. PICK o, n : Commits(p, o, n)
  BY CommitOfVersion
<1> USE <1>1
<1>2. /\ Done \subseteq Done' /\ p \in Done' /\ p \notin Done
      /\ \A r \in rows : Made(r.hash)' = Made(r.hash) /\ Made(r.tracks)' = Made(r.tracks)
      /\ \A r \in rows : Made(r.hash) \subseteq Done
      /\ p # NoRequest
  <2>1. phase'[p] = "ok"
    BY DEF CommitVersion, Close, Goto, TypeInv, TypeOK
  <2> QED BY <1>0, <2>1, MadeStays DEF Done
<1>3. Made(n.hash)' = result[p]
  BY <1>2 DEF Commits, Made
<1>4. \A r \in rows : r \in rows' \/ r \in Deleted(p)
  BY DEF Commits
<1>5. \A r \in rows' : (r \in rows /\ r \notin Deleted(p)) \/ r = n
  BY DEF Commits
<1>6. job[p].kind \in RunKinds \/ job[p].kind = Promote
  BY DEF CommitVersion, At
<1>7. UniqueVersions' /\ HashInv'
  BY <1>0, NextKeepsUniqueVersions, NextKeepsHashInv DEF TableInv
<1>8. FromDone'
  <2>1. \A q \in Request : result'[q] \subseteq Done \cup {q}
    BY DEF Commits, TableInv, FromDone
  <2>2. n.tracks \in Done \cup {NoRequest} /\ n.constraints \subseteq Done \cup {p}
    <3>1. CASE job[p].kind \in RunKinds
      <4>1. n.tracks = o.tracks /\ n.constraints = {p}
        BY <3>1, CommitOfRun
      <4> QED BY <4>1 DEF Commits, TableInv, FromDone
    <3>2. CASE job[p].kind = Promote
      <4>1. n.constraints = UNION {s.constraints : s \in TrackingRows(PROD_ENV_ID, o.tracks)}
        BY <3>2, CommitOfPromotion
      <4>2. n.constraints \subseteq Done
        BY <4>1 DEF TrackingRows, RowsOf, TableInv, FromDone
      <4>3. \E b \in rows : n.tracks = b.hash
        BY <3>2, CommitOfPromotion DEF RowsOf
      <4> QED BY <1>0, <4>2, <4>3, MadeStays
    <3> QED BY <1>6, <3>1, <3>2
  <2> QED BY <1>2, <1>5, <2>1, <2>2 DEF TableInv, FromDone
<1>9. StatesMade'
  <2>1. \A r \in rows : StateOf(r)' = StateOf(r)
    BY DEF StateOf, PathOf, Commits
  <2>2. StateOf(n)' = result[p]
    BY DEF StateOf, PathOf, Commits
  <2> QED BY <1>2, <1>3, <1>5, <2>1, <2>2 DEF TableInv, StatesMade
<1>10. IacOfState'
  <2>1. \A r \in rows : PathOf(r)' = PathOf(r)
    BY DEF PathOf
  <2> QED BY <1>2, <1>5, <2>1 DEF TableInv, IacOfState, Commits
<1>11. FollowsBase'
  <2>1. Made(n.tracks)' \subseteq result[p]
    <3>1. CASE job[p].kind \in RunKinds
      <4>0. o \in rows
        BY DEF Commits
      <4>1. n.tracks = o.tracks /\ result[p] = Made(o.hash) \cup {p} /\ o \in rows
        BY <3>1, <4>0, CommitOfRun
      <4>2. Made(o.tracks)' \subseteq Made(o.hash)
        BY <1>2, <4>1 DEF TableInv, FollowsBase
      <4> QED BY <4>1, <4>2 DEF Made
    <3>2. CASE job[p].kind = Promote
      <4>1. PICK b \in RowsOf(BASE_ENV_ID) :
              n.tracks = b.hash /\ result[p] = Made(b.hash) \cup n.constraints
        BY <3>2, CommitOfPromotion
      <4>2. Made(b.hash)' = Made(b.hash)
        BY <1>2 DEF RowsOf
      <4> QED BY <4>1, <4>2 DEF Made
    <3> QED BY <1>6, <3>1, <3>2
  <2> QED BY <1>2, <1>3, <1>5, <2>1 DEF TableInv, FollowsBase
<1>12. ProdLatest'
  <2>1. CASE o.env = PROD_ENV_ID
    <3>0. n.version \in Nat
      BY DEF Commits, Row
    <3>1. n \in rows' /\ n.env = PROD_ENV_ID /\ current'[PROD_ENV_ID] = n.version
      BY <2>1 DEF Commits, TypeInv, TypeOK
    <3>2. \A s \in rows : s.env = PROD_ENV_ID => s.version <= n.version
      <4>1. \A s \in RowsOf(PROD_ENV_ID) : s.version \in Nat /\ s.version < n.version
        BY <2>1 DEF Commits
      <4> QED BY <3>0, <4>1 DEF RowsOf
    <3>3. n.version <= n.version
      BY <3>0
    <3> QED BY <1>5, <3>1, <3>2, <3>3 DEF ProdLatest, IsCurrent, IsVersion, IsLatest, RowsOf
  <2>2. CASE o.env # PROD_ENV_ID
    <3>1. \A s : s.env = PROD_ENV_ID => (s \in rows' <=> s \in rows)
      BY <2>2 DEF Commits, RowsOf
    <3>2. current'[PROD_ENV_ID] = current[PROD_ENV_ID]
      BY <2>2 DEF Commits, TypeInv, TypeOK
    <3> QED BY <3>1, <3>2 DEF TableInv, ProdLatest, IsCurrent, IsVersion, IsLatest, RowsOf
  <2> QED BY <2>1, <2>2
<1>13. OverridesTracked'
  <2> SUFFICES ASSUME NEW r \in rows', r.env = PROD_ENV_ID, NEW x, x \in Made(r.hash)',
                      NEW s \in rows', s.env = PROD_ENV_ID, x \in s.constraints
               PROVE  \E t \in rows' : /\ t.env = PROD_ENV_ID /\ t.version <= r.version
                                       /\ t.tracks = r.tracks /\ x \in t.constraints
    BY DEF OverridesTracked, RowsOf
  <2>1. ASSUME NEW y \in rows, y.env = PROD_ENV_ID, x \in Made(y.hash),
               NEW z \in rows, z.env = PROD_ENV_ID, x \in z.constraints
        PROVE  \E t \in rows : /\ t.env = PROD_ENV_ID /\ t.version <= y.version
                               /\ t.tracks = y.tracks /\ x \in t.constraints
    BY <2>1 DEF TableInv, OverridesTracked, RowsOf
  <2>2. n \in rows' /\ n.version \in Nat /\ o.version \in Nat /\ o.version < n.version
        /\ o \in rows /\ o.env = n.env
    BY DEF Commits, RowsOf, Row
  <2>3. CASE job[p].kind \in RunKinds
    <3>1. n.tracks = o.tracks /\ n.constraints = {p} /\ result[p] = Made(o.hash) \cup {p}
      BY <2>3, CommitOfRun
    <3>2. CASE r = n /\ x = p
      BY <2>2, <3>1, <3>2
    <3>3. CASE ~(r = n /\ x = p)
      <4>1. PICK y \in rows : /\ x \in Made(y.hash) /\ y \notin Deleted(p)
                              /\ y.env = r.env /\ y.tracks = r.tracks
                              /\ y.version \in Nat /\ r.version \in Nat /\ y.version <= r.version
        <5>1. CASE r = n
          <6>1. o \notin Deleted(p)
            BY <2>2 DEF Commits
          <6> QED BY <1>3, <2>2, <3>1, <3>3, <5>1, <6>1
        <5>2. CASE r # n
          <6>1. r \in rows /\ r \notin Deleted(p)
            BY <1>5, <5>2
          <6>2. r.version \in Nat
            BY <6>1 DEF TypeInv, TypeOK, Row
          <6> QED BY <1>2, <6>1, <6>2
        <5> QED BY <5>1, <5>2
      <4>2. x # p
        BY <1>2, <4>1
      <4>3. s \in rows
        BY <1>5, <3>1, <4>2
      <4>4. PICK t \in rows : /\ t.env = PROD_ENV_ID /\ t.version <= y.version
                              /\ t.tracks = y.tracks /\ x \in t.constraints
        BY <2>1, <4>1, <4>3
      <4>5. t \notin Deleted(p) /\ t.version \in Nat
        <5>1. t.version \in Nat
          BY DEF TypeInv, TypeOK, Row
        <5>2. y \in RowsOf(o.env) \/ t \notin RowsOf(o.env)
          BY <4>1, <4>4 DEF RowsOf
        <5>3. t.version > o.version => y.version > o.version
          BY <2>2, <4>1, <4>4, <5>1
        <5> QED BY <4>1, <5>1, <5>2, <5>3 DEF Commits
      <4> QED BY <1>4, <4>1, <4>4, <4>5
    <3> QED BY <3>2, <3>3
  <2>4. CASE job[p].kind = Promote
    <3>1. /\ o.env = PROD_ENV_ID /\ n.env = PROD_ENV_ID /\ Deleted(p) = {}
          /\ n.constraints = UNION {z.constraints : z \in TrackingRows(PROD_ENV_ID, o.tracks)}
      BY <2>4, CommitOfPromotion
    <3>2. PICK b \in RowsOf(BASE_ENV_ID) : result[p] = Made(b.hash) \cup n.constraints
      BY <2>4, CommitOfPromotion
    <3>3. \A y \in n.constraints : \E z \in rows : z.env = PROD_ENV_ID /\ y \in z.constraints
      BY <3>1 DEF TrackingRows, RowsOf
    <3>4. PICK z \in rows : z.env = PROD_ENV_ID /\ x \in z.constraints
      BY <1>5, <3>3
    <3>5. CASE r = n
      <4>1. x \in n.constraints
        BY <1>3, <3>2, <3>4, <3>5 DEF TableInv, OverridesOwn, RowsOf
      <4> QED BY <2>2, <3>1, <3>5, <4>1
    <3>6. CASE r # n
      <4>1. r \in rows /\ x \in Made(r.hash)
        BY <1>2, <1>5, <3>6
      <4> QED BY <1>4, <2>1, <3>1, <3>4, <4>1
    <3> QED BY <3>5, <3>6
  <2> QED BY <1>6, <2>3, <2>4
<1>14. OverridesOwn'
  <2> SUFFICES ASSUME NEW b \in rows', b.env = BASE_ENV_ID, NEW s \in rows',
                      s.env = PROD_ENV_ID, NEW x, x \in Made(b.hash)', x \in s.constraints
               PROVE  FALSE
    BY DEF OverridesOwn, RowsOf
  <2>1. ASSUME NEW y \in rows, y.env = BASE_ENV_ID, x \in Made(y.hash),
               NEW z \in rows, z.env = PROD_ENV_ID, x \in z.constraints
        PROVE  FALSE
    BY <2>1 DEF TableInv, OverridesOwn, RowsOf
  <2>2. o \in rows /\ o.env = n.env
    BY DEF Commits
  <2>3. CASE job[p].kind \in RunKinds
    <3>1. n.constraints = {p} /\ result[p] = Made(o.hash) \cup {p}
      BY <2>3, CommitOfRun
    <3>2. CASE b = n
      <4>1. s \in rows
        BY <1>5, <3>2
      <4>2. s.constraints \subseteq Done
        BY <4>1 DEF TableInv, FromDone
      <4>3. x \in Made(o.hash)
        BY <1>2, <1>3, <3>1, <3>2, <4>2
      <4> QED BY <2>1, <2>2, <3>2, <4>1, <4>3
    <3>3. CASE b # n
      <4>1. b \in rows /\ x \in Made(b.hash) /\ x # p
        BY <1>2, <1>5, <3>3
      <4>2. s \in rows
        BY <1>5, <3>1, <4>1
      <4> QED BY <2>1, <4>1, <4>2
    <3> QED BY <3>2, <3>3
  <2>4. CASE job[p].kind = Promote
    <3>1. /\ n.env = PROD_ENV_ID
          /\ n.constraints = UNION {z.constraints : z \in TrackingRows(PROD_ENV_ID, o.tracks)}
      BY <2>4, CommitOfPromotion
    <3>2. b \in rows /\ x \in Made(b.hash)
      BY <1>2, <1>5, <3>1
    <3>3. \E z \in rows : z.env = PROD_ENV_ID /\ x \in z.constraints
      BY <1>5, <3>1 DEF TrackingRows, RowsOf
    <3> QED BY <2>1, <3>2, <3>3
  <2> QED BY <1>6, <2>3, <2>4
<1> QED BY <1>7, <1>8, <1>9, <1>10, <1>11, <1>12, <1>13, <1>14 DEF TableInv

\* What the engine and the export return: the state of a version, more edits of
\* requests that are done, and the edit of the request itself.
LEMMA EngineReturns ==
  ASSUME OneAtATime, SerialInv, NEW p \in Request
  PROVE  /\ RunEngine(p) => result'[p] = Made(own[p].hash) \cup {p}
         /\ PromoteEngine(p) => result'[p] = Made(base[p].hash) \cup overrides[p]
         /\ ExportIac(p) => result'[p] = Made(own[p].hash)
         /\ RunEngine(p) \/ PromoteEngine(p) \/ ExportIac(p) =>
              own[p] \in rows /\ result'[p] \subseteq Done \cup {p}
<1> USE DEF SerialInv, TypeInv, TypeOK
<1> SUFFICES ASSUME RunEngine(p) \/ PromoteEngine(p) \/ ExportIac(p)
             PROVE  /\ RunEngine(p) => result'[p] = Made(own[p].hash) \cup {p}
                    /\ PromoteEngine(p) => result'[p] = Made(base[p].hash) \cup overrides[p]
                    /\ ExportIac(p) => result'[p] = Made(own[p].hash)
                    /\ own[p] \in rows /\ result'[p] \subseteq Done \cup {p}
  OBVIOUS
<1>1. InFlight(p) /\ phase[p] = "engine"
  BY DEF RunEngine, PromoteEngine, ExportIac, At, InFlight, Waiting
<1>2. SessionOf(p)
  BY <1>1 DEF SessionInv
<1>3. own[p] \in rows /\ StateOf(own[p]) = Made(own[p].hash)
  BY <1>1, <1>2 DEF SessionOf, OwnRow, WithOwn, RowsOf, TableInv, StatesMade
<1>4. Step(p)
  BY DEF Step
<1>5. \A r \in rows : Made(r.hash) \subseteq Done
  BY <1>4, MadeStays
<1>6. CASE RunEngine(p)
  BY <1>3, <1>5, <1>6 DEF RunEngine, ExportIac, PromoteEngine, Compute, At
<1>7. CASE ExportIac(p)
  BY <1>3, <1>5, <1>7 DEF RunEngine, ExportIac, PromoteEngine, Compute, At
<1>8. CASE PromoteEngine(p)
  <2>1. job[p].kind = Promote
    BY <1>8 DEF PromoteEngine, At
  <2>2. /\ base[p] \in rows /\ StateOf(base[p]) = Made(base[p].hash)
        /\ overrides[p] = UNION {s.constraints : s \in TrackingRows(job[p].env, own[p].tracks)}
    BY <1>1, <1>2, <2>1 DEF SessionOf, BaseRow, WithOwn, TableInv, StatesMade
  <2>3. overrides[p] \subseteq Done
    BY <2>2 DEF TrackingRows, RowsOf, TableInv, FromDone
  <2> QED BY <1>3, <1>5, <1>8, <2>1, <2>2, <2>3
             DEF RunEngine, ExportIac, PromoteEngine, Compute, At
<1> QED BY <1>6, <1>7, <1>8

\* The location a version is put at is that of no row.
LEMMA PutsAside ==
  ASSUME OneAtATime, SerialInv, NEW p \in Request, WriteState(p)
  PROVE  \A r \in rows : StateOf(r)' = StateOf(r)
<1> USE DEF SerialInv, TypeInv, TypeOK
<1>1. InFlight(p) /\ phase[p] = "write" /\ job[p].kind \in AddKinds
  BY DEF WriteState, At, InFlight, Waiting, AddKinds
<1>2. PICK r \in rows : IsLatest(r, job[p].env) /\ target[p] = r.version + 1
  BY <1>1 DEF SessionInv, SessionOf, TargetNext
<1>3. \A s \in rows : PathOf(s) # TargetPath(p)
  <2>1. \A s \in rows : s.env = job[p].env => s.version <= r.version
    BY <1>2 DEF IsLatest, RowsOf
  <2>2. \A s \in rows : s.version \in Nat
    BY DEF Row
  <2> QED BY <1>2, <2>1, <2>2 DEF PathOf, TargetPath
<1>4. \A s \in rows : s.stored => PathOf(s) \in DOMAIN stateObj /\ PathOf(s)' = PathOf(s)
  BY DEF LoadedInv, RowsLocated, Located, PathOf
<1> QED BY <1>3, <1>4 DEF WriteState, Put, StateOf

LEMMA StepKeepsTable ==
  ASSUME OneAtATime, SerialInv, NEW p \in Request, Step(p)
  PROVE  TableInv'
<1> USE DEF SerialInv
<1>1. result[p] \subseteq Done \cup {p} /\ IacOfState
  BY DEF TableInv, FromDone
<1>2. CASE UNCHANGED <<rows, current, stateObj, iacObj>>
  <2>1. \A r \in rows : StateOf(r)' = StateOf(r) /\ PathOf(r)' = PathOf(r)
    BY <1>2 DEF StateOf, PathOf
  <2>2. result'[p] \subseteq Done \cup {p}
    <3>1. CASE RunEngine(p) \/ PromoteEngine(p) \/ ExportIac(p)
      BY <3>1, EngineReturns
    <3>2. CASE ~(RunEngine(p) \/ PromoteEngine(p) \/ ExportIac(p))
      <4>1. UNCHANGED result \/ result' = [result EXCEPT ![p] = {}]
        BY <3>2 DEF Step, Arrive, Crash, ChatLoad, RunLoad, EngineRefuses, ReadLatest,
             DeleteFuture, WriteState, CommitVersion, CommitFails, PromoteLoad, PromoteBase,
             PromoteCollect, IacLoad, WriteIac, CommitIac, FindNeighbour, SetCurrentVersion,
             Answer, Keep, session
      <4> QED BY <1>1, <4>1 DEF TypeInv, TypeOK
    <3> QED BY <3>1, <3>2
  <2> QED BY <1>1, <1>2, <2>1, <2>2, TableKept DEF IacOfState
<1>3. CASE CommitVersion(p)
  BY <1>3, CommitKeepsTable
<1>4. CASE CommitIac(p)
  <2>1. CASE Answer(p, "failed")
    BY <1>2, <2>1 DEF Answer, db, bucket
  <2>2. CASE ~Answer(p, "failed")
    <3>1. PICK r \in rows :
            /\ PathOf(r) = PathOf(own[p])
            /\ rows' = (rows \ {r}) \cup {[r EXCEPT !.iac = TRUE]}
            /\ result' = [result EXCEPT ![p] = {}]
            /\ UNCHANGED <<current, bucket>>
      BY <1>4, <2>2 DEF CommitIac
    <3>2. InFlight(p) /\ phase[p] = "commit"
      BY <1>4 DEF CommitIac, At, InFlight, Waiting
    <3>3. own[p] \in rows
      BY <3>2 DEF SessionInv, SessionOf, OwnRow, WithOwn, RowsOf
    <3>4. r = own[p]
      BY <3>1, <3>3 DEF TableInv, UniqueVersions
    <3>5. result'[p] = {}
      BY <3>1 DEF TypeInv, TypeOK
    <3> QED BY <1>4, <3>1, <3>4, <3>5, ExportKeepsTable
  <2> QED BY <2>1, <2>2
<1>5. CASE SetCurrentVersion(p)
  <2>1. /\ UNCHANGED <<rows, stateObj, iacObj, result>>
        /\ current' = [current EXCEPT ![job[p].env] = target[p]]
        /\ InFlight(p) /\ job[p].kind \in MoveKinds
    BY <1>5 DEF SetCurrentVersion, bucket, At, InFlight, Waiting
  <2>2. job[p].env # PROD_ENV_ID
    BY <2>1 DEF OneAtATime, SessionInv, SessionOf, JobAllowed
  <2>3. current'[PROD_ENV_ID] = current[PROD_ENV_ID]
    BY <2>1, <2>2 DEF TypeInv, TypeOK
  <2>4. \A r \in rows : StateOf(r)' = StateOf(r) /\ PathOf(r)' = PathOf(r)
    BY <2>1 DEF StateOf, PathOf
  <2> QED BY <1>1, <2>1, <2>3, <2>4, TableKept DEF IacOfState
<1>6. CASE WriteState(p)
  <2>1. UNCHANGED <<rows, current, iacObj, result>>
    BY <1>6 DEF WriteState, db, session
  <2> QED BY <1>1, <1>6, <2>1, PutsAside, TableKept DEF IacOfState
<1>7. CASE WriteIac(p)
  <2>1. /\ UNCHANGED <<rows, current, stateObj, result>>
        /\ iacObj' = Put(iacObj, PathOf(own[p]), result[p])
        /\ InFlight(p) /\ phase[p] = "write" /\ job[p].kind = Iac
    BY <1>7 DEF WriteIac, db, session, At, InFlight, Waiting
  <2>2. own[p] \in rows /\ result[p] = Made(own[p].hash)
    BY <2>1 DEF SessionInv, SessionOf, OwnRow, ResultMade, WithOwn, RowsOf
  <2>3. \A r \in rows : StateOf(r)' = StateOf(r)
    BY <2>1 DEF StateOf, PathOf
  <2>4. \A r \in rows : PathOf(r) = PathOf(own[p]) => Made(r.hash) = result[p]
    BY <2>2 DEF TableInv, UniqueVersions
  <2>5. \A r \in rows : r.iac =>
          PathOf(r) \in DOMAIN iacObj' /\ iacObj'[PathOf(r)] = Made(r.hash)
    BY <1>1, <2>1, <2>4 DEF IacOfState, Put
  <2> QED BY <1>1, <2>1, <2>3, <2>5, TableKept
<1>8. CASE ~(\/ CommitVersion(p) \/ CommitIac(p) \/ SetCurrentVersion(p)
             \/ WriteState(p) \/ WriteIac(p))
  <2>1. UNCHANGED <<rows, current, stateObj, iacObj>>
    BY <1>8 DEF Step, Arrive, Crash, ChatLoad, RunLoad, RunEngine, EngineRefuses, ReadLatest,
         DeleteFuture, CommitFails, PromoteLoad, PromoteBase, PromoteCollect, PromoteEngine,
         IacLoad, ExportIac, FindNeighbour, Answer, Keep, Compute, db, bucket
  <2> QED BY <1>2, <2>1
<1> QED BY <1>3, <1>4, <1>5, <1>6, <1>7, <1>8

-----------------------------------------------------------------------------
(* The session of the request in flight *)

\* Before the request has loaded a row there is little to keep.
LEMMA EarlySession ==
  ASSUME NEW p \in Request, phase[p] \in {"ask", "load", "move"},
         JobAllowed(p), TargetExists(p), future[p] = {}
  PROVE  SessionOf(p)
BY DEF SessionOf, OwnRow, BaseRow, ResultMade, TargetNext, FutureGone, PutDone, WithOwn

LEMMA ArriveOpens ==
  ASSUME OneAtATime, SerialInv, NEW p \in Request, Arrive(p)
  PROVE  SessionOf(p)'
<1> USE DEF SerialInv, TypeInv, TypeOK
<1>1. PICK e \in Env, v \in Versions : \E kind \in Kinds[e] :
        /\ job' = [job EXCEPT ![p] = [kind |-> kind, env |-> e, version |-> v]]
        /\ Goto(p, FirstStep(kind))
  BY DEF Arrive
<1>2. PICK kind \in Kinds[e] :
        /\ job' = [job EXCEPT ![p] = [kind |-> kind, env |-> e, version |-> v]]
        /\ Goto(p, FirstStep(kind))
  BY <1>1
<1>3. job'[p] = [kind |-> kind, env |-> e, version |-> v] /\ phase'[p] = FirstStep(kind)
  BY <1>2 DEF Goto
<1>4. phase'[p] \in {"ask", "load", "move"} /\ (phase'[p] = "move" => kind = Set)
  BY <1>3 DEF FirstStep
<1>5. future'[p] = {}
  BY DEF Arrive, NothingLeft, InFlight, Waiting
<1>6. job'[p].kind = kind /\ job'[p].env = e
  BY <1>3
<1>7. JobAllowed(p)'
  BY <1>6 DEF JobAllowed
<1>8. TargetExists(p)'
  BY <1>4, <1>6 DEF TargetExists
<1> QED BY <1>4, <1>5, <1>7, <1>8, EarlySession
           DEF SessionOf, OwnRow, BaseRow, ResultMade, TargetNext, FutureGone, PutDone, WithOwn

\* Steps that find the version to work on, or to move to
LEMMA LoadKeepsSession ==
  ASSUME OneAtATime, SerialInv, NEW p \in Request, InFlight(p)',
         ChatLoad(p) \/ RunLoad(p) \/ PromoteLoad(p) \/ IacLoad(p) \/ FindNeighbour(p)
  PROVE  SessionOf(p)'
<1> USE DEF SerialInv, TypeInv, TypeOK
<1>1. ~\E answer \in Answers : Answer(p, answer)
  BY DEF Answer, Close, Goto, InFlight, Waiting, Answers
<1>2. Refusal(p) \in Answers /\ {"ok", "failed", "refused"} \subseteq Answers
  BY DEF Refusal, Answers
<1>3. InFlight(p) /\ phase[p] \in {"ask", "load"}
  BY DEF ChatLoad, RunLoad, PromoteLoad, IacLoad, FindNeighbour, At, InFlight, Waiting
<1>4. SessionOf(p) /\ JobAllowed(p) /\ future[p] = {}
  BY <1>3 DEF SessionInv, SessionOf, FutureGone
<1>5. CASE ChatLoad(p)
  <2>1. PICK r \in rows : job' = [job EXCEPT ![p].version = r.version] /\ Goto(p, "load")
                          /\ UNCHANGED session
    BY <1>1, <1>2, <1>5 DEF ChatLoad
  <2>2. job'[p].kind = job[p].kind /\ job'[p].env = job[p].env
    BY <2>1 DEF Job
  <2>3. phase'[p] = "load" /\ future'[p] = {}
    BY <1>4, <2>1 DEF Goto, session
  <2> QED BY <1>4, <2>2, <2>3
             DEF JobAllowed, SessionOf, OwnRow, BaseRow, ResultMade, TargetNext, TargetExists,
                 FutureGone, PutDone, WithOwn
<1>6. CASE FindNeighbour(p)
  <2>1. PICK r \in rows :
          /\ Neighbour(p, r)
          /\ target' = [target EXCEPT ![p] = r.version]
          /\ Goto(p, "move")
          /\ UNCHANGED <<db, bucket, job, own, base, overrides, result, future>>
    BY <1>1, <1>2, <1>6 DEF FindNeighbour
  <2>2. r.env = job[p].env
    BY <2>1 DEF Neighbour, IsPrevious, IsNext, RowsOf
  <2>3. /\ phase'[p] = "move" /\ future'[p] = {} /\ target'[p] = r.version
        /\ UNCHANGED <<rows, job>>
    BY <1>4, <2>1 DEF Goto, db
  <2>4. TargetExists(p)'
    BY <2>2, <2>3 DEF TargetExists, RowsOf
  <2> QED BY <1>4, <2>3, <2>4
             DEF JobAllowed, SessionOf, OwnRow, BaseRow, ResultMade, TargetNext, FutureGone,
                 PutDone, WithOwn
<1>7. CASE RunLoad(p) \/ IacLoad(p) \/ PromoteLoad(p)
  <2>1. PICK r \in rows, next \in {"engine", "base"} :
          /\ Keep(p, r, next)
          /\ IsVersion(r, job[p].env, IF job[p].kind = Overwrite THEN job[p].version
                                      ELSE current[job[p].env])
          /\ next = "base" <=> job[p].kind = Promote
          /\ job[p].kind = Promote =>
               \E b \in rows : IsCurrent(b, BASE_ENV_ID) /\ r.tracks # b.hash
    <3>1. CASE RunLoad(p)
      BY <1>1, <1>2, <3>1 DEF RunLoad, BuildsOn, At, IsCurrent
    <3>2. CASE IacLoad(p)
      BY <1>1, <1>2, <3>2 DEF IacLoad, At, IsCurrent
    <3>3. CASE PromoteLoad(p)
      <4>1. PICK r \in rows, b \in rows :
              /\ IsCurrent(r, job[p].env) /\ IsCurrent(b, BASE_ENV_ID)
              /\ r.tracks # b.hash /\ Keep(p, r, "base")
        BY <1>1, <1>2, <3>3 DEF PromoteLoad
      <4>2. job[p].kind = Promote
        BY <3>3 DEF PromoteLoad, At
      <4> QED BY <4>1, <4>2 DEF IsCurrent
    <3> QED BY <1>7, <3>1, <3>2, <3>3
  <2>2. /\ UNCHANGED <<rows, current, job, future>>
        /\ own'[p] = r /\ phase'[p] = next
    BY <2>1 DEF Keep, Goto, db
  <2>3. OwnRow(p)'
    BY <2>1, <2>2 DEF OwnRow, IsVersion, RowsOf
  <2>4. BaseRow(p)'
    <3>1. \A b, c \in rows : IsCurrent(b, BASE_ENV_ID) /\ IsCurrent(c, BASE_ENV_ID) => b = c
      BY DEF TableInv, UniqueVersions, IsCurrent, IsVersion, RowsOf, PathOf
    <3>2. job[p].kind = Promote =>
            \A b \in rows : IsCurrent(b, BASE_ENV_ID) => r.tracks # b.hash
      BY <2>1, <3>1
    <3> QED BY <2>1, <2>2, <3>2 DEF BaseRow, WithOwn, IsCurrent, IsVersion, RowsOf
  <2> QED BY <1>4, <2>1, <2>2, <2>3, <2>4
             DEF JobAllowed, SessionOf, ResultMade, TargetNext, TargetExists, FutureGone,
                 PutDone, WithOwn
<1> QED BY <1>5, <1>6, <1>7

\* What the promotion reads of the base and of prod
LEMMA ReadKeepsSession ==
  ASSUME OneAtATime, SerialInv, NEW p \in Request, InFlight(p)',
         PromoteBase(p) \/ PromoteCollect(p)
  PROVE  SessionOf(p)'
<1> USE DEF SerialInv, TypeInv, TypeOK
<1>1. ~\E answer \in Answers : Answer(p, answer)
  BY DEF Answer, Close, Goto, InFlight, Waiting, Answers
<1>2. "refused" \in Answers
  BY DEF Answers
<1>3. InFlight(p) /\ phase[p] \in {"base", "collect"} /\ job[p].kind = Promote
  BY DEF PromoteBase, PromoteCollect, At, InFlight, Waiting
<1>4. SessionOf(p) /\ JobAllowed(p) /\ OwnRow(p) /\ BaseRow(p) /\ future[p] = {}
  BY <1>3 DEF SessionInv, SessionOf, FutureGone
<1>5. CASE PromoteBase(p)
  <2>1. PICK b \in rows :
          /\ IsCurrent(b, BASE_ENV_ID)
          /\ base' = [base EXCEPT ![p] = b]
          /\ Goto(p, "collect")
          /\ UNCHANGED <<db, bucket, job, own, overrides, result, target, future>>
    BY <1>1, <1>2, <1>5 DEF PromoteBase
  <2>2. /\ UNCHANGED <<rows, current, job, own, future>>
        /\ base'[p] = b /\ phase'[p] = "collect" /\ phase[p] = "base"
    BY <1>5, <2>1 DEF PromoteBase, At, Goto, db
  <2>3. OwnRow(p)'
    BY <1>4, <2>2 DEF OwnRow, WithOwn, RowsOf
  <2>4. BaseRow(p)'
    BY <1>3, <1>4, <2>1, <2>2 DEF BaseRow, WithOwn, IsCurrent, IsVersion, RowsOf
  <2> QED BY <1>3, <1>4, <2>2, <2>3, <2>4
             DEF JobAllowed, SessionOf, ResultMade, TargetNext, TargetExists, FutureGone,
                 PutDone, WithOwn
<1>6. CASE PromoteCollect(p)
  <2>1. PICK r \in rows :
          /\ IsCurrent(r, job[p].env)
          /\ overrides' = [overrides EXCEPT ![p] =
               UNION {s.constraints : s \in TrackingRows(job[p].env, r.tracks)}]
          /\ Goto(p, "engine")
          /\ UNCHANGED <<db, bucket, job, own, base, result, target, future>>
    BY <1>1, <1>2, <1>6 DEF PromoteCollect
  <2>2. /\ UNCHANGED <<rows, current, job, own, base, future>>
        /\ phase'[p] = "engine" /\ phase[p] = "collect"
        /\ overrides'[p] = UNION {s.constraints : s \in TrackingRows(job[p].env, r.tracks)}
    BY <1>6, <2>1 DEF PromoteCollect, At, Goto, db
  <2>3. r = own[p]
    <3>1. own[p] \in RowsOf(job[p].env) /\ own[p].version = current[job[p].env]
      BY <1>3, <1>4, <2>2 DEF OwnRow, WithOwn
    <3> QED BY <2>1, <3>1 DEF TableInv, UniqueVersions, IsCurrent, IsVersion, RowsOf, PathOf
  <2>4. OwnRow(p)'
    BY <1>4, <2>2 DEF OwnRow, WithOwn, RowsOf
  <2>5. BaseRow(p)'
    <3>1. \A e, h : TrackingRows(e, h)' = TrackingRows(e, h)
      BY <2>2 DEF TrackingRows, RowsOf
    <3>2. overrides'[p] = UNION {s.constraints : s \in TrackingRows(job[p].env, own[p].tracks)}
      BY <2>2, <2>3
    <3>3. /\ \A b \in rows' : IsCurrent(b, BASE_ENV_ID)' => own'[p].tracks # b.hash
          /\ base'[p] \in rows'
          /\ \A b \in rows : IsCurrent(b, BASE_ENV_ID)' <=> IsCurrent(b, BASE_ENV_ID)
      BY <1>3, <1>4, <2>2 DEF BaseRow, WithOwn, IsCurrent, IsVersion, RowsOf
    <3> QED BY <1>3, <1>4, <2>2, <3>2, <3>3
               DEF BaseRow, WithOwn, TrackingRows, RowsOf, IsCurrent, IsVersion
  <2> QED BY <1>3, <1>4, <2>2, <2>4, <2>5
             DEF JobAllowed, SessionOf, ResultMade, TargetNext, TargetExists, FutureGone,
                 PutDone, WithOwn
<1> QED BY <1>5, <1>6

\* Steps of a request that has its rows: the table and what it loaded are as
\* they were.
LEMMA RowsStillThere ==
  ASSUME OneAtATime, SerialInv, NEW p \in Request, SessionOf(p),
         UNCHANGED <<rows, current, job, own, base, overrides>>,
         phase[p] \in {"engine", "latest", "future", "write"}, phase'[p] \in WithOwn
  PROVE  JobAllowed(p)' /\ OwnRow(p)' /\ BaseRow(p)'
<1>1. JobAllowed(p)' /\ OwnRow(p)'
  BY DEF SessionOf, JobAllowed, OwnRow, WithOwn, RowsOf
<1>2. BaseRow(p)'
  BY DEF SessionOf, BaseRow, WithOwn, IsCurrent, IsVersion, TrackingRows, RowsOf
<1> QED BY <1>1, <1>2

LEMMA WorkKeepsSession ==
  ASSUME OneAtATime, SerialInv, NEW p \in Request,
         \/ RunEngine(p) \/ ReadLatest(p) \/ DeleteFuture(p) \/ WriteState(p)
         \/ PromoteEngine(p) \/ ExportIac(p) \/ WriteIac(p)
  PROVE  SessionOf(p)'
<1> USE DEF SerialInv, TypeInv, TypeOK
<1>1. UNCHANGED <<rows, current, job, own, base, overrides>>
  BY DEF RunEngine, ReadLatest, DeleteFuture, WriteState, PromoteEngine, ExportIac, WriteIac,
         Compute, db, session
<1>2. /\ InFlight(p) /\ phase[p] \in {"engine", "latest", "future", "write"}
      /\ phase'[p] \in {"latest", "future", "write", "commit"}
  BY DEF RunEngine, ReadLatest, DeleteFuture, WriteState, PromoteEngine, ExportIac, WriteIac,
         Compute, Goto, At, InFlight, Waiting
<1>3. SessionOf(p)
  BY <1>2 DEF SessionInv
<1>4. JobAllowed(p)' /\ OwnRow(p)' /\ BaseRow(p)'
  BY <1>1, <1>2, <1>3, RowsStillThere DEF WithOwn
<1>5. own[p] \in rows /\ (job[p].kind = Promote => base[p] \in rows)
  BY <1>2, <1>3 DEF SessionOf, OwnRow, BaseRow, WithOwn, RowsOf
<1>6. ResultMade(p)'
  <2>1. \A r \in rows : Made(r.hash)' = Made(r.hash)
    BY MadeStays DEF Step
  <2>2. Made(own[p].hash)' = Made(own[p].hash)
    BY <1>1, <1>5, <2>1 DEF Made
  <2>3. job[p].kind = Promote => Made(base[p].hash)' = Made(base[p].hash)
    BY <1>1, <1>5, <2>1 DEF Made
  <2>4. CASE RunEngine(p) \/ PromoteEngine(p) \/ ExportIac(p)
    BY <1>1, <2>2, <2>3, <2>4, EngineReturns
       DEF ResultMade, RunEngine, PromoteEngine, ExportIac, At
  <2>5. CASE ReadLatest(p) \/ DeleteFuture(p) \/ WriteState(p) \/ WriteIac(p)
    <3>1. UNCHANGED result /\ phase[p] \in {"latest", "future", "write", "commit"}
      BY <2>5 DEF ReadLatest, DeleteFuture, WriteState, WriteIac, session, At
    <3> QED BY <1>1, <1>3, <2>2, <2>3, <3>1 DEF SessionOf, ResultMade
  <2> QED BY <2>4, <2>5
<1>7. TargetNext(p)'
  <2>1. \A r \in rows, e \in Env : IsLatest(r, e)' <=> IsLatest(r, e)
    BY <1>1 DEF IsLatest, RowsOf
  <2>2. CASE RunEngine(p) \/ ExportIac(p)
    BY <1>1, <2>2 DEF TargetNext, AddKinds, RunEngine, ExportIac, Compute, Goto, At
  <2>3. CASE ReadLatest(p)
    <3>1. \E r \in rows : IsLatest(r, job[p].env) /\ target'[p] = r.version + 1
      BY <2>3 DEF ReadLatest
    <3>2. job[p].kind # Promote
      BY <2>3 DEF ReadLatest, At
    <3> QED BY <1>1, <3>1, <3>2 DEF TargetNext, IsLatest, RowsOf
  <2>4. CASE PromoteEngine(p)
    <3>1. target'[p] = own[p].version + 1 /\ job[p].kind = Promote
      BY <2>4 DEF PromoteEngine, At
    <3>2. job[p].env = PROD_ENV_ID
      BY <1>3, <3>1, KindsAssumption DEF SessionOf, JobAllowed, Job
    <3>3. IsCurrent(own[p], PROD_ENV_ID)
      BY <1>2, <1>3, <3>1, <3>2 DEF SessionOf, OwnRow, WithOwn, IsCurrent, IsVersion
    <3>4. IsLatest(own[p], PROD_ENV_ID)
      <4>1. PICK r \in rows : IsCurrent(r, PROD_ENV_ID) /\ IsLatest(r, PROD_ENV_ID)
        BY DEF TableInv, ProdLatest
      <4>2. r = own[p]
        BY <3>3, <4>1 DEF TableInv, UniqueVersions, IsCurrent, IsVersion, RowsOf, PathOf
      <4> QED BY <4>1, <4>2
    <3> QED BY <1>1, <1>5, <3>1, <3>2, <3>4 DEF TargetNext, IsLatest, RowsOf
  <2>5. CASE DeleteFuture(p) \/ WriteState(p) \/ WriteIac(p)
    <3>1. UNCHANGED target /\ phase[p] \in {"future", "write"}
      BY <2>5 DEF DeleteFuture, WriteState, WriteIac, session, At
    <3> QED BY <1>1, <1>3, <3>1 DEF SessionOf, TargetNext, IsLatest, RowsOf
  <2> QED BY <2>2, <2>3, <2>4, <2>5
<1>8. TargetExists(p)'
  BY <1>2 DEF TargetExists
<1>9. FutureGone(p)'
  <2>1. CASE DeleteFuture(p)
    <3>1. /\ future'[p] = FutureVersions(job[p].env, job[p].version)
          /\ job[p].kind = Overwrite /\ phase'[p] = "write" /\ phase[p] = "future"
      BY <2>1 DEF DeleteFuture, At, Goto
    <3>2. own[p].version = job[p].version
      BY <1>3, <3>1 DEF SessionOf, OwnRow, WithOwn
    <3> QED BY <1>1, <3>1, <3>2 DEF FutureGone, FutureVersions, RowsOf
  <2>2. CASE ~DeleteFuture(p)
    <3>1. UNCHANGED future
      BY <2>2 DEF RunEngine, ReadLatest, WriteState, PromoteEngine, ExportIac, WriteIac,
                  Compute, session
    <3>2. job[p].kind = Overwrite =>
            (phase'[p] \in {"write", "commit"} <=> phase[p] \in {"write", "commit"})
      BY <2>2 DEF RunEngine, ReadLatest, WriteState, PromoteEngine, ExportIac, WriteIac,
                  Compute, Goto, At
    <3> QED BY <1>1, <1>3, <3>1, <3>2 DEF SessionOf, FutureGone, FutureVersions, RowsOf
  <2> QED BY <2>1, <2>2
<1>10. PutDone(p)'
  <2>1. CASE WriteState(p)
    BY <1>1, <2>1 DEF WriteState, PutDone, Put, TargetPath, At, session
  <2>2. CASE WriteIac(p)
    BY <1>1, <2>2 DEF WriteIac, PutDone, Put, PathOf, At, AddKinds, session
  <2>3. CASE ~(WriteState(p) \/ WriteIac(p))
    <3>1. phase'[p] # "commit"
      BY <2>3 DEF RunEngine, ReadLatest, DeleteFuture, PromoteEngine, ExportIac, Compute, Goto
    <3> QED BY <3>1 DEF PutDone
  <2> QED BY <2>1, <2>2, <2>3
<1> QED BY <1>4, <1>6, <1>7, <1>8, <1>9, <1>10 DEF SessionOf

LEMMA StepKeepsSession ==
  ASSUME OneAtATime, SerialInv, NEW p \in Request, Step(p)
  PROVE  SessionInv'
<1> USE DEF SerialInv
<1> SUFFICES ASSUME NEW q \in Request, InFlight(q)' PROVE SessionOf(q)'
  BY DEF SessionInv
<1>1. q = p
  BY OthersRest DEF InFlight
<1>2. ~\E answer \in Answers : Close(p, answer) \/ Answer(p, answer)
  BY <1>1 DEF Answer, Close, Goto, InFlight, Waiting, Answers, TypeInv, TypeOK
<1>3. Refusal(p) \in Answers /\ {"ok", "failed", "refused"} \subseteq Answers
  BY DEF Refusal, Answers
<1>4. ~(\/ Crash(p) \/ EngineRefuses(p) \/ CommitVersion(p) \/ CommitFails(p)
        \/ CommitIac(p) \/ SetCurrentVersion(p))
  BY <1>2, <1>3 DEF Crash, EngineRefuses, CommitVersion, CommitFails, CommitIac,
                    SetCurrentVersion
<1> QED BY <1>1, <1>4, ArriveOpens, LoadKeepsSession, ReadKeepsSession, WorkKeepsSession DEF Step

LEMMA NextKeepsSerialInv ==
  ASSUME OneAtATime, SerialInv, [Next]_vars
  PROVE  SerialInv'
<1>1. ASSUME NEW p \in Request, Step(p) PROVE SerialInv'
  <2>1. TypeInv'
    BY <1>1, NextKeepsTypeInv DEF Next, SerialInv
  <2>2. Alone'
    BY <1>1, StepKeepsAlone DEF SerialInv
  <2>3. NothingLeft' /\ TableInv' /\ SessionInv'
    BY <1>1, StepKeepsNothingLeft, StepKeepsTable, StepKeepsSession
  <2> QED BY <2>1, <2>2, <2>3 DEF SerialInv
<1>2. CASE UNCHANGED vars
  <2>1. TypeInv'
    BY <1>2, NextKeepsTypeInv DEF SerialInv
  <2>2. Alone' /\ NothingLeft'
    BY <1>2 DEF SerialInv, Alone, NothingLeft, InFlight, vars, session
  <2>3. TableInv'
    BY <1>2 DEF SerialInv, TableInv, UniqueVersions, HashInv, UniqueHashes, HashesOfDone,
         FromDone, StatesMade, IacOfState, FollowsBase, ProdLatest, OverridesTracked,
         OverridesOwn, Done, Made, StateOf, PathOf, IsCurrent, IsVersion, IsLatest, RowsOf,
         vars, db, bucket, session
  <2>4. SessionInv'
    BY <1>2 DEF SerialInv, SessionInv, SessionOf, InFlight, JobAllowed, OwnRow, BaseRow,
         ResultMade, TargetNext, TargetExists, FutureGone, PutDone, TargetPath, TrackingRows,
         FutureVersions, Made, PathOf, IsCurrent, IsVersion, IsLatest, RowsOf,
         vars, db, bucket, session
  <2> QED BY <2>1, <2>2, <2>3, <2>4 DEF SerialInv
<1> QED BY <1>1, <1>2 DEF Next, Quiet

LEMMA InitSerialInv == Init => SerialInv
<1> SUFFICES ASSUME Init PROVE SerialInv
  OBVIOUS
<1>1. /\ rows = {FirstRow(e) : e \in Env}
      /\ current = [e \in Env |-> 0]
      /\ \A p \in Request : phase[p] = "idle" /\ result[p] = {} /\ future[p] = {}
  BY DEF Init
<1>2. \A r \in rows : /\ r.env \in Env /\ r = FirstRow(r.env) /\ r.version = 0
                      /\ r.hash = NoRequest /\ r.tracks = NoRequest
                      /\ r.constraints = {} /\ ~r.stored /\ ~r.iac
  BY <1>1 DEF FirstRow
<1>3. \E r \in rows : r.env = PROD_ENV_ID
  <2>1. FirstRow(PROD_ENV_ID) \in rows
    BY <1>1
  <2>2. FirstRow(PROD_ENV_ID).env = PROD_ENV_ID
    BY DEF FirstRow
  <2> QED BY <2>1, <2>2
<1>4. Alone /\ NothingLeft /\ SessionInv
  BY <1>1 DEF Alone, NothingLeft, SessionInv, InFlight, Waiting
<1>5. UniqueVersions /\ HashInv /\ FromDone
  BY <1>1, <1>2 DEF UniqueVersions, PathOf, HashInv, UniqueHashes, HashesOfDone, FromDone
<1>6. StatesMade /\ IacOfState /\ FollowsBase
  BY <1>2 DEF StatesMade, StateOf, Made, IacOfState, FollowsBase
<1>7. ProdLatest
  BY <1>1, <1>2, <1>3 DEF ProdLatest, IsCurrent, IsVersion, IsLatest, RowsOf
<1>8. OverridesTracked /\ OverridesOwn
  BY <1>2 DEF OverridesTracked, OverridesOwn, RowsOf
<1> QED BY <1>4, <1>5, <1>6, <1>7, <1>8, InitTypeInv DEF SerialInv, TableInv

LEMMA SerialInvHolds ==
  ASSUME OneAtATime
  PROVE  Spec => []SerialInv
<1>1. SerialInv /\ [Next]_vars => SerialInv'
  BY OneAtATime, NextKeepsSerialInv
<1> QED BY <1>1, InitSerialInv, PTL DEF Spec

\* Undo and redo move to a version there is.
LEMMA MovesToRow ==
  ASSUME OneAtATime, SetNever, SerialInv, NEW p \in Request, SetCurrentVersion(p)
  PROVE  /\ job[p].env = BASE_ENV_ID
         /\ \E r \in RowsOf(job[p].env) : r.version = target[p]
<1>1. InFlight(p) /\ phase[p] = "move" /\ job[p].kind \in MoveKinds
  BY DEF SetCurrentVersion, At, InFlight, Waiting
<1>2. SessionOf(p) /\ job[p].env \in Env
  BY <1>1 DEF SerialInv, SessionInv, TypeInv, TypeOK, Job
<1>3. job[p].env = BASE_ENV_ID /\ job[p].kind # Set
  BY <1>1, <1>2 DEF OneAtATime, SetNever, SessionOf, JobAllowed
<1> QED BY <1>1, <1>2, <1>3 DEF SessionOf, TargetExists

-----------------------------------------------------------------------------
(* What it means for clients *)

LEMMA NeverBack == OneAtATime => ProdNeverBack
BY DEF OneAtATime, ProdNeverBack

\* Requests that come one at a time work on each environment one after another,
\* so what VersionStoreProofs shows of such requests holds of them.
THEOREM SerialIsPerEnv ==
  ASSUME OneAtATime
  PROVE  Spec => []OnePerEnv
<1>1. SerialInv => OnePerEnv
  BY DEF SerialInv, Alone, OnePerEnv, AtWork, Adds, Moves, InFlight, HasOwn, Waiting
<1> QED BY <1>1, SerialInvHolds, PTL

LEMMA SerialIsInTurn ==
  ASSUME OneAtATime
  PROVE  Spec => []InTurn
BY OneAtATime, SerialIsPerEnv, OneWorkerIsInTurn, PTL

\* Whatever requests crashed or failed after their put, the location of every
\* version holds the state that was computed for it.
THEOREM StatesAreOwn ==
  ASSUME OneAtATime
  PROVE  Spec => []EveryOwnState
BY OneAtATime, NeverBack, SerialIsInTurn, StatesAreOwnInTurn, PTL

\* The IaC a version offers was exported from the state of that version.
THEOREM IacIsOfItsState ==
  ASSUME OneAtATime
  PROVE  Spec => []IacOfState
BY OneAtATime, NeverBack, SerialIsInTurn, IacIsOwnInTurn, PTL

\* An environment that is in sync with the base holds every edit of the base.
THEOREM SyncedHoldsBase ==
  ASSUME OneAtATime
  PROVE  Spec => []InSyncHasBase
BY OneAtATime, NeverBack, SerialIsInTurn, SyncedHoldsBaseInTurn, PTL

\* A run on the current version keeps its edits and adds its own.
THEOREM RunsKeepEdits ==
  ASSUME OneAtATime
  PROVE  Spec => RunKeepsEdits
BY OneAtATime, NeverBack, SerialIsPerEnv, RunsKeepEditsPerEnv, PTL

\* Version numbers are never used again, although an overwrite deletes versions.
THEOREM NumbersNeverReused ==
  ASSUME OneAtATime
  PROVE  Spec => LatestNeverDrops
BY OneAtATime, NeverBack, SerialIsInTurn, NumbersNeverReusedInTurn, PTL

\* A promotion keeps the edits of prod's own that the current version holds.
THEOREM PromotionsKeepOverrides ==
  ASSUME OneAtATime
  PROVE  Spec => PromoteKeepsOverrides
BY OneAtATime, NeverBack, SerialIsPerEnv, PromotionsKeepOverridesPerEnv, PTL

\* A promotion that got as far as its commit is committed.
THEOREM PromotionsCommit ==
  ASSUME OneAtATime
  PROVE  Spec => PromoteCommits
BY OneAtATime, NeverBack, SerialIsInTurn, PromotionsCommitInTurn, PTL

\* As long as clients move only to versions the server told them of, every
\* environment has a current version.
THEOREM CurrentAlwaysExists ==
  ASSUME OneAtATime, SetNever
  PROVE  Spec => []CurrentExists
BY OneAtATime, SetNever, NeverBack, SerialIsPerEnv, CurrentAlwaysExistsPerEnv, PTL

-----------------------------------------------------------------------------
(* The history it implements *)

\* A row as a version of the history
Image(r) == [env |-> r.env, version |-> r.version, hash |-> r.hash, tracks |-> r.tracks,
             constraints |-> r.constraints, state |-> StateOf(r)]

Images == {Image(r) : r \in rows}

\* A step that leaves the pointers and, but for the IaC, the rows as they are
LEMMA SameImages ==
  ASSUME OneAtATime, SerialInv, NEW p \in Request, Step(p),
         ~CommitVersion(p), ~SetCurrentVersion(p)
  PROVE  Images' = Images /\ UNCHANGED current
<1> USE DEF SerialInv
<1>1. CASE UNCHANGED <<rows, current, stateObj>>
  BY <1>1 DEF Images, Image, StateOf, PathOf
<1>2. CASE WriteState(p)
  <2>1. \A r \in rows : StateOf(r)' = StateOf(r)
    BY <1>2, PutsAside
  <2>2. \A r \in rows : Image(r)' = Image(r)
    BY <2>1 DEF Image
  <2>3. UNCHANGED <<rows, current>>
    BY <1>2 DEF WriteState, db
  <2> QED BY <2>2, <2>3 DEF Images
<1>3. CASE CommitIac(p) /\ ~Answer(p, "failed")
  <2>1. PICK r \in rows : /\ rows' = (rows \ {r}) \cup {[r EXCEPT !.iac = TRUE]}
                          /\ UNCHANGED <<current, bucket>>
    BY <1>3 DEF CommitIac
  <2>2. PICK n : n = [r EXCEPT !.iac = TRUE]
    OBVIOUS
  <2>3. n.env = r.env /\ n.version = r.version /\ n.hash = r.hash /\ n.tracks = r.tracks
        /\ n.constraints = r.constraints /\ n.stored = r.stored
    BY <2>2 DEF TypeInv, TypeOK, Row
  <2>4. \A s : Image(s)' = Image(s)
    BY <2>1 DEF Image, StateOf, PathOf, bucket
  <2>5. Image(n) = Image(r)
    BY <2>3 DEF Image, StateOf, PathOf
  <2> QED BY <2>1, <2>2, <2>4, <2>5 DEF Images
<1>4. UNCHANGED <<rows, current, stateObj>> \/ WriteState(p)
      \/ (CommitIac(p) /\ ~Answer(p, "failed"))
  BY DEF Step, Arrive, Crash, ChatLoad, RunLoad, RunEngine, EngineRefuses, ReadLatest,
         DeleteFuture, CommitFails, PromoteLoad, PromoteBase, PromoteCollect, PromoteEngine,
         IacLoad, ExportIac, WriteIac, CommitIac, FindNeighbour, Answer, Keep, Compute, db,
         bucket
<1> QED BY <1>1, <1>2, <1>3, <1>4

\* A commit in the history: the new version, in place of the deleted ones
LEMMA CommitImages ==
  ASSUME OneAtATime, SerialInv, NEW p \in Request, CommitVersion(p), NEW o, NEW n,
         Commits(p, o, n)
  PROVE  /\ Images' = {Image(r) : r \in rows \ Deleted(p)} \cup {Image(n)}
         /\ Image(o) \in Images /\ Image(o).state = Made(o.hash)
         /\ Image(n) = [env |-> o.env, version |-> n.version, hash |-> p, tracks |-> n.tracks,
                        constraints |-> n.constraints, state |-> result[p]]
         /\ \A x \in Images : x.hash # p
         /\ \A r \in rows : Image(r).env = o.env => r.version \in Nat /\ r.version < n.version
<1>1. \A r : Image(r)' = Image(r)
  BY DEF Image, StateOf, PathOf, Commits
<1>2. Images' = {Image(r) : r \in rows \ Deleted(p)} \cup {Image(n)}
  BY <1>1 DEF Images, Commits
<1>3. Image(o) \in Images /\ Image(o).state = Made(o.hash)
  BY DEF Images, Image, Commits, SerialInv, TableInv, StatesMade
<1>4. Image(n) = [env |-> o.env, version |-> n.version, hash |-> p, tracks |-> n.tracks,
                  constraints |-> n.constraints, state |-> result[p]]
  BY DEF Image, Commits
<1>5. \A x \in Images : x.hash # p
  BY MadeStays DEF Images, Image, Step
<1>6. \A r \in rows : Image(r).env = o.env => r.version \in Nat /\ r.version < n.version
  <2>1. \A s \in RowsOf(o.env) : s.version \in Nat /\ s.version < n.version
    BY DEF Commits
  <2> QED BY <2>1 DEF Image, RowsOf
<1> QED BY <1>2, <1>3, <1>4, <1>5, <1>6

\* The number a run takes is the next one of the history.
LEMMA NextNumber ==
  ASSUME OneAtATime, SerialInv, NEW p \in Request, CommitVersion(p), NEW o, NEW n,
         Commits(p, o, n)
  PROVE  /\ \E x \in Images : x.env = o.env /\ n.version = x.version + 1
         /\ \A x \in Images : x.env = o.env => x.version < n.version
<1>1. PICK r \in rows : IsLatest(r, job[p].env) /\ target[p] = r.version + 1
  <2>1. SessionOf(p) /\ phase[p] = "commit" /\ job[p].kind \in AddKinds
    BY AboutToCommit DEF CommitVersion, At, AddKinds
  <2> QED BY <2>1 DEF SessionOf, TargetNext
<1>2. n.version = target[p] /\ r.env = o.env
  BY <1>1 DEF Commits, NewRow, IsLatest, RowsOf
<1>3. Image(r) \in Images /\ Image(r).env = o.env /\ Image(r).version = r.version
  BY <1>2 DEF Images, Image
<1>4. \A x \in Images : x.env = o.env => x.version < n.version
  <2>1. \A s \in rows : Image(s).env = o.env => s.version < n.version
    BY CommitImages
  <2>2. \A s \in rows : Image(s).version = s.version
    BY DEF Image
  <2> QED BY <2>1, <2>2 DEF Images
<1> QED BY <1>1, <1>2, <1>3, <1>4

\* A run is an edit of the current version, or of an earlier one in place of
\* what followed it.
LEMMA RunRefines ==
  ASSUME OneAtATime, SerialInv, NEW p \in Request, CommitVersion(p),
         job[p].kind \in RunKinds
  PROVE  History!EditCurrent(p) \/ History!EditAndForget(p)
<1>1. PICK o, n : Commits(p, o, n)
  BY CommitOfVersion
<1>2. PICK H, x, v : H = Images /\ x = Image(o) /\ v = n.version
  OBVIOUS
<1>3. n.tracks = o.tracks /\ n.constraints = {p} /\ result[p] = Made(o.hash) \cup {p}
  BY <1>1, CommitOfRun
<1>4. x \in H /\ x.env \in Env /\ x.env = o.env /\ x.version = o.version
      /\ x.tracks = o.tracks /\ x.state = Made(o.hash)
  <2>1. o.env \in Env
    BY <1>1 DEF Commits, Row
  <2>2. x.env = o.env /\ x.version = o.version /\ x.tracks = o.tracks
    BY <1>2 DEF Image
  <2> QED BY <1>1, <1>2, <2>1, <2>2, CommitImages
<1>5. current' = [current EXCEPT ![x.env] = v] /\ p \in Request /\ \A y \in H : y.hash # p
  <2>1. current' = [current EXCEPT ![x.env] = v]
    BY <1>1, <1>2, <1>4 DEF Commits
  <2> QED BY <1>1, <1>2, <2>1, CommitImages
<1>6. /\ v \in {y.version + 1 : y \in {z \in H : z.env = x.env}}
      /\ \A y \in {z \in H : z.env = x.env} : y.version < v
  BY <1>1, <1>2, <1>4, NextNumber
<1>7. Image(n) = [env |-> x.env, version |-> v, hash |-> p, tracks |-> x.tracks,
                  constraints |-> {p}, state |-> x.state \cup {p}]
  BY <1>1, <1>2, <1>3, <1>4, CommitImages
<1>8. CASE job[p].kind # Overwrite
  <2>1. Deleted(p) = {} /\ x.version = current[x.env]
    BY <1>1, <1>4, <1>8, AboutToCommit DEF Commits, CommitVersion
  <2>2. Images' = H \cup {Image(n)}
    BY <1>1, <1>2, <2>1, CommitImages DEF Images
  <2>3. History!EditCurrent(p)
    BY <1>2, <1>4, <1>5, <1>6, <1>7, <2>1, <2>2
       DEF Images, Image, History!EditCurrent, History!Extend, History!Fresh, History!Current,
           History!Of, History!Next1, History!Env
  <2> QED BY <2>3
<1>9. CASE job[p].kind = Overwrite
  <2>1. Images' = {y \in H : ~(y.env = x.env /\ y.version > x.version)} \cup {Image(n)}
    <3>1. \A r \in rows : r \in Deleted(p) <=> (r.env = x.env /\ r.version > x.version)
      BY <1>1, <1>4, <1>9 DEF Commits, RowsOf
    <3>2. \A r : Image(r).env = r.env /\ Image(r).version = r.version
      BY DEF Image
    <3>3. Images' = {Image(r) : r \in rows \ Deleted(p)} \cup {Image(n)}
      BY <1>1, CommitImages
    <3>4. \A y : y \in {Image(r) : r \in rows \ Deleted(p)}
                 <=> (\E r \in rows : y = Image(r) /\ ~(r.env = x.env /\ r.version > x.version))
      BY <3>1
    <3>5. \A y : y \in H <=> \E r \in rows : y = Image(r)
      BY <1>2 DEF Images
    <3>6. {Image(r) : r \in rows \ Deleted(p)}
            = {y \in H : ~(y.env = x.env /\ y.version > x.version)}
      BY <3>2, <3>4, <3>5
    <3> QED BY <3>3, <3>6
  <2>2. History!EditAndForget(p)
    BY <1>2, <1>4, <1>5, <1>6, <1>7, <2>1
       DEF Images, Image, History!EditAndForget, History!Extend, History!Fresh,
           History!Of, History!Next1, History!Env
  <2> QED BY <2>2
<1> QED BY <1>8, <1>9

\* A promotion follows the base.
LEMMA PromotionRefines ==
  ASSUME OneAtATime, SerialInv, NEW p \in Request, CommitVersion(p),
         job[p].kind = Promote
  PROVE  History!Follow(p)
<1>1. PICK o, n : Commits(p, o, n)
  BY CommitOfVersion
<1>2. /\ o.env = PROD_ENV_ID /\ n.env = PROD_ENV_ID /\ Deleted(p) = {}
      /\ n.version = o.version + 1 /\ o.version = current[PROD_ENV_ID]
      /\ \A s \in RowsOf(PROD_ENV_ID) : s.version <= o.version
      /\ n.constraints = UNION {s.constraints : s \in TrackingRows(PROD_ENV_ID, o.tracks)}
  BY <1>1, CommitOfPromotion
<1>3. PICK b \in RowsOf(BASE_ENV_ID) :
        /\ IsCurrent(b, BASE_ENV_ID) /\ n.tracks = b.hash /\ o.tracks # b.hash
        /\ result[p] = Made(b.hash) \cup n.constraints
  BY <1>1, CommitOfPromotion
<1>4. PICK H, x, y, kept : H = Images /\ x = Image(o) /\ y = Image(b) /\ kept = n.constraints
  OBVIOUS
<1>5. \A r : /\ Image(r).env = r.env /\ Image(r).version = r.version /\ Image(r).hash = r.hash
             /\ Image(r).tracks = r.tracks /\ Image(r).constraints = r.constraints
             /\ Image(r).state = StateOf(r)
  BY DEF Image
<1>6. \A z : z \in H <=> \E r \in rows : z = Image(r)
  BY <1>4 DEF Images
<1>7. /\ x \in H /\ x.env = PROD_ENV_ID /\ x.version = current[PROD_ENV_ID]
      /\ x.version = o.version /\ x.tracks = o.tracks /\ x.version \in Nat
  <2>1. o \in rows /\ o.version \in Nat
    BY <1>1 DEF Commits, Row
  <2> QED BY <1>2, <1>4, <1>5, <1>6, <2>1
<1>8. /\ y \in H /\ y.env = BASE_ENV_ID /\ y.version = current[BASE_ENV_ID]
      /\ y.hash = b.hash /\ y.state = Made(b.hash)
  <2>1. b \in rows /\ b.env = BASE_ENV_ID /\ b.version = current[BASE_ENV_ID]
    BY <1>3 DEF IsCurrent, IsVersion, RowsOf
  <2>2. StateOf(b) = Made(b.hash)
    BY <2>1 DEF SerialInv, TableInv, StatesMade
  <2> QED BY <1>4, <1>5, <1>6, <2>1, <2>2
<1>9. kept = UNION {z.constraints : z \in {w \in {u \in H : u.env = PROD_ENV_ID} :
                                             w.tracks = x.tracks}}
  <2>1. \A e : e \in kept <=> \E r \in rows : r.env = PROD_ENV_ID /\ r.tracks = o.tracks
                                              /\ e \in r.constraints
    BY <1>2, <1>4 DEF TrackingRows, RowsOf
  <2>2. \A e : e \in kept <=> \E z \in H : z.env = PROD_ENV_ID /\ z.tracks = x.tracks
                                           /\ e \in z.constraints
    BY <1>5, <1>6, <1>7, <2>1
  <2> QED BY <2>2
<1>10. \A z \in {u \in H : u.env = PROD_ENV_ID} : z.version # x.version + 1
  <2>1. \A r \in rows : r.env = PROD_ENV_ID => r.version \in Nat /\ r.version <= x.version
    BY <1>2, <1>7 DEF RowsOf, SerialInv, TypeInv, TypeOK, Row
  <2> QED BY <1>5, <1>6, <1>7, <2>1
<1>11. Images' = H \cup {Image(n)}
  <2>1. Images' = {Image(r) : r \in rows \ Deleted(p)} \cup {Image(n)}
    BY <1>1, CommitImages
  <2> QED BY <1>2, <1>4, <2>1 DEF Images
<1>12. Image(n) = [env |-> PROD_ENV_ID, version |-> x.version + 1, hash |-> p,
                   tracks |-> y.hash, constraints |-> kept, state |-> y.state \cup kept]
  BY <1>1, <1>2, <1>3, <1>4, <1>7, <1>8, CommitImages
<1>13. current' = [current EXCEPT ![PROD_ENV_ID] = x.version + 1]
  <2>1. current' = [current EXCEPT ![o.env] = n.version]
    BY <1>1 DEF Commits
  <2> QED BY <1>2, <1>7, <2>1
<1>14. \A z \in H : z.hash # p
  BY <1>1, <1>4, CommitImages
<1>15. x.tracks # y.hash
  BY <1>3, <1>7, <1>8
<1>16. Images' = H \cup {[env |-> PROD_ENV_ID, version |-> x.version + 1, hash |-> p,
                           tracks |-> y.hash, constraints |-> kept,
                           state |-> y.state \cup kept]}
  BY <1>11, <1>12
<1>17. \E u, v \in H :
          LET k == UNION {z.constraints : z \in {w \in {t \in H : t.env = PROD_ENV_ID} :
                                                  w.tracks = u.tracks}}
          IN  /\ u \in {z \in H : z.env = PROD_ENV_ID} /\ u.version = current[PROD_ENV_ID]
              /\ v \in {z \in H : z.env = BASE_ENV_ID} /\ v.version = current[BASE_ENV_ID]
              /\ u.tracks # v.hash
              /\ \A z \in {w \in H : w.env = PROD_ENV_ID} : z.version # u.version + 1
              /\ Images' = H \cup {[env |-> PROD_ENV_ID, version |-> u.version + 1, hash |-> p,
                                   tracks |-> v.hash, constraints |-> k,
                                   state |-> v.state \cup k]}
              /\ current' = [current EXCEPT ![PROD_ENV_ID] = u.version + 1]
  <2> WITNESS x \in H, y \in H
  <2> QED BY <1>7, <1>8, <1>9, <1>10, <1>13, <1>15, <1>16
<1> QED BY <1>4, <1>14, <1>17
        DEF Images, Image, History!Follow, History!Fresh, History!Current, History!Of

\* Undo and redo move the pointer of the base to a version there is.
LEMMA MoveRefines ==
  ASSUME OneAtATime, SetNever, SerialInv, NEW p \in Request, SetCurrentVersion(p)
  PROVE  History!Move
<1>1. PICK r \in RowsOf(job[p].env) : r.version = target[p]
  BY MovesToRow
<1>2. Images' = Images
  BY DEF SetCurrentVersion, bucket, Images, Image, StateOf, PathOf
<1>3. PICK x : x = Image(r)
  OBVIOUS
<1>4. x \in Images /\ x.env = job[p].env /\ x.version = target[p]
  BY <1>1, <1>3 DEF Images, Image, RowsOf
<1>5. current' = [current EXCEPT ![x.env] = x.version]
  BY <1>4 DEF SetCurrentVersion
<1> QED BY <1>2, <1>4, <1>5 DEF Images, Image, History!Move

\* Every step of the version store is a step of the version history or none: a
\* request takes effect at its commit, all of it, or not at all, although it
\* reads, calls the engine and puts objects in between and may crash anywhere.
THEOREM RequestsAreAtomic ==
  ASSUME OneAtATime, SetNever
  PROVE  Spec => AtomicRequests
<1>1. Init => History!Init
  <2> SUFFICES ASSUME Init PROVE History!Init
    OBVIOUS
  <2>1. rows = {FirstRow(e) : e \in Env} /\ current = [e \in Env |-> 0]
    BY DEF Init
  <2>2. \A e : Image(FirstRow(e)) =
                 [env |-> e, version |-> 0, hash |-> NoRequest, tracks |-> NoRequest,
                  constraints |-> {}, state |-> {}]
    BY DEF Image, FirstRow, StateOf
  <2>3. Images = {[env |-> e, version |-> 0, hash |-> NoRequest, tracks |-> NoRequest,
                   constraints |-> {}, state |-> {}] : e \in Env}
    BY <2>1, <2>2 DEF Images
  <2> QED BY <2>1, <2>3 DEF Images, Image, History!Init, History!Env
<1>2. SerialInv /\ [Next]_vars => [History!Next]_History!hvars
  <2> SUFFICES ASSUME SerialInv, [Next]_vars PROVE [History!Next]_History!hvars
    OBVIOUS
  <2>1. CASE Images' = Images /\ UNCHANGED current
    BY <2>1 DEF Images, Image, History!hvars
  <2>2. ASSUME NEW p \in Request, CommitVersion(p) PROVE History!Next
    <3>1. job[p].kind \in RunKinds \/ job[p].kind = Promote
      BY <2>2 DEF CommitVersion, At
    <3> QED BY OneAtATime, <2>2, <3>1, RunRefines, PromotionRefines DEF History!Next
  <2>3. ASSUME NEW p \in Request, SetCurrentVersion(p) PROVE History!Next
    BY OneAtATime, SetNever, <2>3, MoveRefines DEF History!Next
  <2>4. CASE UNCHANGED vars
    BY <2>1, <2>4 DEF Images, Image, StateOf, PathOf, vars, db, bucket
  <2> QED BY OneAtATime, <2>1, <2>2, <2>3, <2>4, SameImages DEF Next, Quiet
<1> QED BY <1>1, <1>2, SerialInvHolds, PTL DEF Spec, AtomicRequests, History!Spec

===============================================================================
