-------------------------- MODULE VersionStoreProofs --------------------------
(* What the version store keeps for any set of requests, interleaved and     *)
(* crashing in any way.                                                      *)
EXTENDS VersionStore, TLAPS

(***************************************************************************)
(* The inductive invariant behind TypeOK.  The engine is given the object  *)
(* at the location of a row, so the object must be there: for the rows, for *)
(* the rows requests have loaded, for the row a request is about to add.   *)
(***************************************************************************)
Located(r) == r.stored => PathOf(r) \in DOMAIN stateObj

Loaded(r) == r \in Row /\ Located(r)

RowsLocated == \A r \in rows : Located(r)

OwnLoaded ==
  \A p \in Request :
    phase[p] \in Waiting \ {"ask", "load", "move"} => Loaded(own[p])

BaseLoaded ==
  \A p \in Request :
    job[p].kind = Promote /\ phase[p] \in {"collect", "engine", "write", "commit"}
    => Loaded(base[p])

TargetPut ==
  \A p \in Request :
    At(p, RunKinds \cup {Promote}, "commit") => TargetPath(p) \in DOMAIN stateObj

LoadedInv == RowsLocated /\ OwnLoaded /\ BaseLoaded /\ TargetPut
TypeInv == TypeOK /\ LoadedInv

USE DEF Env, BASE_ENV_ID, PROD_ENV_ID, AllKinds, RunKinds, MoveKinds,
        Run, Overwrite, Chat, Set, Undo, Redo, Promote, Iac

-----------------------------------------------------------------------------
(* Helpers of the actions *)

\* An answer leaves the rows and the bucket alone and frees the session.
LEMMA AnswerKeepsTypeInv ==
  ASSUME TypeInv, NEW p \in Request, NEW answer \in Answers, Answer(p, answer)
  PROVE  TypeInv'
<1> USE DEF TypeInv, LoadedInv, TypeOK, Answer, Close, Goto, db, bucket
<1>1. TypeOK'
  BY DEF Idle, Job, OptRow, Content, Phase, Answers, Path
<1>2. RowsLocated'
  BY DEF RowsLocated, Located, PathOf
<1>3. \A q \in Request : phase'[q] \in Waiting =>
        q # p /\ phase'[q] = phase[q] /\ job'[q] = job[q] /\ own'[q] = own[q]
        /\ base'[q] = base[q] /\ target'[q] = target[q]
  BY DEF Answers, Waiting
<1>4. OwnLoaded'
  BY <1>3 DEF OwnLoaded, Loaded, Located, PathOf, Waiting
<1>5. BaseLoaded'
  BY <1>3 DEF BaseLoaded, Loaded, Located, PathOf, Waiting
<1>6. TargetPut'
  BY <1>3 DEF TargetPut, TargetPath, At, Waiting
<1> QED BY <1>1, <1>2, <1>4, <1>5, <1>6

\* A row of the table may be kept: its state is in the bucket.
LEMMA KeepKeepsTypeInv ==
  ASSUME TypeInv, NEW p \in Request, NEW r \in rows, NEW next \in {"engine", "base"},
         job[p].kind = Promote => next = "base", Keep(p, r, next)
  PROVE  TypeInv'
<1> USE DEF TypeInv, LoadedInv, TypeOK, Keep, Goto, db, bucket
<1>1. TypeOK'
  BY DEF OptRow, Phase, Waiting, Path
<1>2. RowsLocated'
  BY DEF RowsLocated, Located, PathOf
<1>3. OwnLoaded'
  BY DEF OwnLoaded, RowsLocated, Loaded, Located, PathOf, Waiting
<1>4. BaseLoaded'
  BY DEF BaseLoaded, Loaded, Located, PathOf
<1>5. TargetPut'
  BY DEF TargetPut, TargetPath, At
<1> QED BY <1>1, <1>2, <1>3, <1>4, <1>5

\* The state of a loaded row is a state.
LEMMA StateOfLoaded ==
  ASSUME TypeOK, NEW r, Loaded(r)
  PROVE  StateOf(r) \in Content
BY DEF TypeOK, Loaded, Located, StateOf, Row, Content

-----------------------------------------------------------------------------
(* Type correctness *)

LEMMA InitTypeInv == Init => TypeInv
<1> SUFFICES ASSUME Init PROVE TypeInv
  OBVIOUS
<1> USE DEF Init
<1>1. TypeOK
  <2>1. rows \subseteq Row
    <3>1. \A e \in Env : FirstRow(e) \in Row
      BY DEF FirstRow, Row, Hash, Content
    <3> QED BY <3>1
  <2>2. DOMAIN stateObj = {} /\ DOMAIN iacObj = {}
    OBVIOUS
  <2> QED BY <2>1, <2>2 DEF TypeOK, Content, Path, Phase, Job, OptRow
<1>2. LoadedInv
  BY DEF LoadedInv, RowsLocated, Located, FirstRow, OwnLoaded, BaseLoaded, TargetPut,
         Waiting, At
<1> QED BY <1>1, <1>2 DEF TypeInv

\* Steps that only move a request on and write its session
LEMMA SessionStepKeepsTypeInv ==
  ASSUME TypeInv, NEW p \in Request,
         \/ Arrive(p) \/ RunEngine(p) \/ ReadLatest(p) \/ DeleteFuture(p)
         \/ PromoteEngine(p) \/ ExportIac(p)
  PROVE  TypeInv'
<1> USE DEF TypeInv, LoadedInv
<1>0. UNCHANGED <<rows, current, stateObj, iacObj, own, base>>
  BY DEF Arrive, RunEngine, ReadLatest, DeleteFuture, PromoteEngine, ExportIac,
         Compute, db, bucket
<1>1. TypeOK'
  <2> USE <1>0 DEF TypeOK
  <2>1. CASE Arrive(p)
    <3>1. PICK e \in Env, v \in Versions : \E kind \in Kinds[e] :
            /\ job' = [job EXCEPT ![p] = [kind |-> kind, env |-> e, version |-> v]]
            /\ target' = [target EXCEPT ![p] = v]
            /\ Goto(p, FirstStep(kind))
      BY <2>1 DEF Arrive
    <3>2. PICK kind \in Kinds[e] :
            /\ job' = [job EXCEPT ![p] = [kind |-> kind, env |-> e, version |-> v]]
            /\ target' = [target EXCEPT ![p] = v]
            /\ Goto(p, FirstStep(kind))
      BY <3>1
    <3>3. [kind |-> kind, env |-> e, version |-> v] \in Job /\ v \in Nat
      BY KindsAssumption, VersionsAssumption DEF Job
    <3>4. FirstStep(kind) \in Phase
      BY DEF FirstStep, Phase, Waiting
    <3> QED BY <2>1, <3>2, <3>3, <3>4 DEF Arrive, Goto
  <2>2. CASE RunEngine(p)
    <3>1. StateOf(own[p]) \in Content
      BY <2>2, StateOfLoaded DEF RunEngine, At, OwnLoaded, Waiting
    <3> QED BY <2>2, <3>1 DEF RunEngine, Compute, Goto, Content, Phase, Waiting
  <2>3. CASE ReadLatest(p)
    <3>1. \A r \in rows : r.version + 1 \in Nat
      BY DEF Row
    <3> QED BY <2>3, <3>1 DEF ReadLatest, Goto, Phase, Waiting
  <2>4. CASE DeleteFuture(p)
    <3>1. FutureVersions(job[p].env, job[p].version) \in SUBSET Nat
      BY DEF FutureVersions, RowsOf, Row
    <3> QED BY <2>4, <3>1 DEF DeleteFuture, Goto, Phase, Waiting
  <2>5. CASE PromoteEngine(p)
    <3>1. Loaded(own[p]) /\ Loaded(base[p])
      BY <2>5 DEF PromoteEngine, At, OwnLoaded, BaseLoaded, Waiting
    <3>2. StateOf(base[p]) \in Content /\ own[p].version + 1 \in Nat
      BY <3>1, StateOfLoaded DEF Loaded, Row
    <3> QED BY <2>5, <3>2 DEF PromoteEngine, Compute, Goto, Content, Phase, Waiting
  <2>6. CASE ExportIac(p)
    <3>1. StateOf(own[p]) \in Content
      BY <2>6, StateOfLoaded DEF ExportIac, At, OwnLoaded, Waiting
    <3> QED BY <2>6, <3>1 DEF ExportIac, Compute, Goto, Phase, Waiting
  <2> QED BY <2>1, <2>2, <2>3, <2>4, <2>5, <2>6
<1>2. RowsLocated'
  BY <1>0 DEF RowsLocated, Located, PathOf
<1>3. OwnLoaded'
  <2>1. \A q \in Request : phase'[q] \in Waiting \ {"ask", "load", "move"} =>
          phase[q] \in Waiting \ {"ask", "load", "move"}
    BY DEF TypeOK, Arrive, RunEngine, ReadLatest, DeleteFuture, PromoteEngine, ExportIac,
           Compute, Goto, At, FirstStep, Waiting
  <2> QED BY <1>0, <2>1 DEF OwnLoaded, Loaded, Located, PathOf
<1>4. BaseLoaded'
  <2>1. \A q \in Request :
          job'[q].kind = Promote /\ phase'[q] \in {"collect", "engine", "write", "commit"} =>
            job[q].kind = Promote /\ phase[q] \in {"collect", "engine", "write", "commit"}
    <3> SUFFICES ASSUME NEW q \in Request, job'[q].kind = Promote,
                        phase'[q] \in {"collect", "engine", "write", "commit"}
                 PROVE  /\ job[q].kind = Promote
                        /\ phase[q] \in {"collect", "engine", "write", "commit"}
      OBVIOUS
    <3>1. CASE Arrive(p)
      BY <3>1 DEF TypeOK, Arrive, Goto, FirstStep
    <3>2. CASE ~Arrive(p)
      BY <3>2 DEF TypeOK, RunEngine, ReadLatest, DeleteFuture, PromoteEngine,
                  ExportIac, Compute, Goto, At
    <3> QED BY <3>1, <3>2
  <2> QED BY <1>0, <2>1 DEF BaseLoaded, Loaded, Located, PathOf
<1>5. TargetPut'
  <2>1. \A q \in Request : phase'[q] = "commit" =>
          q # p /\ phase[q] = "commit" /\ job'[q] = job[q] /\ target'[q] = target[q]
    BY DEF TypeOK, Arrive, RunEngine, ReadLatest, DeleteFuture, PromoteEngine, ExportIac,
           Compute, Goto, At, FirstStep
  <2> QED BY <1>0, <2>1 DEF TargetPut, At, TargetPath
<1> QED BY <1>1, <1>2, <1>3, <1>4, <1>5

\* Reads of the current version, of a neighbour and of the promotion's rows
LEMMA ReadStepKeepsTypeInv ==
  ASSUME TypeInv, NEW p \in Request,
         \/ ChatLoad(p) \/ RunLoad(p) \/ PromoteLoad(p) \/ PromoteBase(p)
         \/ PromoteCollect(p) \/ IacLoad(p) \/ FindNeighbour(p)
  PROVE  TypeInv'
<1>1. CASE \E answer \in Answers : Answer(p, answer)
  BY <1>1, AnswerKeepsTypeInv
<1>2. CASE \E r \in rows, next \in {"engine", "base"} :
             (job[p].kind = Promote => next = "base") /\ Keep(p, r, next)
  BY <1>2, KeepKeepsTypeInv
<1>3. CASE ChatLoad(p) /\ ~\E answer \in Answers : Answer(p, answer)
  <2> USE DEF TypeInv, LoadedInv
  <2>1. PICK r \in rows :
          /\ job' = [job EXCEPT ![p].version = r.version]
          /\ Goto(p, "load")
          /\ UNCHANGED <<db, bucket, session>>
    BY <1>3 DEF ChatLoad, Answers
  <2> USE <2>1 DEF Goto, db, bucket, session
  <2>2. TypeOK'
    <3>1. r.version \in Nat /\ job \in [Request -> Job]
      BY DEF TypeOK, Row
    <3>2. [job[p] EXCEPT !.version = r.version] \in Job
      BY <3>1 DEF Job
    <3>3. job' \in [Request -> Job]
      BY <3>1, <3>2
    <3>4. phase' \in [Request -> Phase]
      BY DEF TypeOK, Phase, Waiting
    <3> QED BY <3>3, <3>4 DEF TypeOK
  <2>3. \A q \in Request : phase'[q] \in Waiting \ {"ask", "load", "move"} =>
          q # p /\ phase'[q] = phase[q] /\ job'[q] = job[q]
    BY DEF TypeOK, Waiting
  <2>4. RowsLocated' /\ OwnLoaded'
    BY <2>3 DEF RowsLocated, OwnLoaded, Loaded, Located, PathOf
  <2>5. BaseLoaded' /\ TargetPut'
    BY <2>3 DEF BaseLoaded, TargetPut, TargetPath, At, Loaded, Located, PathOf, Waiting
  <2> QED BY <2>2, <2>4, <2>5
<1>4. CASE PromoteBase(p) /\ ~\E answer \in Answers : Answer(p, answer)
  <2> USE DEF TypeInv, LoadedInv
  <2>1. PICK b \in rows :
          /\ base' = [base EXCEPT ![p] = b]
          /\ Goto(p, "collect")
          /\ UNCHANGED <<db, bucket, job, own, overrides, result, target, future>>
    BY <1>4 DEF PromoteBase, Answers
  <2> USE <2>1 DEF Goto, db, bucket
  <2>2. phase[p] = "base"
    BY <1>4 DEF PromoteBase, At
  <2>3. TypeOK'
    BY DEF TypeOK, OptRow, Phase, Waiting
  <2>4. RowsLocated' /\ OwnLoaded'
    BY <2>2 DEF TypeOK, RowsLocated, OwnLoaded, Loaded, Located, PathOf, Waiting
  <2>5. BaseLoaded' /\ TargetPut'
    BY DEF TypeOK, RowsLocated, BaseLoaded, TargetPut, TargetPath, At, Loaded, Located,
           PathOf
  <2> QED BY <2>3, <2>4, <2>5
<1>5. CASE PromoteCollect(p) /\ ~\E answer \in Answers : Answer(p, answer)
  <2> USE DEF TypeInv, LoadedInv
  <2>1. PICK r \in rows :
          /\ overrides' = [overrides EXCEPT ![p] =
               UNION {s.constraints : s \in TrackingRows(job[p].env, r.tracks)}]
          /\ Goto(p, "engine")
          /\ UNCHANGED <<db, bucket, job, own, base, result, target, future>>
    BY <1>5 DEF PromoteCollect, Answers
  <2> USE <2>1 DEF Goto, db, bucket
  <2>2. phase[p] = "collect" /\ job[p].kind = Promote
    BY <1>5 DEF PromoteCollect, At
  <2>3. UNION {s.constraints : s \in TrackingRows(job[p].env, r.tracks)} \in Content
    BY DEF TypeOK, TrackingRows, RowsOf, Row, Content
  <2>4. TypeOK'
    BY <2>3 DEF TypeOK, Phase, Waiting
  <2>5. RowsLocated' /\ OwnLoaded'
    BY <2>2 DEF TypeOK, RowsLocated, OwnLoaded, Loaded, Located, PathOf, Waiting
  <2>6. BaseLoaded' /\ TargetPut'
    BY <2>2 DEF TypeOK, BaseLoaded, TargetPut, TargetPath, At, Loaded, Located, PathOf
  <2> QED BY <2>4, <2>5, <2>6
<1>6. CASE FindNeighbour(p) /\ ~\E answer \in Answers : Answer(p, answer)
  <2> USE DEF TypeInv, LoadedInv
  <2>1. PICK r \in rows :
          /\ target' = [target EXCEPT ![p] = r.version]
          /\ Goto(p, "move")
          /\ UNCHANGED <<db, bucket, job, own, base, overrides, result, future>>
    BY <1>6 DEF FindNeighbour, Answers
  <2> USE <2>1 DEF Goto, db, bucket
  <2>2. TypeOK'
    BY DEF TypeOK, Row, Phase, Waiting
  <2>3. RowsLocated' /\ OwnLoaded'
    BY DEF TypeOK, RowsLocated, OwnLoaded, Loaded, Located, PathOf, Waiting
  <2>4. BaseLoaded' /\ TargetPut'
    BY DEF TypeOK, BaseLoaded, TargetPut, TargetPath, At, Loaded, Located, PathOf
  <2> QED BY <2>2, <2>3, <2>4
<1>7. CASE RunLoad(p) \/ PromoteLoad(p) \/ IacLoad(p)
  <2>1. Refusal(p) \in Answers
    BY DEF Refusal, Answers
  <2>2. CASE RunLoad(p)
    BY <1>1, <1>2, <2>1, <2>2 DEF RunLoad, At
  <2>3. CASE PromoteLoad(p)
    <3>1. \/ \E r \in rows : Keep(p, r, "base")
          \/ \E answer \in Answers : Answer(p, answer)
      BY <2>3 DEF PromoteLoad, Answers
    <3> QED BY <1>1, <1>2, <3>1
  <2>4. CASE IacLoad(p)
    <3>1. \/ \E r \in rows : Keep(p, r, "engine")
          \/ \E answer \in Answers : Answer(p, answer)
      BY <2>4 DEF IacLoad, Answers
    <3> QED BY <1>1, <1>2, <2>4, <3>1 DEF IacLoad, At
  <2> QED BY <1>7, <2>2, <2>3, <2>4
<1> QED BY <1>1, <1>3, <1>4, <1>5, <1>6, <1>7

\* Puts to the bucket: objects are added or replaced, never removed.
LEMMA PutStepKeepsTypeInv ==
  ASSUME TypeInv, NEW p \in Request, WriteState(p) \/ WriteIac(p)
  PROVE  TypeInv'
<1> USE DEF TypeInv, LoadedInv
<1>1. /\ UNCHANGED <<rows, current, job, own, base, overrides, result, target, future>>
      /\ Goto(p, "commit")
      /\ phase[p] = "write"
  BY DEF WriteState, WriteIac, db, session, At
<1>2. /\ DOMAIN stateObj \subseteq DOMAIN stateObj'
      /\ WriteState(p) => TargetPath(p) \in DOMAIN stateObj'
      /\ WriteIac(p) => job[p].kind = Iac
  BY DEF WriteState, WriteIac, Put, At
<1>3. TypeOK'
  <2>1. CASE WriteState(p)
    <3>1. TargetPath(p) \in Path /\ result[p] \in Content
      BY DEF TypeOK, TargetPath, Path, Job
    <3> QED BY <1>1, <2>1, <3>1 DEF TypeOK, WriteState, Put, Goto, Phase, Waiting
  <2>2. CASE WriteIac(p)
    <3>1. PathOf(own[p]) \in Path /\ result[p] \in Content
      BY <1>1 DEF TypeOK, OwnLoaded, Loaded, Row, PathOf, Path, Waiting
    <3> QED BY <1>1, <2>2, <3>1 DEF TypeOK, WriteIac, Put, Goto, Phase, Waiting
  <2> QED BY <2>1, <2>2
<1>4. RowsLocated' /\ OwnLoaded'
  BY <1>1, <1>2 DEF TypeOK, RowsLocated, OwnLoaded, Loaded, Located, PathOf, Goto, Waiting
<1>5. BaseLoaded'
  BY <1>1, <1>2 DEF TypeOK, BaseLoaded, Loaded, Located, PathOf, Goto
<1>6. TargetPut'
  BY <1>1, <1>2 DEF TypeOK, TargetPut, TargetPath, At, Goto
<1> QED BY <1>3, <1>4, <1>5, <1>6

\* The row a request adds, at a location its own put has filled
LEMMA NewRowLoaded ==
  ASSUME TypeInv, NEW p \in Request, At(p, RunKinds \cup {Promote}, "commit"),
         NEW iac \in BOOLEAN
  PROVE  Loaded(NewRow(p, iac))
<1> USE DEF TypeInv, LoadedInv, At
<1>1. Loaded(own[p]) /\ (job[p].kind = Promote => Loaded(base[p]))
  BY DEF OwnLoaded, BaseLoaded, Waiting
<1>2. own[p].tracks \in Hash /\ (job[p].kind = Promote => base[p].hash \in Hash)
  BY <1>1 DEF Loaded, Row
<1>3. p \in Hash /\ overrides[p] \in Content /\ {p} \in Content
  BY DEF TypeOK, Hash, Content
<1>4. job[p].env \in Env /\ target[p] \in Nat
  BY DEF TypeOK, Job
<1>5. NewRow(p, iac) \in Row
  BY <1>2, <1>3, <1>4 DEF NewRow, Row
<1>6. PathOf(NewRow(p, iac)) = TargetPath(p)
  BY DEF NewRow, PathOf, TargetPath
<1> QED BY <1>5, <1>6 DEF Loaded, Located, TargetPut

\* What a commit makes of the table.
LEMMA CommitAdds ==
  ASSUME TypeOK, NEW p \in Request, CommitVersion(p)
  PROVE  \E iac \in BOOLEAN : rows' = (rows \ Deleted(p)) \cup {NewRow(p, iac)}
<1>1. PICK iac \in {FALSE} \cup {r.iac : r \in {s \in rows : TargetRow(p, s)}} :
        rows' = (rows \ Deleted(p)) \cup {NewRow(p, iac)}
  BY DEF CommitVersion
<1>2. \A r \in rows : r.iac \in BOOLEAN
  BY DEF TypeOK, Row
<1> QED BY <1>1, <1>2

\* Steps that commit
LEMMA CommitStepKeepsTypeInv ==
  ASSUME TypeInv, NEW p \in Request,
         CommitVersion(p) \/ CommitIac(p) \/ SetCurrentVersion(p)
  PROVE  TypeInv'
<1>1. CASE \E answer \in Answers : Answer(p, answer)
  BY <1>1, AnswerKeepsTypeInv
<1>2. CASE ~\E answer \in Answers : Answer(p, answer)
  <2> USE DEF TypeInv, LoadedInv
  <2>1. /\ Close(p, "ok") /\ UNCHANGED <<stateObj, iacObj>>
        /\ result' \in [Request -> Content]
    BY <1>2 DEF CommitVersion, CommitIac, SetCurrentVersion, bucket, TypeOK, Content, Answers
  <2>2. rows' \subseteq Row /\ RowsLocated'
    <3>1. CASE CommitVersion(p)
      <4>1. PICK iac \in BOOLEAN : rows' = (rows \ Deleted(p)) \cup {NewRow(p, iac)}
        BY <3>1, CommitAdds
      <4>2. Loaded(NewRow(p, iac))
        BY <3>1, NewRowLoaded DEF CommitVersion
      <4> QED BY <2>1, <4>1, <4>2 DEF TypeOK, RowsLocated, Loaded, Located, PathOf
    <3>2. CASE CommitIac(p)
      <4>1. PICK r \in rows : rows' = (rows \ {r}) \cup {[r EXCEPT !.iac = TRUE]}
        BY <1>2, <3>2 DEF CommitIac, Answers
      <4>2. [r EXCEPT !.iac = TRUE] \in Row
        BY DEF TypeOK, Row
      <4>3. Located([r EXCEPT !.iac = TRUE])
        BY DEF TypeOK, RowsLocated, Located, PathOf, Row
      <4> QED BY <2>1, <4>1, <4>2, <4>3 DEF TypeOK, RowsLocated, Located, PathOf
    <3>3. CASE SetCurrentVersion(p)
      BY <2>1, <3>3 DEF SetCurrentVersion, TypeOK, RowsLocated, Located, PathOf
    <3> QED BY <3>1, <3>2, <3>3
  <2>3. current' \in [Env -> Nat]
    BY <1>2 DEF TypeOK, CommitVersion, CommitIac, SetCurrentVersion, Answers
  <2>4. TypeOK'
    BY <2>1, <2>2, <2>3
       DEF TypeOK, Close, Goto, Idle, Job, OptRow, Content, Phase, Answers
  <2>5. \A q \in Request : phase'[q] \in Waiting =>
          q # p /\ phase'[q] = phase[q] /\ job'[q] = job[q] /\ own'[q] = own[q]
          /\ base'[q] = base[q] /\ target'[q] = target[q]
    BY <2>1 DEF TypeOK, Close, Goto, Waiting
  <2>6. OwnLoaded' /\ BaseLoaded' /\ TargetPut'
    BY <2>1, <2>5 DEF OwnLoaded, BaseLoaded, TargetPut, TargetPath, At, Loaded, Located,
                      PathOf, Waiting
  <2> QED BY <2>2, <2>4, <2>6
<1> QED BY <1>1, <1>2

LEMMA NextKeepsTypeInv == TypeInv /\ [Next]_vars => TypeInv'
<1> SUFFICES ASSUME TypeInv, [Next]_vars PROVE TypeInv'
  OBVIOUS
<1>1. ASSUME NEW p \in Request, Step(p) PROVE TypeInv'
  <2>1. Refusal(p) \in Answers
    BY DEF Refusal, Answers
  <2>2. CASE Crash(p) \/ EngineRefuses(p) \/ CommitFails(p)
    BY <2>1, <2>2, AnswerKeepsTypeInv DEF Crash, EngineRefuses, CommitFails, Answers
  <2>3. CASE \/ Arrive(p) \/ RunEngine(p) \/ ReadLatest(p) \/ DeleteFuture(p)
             \/ PromoteEngine(p) \/ ExportIac(p)
    BY <2>3, SessionStepKeepsTypeInv
  <2>4. CASE \/ ChatLoad(p) \/ RunLoad(p) \/ PromoteLoad(p) \/ PromoteBase(p)
             \/ PromoteCollect(p) \/ IacLoad(p) \/ FindNeighbour(p)
    BY <2>4, ReadStepKeepsTypeInv
  <2>5. CASE WriteState(p) \/ WriteIac(p)
    BY <2>5, PutStepKeepsTypeInv
  <2>6. CASE CommitVersion(p) \/ CommitIac(p) \/ SetCurrentVersion(p)
    BY <2>6, CommitStepKeepsTypeInv
  <2> QED BY <1>1, <2>2, <2>3, <2>4, <2>5, <2>6 DEF Step
<1>2. CASE UNCHANGED vars
  BY <1>2 DEF vars, db, bucket, session, TypeInv, LoadedInv, TypeOK, RowsLocated, OwnLoaded,
              BaseLoaded, TargetPut, TargetPath, At, Loaded, Located, PathOf
<1> QED BY <1>1, <1>2 DEF Next, Quiet

LEMMA TypeInvHolds == Spec => []TypeInv
BY InitTypeInv, NextKeepsTypeInv, PTL DEF Spec

\* The variables keep their types whatever requests run, crash or fail: the
\* engine and the IaC export are only ever given an object that exists.
THEOREM TypeCorrect == Spec => []TypeOK
<1>1. TypeInv => TypeOK
  BY DEF TypeInv
<1> QED BY <1>1, TypeInvHolds, PTL

-----------------------------------------------------------------------------
(* The table whatever requests run *)

\* How a step can change the rows: it adds one version at a free number, in
\* place of those its request marked deleted, or marks one as exported.
Added(p, r) ==
  /\ CommitVersion(p)
  /\ r.env = job[p].env /\ r.version = target[p] /\ r.hash = p
  /\ rows' = (rows \ Deleted(p)) \cup {r}
  /\ \A s \in rows \ Deleted(p) : PathOf(s) # PathOf(r)

Exported(r, x) ==
  /\ r \in rows
  /\ PathOf(x) = PathOf(r) /\ x.hash = r.hash
  /\ rows' = (rows \ {r}) \cup {x}
  /\ UNCHANGED current

LEMMA RowSteps ==
  ASSUME TypeInv, [Next]_vars
  PROVE  \/ \E p \in Request : \E r \in Row : Added(p, r)
         \/ \E r, x \in Row : Exported(r, x)
         \/ UNCHANGED rows /\ (UNCHANGED current \/ \E p \in Request : SetCurrentVersion(p))
<1> USE DEF TypeInv
<1>1. ASSUME NEW p \in Request, CommitVersion(p)
      PROVE  \E r \in Row : Added(p, r)
  <2>1. PICK iac \in BOOLEAN : rows' = (rows \ Deleted(p)) \cup {NewRow(p, iac)}
    BY <1>1, CommitAdds
  <2>2. NewRow(p, iac) \in Row
    BY <1>1, NewRowLoaded DEF CommitVersion, Loaded
  <2>3. \A s \in rows \ Deleted(p) : PathOf(s) # TargetPath(p)
    <3> SUFFICES ASSUME NEW s \in rows, PathOf(s) = TargetPath(p) PROVE s \in Deleted(p)
      OBVIOUS
    <3>1. s.env = job[p].env /\ s.version = target[p]
      BY DEF PathOf, TargetPath
    <3>2. target[p] \in future[p]
      BY <1>1, <3>1 DEF CommitVersion, Writable, TargetRow, IsVersion, RowsOf
    <3> QED BY <3>1, <3>2 DEF Deleted, RowsOf
  <2>4. PathOf(NewRow(p, iac)) = TargetPath(p)
    BY DEF NewRow, PathOf, TargetPath
  <2> QED BY <1>1, <2>1, <2>2, <2>3, <2>4 DEF Added, NewRow
<1>2. ASSUME NEW p \in Request, CommitIac(p)
      PROVE  (\E r, x \in Row : Exported(r, x)) \/ UNCHANGED <<rows, current>>
  <2>1. CASE UNCHANGED <<rows, current>>
    BY <2>1
  <2>2. CASE ~UNCHANGED <<rows, current>>
    <3>1. PICK r \in rows : /\ rows' = (rows \ {r}) \cup {[r EXCEPT !.iac = TRUE]}
                            /\ UNCHANGED current
      BY <1>2, <2>2 DEF CommitIac, Answer, db
    <3>2. r \in Row
      BY DEF TypeOK
    <3>3. [r EXCEPT !.iac = TRUE] \in Row /\ [r EXCEPT !.iac = TRUE].hash = r.hash
      BY <3>2 DEF Row
    <3>4. PathOf([r EXCEPT !.iac = TRUE]) = PathOf(r)
      BY <3>2 DEF Row, PathOf
    <3> QED BY <3>1, <3>2, <3>3, <3>4 DEF Exported
  <2> QED BY <2>1, <2>2
<1>3. ASSUME NEW p \in Request, Step(p), ~CommitVersion(p), ~CommitIac(p)
      PROVE  UNCHANGED rows /\ (UNCHANGED current \/ SetCurrentVersion(p))
  BY <1>3 DEF Step, Arrive, Crash, ChatLoad, RunLoad, RunEngine, EngineRefuses, ReadLatest,
              DeleteFuture, WriteState, CommitFails, PromoteLoad, PromoteBase, PromoteCollect,
              PromoteEngine, IacLoad, ExportIac, WriteIac, FindNeighbour, SetCurrentVersion,
              Answer, Keep, Compute, db, session
<1> QED BY <1>1, <1>2, <1>3 DEF Next, Quiet, vars, db

LEMMA NextKeepsUniqueVersions ==
  TypeInv /\ UniqueVersions /\ [Next]_vars => UniqueVersions'
<1> SUFFICES ASSUME TypeInv, UniqueVersions, [Next]_vars PROVE UniqueVersions'
  OBVIOUS
<1> USE DEF UniqueVersions
<1>0. \A r : PathOf(r)' = PathOf(r)
  BY DEF PathOf
<1>1. ASSUME NEW p \in Request, NEW r \in Row, Added(p, r) PROVE UniqueVersions'
  BY <1>0, <1>1 DEF Added
<1>2. ASSUME NEW r \in Row, NEW x \in Row, Exported(r, x) PROVE UniqueVersions'
  BY <1>0, <1>2 DEF Exported
<1>3. CASE UNCHANGED rows
  BY <1>0, <1>3
<1> QED BY <1>1, <1>2, <1>3, RowSteps

\* An environment never gets two rows for one version, however runs that
\* computed the same number, overwrites and exports interleave: an insert needs
\* a free number, and a reused number is one the same transaction deleted.
THEOREM VersionsAreUnique == Spec => []UniqueVersions
<1>1. Init => UniqueVersions
  <2>1. \A e \in Env : FirstRow(e).env = e
    BY DEF FirstRow
  <2>2. rows = {FirstRow(e) : e \in Env} => UniqueVersions
    BY <2>1 DEF UniqueVersions, PathOf
  <2> QED BY <2>2 DEF Init
<1>2. Spec => [](TypeInv /\ UniqueVersions)
  <2>1. TypeInv /\ UniqueVersions /\ [Next]_vars => TypeInv' /\ UniqueVersions'
    BY NextKeepsTypeInv, NextKeepsUniqueVersions
  <2> QED BY <1>1, <2>1, InitTypeInv, PTL DEF Spec
<1> QED BY <1>2, PTL

(***************************************************************************)
(* UniqueHashes needs to know whose hashes are in the table: only those of *)
(* requests that were answered ok, and a version 0 has the hash no request *)
(* has.                                                                    *)
(***************************************************************************)
HashesOfDone ==
  \A r \in rows : r.hash = NoRequest \/ (r.hash \in Request /\ phase[r.hash] = "ok")

\* A version hash names one version of an environment: the promotion finds the
\* version it tracks by hash alone (get_all_versions_after_hash).
UniqueHashes == \A r, s \in rows : r.env = s.env /\ r.hash = s.hash => r = s

HashInv == UniqueHashes /\ HashesOfDone

LEMMA NextKeepsHashInv == TypeInv /\ HashInv /\ [Next]_vars => HashInv'
<1> SUFFICES ASSUME TypeInv, HashInv, [Next]_vars PROVE HashInv'
  OBVIOUS
<1> USE DEF HashInv
<1>0. \A q \in Request : phase[q] = "ok" => phase'[q] = "ok"
  <2>1. ASSUME NEW p \in Request, Step(p)
        PROVE  phase[p] # "ok" /\ \A q \in Request \ {p} : phase'[q] = phase[q]
    <3>1. phase[p] # "ok"
      BY <2>1 DEF Step, Arrive, Crash, InFlight, Waiting, At, ChatLoad, RunLoad, RunEngine,
                  EngineRefuses, ReadLatest, DeleteFuture, WriteState, CommitVersion,
                  CommitFails, PromoteLoad, PromoteBase, PromoteCollect, PromoteEngine,
                  IacLoad, ExportIac, WriteIac, CommitIac, FindNeighbour, SetCurrentVersion
    <3>2. \E ph : phase' = [phase EXCEPT ![p] = ph]
      BY <2>1 DEF Step, Arrive, Crash, ChatLoad, RunLoad, RunEngine,
                  EngineRefuses, ReadLatest, DeleteFuture, WriteState, CommitVersion,
                  CommitFails, PromoteLoad, PromoteBase, PromoteCollect, PromoteEngine,
                  IacLoad, ExportIac, WriteIac, CommitIac, FindNeighbour, SetCurrentVersion,
                  Goto, Close, Answer, Keep, Compute
    <3> QED BY <3>1, <3>2 DEF TypeInv, TypeOK
  <2> QED BY <2>1 DEF Next, Quiet, vars
<1>1. ASSUME NEW p \in Request, NEW r \in Row, Added(p, r) PROVE HashInv'
  <2>1. phase[p] = "commit" /\ phase'[p] = "ok"
    BY <1>1 DEF Added, CommitVersion, At, Close, Goto, TypeInv, TypeOK
  <2>2. \A s \in rows : s.hash # p
    BY <2>1, NoRequestAssumption DEF HashesOfDone
  <2>3. UniqueHashes'
    BY <1>1, <2>2 DEF Added, UniqueHashes
  <2>4. HashesOfDone'
    BY <1>0, <1>1, <2>1 DEF Added, HashesOfDone
  <2> QED BY <2>3, <2>4
<1>2. ASSUME NEW r \in Row, NEW x \in Row, Exported(r, x) PROVE HashInv'
  <2>1. x.env = r.env /\ x.hash = r.hash
    BY <1>2 DEF Exported, PathOf
  <2> QED BY <1>0, <1>2, <2>1 DEF Exported, UniqueHashes, HashesOfDone
<1>3. CASE UNCHANGED rows
  BY <1>0, <1>3 DEF UniqueHashes, HashesOfDone
<1> QED BY <1>1, <1>2, <1>3, RowSteps

\* A hash names one version of an environment, so the version that prod tracks
\* is found by its hash alone.
THEOREM HashesAreUnique == Spec => []UniqueHashes
<1>1. Init => HashInv
  <2>1. \A e \in Env : FirstRow(e).env = e /\ FirstRow(e).hash = NoRequest
    BY DEF FirstRow
  <2>2. rows = {FirstRow(e) : e \in Env} => HashInv
    BY <2>1 DEF HashInv, UniqueHashes, HashesOfDone
  <2> QED BY <2>2 DEF Init
<1>2. Spec => [](TypeInv /\ HashInv)
  <2>1. TypeInv /\ HashInv /\ [Next]_vars => TypeInv' /\ HashInv'
    BY NextKeepsTypeInv, NextKeepsHashInv
  <2> QED BY <1>1, <2>1, InitTypeInv, PTL DEF Spec
<1>3. HashInv => UniqueHashes
  BY DEF HashInv
<1> QED BY <1>2, <1>3, PTL

\* Whatever commits a version or an export leaves every pointer at a row.
LEMMA OthersKeepCurrent ==
  ASSUME TypeInv, [Next]_vars, NEW e \in Env, NEW c \in rows, IsCurrent(c, e),
         \A p \in Request : ~SetCurrentVersion(p)
  PROVE  (\E r \in rows : IsCurrent(r, e))'
<1> USE DEF IsCurrent, IsVersion, RowsOf
<1>1. ASSUME NEW p \in Request, NEW r \in Row, Added(p, r)
      PROVE  (\E s \in rows : IsCurrent(s, e))'
  <2>1. current' = [current EXCEPT ![job[p].env] = target[p]]
    BY <1>1 DEF Added, CommitVersion
  <2>2. CASE e = job[p].env
    BY <1>1, <2>1, <2>2 DEF Added, TypeInv, TypeOK
  <2>3. CASE e # job[p].env
    <3>1. c \notin Deleted(p)
      BY <2>3 DEF Deleted
    <3> QED BY <1>1, <2>1, <2>3, <3>1 DEF Added, TypeInv, TypeOK
  <2> QED BY <2>2, <2>3
<1>2. ASSUME NEW r \in Row, NEW x \in Row, Exported(r, x)
      PROVE  (\E s \in rows : IsCurrent(s, e))'
  BY <1>2 DEF Exported, PathOf
<1>3. CASE UNCHANGED <<rows, current>>
  BY <1>3
<1> QED BY <1>1, <1>2, <1>3, RowSteps

\* Whatever requests run, only set_current_version can leave an environment
\* without a current version.
THEOREM OnlySetDangles == Spec => DanglesBySetOnly
<1>1. TypeInv /\ [Next]_vars =>
        [\A e \in Env :
           (\E r \in rows : IsCurrent(r, e)) /\ ~(\E r \in rows : IsCurrent(r, e))'
           => \E p \in Request : SetCurrentVersion(p)]_vars
  BY OthersKeepCurrent
<1> QED BY <1>1, TypeInvHolds, PTL DEF Spec, DanglesBySetOnly

-----------------------------------------------------------------------------
(* Optimism pays where nobody moves back or overwrites *)

(***************************************************************************)
(* The versions of such an environment are 0 .. current, so a number that  *)
(* is free and not more than one ahead of the pointer is the next one. The *)
(* number a request computes is never more than one ahead: it comes from   *)
(* a row that was in the table, and the pointer only grows.                *)
(***************************************************************************)
Ahead(p) == Forward(job[p].env)

KindGiven == \A p \in Request : job[p].kind # Iac => job[p].kind \in Kinds[job[p].env]

NoneBack == \A p \in Request : Ahead(p) => job[p].kind \notin MoveKinds \cup {Overwrite}

NoneDeleted == \A p \in Request : future[p] # {} => InFlight(p) /\ ~Ahead(p)

Gapless ==
  \A e \in Env : Forward(e) =>
    \A n \in Nat : (\E r \in RowsOf(e) : r.version = n) <=> n <= current[e]

OwnNotAhead ==
  \A p \in Request :
    Ahead(p) /\ phase[p] \in Waiting \ {"ask", "load", "move"} =>
      own[p].env = job[p].env /\ own[p].version <= current[job[p].env]

TargetNotAhead ==
  \A p \in Request :
    Ahead(p) /\ phase[p] \in {"write", "commit"} /\ job[p].kind # Iac =>
      /\ target[p] <= current[job[p].env] + 1
      /\ job[p].kind = Promote => target[p] = own[p].version + 1

ForwardInv == KindGiven /\ NoneBack /\ NoneDeleted /\ Gapless /\ OwnNotAhead /\ TargetNotAhead

\* The version a request adds there is the one after the current one.
LEMMA AddsNext ==
  ASSUME TypeInv, ForwardInv, NEW p \in Request, CommitVersion(p), Ahead(p)
  PROVE  target[p] = current[job[p].env] + 1
<1> USE DEF TypeInv, TypeOK, ForwardInv, Ahead, Forward
<1>1. ~\E r \in RowsOf(job[p].env) : r.version = target[p]
  <2>1. target[p] \notin future[p]
    BY DEF NoneDeleted
  <2>2. ~\E r \in rows : TargetRow(p, r)
    BY <2>1 DEF CommitVersion, Writable
  <2> QED BY <2>2 DEF TargetRow, IsVersion, RowsOf
<1>2. job[p].env \in Env /\ target[p] \in Nat /\ current[job[p].env] \in Nat
  BY DEF Job
<1>3. ~(target[p] <= current[job[p].env])
  BY <1>1, <1>2 DEF Gapless
<1>4. target[p] <= current[job[p].env] + 1
  BY DEF CommitVersion, At, TargetNotAhead
<1> QED BY <1>2, <1>3, <1>4

LEMMA NextKeepsForwardInv ==
  ASSUME TypeInv, ForwardInv, [Next]_vars
  PROVE  ForwardInv'
<1> USE DEF TypeInv, TypeOK, ForwardInv, Ahead, Forward
<1>1. KindGiven' /\ NoneBack' /\ NoneDeleted'
  <2> DEFINE Same(p) == /\ job'[p].kind = job[p].kind /\ job'[p].env = job[p].env
                        /\ future'[p] = future[p]
                        /\ InFlight(p) => InFlight(p)'
             Ended(p) == job'[p] = Idle /\ future'[p] = {}
             Arrived(p) == /\ ~InFlight(p) /\ future'[p] = future[p]
                           /\ job'[p].kind \in Kinds[job'[p].env]
             Marked(p) == /\ job'[p] = job[p] /\ job[p].kind = Overwrite /\ InFlight(p)'
  <2>1. ASSUME NEW p \in Request, Step(p)
        PROVE  /\ Same(p) \/ Ended(p) \/ Arrived(p) \/ Marked(p)
               /\ \A q \in Request \ {p} : Same(q)
    <3>1. CASE Arrive(p)
      <4>1. PICK e \in Env, v \in Versions : \E kind \in Kinds[e] :
              /\ job' = [job EXCEPT ![p] = [kind |-> kind, env |-> e, version |-> v]]
              /\ Goto(p, FirstStep(kind))
        BY <3>1 DEF Arrive
      <4>2. phase[p] = "idle" /\ UNCHANGED future
        BY <3>1 DEF Arrive
      <4>3. Arrived(p)
        BY <4>1, <4>2 DEF InFlight, Waiting
      <4>4. \A q \in Request \ {p} : Same(q)
        BY <4>1, <4>2 DEF InFlight, Goto
      <4> QED BY <4>3, <4>4
    <3>2. CASE \E answer \in Answers : Close(p, answer)
      BY <3>2 DEF Close, Goto, InFlight
    <3>3. CASE DeleteFuture(p)
      BY <3>3 DEF DeleteFuture, At, Goto, InFlight, Waiting
    <3>4. CASE \E step \in Waiting : Goto(p, step) /\ UNCHANGED <<job, future>>
      BY <3>4 DEF Goto, InFlight
    <3>5. CASE ChatLoad(p)
      <4>1. CASE Answer(p, "failed")
        BY <3>2, <4>1 DEF Answer, Answers
      <4>2. CASE ~Answer(p, "failed")
        <5>1. PICK r \in rows : job' = [job EXCEPT ![p].version = r.version]
                                /\ Goto(p, "load") /\ UNCHANGED session
          BY <3>5, <4>2 DEF ChatLoad
        <5>2. \A q \in Request : job'[q].kind = job[q].kind /\ job'[q].env = job[q].env
          BY <5>1 DEF Job
        <5> QED BY <5>1, <5>2 DEF session, InFlight, Goto, Waiting
      <4> QED BY <4>1, <4>2
    <3>6. CASE \/ Crash(p) \/ RunLoad(p) \/ EngineRefuses(p) \/ CommitVersion(p)
               \/ CommitFails(p) \/ PromoteLoad(p) \/ PromoteBase(p) \/ PromoteCollect(p)
               \/ IacLoad(p) \/ CommitIac(p) \/ FindNeighbour(p) \/ SetCurrentVersion(p)
      <4>1. \/ \E step \in Waiting : Goto(p, step) /\ UNCHANGED <<job, future>>
            \/ \E answer \in Answers : Close(p, answer)
        BY <3>6 DEF Crash, RunLoad, EngineRefuses, CommitVersion, CommitFails, PromoteLoad,
                    PromoteBase, PromoteCollect, IacLoad, CommitIac, FindNeighbour,
                    SetCurrentVersion, Answer, Keep, Refusal, Answers, Waiting
      <4> QED BY <3>2, <3>4, <4>1
    <3>7. CASE \/ RunEngine(p) \/ ReadLatest(p) \/ WriteState(p) \/ PromoteEngine(p)
               \/ ExportIac(p) \/ WriteIac(p)
      <4>1. \E step \in Waiting : Goto(p, step) /\ UNCHANGED <<job, future>>
        BY <3>7 DEF RunEngine, ReadLatest, WriteState, PromoteEngine, ExportIac, WriteIac,
                    Compute, session, Waiting
      <4> QED BY <3>4, <4>1
    <3> QED BY <2>1, <3>1, <3>3, <3>5, <3>6, <3>7 DEF Step
  <2>2. CASE UNCHANGED vars
    BY <2>2 DEF vars, session, KindGiven, NoneBack, NoneDeleted, InFlight
  <2>3. ASSUME NEW p \in Request, Step(p) PROVE KindGiven' /\ NoneDeleted'
    <3>1. ASSUME NEW q \in Request
          PROVE  /\ (job[q].kind # Iac => job[q].kind \in Kinds[job[q].env])'
                 /\ (future[q] # {} => InFlight(q) /\ ~Ahead(q))'
      <4>1. Same(q) \/ Ended(q) \/ Arrived(q) \/ Marked(q)
        BY <2>1, <2>3
      <4>2. Idle.kind = Iac
        BY DEF Idle
      <4>3. Marked(q) => ~Ahead(q)
        BY DEF NoneBack
      <4> QED BY <4>1, <4>2, <4>3 DEF KindGiven, NoneDeleted
    <3> QED BY <3>1 DEF KindGiven, NoneDeleted
  <2>4. KindGiven' => NoneBack'
    BY DEF KindGiven, NoneBack, MoveKinds, Iac, Overwrite, Set, Undo, Redo
  <2> QED BY <2>2, <2>3, <2>4 DEF Next, Quiet
<1>2. Gapless' /\ \A e \in Env : Forward(e) => current[e] <= current'[e]
  <2>1. ASSUME NEW p \in Request, NEW r \in Row, Added(p, r)
        PROVE  Gapless' /\ \A e \in Env : Forward(e) => current[e] <= current'[e]
    <3>1. /\ current' = [current EXCEPT ![r.env] = r.version]
          /\ Forward(r.env) => r.version = current[r.env] + 1
      BY <2>1, AddsNext DEF Added, CommitVersion
    <3>2. \A s \in rows : s \notin rows' => s.env = r.env /\ ~Forward(r.env)
      BY <2>1 DEF Added, Deleted, NoneDeleted, RowsOf
    <3>3. r \in rows' /\ rows' \subseteq rows \cup {r}
      BY <2>1 DEF Added
    <3>4. Gapless'
      <4> SUFFICES ASSUME NEW e \in Env, Forward(e), NEW n \in Nat
                   PROVE  (\E s \in rows' : s.env = e /\ s.version = n) <=> n <= current'[e]
        BY DEF Gapless, RowsOf
      <4>1. (\E s \in rows : s.env = e /\ s.version = n) <=> n <= current[e]
        BY DEF Gapless, RowsOf
      <4>2. CASE e = r.env
        <5>1. rows' = rows \cup {r} /\ current'[e] = current[e] + 1 /\ r.version = current[e] + 1
          BY <3>1, <3>2, <3>3, <4>2
        <5> QED BY <4>1, <4>2, <5>1
      <4>3. CASE e # r.env
        <5>1. current'[e] = current[e]
          BY <3>1, <4>3
        <5>2. \A s : s.env = e => (s \in rows' <=> s \in rows)
          BY <3>2, <3>3, <4>3
        <5> QED BY <4>1, <5>1, <5>2
      <4> QED BY <4>2, <4>3
    <3> QED BY <3>1, <3>4 DEF Row
  <2>2. ASSUME NEW r \in Row, NEW x \in Row, Exported(r, x)
        PROVE  Gapless' /\ \A e \in Env : Forward(e) => current[e] <= current'[e]
    <3>1. x.env = r.env /\ x.version = r.version
      BY <2>2 DEF Exported, PathOf
    <3>2. ASSUME NEW e \in Env, NEW n \in Nat
          PROVE  (\E s \in rows' : s.env = e /\ s.version = n)
                 <=> (\E s \in rows : s.env = e /\ s.version = n)
      BY <2>2, <3>1 DEF Exported
    <3>3. UNCHANGED current
      BY <2>2 DEF Exported
    <3>4. Gapless'
      <4> SUFFICES ASSUME NEW e \in Env, Forward(e), NEW n \in Nat
                   PROVE  (\E s \in rows' : s.env = e /\ s.version = n) <=> n <= current[e]
        BY <3>3 DEF Gapless, RowsOf
      <4>1. (\E s \in rows : s.env = e /\ s.version = n) <=> n <= current[e]
        BY DEF Gapless, RowsOf
      <4> QED BY <3>2, <4>1
    <3> QED BY <3>3, <3>4
  <2>3. ASSUME NEW p \in Request, SetCurrentVersion(p), UNCHANGED rows
        PROVE  Gapless' /\ \A e \in Env : Forward(e) => current[e] <= current'[e]
    <3>1. \A e \in Env : Forward(e) => current'[e] = current[e]
      BY <2>3 DEF SetCurrentVersion, At, NoneBack
    <3> QED BY <2>3, <3>1 DEF Gapless, RowsOf
  <2>4. CASE UNCHANGED <<rows, current>>
    BY <2>4 DEF Gapless, RowsOf
  <2> QED BY <2>1, <2>2, <2>3, <2>4, RowSteps
<1>3. OwnNotAhead'
  <2>1. ASSUME NEW p \in Request, Step(p),
               NEW q \in Request, Ahead(q)', phase'[q] \in Waiting \ {"ask", "load", "move"}
        PROVE  /\ job'[q] = job[q]
               /\ \/ /\ phase[q] \in Waiting \ {"ask", "load", "move"}
                     /\ own'[q] = own[q]
                  \/ /\ own'[q] \in rows
                     /\ own'[q].env = job[q].env
                     /\ own'[q].version = current[job[q].env]
    <3>1. CASE RunLoad(p) \/ PromoteLoad(p) \/ IacLoad(p)
      <4>1. CASE \E answer \in Answers : Answer(p, answer)
        BY <2>1, <4>1 DEF Answer, Close, Goto, Answers, Waiting
      <4>2. ASSUME NEW r \in rows, NEW next \in {"engine", "base"}, Keep(p, r, next),
                   p = q => IsCurrent(r, job[p].env)
            PROVE  /\ job'[q] = job[q]
                   /\ \/ /\ phase[q] \in Waiting \ {"ask", "load", "move"}
                         /\ own'[q] = own[q]
                      \/ /\ own'[q] \in rows
                         /\ own'[q].env = job[q].env
                         /\ own'[q].version = current[job[q].env]
        BY <2>1, <4>2 DEF Keep, Goto, IsCurrent, IsVersion, RowsOf
      <4>3. CASE \E r \in rows, next \in {"engine", "base"} : Keep(p, r, next)
        <5>1. PICK r \in rows, next \in {"engine", "base"} :
                /\ Keep(p, r, next)
                /\ job[p].kind # Overwrite => IsCurrent(r, job[p].env)
          BY <3>1, <4>3 DEF RunLoad, BuildsOn, PromoteLoad, IacLoad, Refusal, Answer, Close, Keep,
                            Goto, At, Answers
        <5>2. p = q => job[p].kind # Overwrite
          BY <2>1, <5>1 DEF Keep, NoneBack
        <5> QED BY <4>2, <5>1, <5>2
      <4>4. \/ \E answer \in Answers : Answer(p, answer)
            \/ \E r \in rows, next \in {"engine", "base"} : Keep(p, r, next)
        BY <3>1 DEF RunLoad, PromoteLoad, IacLoad, Answers, Refusal
      <4> QED BY <4>1, <4>3, <4>4
    <3>2. CASE Arrive(p)
      BY <2>1, <3>2 DEF Arrive, Goto, FirstStep, Waiting
    <3>3. CASE \/ RunEngine(p) \/ ReadLatest(p) \/ DeleteFuture(p) \/ WriteState(p)
               \/ PromoteEngine(p) \/ ExportIac(p) \/ WriteIac(p)
      BY <2>1, <3>3 DEF RunEngine, ReadLatest, DeleteFuture, WriteState, PromoteEngine,
                        ExportIac, WriteIac, Compute, Goto, At, session, Waiting
    <3>4. CASE \/ Crash(p) \/ ChatLoad(p) \/ EngineRefuses(p) \/ CommitVersion(p)
               \/ CommitFails(p) \/ CommitIac(p) \/ FindNeighbour(p) \/ SetCurrentVersion(p)
               \/ PromoteBase(p) \/ PromoteCollect(p)
      <4>1. CASE \E answer \in Answers : Close(p, answer)
        BY <2>1, <4>1 DEF Close, Goto, Answers, Waiting
      <4>2. CASE ~\E answer \in Answers : Close(p, answer)
        BY <2>1, <3>4, <4>2 DEF Crash, ChatLoad, EngineRefuses, CommitVersion, CommitFails,
             CommitIac, FindNeighbour, SetCurrentVersion, PromoteBase, PromoteCollect, Answer,
             Refusal, Goto, At, session, Answers, Waiting
      <4> QED BY <4>1, <4>2
    <3> QED BY <2>1, <3>1, <3>2, <3>3, <3>4 DEF Step
  <2>2. ASSUME NEW p \in Request, Step(p) PROVE OwnNotAhead'
    <3> SUFFICES ASSUME NEW q \in Request, Ahead(q)',
                        phase'[q] \in Waiting \ {"ask", "load", "move"}
                 PROVE  own'[q].env = job'[q].env /\ own'[q].version <= current'[job'[q].env]
      BY DEF OwnNotAhead
    <3>1. job[q].env \in Env /\ current[job[q].env] \in Nat /\ current'[job[q].env] \in Nat
      BY NextKeepsTypeInv DEF Job
    <3>2. own'[q] \in Row
      BY NextKeepsTypeInv DEF LoadedInv, OwnLoaded, Loaded
    <3>3. own'[q].version \in Nat
      BY <3>2 DEF Row
    <3> QED BY <1>2, <2>1, <2>2, <3>1, <3>3 DEF OwnNotAhead
  <2>3. CASE UNCHANGED vars
    BY <2>3 DEF vars, db, session, OwnNotAhead
  <2> QED BY <2>2, <2>3 DEF Next, Quiet
<1>4. TargetNotAhead'
  <2>1. ASSUME NEW p \in Request, Step(p), NEW q \in Request, Ahead(q)',
               phase'[q] \in {"write", "commit"}, job'[q].kind # Iac
        PROVE  /\ job'[q] = job[q] /\ own'[q] = own[q]
               /\ \/ phase[q] \in {"write", "commit"} /\ target'[q] = target[q]
                  \/ job[q].kind # Promote /\ \E r \in RowsOf(job[q].env) :
                       target'[q] = r.version + 1
                  \/ target'[q] = own[q].version + 1 /\ phase[q] = "engine"
    <3>1. CASE \E answer \in Answers : Close(p, answer)
      BY <2>1, <3>1 DEF Close, Goto, Answers
    <3>2. CASE Arrive(p)
      BY <2>1, <3>2 DEF Arrive, Goto, FirstStep
    <3>3. CASE ReadLatest(p)
      BY <2>1, <3>3 DEF ReadLatest, Goto, At, IsLatest
    <3>4. CASE PromoteEngine(p)
      BY <2>1, <3>4 DEF PromoteEngine, Compute, Goto, At
    <3>5. CASE DeleteFuture(p)
      BY <2>1, <3>5 DEF DeleteFuture, At, Goto, NoneBack
    <3>6. CASE WriteState(p) \/ ExportIac(p) \/ WriteIac(p) \/ RunEngine(p)
      BY <2>1, <3>6 DEF WriteState, ExportIac, WriteIac, RunEngine, Compute, Goto, At, session
    <3>7. CASE /\ ~\E answer \in Answers : Close(p, answer)
               /\ \/ Crash(p) \/ ChatLoad(p) \/ EngineRefuses(p) \/ CommitVersion(p)
                  \/ CommitFails(p) \/ CommitIac(p) \/ FindNeighbour(p)
                  \/ SetCurrentVersion(p) \/ PromoteBase(p) \/ PromoteCollect(p)
                  \/ RunLoad(p) \/ PromoteLoad(p) \/ IacLoad(p)
      <4>1. /\ ~Close(p, "ok")
            /\ ~Answer(p, "ok") /\ ~Answer(p, "refused") /\ ~Answer(p, "failed")
        BY <3>7 DEF Answer, Answers
      <4>2. CASE ChatLoad(p)
        <5>1. Goto(p, "load") /\ UNCHANGED session /\ \E r : job' = [job EXCEPT ![p].version = r]
          BY <4>1, <4>2 DEF ChatLoad
        <5> QED BY <2>1, <5>1 DEF Goto, session
      <4>3. CASE FindNeighbour(p)
        <5>1. Goto(p, "move") /\ UNCHANGED <<job, own>> /\ \E v : target' = [target EXCEPT ![p] = v]
          BY <4>1, <4>3 DEF FindNeighbour
        <5> QED BY <2>1, <5>1 DEF Goto
      <4>4. CASE PromoteBase(p) \/ PromoteCollect(p)
        <5>1. (Goto(p, "collect") \/ Goto(p, "engine")) /\ UNCHANGED <<job, own, target>>
          BY <4>1, <4>4 DEF PromoteBase, PromoteCollect
        <5> QED BY <2>1, <5>1 DEF Goto
      <4>5. CASE RunLoad(p) \/ PromoteLoad(p) \/ IacLoad(p)
        <5>1. \E r \in rows : Keep(p, r, "engine") \/ Keep(p, r, "base")
          BY <4>1, <4>5 DEF RunLoad, PromoteLoad, IacLoad, Refusal
        <5> QED BY <2>1, <5>1 DEF Keep, Goto
      <4>6. ~(\/ Crash(p) \/ EngineRefuses(p) \/ CommitVersion(p) \/ CommitFails(p)
              \/ CommitIac(p) \/ SetCurrentVersion(p))
        BY <4>1 DEF Crash, EngineRefuses, CommitVersion, CommitFails, CommitIac,
                    SetCurrentVersion, Refusal
      <4> QED BY <3>7, <4>2, <4>3, <4>4, <4>5, <4>6
    <3> QED BY <2>1, <3>1, <3>2, <3>3, <3>4, <3>5, <3>6, <3>7 DEF Step
  <2>2. ASSUME NEW p \in Request, Step(p) PROVE TargetNotAhead'
    <3> SUFFICES ASSUME NEW q \in Request, Ahead(q)', phase'[q] \in {"write", "commit"},
                        job'[q].kind # Iac
                 PROVE  /\ target'[q] <= current'[job'[q].env] + 1
                        /\ job'[q].kind = Promote => target'[q] = own'[q].version + 1
      BY DEF TargetNotAhead
    <3>1. job[q].env \in Env /\ current[job[q].env] \in Nat /\ current'[job[q].env] \in Nat
      BY NextKeepsTypeInv DEF Job
    <3>2. job'[q] = job[q] /\ own'[q] = own[q] /\ target'[q] \in Nat
      BY <2>1, <2>2, NextKeepsTypeInv
    <3>6. Ahead(q) /\ job[q].kind # Iac
      BY <3>2
    <3>3. CASE phase[q] \in {"write", "commit"} /\ target'[q] = target[q]
      BY <1>2, <3>6, <3>1, <3>2, <3>3 DEF TargetNotAhead
    <3>4. CASE job[q].kind # Promote /\ \E r \in RowsOf(job[q].env) : target'[q] = r.version + 1
      <4>1. \A r \in RowsOf(job[q].env) : r.version \in Nat /\ r.version <= current[job[q].env]
        BY <3>6, <3>1 DEF Gapless, RowsOf, Row
      <4> QED BY <1>2, <3>6, <3>1, <3>2, <3>4, <4>1
    <3>5. CASE target'[q] = own[q].version + 1 /\ phase[q] = "engine"
      <4>1. own[q].version \in Nat /\ own[q].version <= current[job[q].env]
        BY <3>6, <3>5 DEF LoadedInv, OwnLoaded, Loaded, Row, OwnNotAhead, Waiting
      <4> QED BY <1>2, <3>6, <3>1, <3>2, <3>5, <4>1
    <3> QED BY <2>1, <2>2, <3>3, <3>4, <3>5
  <2>3. CASE UNCHANGED vars
    BY <2>3 DEF vars, db, session, TargetNotAhead
  <2> QED BY <2>2, <2>3 DEF Next, Quiet
<1> QED BY <1>1, <1>2, <1>3, <1>4

LEMMA InitForwardInv == Init => ForwardInv
<1> SUFFICES ASSUME Init PROVE ForwardInv
  OBVIOUS
<1>1. Gapless
  <2>1. \A e \in Env : FirstRow(e).env = e /\ FirstRow(e).version = 0
    BY DEF FirstRow
  <2>2. /\ rows = {FirstRow(e) : e \in Env}
        /\ current = [e \in Env |-> 0]
    BY DEF Init
  <2> QED BY <2>1, <2>2 DEF Gapless, RowsOf
<1>2. KindGiven /\ NoneBack /\ NoneDeleted /\ OwnNotAhead /\ TargetNotAhead
  BY DEF Init, KindGiven, NoneBack, NoneDeleted, OwnNotAhead, TargetNotAhead, Waiting
<1> QED BY <1>1, <1>2 DEF ForwardInv

LEMMA ForwardInvHolds == Spec => [](TypeInv /\ ForwardInv)
<1>1. TypeInv /\ ForwardInv /\ [Next]_vars => TypeInv' /\ ForwardInv'
  BY NextKeepsTypeInv, NextKeepsForwardInv
<1> QED BY <1>1, InitTypeInv, InitForwardInv, PTL DEF Spec

\* In an environment where clients only run, chat, promote and export the
\* current version is the latest, in any interleaving and with any crashes,
\* whatever they do in the other one.
THEOREM PointerStaysLatest == Spec => []CurrentIsLatest
<1>1. TypeInv /\ ForwardInv => CurrentIsLatest
  <2> SUFFICES ASSUME TypeInv, ForwardInv, NEW e \in Env, Forward(e)
               PROVE  \E r \in rows : IsCurrent(r, e) /\ IsLatest(r, e)
    BY DEF CurrentIsLatest
  <2>1. current[e] \in Nat /\ \A s \in RowsOf(e) : s.version \in Nat
    BY DEF TypeInv, TypeOK, RowsOf, Row
  <2>2. PICK r \in RowsOf(e) : r.version = current[e]
    BY <2>1 DEF ForwardInv, Gapless
  <2>3. \A s \in RowsOf(e) : s.version <= r.version
    BY <2>1, <2>2 DEF ForwardInv, Gapless
  <2> QED BY <2>2, <2>3 DEF IsCurrent, IsVersion, IsLatest, RowsOf
<1> QED BY <1>1, ForwardInvHolds, PTL

\* If prod is such an environment a promotion that lost a race never commits: it
\* is the optimistic transaction its version number makes it.
THEOREM PromotionIsOptimistic ==
  ASSUME Forward(PROD_ENV_ID)
  PROVE  Spec => PromoteFromCurrent
<1>1. TypeInv /\ ForwardInv =>
        [\A p \in Request :
           CommitVersion(p) /\ job[p].kind = Promote
           => own[p].version = current[job[p].env]]_vars
  <2> SUFFICES ASSUME TypeInv, ForwardInv, NEW p \in Request, CommitVersion(p),
                      job[p].kind = Promote
               PROVE  own[p].version = current[job[p].env]
    OBVIOUS
  <2>1. Ahead(p)
    <3>1. job[p].env \in Env /\ Promote \in Kinds[job[p].env]
      BY DEF ForwardInv, KindGiven, TypeInv, TypeOK, Job, Promote, Iac
    <3> QED BY <3>1, KindsAssumption DEF Env, Ahead
  <2>2. target[p] = current[job[p].env] + 1 /\ target[p] = own[p].version + 1
    BY <2>1, AddsNext DEF ForwardInv, TargetNotAhead, CommitVersion, At, Promote, Iac
  <2>3. own[p].version \in Nat
    BY DEF TypeInv, LoadedInv, OwnLoaded, Loaded, Row, CommitVersion, At, Waiting
  <2>4. current[job[p].env] \in Nat
    BY DEF TypeInv, TypeOK, Job
  <2> QED BY <2>2, <2>3, <2>4
<1> QED BY <1>1, ForwardInvHolds, PTL DEF PromoteFromCurrent

-----------------------------------------------------------------------------
(* How much turn-taking the store needs *)

ProdNeverBack == Kinds[PROD_ENV_ID] \cap MoveKinds = {}

(***************************************************************************)
(* The inductive invariant is about every version somebody can still see:  *)
(* the rows and those that requests have loaded, which an overwrite may    *)
(* have deleted since.  A path never belongs to two versions, so what lies *)
(* at the path of a version is its own as long as anybody looks.           *)
(***************************************************************************)
HasOwn == Waiting \ {"ask", "load", "move"}
HasBase == {"collect", "engine", "write", "commit"}

WithOwnRow == {p \in Request : phase[p] \in HasOwn}
WithBaseRow == {p \in Request : job[p].kind = Promote /\ phase[p] \in HasBase}

Seen == rows \cup {own[p] : p \in WithOwnRow} \cup {base[p] : p \in WithBaseRow}

Answered(h) == h = NoRequest \/ (h \in Request /\ phase[h] = "ok")

Settled(h) ==
  /\ Answered(h.hash) /\ Answered(h.tracks)
  /\ StateOf(h) = Made(h.hash)
  /\ Made(h.tracks) \subseteq Made(h.hash)
  /\ \E r \in RowsOf(h.env) : h.version <= r.version

AllSettled == \A h \in Seen : Settled(h)

OneHash == \A g, h \in Seen : PathOf(g) = PathOf(h) => g.hash = h.hash

ProdAtLatest == \A r \in RowsOf(PROD_ENV_ID) : r.version <= current[PROD_ENV_ID]

KindAllowed(p) == InFlight(p) => job[p].kind \in Kinds[job[p].env]

OwnOfEnv(p) == phase[p] \in HasOwn => own[p].env = job[p].env

NumberFree(p) ==
  Numbered(p) =>
    \A r \in RowsOf(job[p].env) :
      IF phase[p] \in {"base", "collect", "engine"} THEN r.version <= own[p].version
      ELSE r.version < target[p]

ResultOfOwn(p) ==
  phase[p] \in {"latest", "future", "write", "commit"} =>
    /\ job[p].kind \in RunKinds => result[p] = Made(own[p].hash) \cup {p}
    /\ job[p].kind = Promote /\ phase[p] \in HasBase => Made(base[p].hash) \subseteq result[p]
    /\ job[p].kind = Iac => result[p] = Made(own[p].hash)

PutInPlace(p) ==
  /\ At(p, RunKinds \cup {Promote}, "commit") => stateObj[TargetPath(p)] = result[p]
  /\ At(p, {Iac}, "commit") =>
       PathOf(own[p]) \in DOMAIN iacObj /\ iacObj[PathOf(own[p])] = result[p]

MarksInTurn(p) ==
  ~(job[p].kind = Overwrite /\ phase[p] \in {"write", "commit"}) => future[p] = {}

Writer(p) ==
  /\ KindAllowed(p) /\ OwnOfEnv(p) /\ NumberFree(p)
  /\ ResultOfOwn(p) /\ PutInPlace(p) /\ MarksInTurn(p)

TurnInv ==
  /\ AllSettled /\ OneHash /\ IacOfState /\ ProdAtLatest
  /\ \A p \in Request : Writer(p)

\* A request writes its own session only, and only before it has answered.
LEMMA OwnSession ==
  ASSUME TypeInv, NEW p \in Request, Step(p)
  PROVE  /\ phase[p] # "ok"
         /\ \A q \in Request \ {p} :
              /\ phase'[q] = phase[q] /\ job'[q] = job[q] /\ own'[q] = own[q]
              /\ base'[q] = base[q] /\ result'[q] = result[q]
              /\ target'[q] = target[q] /\ future'[q] = future[q]
              /\ overrides'[q] = overrides[q]
<1> USE DEF TypeInv, TypeOK
<1>1. phase[p] # "ok"
  BY DEF Step, Arrive, Crash, InFlight, Waiting, At, ChatLoad, RunLoad, RunEngine,
         EngineRefuses, ReadLatest, DeleteFuture, WriteState, CommitVersion,
         CommitFails, PromoteLoad, PromoteBase, PromoteCollect, PromoteEngine,
         IacLoad, ExportIac, WriteIac, CommitIac, FindNeighbour, SetCurrentVersion
<1>2. /\ \E ph : phase' = [phase EXCEPT ![p] = ph]
      /\ UNCHANGED result \/ \E s : result' = [result EXCEPT ![p] = s]
      /\ UNCHANGED future \/ \E s : future' = [future EXCEPT ![p] = s]
  BY DEF Step, Arrive, Crash, ChatLoad, RunLoad, RunEngine,
         EngineRefuses, ReadLatest, DeleteFuture, WriteState, CommitVersion,
         CommitFails, PromoteLoad, PromoteBase, PromoteCollect, PromoteEngine,
         IacLoad, ExportIac, WriteIac, CommitIac, FindNeighbour, SetCurrentVersion,
         Goto, Close, Answer, Keep, Compute, session
<1>3. /\ UNCHANGED own \/ \E s : own' = [own EXCEPT ![p] = s]
      /\ UNCHANGED base \/ \E s : base' = [base EXCEPT ![p] = s]
      /\ UNCHANGED target \/ \E s : target' = [target EXCEPT ![p] = s]
      /\ UNCHANGED overrides \/ \E s : overrides' = [overrides EXCEPT ![p] = s]
  BY DEF Step, Arrive, Crash, ChatLoad, RunLoad, RunEngine,
         EngineRefuses, ReadLatest, DeleteFuture, WriteState, CommitVersion,
         CommitFails, PromoteLoad, PromoteBase, PromoteCollect, PromoteEngine,
         IacLoad, ExportIac, WriteIac, CommitIac, FindNeighbour, SetCurrentVersion,
         Goto, Close, Answer, Keep, Compute, session
<1>4. \/ UNCHANGED job \/ \E s : job' = [job EXCEPT ![p] = s]
      \/ \E s : job' = [job EXCEPT ![p].version = s]
  BY DEF Step, Arrive, Crash, ChatLoad, RunLoad, RunEngine,
         EngineRefuses, ReadLatest, DeleteFuture, WriteState, CommitVersion,
         CommitFails, PromoteLoad, PromoteBase, PromoteCollect, PromoteEngine,
         IacLoad, ExportIac, WriteIac, CommitIac, FindNeighbour, SetCurrentVersion,
         Close, Answer, Keep, Compute, session
<1>5. \A q \in Request \ {p} :
        /\ phase'[q] = phase[q] /\ result'[q] = result[q] /\ future'[q] = future[q]
  BY <1>2
<1>6. \A q \in Request \ {p} :
        /\ own'[q] = own[q] /\ base'[q] = base[q] /\ target'[q] = target[q]
        /\ overrides'[q] = overrides[q]
  BY <1>3
<1>7. \A q \in Request \ {p} : job'[q] = job[q]
  BY <1>4
<1> QED BY <1>1, <1>5, <1>6, <1>7

\* Only a commit of a version and a move set the pointer, of their environment.
LEMMA PointerMoves ==
  ASSUME TypeOK, NEW p \in Request, Step(p), NEW e \in Env,
         ~((CommitVersion(p) \/ SetCurrentVersion(p)) /\ job[p].env = e)
  PROVE  current'[e] = current[e]
<1>1. CASE CommitVersion(p) \/ SetCurrentVersion(p)
  BY <1>1 DEF CommitVersion, SetCurrentVersion, TypeOK
<1>2. CASE ~CommitVersion(p) /\ ~SetCurrentVersion(p)
  <2>1. UNCHANGED current
    BY <1>2 DEF Step, Arrive, Crash, ChatLoad, RunLoad, RunEngine, EngineRefuses,
         ReadLatest, DeleteFuture, WriteState, CommitFails, PromoteLoad, PromoteBase,
         PromoteCollect, PromoteEngine, IacLoad, ExportIac, WriteIac, CommitIac,
         FindNeighbour, Answer, Keep, Compute, db, session
  <2> QED BY <2>1
<1> QED BY <1>1, <1>2

\* What an answered request has made never changes.
LEMMA MadeForGood ==
  ASSUME TypeInv, [Next]_vars, NEW h, Answered(h)
  PROVE  Answered(h)' /\ Made(h)' = Made(h)
<1>1. ASSUME NEW p \in Request, Step(p) PROVE Answered(h)' /\ Made(h)' = Made(h)
  BY <1>1, OwnSession DEF Answered, Made
<1>2. CASE UNCHANGED vars
  BY <1>2 DEF vars, session, Answered, Made
<1> QED BY <1>1, <1>2 DEF Next, Quiet

LEMMA SeenLoaded ==
  ASSUME TypeInv, NEW h \in Seen
  PROVE  Loaded(h)
BY DEF TypeInv, TypeOK, LoadedInv, RowsLocated, OwnLoaded, BaseLoaded, Loaded, Seen,
       WithOwnRow, WithBaseRow, HasOwn, HasBase

\* The number a commit adds is above all those of its environment.
LEMMA NumberAbove ==
  ASSUME TypeInv, TurnInv, NEW p \in Request,
         At(p, RunKinds \cup {Promote}, "write") \/ At(p, RunKinds \cup {Promote}, "commit"),
         NEW h \in Seen, h.env = job[p].env
  PROVE  h.version < target[p]
<1>1. Numbered(p) /\ phase[p] \notin {"base", "collect", "engine"}
  BY DEF Numbered, At
<1>2. PICK r \in RowsOf(job[p].env) : h.version <= r.version
  BY DEF TurnInv, AllSettled, Settled
<1>3. r.version < target[p]
  BY <1>1 DEF TurnInv, Writer, NumberFree
<1>4. h.version \in Nat /\ r.version \in Nat /\ target[p] \in Nat
  BY SeenLoaded DEF Loaded, Row, TypeInv, TypeOK, RowsOf
<1> QED BY <1>2, <1>3, <1>4

\* The latest version of an environment never drops.
LEMMA LatestGrows ==
  ASSUME TypeInv, TurnInv, [Next]_vars, NEW r \in rows
  PROVE  \E s \in rows' : s.env = r.env /\ r.version <= s.version
<1>0. r \in Row /\ r \in Seen /\ r.version \in Nat
  BY DEF TypeInv, TypeOK, Seen, Row
<1>1. ASSUME NEW p \in Request, NEW x \in Row, Added(p, x)
      PROVE  \E s \in rows' : s.env = r.env /\ r.version <= s.version
  <2>1. CASE r.env = job[p].env
    <3>1. r.version < target[p]
      BY <1>0, <1>1, <2>1, NumberAbove DEF Added, CommitVersion
    <3>2. x \in rows' /\ x.env = r.env /\ x.version = target[p] /\ x.version \in Nat
      BY <1>1, <2>1 DEF Added, Row
    <3> QED BY <1>0, <3>1, <3>2
  <2>2. CASE r.env # job[p].env
    BY <1>0, <1>1, <2>2 DEF Added, Deleted, RowsOf
  <2> QED BY <2>1, <2>2
<1>2. ASSUME NEW s \in Row, NEW x \in Row, Exported(s, x)
      PROVE  \E t \in rows' : t.env = r.env /\ r.version <= t.version
  <2>1. x.env = s.env /\ x.version = s.version
    BY <1>2 DEF Exported, PathOf
  <2> QED BY <1>0, <1>2, <2>1 DEF Exported
<1>3. CASE UNCHANGED rows
  BY <1>0, <1>3
<1> QED BY <1>1, <1>2, <1>3, RowSteps

\* No put falls on the path of a version somebody can see.
LEMMA StateStays ==
  ASSUME TypeInv, TurnInv, [Next]_vars, NEW h \in Seen
  PROVE  StateOf(h)' = StateOf(h)
<1>0. h \in Row /\ (h.stored => PathOf(h) \in DOMAIN stateObj)
  BY SeenLoaded DEF Loaded, Located
<1>1. ASSUME NEW p \in Request, WriteState(p) PROVE StateOf(h)' = StateOf(h)
  <2>1. PathOf(h) # TargetPath(p)
    <3> SUFFICES ASSUME h.env = job[p].env, h.version = target[p] PROVE FALSE
      BY DEF PathOf, TargetPath
    <3>1. h.version < target[p]
      BY <1>1, NumberAbove DEF WriteState
    <3> QED BY <1>0, <3>1 DEF Row
  <2>2. stateObj' = Put(stateObj, TargetPath(p), result[p])
    BY <1>1 DEF WriteState
  <2>3. PathOf(h) \in DOMAIN stateObj => stateObj'[PathOf(h)] = stateObj[PathOf(h)]
    BY <2>1, <2>2 DEF Put
  <2> QED BY <1>0, <2>3 DEF StateOf, PathOf
<1>2. CASE UNCHANGED stateObj
  BY <1>2 DEF StateOf, PathOf
<1>3. ASSUME NEW p \in Request, Step(p), ~WriteState(p) PROVE UNCHANGED stateObj
  BY <1>3 DEF Step, Arrive, Crash, ChatLoad, RunLoad, RunEngine, EngineRefuses, ReadLatest,
              DeleteFuture, CommitVersion, CommitFails, PromoteLoad, PromoteBase,
              PromoteCollect, PromoteEngine, IacLoad, ExportIac, WriteIac, CommitIac,
              FindNeighbour, SetCurrentVersion, Answer, Keep, Compute, bucket
<1> QED BY <1>1, <1>2, <1>3 DEF Next, Quiet, vars, bucket

LEMMA SettledStays ==
  ASSUME TypeInv, TurnInv, [Next]_vars, NEW h \in Seen
  PROVE  Settled(h)'
<1>1. Settled(h)
  BY DEF TurnInv, AllSettled
<1>2. /\ Answered(h.hash)' /\ Answered(h.tracks)'
      /\ Made(h.hash)' = Made(h.hash) /\ Made(h.tracks)' = Made(h.tracks)
  BY <1>1, MadeForGood DEF Settled
<1>3. StateOf(h)' = StateOf(h)
  BY StateStays
<1>4. \E r \in rows' : r.env = h.env /\ h.version <= r.version
  <2>1. PICK r \in rows : r.env = h.env /\ h.version <= r.version
    BY <1>1 DEF Settled, RowsOf
  <2>2. PICK s \in rows' : s.env = r.env /\ r.version <= s.version
    BY LatestGrows
  <2>3. h.version \in Nat /\ r.version \in Nat /\ s.version \in Nat
    BY SeenLoaded, NextKeepsTypeInv DEF Loaded, Row, TypeInv, TypeOK
  <2> QED BY <2>1, <2>2, <2>3
<1>5. (\E r \in RowsOf(h.env) : h.version <= r.version)'
  BY <1>4 DEF RowsOf
<1> QED BY <1>1, <1>2, <1>3, <1>5 DEF Settled

\* The steps that do not end the request, by what they do to its session.
GoesOn(p) ==
  \/ Arrive(p)
  \/ phase[p] = "ask" /\ Goto(p, "load") /\ UNCHANGED <<db, bucket, session>>
     /\ \E v : job' = [job EXCEPT ![p].version = v]
  \/ RunLoad(p) /\ \E r \in rows : BuildsOn(p, r) /\ Keep(p, r, "engine")
  \/ PromoteLoad(p) /\ \E r \in rows : IsCurrent(r, job[p].env) /\ Keep(p, r, "base")
  \/ IacLoad(p) /\ \E r \in rows : IsCurrent(r, job[p].env) /\ Keep(p, r, "engine")
  \/ At(p, {Undo, Redo}, "load") /\ Goto(p, "move")
     /\ UNCHANGED <<db, bucket, job, own, base, overrides, result, future>>
     /\ \E v : target' = [target EXCEPT ![p] = v]
  \/ At(p, {Promote}, "base") /\ Goto(p, "collect")
     /\ UNCHANGED <<db, bucket, job, own, overrides, result, target, future>>
     /\ \E b \in rows : base' = [base EXCEPT ![p] = b]
  \/ At(p, {Promote}, "collect") /\ Goto(p, "engine")
     /\ UNCHANGED <<db, bucket, job, own, base, result, target, future>>
  \/ RunEngine(p) \/ ReadLatest(p) \/ DeleteFuture(p) \/ WriteState(p)
  \/ PromoteEngine(p) \/ ExportIac(p) \/ WriteIac(p)

LEMMA EndsOrGoesOn ==
  ASSUME NEW p \in Request, Step(p)
  PROVE  (\E answer \in Answers : Close(p, answer)) \/ GoesOn(p)
<1> SUFFICES ASSUME ~\E answer \in Answers : Close(p, answer) PROVE GoesOn(p)
  OBVIOUS
<1>1. \A answer \in {"ok", "refused", "failed", Refusal(p)} :
        ~Close(p, answer) /\ ~Answer(p, answer)
  BY DEF Answer, Answers, Refusal
<1>2. ~(\/ Crash(p) \/ EngineRefuses(p) \/ CommitVersion(p) \/ CommitFails(p)
        \/ CommitIac(p) \/ SetCurrentVersion(p))
  BY <1>1 DEF Crash, EngineRefuses, CommitVersion, CommitFails, CommitIac,
              SetCurrentVersion
<1>3. CASE ChatLoad(p)
  BY <1>1, <1>3 DEF ChatLoad, At, GoesOn
<1>4. CASE RunLoad(p)
  BY <1>1, <1>4 DEF RunLoad, GoesOn
<1>5. CASE PromoteLoad(p)
  <2>1. \A r : ~Answer(p, IF r.stored THEN "ok" ELSE "failed")
    BY <1>1
  <2> QED BY <1>1, <1>5, <2>1 DEF PromoteLoad, GoesOn
<1>6. CASE IacLoad(p)
  BY <1>1, <1>6 DEF IacLoad, GoesOn
<1>7. CASE FindNeighbour(p)
  BY <1>1, <1>7 DEF FindNeighbour, GoesOn
<1>8. CASE PromoteBase(p) \/ PromoteCollect(p)
  BY <1>1, <1>8 DEF PromoteBase, PromoteCollect, GoesOn
<1> QED BY <1>2, <1>3, <1>4, <1>5, <1>6, <1>7, <1>8 DEF Step, GoesOn

\* What requests have loaded was a row when they loaded it.
LEMMA SessionsSeen ==
  ASSUME TypeInv, NEW p \in Request, Step(p), NEW q \in Request
  PROVE  /\ phase'[q] \in HasOwn => own'[q] \in Seen
         /\ job'[q].kind = Promote /\ phase'[q] \in HasBase => base'[q] \in Seen
<1> USE DEF TypeInv, TypeOK
<1>0. /\ phase[q] \in HasOwn => own[q] \in Seen
      /\ job[q].kind = Promote /\ phase[q] \in HasBase => base[q] \in Seen
      /\ rows \subseteq Seen
  BY DEF Seen, WithOwnRow, WithBaseRow
<1>1. CASE q # p
  BY <1>0, <1>1, OwnSession
<1>2. CASE q = p /\ \E answer \in Answers : Close(p, answer)
  BY <1>2 DEF Close, Goto, Answers, HasOwn, HasBase, Waiting
<1>3. CASE q = p /\ GoesOn(p)
  <2>1. CASE \/ Arrive(p)
             \/ phase[p] = "ask" /\ Goto(p, "load")
             \/ At(p, {Undo, Redo}, "load") /\ Goto(p, "move")
    BY <1>3, <2>1 DEF Arrive, Goto, FirstStep, HasOwn, HasBase, Waiting
  <2>2. CASE \E r \in rows : Keep(p, r, "engine") /\ job[p].kind # Promote
    BY <1>0, <1>3, <2>2 DEF Keep, Goto
  <2>3. CASE \E r \in rows : Keep(p, r, "base")
    BY <1>0, <1>3, <2>3 DEF Keep, Goto, HasBase
  <2>4. CASE At(p, {Promote}, "base") /\ Goto(p, "collect")
             /\ UNCHANGED <<db, bucket, job, own, overrides, result, target, future>>
             /\ \E b \in rows : base' = [base EXCEPT ![p] = b]
    BY <1>0, <1>3, <2>4 DEF At, HasOwn, Waiting
  <2>5. CASE At(p, {Promote}, "collect") /\ Goto(p, "engine")
             /\ UNCHANGED <<db, bucket, job, own, base, result, target, future>>
    BY <1>0, <1>3, <2>5 DEF At, HasOwn, HasBase, Waiting
  <2>6. CASE RunEngine(p) \/ ReadLatest(p) \/ DeleteFuture(p) \/ ExportIac(p) \/ WriteIac(p)
    <3>1. /\ UNCHANGED <<job, own>> /\ job[p].kind # Promote /\ phase[p] \in HasOwn
      BY <2>6 DEF RunEngine, ReadLatest, DeleteFuture, ExportIac, WriteIac, Compute, At,
                  session, HasOwn, Waiting
    <3> QED BY <1>0, <1>3, <3>1
  <2>7. CASE WriteState(p) \/ PromoteEngine(p)
    <3>1. /\ UNCHANGED <<job, own, base>>
          /\ phase[p] \in HasOwn
          /\ job[p].kind = Promote => phase[p] \in HasBase
      BY <2>7 DEF WriteState, PromoteEngine, Compute, At, session, HasOwn, HasBase, Waiting
    <3> QED BY <1>0, <1>3, <3>1
  <2> QED BY <1>3, <2>1, <2>2, <2>3, <2>4, <2>5, <2>6, <2>7
             DEF GoesOn, RunLoad, IacLoad, At
<1> QED BY <1>1, <1>2, <1>3, EndsOrGoesOn

\* So a version seen for the first time is the one a commit has just added, and
\* an export only marks a version.
LEMMA SeenNext ==
  ASSUME TypeInv, NEW p \in Request, Step(p), NEW h \in Seen'
  PROVE  \/ h \in Seen
         \/ CommitVersion(p) /\ \E iac \in BOOLEAN : h = NewRow(p, iac)
         \/ CommitIac(p) /\ \E r \in rows : h = [r EXCEPT !.iac = TRUE]
<1>1. CASE h \in {own'[q] : q \in WithOwnRow'} \cup {base'[q] : q \in WithBaseRow'}
  <2>1. PICK q \in Request :
          \/ phase'[q] \in HasOwn /\ h = own'[q]
          \/ job'[q].kind = Promote /\ phase'[q] \in HasBase /\ h = base'[q]
    BY <1>1 DEF WithOwnRow, WithBaseRow
  <2> QED BY <2>1, SessionsSeen
<1>2. CASE h \in rows'
  <2>0. rows \subseteq Seen
    BY DEF Seen
  <2>1. CASE CommitVersion(p)
    BY <1>2, <2>0, <2>1, CommitAdds DEF TypeInv
  <2>2. CASE CommitIac(p)
    BY <1>2, <2>0, <2>2 DEF CommitIac, Answer, db
  <2>3. CASE ~CommitVersion(p) /\ ~CommitIac(p)
    <3>1. UNCHANGED rows
      BY <2>3 DEF Step, Arrive, Crash, ChatLoad, RunLoad, RunEngine, EngineRefuses,
              ReadLatest, DeleteFuture, WriteState, CommitFails, PromoteLoad, PromoteBase,
              PromoteCollect, PromoteEngine, IacLoad, ExportIac, WriteIac, FindNeighbour,
              SetCurrentVersion, Answer, Keep, Compute, db, session
    <3> QED BY <1>2, <2>0, <3>1
  <2> QED BY <2>1, <2>2, <2>3
<1> QED BY <1>1, <1>2 DEF Seen

LEMMA NewVersionSettled ==
  ASSUME TypeInv, TurnInv, NEW p \in Request, CommitVersion(p), NEW iac \in BOOLEAN,
         NEW r, r = NewRow(p, iac), r \in rows'
  PROVE  Settled(r)'
<1> USE DEF TypeInv, TypeOK
<1>0. At(p, RunKinds \cup {Promote}, "commit") /\ p # NoRequest
  BY NoRequestAssumption DEF CommitVersion
<1>a. [Next]_vars
  BY DEF Next, Step
<1>1. /\ r \in Row
      /\ r.env = job[p].env /\ r.version = target[p] /\ r.hash = p /\ r.stored
      /\ job[p].kind = Promote => r.tracks = base[p].hash
      /\ job[p].kind # Promote => r.tracks = own[p].tracks
  BY <1>0, NewRowLoaded DEF NewRow, Loaded
<1>2. phase'[p] = "ok" /\ UNCHANGED <<result, stateObj>>
  BY DEF CommitVersion, Close, Goto, bucket
<1>3. Made(p)' = result[p] /\ Answered(p)'
  BY <1>0, <1>2 DEF Made, Answered
<1>4. StateOf(r)' = result[p]
  <2>1. stateObj[TargetPath(p)] = result[p]
    BY <1>0 DEF TurnInv, Writer, PutInPlace
  <2> QED BY <1>1, <1>2, <2>1 DEF StateOf, PathOf, TargetPath
<1>5. Answered(r.tracks)' /\ Made(r.tracks)' \subseteq result[p]
  <2>0. ResultOfOwn(p)
    BY DEF TurnInv, Writer
  <2>1. CASE job[p].kind = Promote
    <3>1. PICK b \in Seen : b = base[p]
      BY <1>0, <2>1 DEF Seen, WithBaseRow, HasBase, At
    <3>2. Answered(b.hash)
      BY DEF TurnInv, AllSettled, Settled
    <3>3. Answered(b.hash)' /\ Made(b.hash)' = Made(b.hash)
      BY <1>a, <3>2, MadeForGood
    <3>4. Made(b.hash) \subseteq result[p]
      BY <1>0, <2>0, <2>1, <3>1 DEF ResultOfOwn, HasBase, At
    <3>5. r.tracks = b.hash
      BY <1>1, <2>1, <3>1
    <3> QED BY <3>3, <3>4, <3>5
  <2>2. CASE job[p].kind # Promote
    <3>1. PICK o \in Seen : o = own[p]
      BY <1>0 DEF Seen, WithOwnRow, HasOwn, At, Waiting
    <3>2. Answered(o.tracks) /\ Made(o.tracks) \subseteq Made(o.hash)
      BY DEF TurnInv, AllSettled, Settled
    <3>3. Answered(o.tracks)' /\ Made(o.tracks)' = Made(o.tracks)
      BY <1>a, <3>2, MadeForGood
    <3>4. Made(o.hash) \subseteq result[p]
      BY <1>0, <2>0, <2>2, <3>1 DEF ResultOfOwn, At
    <3>5. r.tracks = o.tracks
      BY <1>1, <2>2, <3>1
    <3> QED BY <3>2, <3>3, <3>4, <3>5
  <2> QED BY <2>1, <2>2
<1>6. (\E s \in RowsOf(r.env) : r.version <= s.version)'
  BY <1>1 DEF RowsOf, Row
<1> QED BY <1>1, <1>3, <1>4, <1>5, <1>6 DEF Settled

\* The mark of an export changes nothing that Settled looks at.
LEMMA MarkSettled ==
  ASSUME NEW r \in Row, Settled(r)', [r EXCEPT !.iac = TRUE] \in Row
  PROVE  Settled([r EXCEPT !.iac = TRUE])'
<1> DEFINE x == [r EXCEPT !.iac = TRUE]
<1>1. /\ x.env = r.env /\ x.version = r.version /\ x.hash = r.hash
      /\ x.tracks = r.tracks /\ x.stored = r.stored
  BY DEF Row
<1>2. StateOf(x)' = StateOf(r)'
  BY <1>1 DEF StateOf, PathOf
<1> QED BY <1>1, <1>2 DEF Settled

LEMMA StepKeepsSettled ==
  ASSUME TypeInv, TurnInv, NEW p \in Request, Step(p)
  PROVE  AllSettled'
<1> SUFFICES ASSUME NEW h \in Seen' PROVE Settled(h)'
  BY DEF AllSettled
<1>0. [Next]_vars
  BY DEF Next
<1>1. CASE h \in Seen
  BY <1>0, <1>1, SettledStays
<1>2. CASE CommitVersion(p) /\ \E iac \in BOOLEAN : h = NewRow(p, iac)
  <2>1. PICK iac \in BOOLEAN : h = NewRow(p, iac)
    BY <1>2
  <2>2. h \in rows' \/ h \in Seen
    BY <1>2, SeenNext, SessionsSeen DEF Seen, WithOwnRow, WithBaseRow
  <2> QED BY <1>1, <1>2, <2>1, <2>2, NewVersionSettled
<1>3. CASE CommitIac(p) /\ \E r \in rows : h = [r EXCEPT !.iac = TRUE]
  <2>1. PICK r \in rows : h = [r EXCEPT !.iac = TRUE]
    BY <1>3
  <2>2. r \in Row /\ r \in Seen /\ [r EXCEPT !.iac = TRUE] \in Row
    BY DEF TypeInv, TypeOK, Seen, Row
  <2>3. Settled(r)'
    BY <1>0, <2>2, SettledStays
  <2> QED BY <2>1, <2>2, <2>3, MarkSettled
<1> QED BY <1>1, <1>2, <1>3, SeenNext

\* Whatever is seen next has the path and the hash of something seen before, or
\* is the version just added, at a path nobody has seen.
LEMMA StepKeepsOneHash ==
  ASSUME TypeInv, TurnInv, NEW p \in Request, Step(p)
  PROVE  OneHash'
<1>1. ASSUME NEW h \in Seen'
      PROVE  \/ \E g \in Seen : PathOf(g) = PathOf(h) /\ g.hash = h.hash
             \/ CommitVersion(p) /\ PathOf(h) = TargetPath(p) /\ h.hash = p
  <2>1. CASE h \in Seen
    BY <2>1
  <2>2. CASE CommitVersion(p) /\ \E iac \in BOOLEAN : h = NewRow(p, iac)
    BY <2>2 DEF NewRow, PathOf, TargetPath
  <2>3. CASE CommitIac(p) /\ \E r \in rows : h = [r EXCEPT !.iac = TRUE]
    <3>1. PICK r \in rows : h = [r EXCEPT !.iac = TRUE]
      BY <2>3
    <3>2. r \in Seen /\ PathOf(r) = PathOf(h) /\ r.hash = h.hash
      BY <3>1 DEF TypeInv, TypeOK, Row, PathOf, Seen
    <3> QED BY <3>2
  <2> QED BY <2>1, <2>2, <2>3, SeenNext
<1>2. ASSUME CommitVersion(p), NEW g \in Seen PROVE PathOf(g) # TargetPath(p)
  <2> SUFFICES ASSUME g.env = job[p].env, g.version = target[p] PROVE FALSE
    BY DEF PathOf, TargetPath
  <2>1. g.version < target[p]
    BY <1>2, NumberAbove DEF CommitVersion
  <2>2. g.version \in Nat
    BY SeenLoaded DEF Loaded, Row
  <2> QED BY <2>1, <2>2
<1>3. \A h : PathOf(h)' = PathOf(h)
  BY DEF PathOf
<1>4. ASSUME NEW g \in Seen', NEW h \in Seen', PathOf(g) = PathOf(h)
      PROVE  g.hash = h.hash
  BY <1>1, <1>2, <1>4 DEF TurnInv, OneHash
<1> QED BY <1>3, <1>4 DEF OneHash

LEMMA StepKeepsIac ==
  ASSUME TypeInv, TurnInv, NEW p \in Request, Step(p)
  PROVE  IacOfState'
<1> USE DEF TypeInv, TypeOK
<1>0. [Next]_vars
  BY DEF Next
<1>1. ASSUME NEW r \in rows, r.iac
      PROVE  PathOf(r) \in DOMAIN iacObj' /\ iacObj'[PathOf(r)] = Made(r.hash)
  <2>1. PathOf(r) \in DOMAIN iacObj /\ iacObj[PathOf(r)] = Made(r.hash)
    BY <1>1 DEF TurnInv, IacOfState
  <2>2. CASE UNCHANGED iacObj
    BY <2>1, <2>2
  <2>3. CASE WriteIac(p)
    <3>1. /\ iacObj' = Put(iacObj, PathOf(own[p]), result[p])
          /\ own[p] \in Seen /\ r \in Seen
          /\ result[p] = Made(own[p].hash)
      BY <2>3 DEF WriteIac, At, Seen, WithOwnRow, HasOwn, Waiting, TurnInv, Writer,
                  ResultOfOwn
    <3>2. PathOf(r) = PathOf(own[p]) => r.hash = own[p].hash
      BY <3>1 DEF TurnInv, OneHash
    <3> QED BY <2>1, <3>1, <3>2 DEF Put
  <2>4. ~WriteIac(p) => UNCHANGED iacObj
    BY DEF Step, Arrive, Crash, ChatLoad, RunLoad, RunEngine, EngineRefuses, ReadLatest,
           DeleteFuture, WriteState, CommitVersion, CommitFails, PromoteLoad, PromoteBase,
           PromoteCollect, PromoteEngine, IacLoad, ExportIac, CommitIac, FindNeighbour,
           SetCurrentVersion, Answer, Keep, Compute, bucket
  <2> QED BY <2>2, <2>3, <2>4
<1>2. ASSUME NEW r \in rows PROVE Made(r.hash)' = Made(r.hash)
  BY <1>0, MadeForGood DEF TurnInv, AllSettled, Settled, Seen
<1>3. ASSUME CommitVersion(p), NEW r \in rows', r \notin rows PROVE ~r.iac
  <2>1. ~\E s \in rows : TargetRow(p, s)
    <3> SUFFICES ASSUME NEW s \in rows, TargetRow(p, s) PROVE FALSE
      OBVIOUS
    <3>1. s \in Seen /\ s.env = job[p].env /\ s.version = target[p]
      BY DEF Seen, TargetRow, IsVersion, RowsOf
    <3>2. s.version < target[p] /\ s.version \in Nat
      BY <1>3, <3>1, NumberAbove DEF CommitVersion, Row
    <3> QED BY <3>1, <3>2
  <2>2. rows' = (rows \ Deleted(p)) \cup {NewRow(p, FALSE)}
    BY <1>3, <2>1 DEF CommitVersion
  <2> QED BY <1>3, <2>2 DEF NewRow
<1>4. ASSUME CommitIac(p), NEW r \in rows', r \notin rows
      PROVE  PathOf(r) \in DOMAIN iacObj' /\ iacObj'[PathOf(r)] = Made(r.hash)'
  <2>1. PICK s \in rows : PathOf(s) = PathOf(own[p]) /\ r = [s EXCEPT !.iac = TRUE]
    BY <1>4 DEF CommitIac, Answer, db
  <2>2. PathOf(r) = PathOf(s) /\ r.hash = s.hash
    BY <2>1 DEF Row, PathOf
  <2>3. own[p] \in Seen /\ s \in Seen
    BY <1>4 DEF Seen, WithOwnRow, HasOwn, CommitIac, At, Waiting
  <2>4. s.hash = own[p].hash
    BY <2>1, <2>3 DEF TurnInv, OneHash
  <2>5. /\ PathOf(own[p]) \in DOMAIN iacObj
        /\ iacObj[PathOf(own[p])] = Made(own[p].hash)
    BY <1>4 DEF CommitIac, At, TurnInv, Writer, PutInPlace, ResultOfOwn
  <2>6. UNCHANGED iacObj
    BY <1>4 DEF CommitIac, Answer, bucket
  <2> QED BY <1>2, <2>1, <2>2, <2>4, <2>5, <2>6
<1>5. ASSUME NEW r \in rows', r \notin rows
      PROVE  CommitVersion(p) \/ CommitIac(p)
  BY <1>5, SeenNext DEF Step, Arrive, Crash, ChatLoad, RunLoad, RunEngine, EngineRefuses,
       ReadLatest, DeleteFuture, WriteState, CommitFails, PromoteLoad, PromoteBase,
       PromoteCollect, PromoteEngine, IacLoad, ExportIac, WriteIac, FindNeighbour,
       SetCurrentVersion, Answer, Keep, Compute, db, session
<1>6. ASSUME NEW r \in rows', r.iac
      PROVE  PathOf(r) \in DOMAIN iacObj' /\ iacObj'[PathOf(r)] = Made(r.hash)'
  BY <1>1, <1>2, <1>3, <1>4, <1>5, <1>6
<1>7. \A r : PathOf(r)' = PathOf(r)
  BY DEF PathOf
<1> QED BY <1>6, <1>7 DEF IacOfState

LEMMA StepKeepsProdAtLatest ==
  ASSUME ProdNeverBack, TypeInv, TurnInv, NEW p \in Request, Step(p)
  PROVE  ProdAtLatest'
<1> USE DEF TypeInv, TypeOK
<1> SUFFICES ASSUME NEW r \in rows', r.env = PROD_ENV_ID
             PROVE  r.version <= current'[PROD_ENV_ID]
  BY DEF ProdAtLatest, RowsOf
<1>1. \A s \in rows : s.env = PROD_ENV_ID => s.version <= current[PROD_ENV_ID]
  BY DEF TurnInv, ProdAtLatest, RowsOf
<1>2. CASE CommitVersion(p)
  <2>1. PICK iac \in BOOLEAN : rows' = (rows \ Deleted(p)) \cup {NewRow(p, iac)}
    BY <1>2, CommitAdds
  <2>2. current' = [current EXCEPT ![job[p].env] = target[p]]
    BY <1>2 DEF CommitVersion
  <2>3. target[p] \in Nat /\ \A s \in rows : s.version \in Nat
    BY DEF Row
  <2>4. \A s \in rows : s.env = job[p].env => s.version < target[p]
    BY <1>2, NumberAbove DEF CommitVersion, Seen
  <2>5. r = NewRow(p, iac) => r.env = job[p].env /\ r.version = target[p]
    BY DEF NewRow
  <2>6. CASE job[p].env = PROD_ENV_ID
    BY <2>1, <2>2, <2>3, <2>4, <2>5, <2>6
  <2>7. CASE job[p].env # PROD_ENV_ID
    BY <1>1, <2>1, <2>2, <2>5, <2>7
  <2> QED BY <2>6, <2>7
<1>3. CASE CommitIac(p)
  <2>1. UNCHANGED current
    BY <1>3 DEF CommitIac, Answer, db
  <2>2. PICK s \in rows : s.env = r.env /\ s.version = r.version
    <3>1. CASE r \in rows
      BY <3>1
    <3>2. CASE r \notin rows
      <4>1. PICK s \in rows : r = [s EXCEPT !.iac = TRUE]
        BY <1>3, <3>2 DEF CommitIac, Answer, db
      <4> QED BY <4>1 DEF Row
    <3> QED BY <3>1, <3>2
  <2> QED BY <1>1, <2>1, <2>2
<1>4. CASE SetCurrentVersion(p)
  <2>1. job[p].kind \in MoveKinds /\ InFlight(p)
    BY <1>4 DEF SetCurrentVersion, At, InFlight, Waiting
  <2>2. job[p].env # PROD_ENV_ID
    BY <2>1 DEF TurnInv, Writer, KindAllowed, ProdNeverBack
  <2> QED BY <1>1, <1>4, <2>2 DEF SetCurrentVersion
<1>5. CASE ~CommitVersion(p) /\ ~CommitIac(p) /\ ~SetCurrentVersion(p)
  <2>1. UNCHANGED <<rows, current>>
    BY <1>5 DEF Step, Arrive, Crash, ChatLoad, RunLoad, RunEngine, EngineRefuses, ReadLatest,
         DeleteFuture, WriteState, CommitFails, PromoteLoad, PromoteBase,
         PromoteCollect, PromoteEngine, IacLoad, ExportIac, WriteIac, FindNeighbour,
         Answer, Keep, Compute, db, session
  <2> QED BY <1>1, <2>1
<1> QED BY <1>2, <1>3, <1>4, <1>5

\* The other requests of an environment are not numbered while one of them
\* writes; what they have loaded and computed stays as it was.
LEMMA OthersKeepWriting ==
  ASSUME TypeInv, TurnInv, InTurn, NEW p \in Request, Step(p),
         NEW q \in Request, q # p
  PROVE  Writer(q)'
<1> USE DEF TypeInv, TypeOK
<1>0. Writer(q) /\ Writer(p) /\ [Next]_vars
  BY DEF TurnInv, Next
<1>1. /\ phase'[q] = phase[q] /\ job'[q] = job[q] /\ own'[q] = own[q]
      /\ base'[q] = base[q] /\ result'[q] = result[q]
      /\ target'[q] = target[q] /\ future'[q] = future[q]
  BY OwnSession
<1>2. KindAllowed(q)' /\ OwnOfEnv(q)' /\ MarksInTurn(q)'
  BY <1>0, <1>1 DEF Writer, KindAllowed, OwnOfEnv, MarksInTurn, InFlight
<1>3. NumberFree(q)'
  <2>1. Numbered(q)' <=> Numbered(q)
    BY <1>1 DEF Numbered
  <2>2. ASSUME Numbered(q), NEW r \in rows', r.env = job[q].env
        PROVE  \E s \in rows : s.env = r.env /\ s.version = r.version
    <3>1. CASE CommitVersion(p)
      <4>1. Numbered(p)
        BY <3>1 DEF CommitVersion, At, Numbered
      <4>2. job[p].env # job[q].env
        BY <2>2, <4>1 DEF InTurn
      <4>3. PICK iac \in BOOLEAN : rows' = (rows \ Deleted(p)) \cup {NewRow(p, iac)}
        BY <3>1, CommitAdds
      <4>4. NewRow(p, iac).env = job[p].env
        BY DEF NewRow
      <4> QED BY <2>2, <4>2, <4>3, <4>4
    <3>2. CASE CommitIac(p) /\ r \notin rows
      <4>1. PICK s \in rows : r = [s EXCEPT !.iac = TRUE]
        BY <3>2 DEF CommitIac, Answer, db
      <4> QED BY <4>1 DEF Row
    <3>3. CASE ~CommitVersion(p) /\ ~CommitIac(p)
      <4>1. UNCHANGED rows
        BY <3>3 DEF Step, Arrive, Crash, ChatLoad, RunLoad, RunEngine, EngineRefuses,
             ReadLatest, DeleteFuture, WriteState, CommitFails, PromoteLoad, PromoteBase,
             PromoteCollect, PromoteEngine, IacLoad, ExportIac, WriteIac, FindNeighbour,
             SetCurrentVersion, Answer, Keep, Compute, db, session
      <4> QED BY <4>1
    <3> QED BY <3>1, <3>2, <3>3
  <2>3. NumberFree(q)
    BY <1>0 DEF Writer
  <2>4. ASSUME Numbered(q), NEW r \in rows', r.env = job[q].env
        PROVE  IF phase[q] \in {"base", "collect", "engine"} THEN r.version <= own[q].version
               ELSE r.version < target[q]
    BY <2>2, <2>3, <2>4 DEF NumberFree, RowsOf
  <2> QED BY <1>1, <2>1, <2>4 DEF NumberFree, RowsOf
<1>4. ResultOfOwn(q)'
  <2>1. ASSUME phase[q] \in {"latest", "future", "write", "commit"}
        PROVE  Made(own[q].hash)' = Made(own[q].hash)
    <3>1. PICK o \in Seen : o = own[q]
      BY <2>1 DEF Seen, WithOwnRow, HasOwn, Waiting
    <3>2. Made(o.hash)' = Made(o.hash)
      BY <1>0, MadeForGood DEF TurnInv, AllSettled, Settled
    <3>3. o = own'[q]
      BY <1>1, <3>1
    <3> QED BY <3>1, <3>2, <3>3
  <2>2. ASSUME phase[q] \in {"write", "commit"}, job[q].kind = Promote
        PROVE  Made(base[q].hash)' = Made(base[q].hash)
    <3>1. PICK b \in Seen : b = base[q]
      BY <2>2 DEF Seen, WithBaseRow, HasBase
    <3>2. Made(b.hash)' = Made(b.hash)
      BY <1>0, MadeForGood DEF TurnInv, AllSettled, Settled
    <3>3. b = base'[q]
      BY <1>1, <3>1
    <3> QED BY <3>1, <3>2, <3>3
  <2> QED BY <1>0, <1>1, <2>1, <2>2 DEF Writer, ResultOfOwn, HasBase
<1>5. PutInPlace(q)'
  <2>1. ASSUME At(q, RunKinds \cup {Promote}, "commit")
        PROVE  stateObj'[TargetPath(q)] = result[q]
    <3>1. stateObj[TargetPath(q)] = result[q] /\ TargetPath(q) \in DOMAIN stateObj
      BY <1>0, <2>1 DEF Writer, PutInPlace, LoadedInv, TargetPut
    <3>2. CASE WriteState(p)
      <4>1. Numbered(p) /\ Numbered(q)
        BY <2>1, <3>2 DEF WriteState, At, Numbered
      <4>2. TargetPath(p) # TargetPath(q)
        BY <4>1 DEF InTurn, TargetPath
      <4> QED BY <3>1, <3>2, <4>2 DEF WriteState, Put
    <3>3. ~WriteState(p) => UNCHANGED stateObj
      BY DEF Step, Arrive, Crash, ChatLoad, RunLoad, RunEngine, EngineRefuses, ReadLatest,
           DeleteFuture, CommitVersion, CommitFails, PromoteLoad, PromoteBase,
           PromoteCollect, PromoteEngine, IacLoad, ExportIac, WriteIac, CommitIac,
           FindNeighbour, SetCurrentVersion, Answer, Keep, Compute, bucket
    <3> QED BY <3>1, <3>2, <3>3
  <2>2. ASSUME At(q, {Iac}, "commit")
        PROVE  PathOf(own[q]) \in DOMAIN iacObj' /\ iacObj'[PathOf(own[q])] = result[q]
    <3>1. /\ PathOf(own[q]) \in DOMAIN iacObj /\ iacObj[PathOf(own[q])] = result[q]
          /\ result[q] = Made(own[q].hash)
      BY <1>0, <2>2 DEF Writer, PutInPlace, ResultOfOwn, At
    <3>2. CASE WriteIac(p)
      <4>1. own[p] \in Seen /\ own[q] \in Seen
        BY <2>2, <3>2 DEF Seen, WithOwnRow, HasOwn, Waiting, WriteIac, At
      <4>2. result[p] = Made(own[p].hash)
        BY <1>0, <3>2 DEF Writer, ResultOfOwn, WriteIac, At
      <4>3. PathOf(own[p]) = PathOf(own[q]) => result[p] = result[q]
        BY <3>1, <4>1, <4>2 DEF TurnInv, OneHash
      <4>4. iacObj' = Put(iacObj, PathOf(own[p]), result[p])
        BY <3>2 DEF WriteIac
      <4> QED BY <3>1, <4>3, <4>4 DEF Put
    <3>3. ~WriteIac(p) => UNCHANGED iacObj
      BY DEF Step, Arrive, Crash, ChatLoad, RunLoad, RunEngine, EngineRefuses, ReadLatest,
           DeleteFuture, WriteState, CommitVersion, CommitFails, PromoteLoad, PromoteBase,
           PromoteCollect, PromoteEngine, IacLoad, ExportIac, CommitIac, FindNeighbour,
           SetCurrentVersion, Answer, Keep, Compute, bucket
    <3> QED BY <3>1, <3>2, <3>3
  <2> QED BY <1>1, <2>1, <2>2 DEF PutInPlace, At, TargetPath, PathOf
<1> QED BY <1>2, <1>3, <1>4, <1>5 DEF Writer

\* A closed session claims nothing.
LEMMA ClosedIsFree ==
  ASSUME TypeInv, NEW p \in Request, NEW answer \in Answers, Close(p, answer)
  PROVE  Writer(p)'
<1>1. /\ phase'[p] \notin Waiting /\ job'[p] = Idle /\ future'[p] = {}
  BY DEF TypeInv, TypeOK, Close, Goto, Answers, Waiting
<1>2. /\ KindAllowed(p)' /\ OwnOfEnv(p)' /\ NumberFree(p)' /\ ResultOfOwn(p)'
      /\ PutInPlace(p)' /\ MarksInTurn(p)'
  BY <1>1 DEF KindAllowed, OwnOfEnv, NumberFree, ResultOfOwn, PutInPlace, MarksInTurn,
              Numbered, InFlight, HasOwn, At, Waiting
<1> QED BY <1>2 DEF Writer

\* The first steps, before a version is loaded
LEMMA EarlyWriter ==
  ASSUME TypeInv, TurnInv, NEW p \in Request,
         \/ Arrive(p)
         \/ phase[p] = "ask" /\ Goto(p, "load") /\ UNCHANGED <<db, bucket, session>>
            /\ \E v : job' = [job EXCEPT ![p].version = v]
         \/ At(p, {Undo, Redo}, "load") /\ Goto(p, "move")
            /\ UNCHANGED <<db, bucket, job, own, base, overrides, result, future>>
            /\ \E v : target' = [target EXCEPT ![p] = v]
  PROVE  Writer(p)'
<1> USE DEF TypeInv, TypeOK
<1>1. phase'[p] \in {"ask", "load", "move"}
  BY DEF Arrive, Goto, FirstStep
<1>2. OwnOfEnv(p)' /\ NumberFree(p)' /\ ResultOfOwn(p)' /\ PutInPlace(p)'
  BY <1>1 DEF OwnOfEnv, NumberFree, ResultOfOwn, PutInPlace, Numbered, HasOwn, At, Waiting
<1>3. phase[p] \notin {"write", "commit"} /\ UNCHANGED future
  BY DEF Arrive, At, session
<1>4. MarksInTurn(p)'
  BY <1>1, <1>3 DEF TurnInv, Writer, MarksInTurn
<1>5. KindAllowed(p)'
  <2>1. CASE Arrive(p)
    <3>1. PICK e \in Env, v \in Versions : \E kind \in Kinds[e] :
            job' = [job EXCEPT ![p] = [kind |-> kind, env |-> e, version |-> v]]
      BY <2>1 DEF Arrive
    <3>2. PICK kind \in Kinds[e] :
            job' = [job EXCEPT ![p] = [kind |-> kind, env |-> e, version |-> v]]
      BY <3>1
    <3>3. job'[p].kind = kind /\ job'[p].env = e
      BY <3>2
    <3> QED BY <3>3 DEF KindAllowed
  <2>2. CASE ~Arrive(p)
    <3>1. InFlight(p)
      BY <2>2 DEF InFlight, At, Waiting
    <3>2. job[p] \in Job
      OBVIOUS
    <3>3. job'[p].kind = job[p].kind /\ job'[p].env = job[p].env
      <4>1. CASE UNCHANGED job
        BY <4>1
      <4>2. CASE \E v : job' = [job EXCEPT ![p].version = v]
        BY <3>2, <4>2 DEF Job
      <4> QED BY <2>2, <4>1, <4>2
    <3> QED BY <3>1, <3>3 DEF TurnInv, Writer, KindAllowed
  <2> QED BY <2>1, <2>2
<1> QED BY <1>2, <1>4, <1>5 DEF Writer

\* A version is loaded: a promotion takes the latest of prod.
LEMMA LoadedWriter ==
  ASSUME TypeInv, TurnInv, NEW p \in Request, NEW r \in rows,
         \/ RunLoad(p) /\ BuildsOn(p, r) /\ Keep(p, r, "engine")
         \/ PromoteLoad(p) /\ IsCurrent(r, job[p].env) /\ Keep(p, r, "base")
         \/ IacLoad(p) /\ IsCurrent(r, job[p].env) /\ Keep(p, r, "engine")
  PROVE  Writer(p)'
<1> USE DEF TypeInv, TypeOK
<1>1. /\ phase[p] = "load" /\ UNCHANGED <<rows, current, job, future>>
      /\ own'[p] = r /\ phase'[p] \in {"engine", "base"}
      /\ job[p].kind \in RunKinds \cup {Iac} => phase'[p] = "engine"
      /\ job[p].kind \in RunKinds \cup {Iac, Promote}
  BY DEF RunLoad, PromoteLoad, IacLoad, At, Keep, Goto, db
<1>2. r.env = job[p].env
  BY DEF BuildsOn, IsCurrent, IsVersion, RowsOf
<1>3. KindAllowed(p)
  BY DEF TurnInv, Writer
<1>4. KindAllowed(p)' /\ OwnOfEnv(p)' /\ ResultOfOwn(p)' /\ PutInPlace(p)'
  BY <1>1, <1>2, <1>3 DEF KindAllowed, OwnOfEnv, ResultOfOwn, PutInPlace, InFlight, At,
                          Waiting
<1>5. MarksInTurn(p)'
  BY <1>1 DEF TurnInv, Writer, MarksInTurn
<1>6. NumberFree(p)'
  <2>1. CASE job[p].kind \in RunKinds \cup {Iac}
    BY <1>1, <2>1 DEF NumberFree, Numbered
  <2>2. CASE job[p].kind = Promote
    <3>1. job[p].env = PROD_ENV_ID
      BY <1>1, <1>3, <2>2, KindsAssumption DEF KindAllowed, InFlight, Waiting, Job
    <3>2. r.version = current[PROD_ENV_ID]
      BY <2>2, <3>1 DEF RunLoad, PromoteLoad, IacLoad, At, IsCurrent, IsVersion
    <3>3. \A s \in rows : s.env = PROD_ENV_ID => s.version <= r.version
      BY <3>2 DEF TurnInv, ProdAtLatest, RowsOf
    <3> QED BY <1>1, <3>1, <3>3 DEF NumberFree, RowsOf
  <2> QED BY <1>1, <2>1, <2>2
<1> QED BY <1>4, <1>5, <1>6 DEF Writer

\* Reads of a promotion
LEMMA PromotionReads ==
  ASSUME TypeInv, TurnInv, NEW p \in Request,
         \/ At(p, {Promote}, "base") /\ Goto(p, "collect")
            /\ UNCHANGED <<db, bucket, job, own, overrides, result, target, future>>
         \/ At(p, {Promote}, "collect") /\ Goto(p, "engine")
            /\ UNCHANGED <<db, bucket, job, own, base, result, target, future>>
  PROVE  Writer(p)'
<1> USE DEF TypeInv, TypeOK
<1>1. /\ phase[p] \in {"base", "collect"} /\ phase'[p] \in {"collect", "engine"}
      /\ job[p].kind = Promote /\ UNCHANGED <<rows, job, own, future>>
  BY DEF At, Goto, db
<1>2. Writer(p)
  BY DEF TurnInv
<1>3. KindAllowed(p)' /\ OwnOfEnv(p)' /\ ResultOfOwn(p)' /\ PutInPlace(p)' /\ MarksInTurn(p)'
  BY <1>1, <1>2 DEF Writer, KindAllowed, OwnOfEnv, ResultOfOwn, PutInPlace, MarksInTurn,
                    InFlight, HasOwn, At, Waiting
<1>4. NumberFree(p)'
  BY <1>1, <1>2 DEF Writer, NumberFree, Numbered, RowsOf
<1> QED BY <1>3, <1>4 DEF Writer

\* The engine, the merge of a promotion and the export work on what was loaded.
LEMMA ComputedWriter ==
  ASSUME TypeInv, TurnInv, NEW p \in Request,
         RunEngine(p) \/ PromoteEngine(p) \/ ExportIac(p)
  PROVE  Writer(p)'
<1> USE DEF TypeInv, TypeOK
<1>1. /\ phase[p] = "engine" /\ UNCHANGED <<rows, job, own, base, future>>
      /\ RunEngine(p) => job[p].kind \in RunKinds /\ phase'[p] = "latest"
      /\ PromoteEngine(p) => job[p].kind = Promote /\ phase'[p] = "write"
      /\ ExportIac(p) => job[p].kind = Iac /\ phase'[p] = "write"
  BY DEF RunEngine, PromoteEngine, ExportIac, Compute, Goto, At, db
<1>2. Writer(p) /\ [Next]_vars
  BY DEF TurnInv, Next, Step
<1>3. KindAllowed(p)' /\ OwnOfEnv(p)' /\ PutInPlace(p)' /\ MarksInTurn(p)'
  BY <1>1, <1>2 DEF Writer, KindAllowed, OwnOfEnv, PutInPlace, MarksInTurn, InFlight,
                    HasOwn, At, Waiting
<1>4. PICK o \in Seen : o = own[p]
  BY <1>1 DEF Seen, WithOwnRow, HasOwn, Waiting
<1>5. StateOf(o) = Made(o.hash) /\ Made(o.hash)' = Made(o.hash)
  BY <1>2, MadeForGood DEF TurnInv, AllSettled, Settled
<1>6. ResultOfOwn(p)'
  <2>1. CASE RunEngine(p)
    <3>1. result'[p] = StateOf(own[p]) \cup {p}
      BY <2>1 DEF RunEngine, Compute
    <3> QED BY <1>1, <1>4, <1>5, <2>1, <3>1 DEF ResultOfOwn
  <2>2. CASE ExportIac(p)
    <3>1. result'[p] = StateOf(own[p])
      BY <2>2 DEF ExportIac, Compute
    <3> QED BY <1>1, <1>4, <1>5, <2>2, <3>1 DEF ResultOfOwn
  <2>3. CASE PromoteEngine(p)
    <3>1. PICK b \in Seen : b = base[p]
      BY <1>1, <2>3 DEF Seen, WithBaseRow, HasBase
    <3>2. StateOf(b) = Made(b.hash) /\ Made(b.hash)' = Made(b.hash)
      BY <1>2, MadeForGood DEF TurnInv, AllSettled, Settled
    <3>3. result'[p] = StateOf(base[p]) \cup overrides[p]
      BY <2>3 DEF PromoteEngine, Compute
    <3> QED BY <1>1, <2>3, <3>1, <3>2, <3>3 DEF ResultOfOwn
  <2> QED BY <2>1, <2>2, <2>3
<1>7. NumberFree(p)'
  <2>1. CASE RunEngine(p) \/ ExportIac(p)
    BY <1>1, <2>1 DEF NumberFree, Numbered
  <2>2. CASE PromoteEngine(p)
    <3>1. target'[p] = own[p].version + 1 /\ own[p].version \in Nat
      BY <1>4, <2>2, SeenLoaded DEF PromoteEngine, Loaded, Row
    <3>2. \A r \in RowsOf(job[p].env) : r.version <= own[p].version
      BY <1>1, <1>2, <2>2 DEF Writer, NumberFree, Numbered
    <3>3. \A r \in rows : r.version \in Nat
      BY DEF Row
    <3>4. \A r \in RowsOf(job[p].env) : r.version < target'[p]
      BY <3>1, <3>2, <3>3 DEF RowsOf
    <3> QED BY <1>1, <2>2, <3>4 DEF NumberFree, RowsOf
  <2> QED BY <2>1, <2>2
<1> QED BY <1>3, <1>6, <1>7 DEF Writer

\* A run takes the number after the latest, an overwrite marks what it deletes.
LEMMA NumberingWriter ==
  ASSUME TypeInv, TurnInv, NEW p \in Request, ReadLatest(p) \/ DeleteFuture(p)
  PROVE  Writer(p)'
<1> USE DEF TypeInv, TypeOK
<1>1. /\ phase[p] \in {"latest", "future"} /\ phase'[p] \in {"future", "write"}
      /\ job[p].kind \in RunKinds
      /\ UNCHANGED <<rows, stateObj, iacObj, job, own, base, result>>
  BY DEF ReadLatest, DeleteFuture, At, Goto, db, bucket
<1>2. Writer(p) /\ [Next]_vars
  BY DEF TurnInv, Next, Step
<1>3. KindAllowed(p)' /\ OwnOfEnv(p)' /\ PutInPlace(p)'
  BY <1>1, <1>2 DEF Writer, KindAllowed, OwnOfEnv, PutInPlace, InFlight, HasOwn, At, Waiting
<1>4. PICK o \in Seen : o = own[p]
  BY <1>1 DEF Seen, WithOwnRow, HasOwn, Waiting
<1>5. Made(o.hash)' = Made(o.hash)
  BY <1>2, MadeForGood DEF TurnInv, AllSettled, Settled
<1>6. ResultOfOwn(p)'
  BY <1>1, <1>2, <1>4, <1>5 DEF Writer, ResultOfOwn
<1>7. MarksInTurn(p)'
  <2>1. CASE ReadLatest(p)
    <3>1. phase[p] = "latest" /\ UNCHANGED future
      BY <2>1 DEF ReadLatest, At
    <3> QED BY <1>1, <1>2, <3>1 DEF Writer, MarksInTurn
  <2>2. CASE DeleteFuture(p)
    <3>1. job'[p].kind = Overwrite /\ phase'[p] = "write"
      BY <1>1, <2>2 DEF DeleteFuture, At, Goto
    <3> QED BY <3>1 DEF MarksInTurn
  <2> QED BY <2>1, <2>2
<1>8. NumberFree(p)'
  <2>1. CASE ReadLatest(p)
    <3>1. PICK r \in rows : IsLatest(r, job[p].env) /\ target'[p] = r.version + 1
      BY <2>1 DEF ReadLatest
    <3>2. \A s \in rows : s.version \in Nat
      BY DEF Row
    <3>3. \A s \in RowsOf(job[p].env) : s.version < target'[p]
      BY <3>1, <3>2 DEF IsLatest, RowsOf
    <3> QED BY <1>1, <3>3 DEF NumberFree, RowsOf
  <2>2. CASE DeleteFuture(p)
    <3>1. phase[p] = "future" /\ UNCHANGED target
      BY <2>2 DEF DeleteFuture, At
    <3> QED BY <1>1, <1>2, <3>1 DEF Writer, NumberFree, Numbered, RowsOf
  <2> QED BY <2>1, <2>2
<1> QED BY <1>3, <1>6, <1>7, <1>8 DEF Writer

\* The puts
LEMMA PuttingWriter ==
  ASSUME TypeInv, TurnInv, NEW p \in Request, WriteState(p) \/ WriteIac(p)
  PROVE  Writer(p)'
<1> USE DEF TypeInv, TypeOK
<1>1. /\ phase[p] = "write" /\ phase'[p] = "commit"
      /\ UNCHANGED <<rows, job, own, base, result, target, future>>
      /\ WriteState(p) => job[p].kind \in RunKinds \cup {Promote}
      /\ WriteIac(p) => job[p].kind = Iac
  BY DEF WriteState, WriteIac, At, Goto, db, session
<1>2. Writer(p) /\ [Next]_vars
  BY DEF TurnInv, Next, Step
<1>3. KindAllowed(p)' /\ OwnOfEnv(p)' /\ MarksInTurn(p)'
  BY <1>1, <1>2 DEF Writer, KindAllowed, OwnOfEnv, MarksInTurn, InFlight, HasOwn, Waiting
<1>4. NumberFree(p)'
  BY <1>1, <1>2 DEF Writer, NumberFree, Numbered, RowsOf
<1>5. PICK o \in Seen : o = own[p]
  BY <1>1 DEF Seen, WithOwnRow, HasOwn, Waiting
<1>6. Made(o.hash)' = Made(o.hash)
  BY <1>2, MadeForGood DEF TurnInv, AllSettled, Settled
<1>7. ResultOfOwn(p)'
  <2>1. CASE job[p].kind = Promote
    <3>1. PICK b \in Seen : b = base[p]
      BY <1>1, <2>1 DEF Seen, WithBaseRow, HasBase
    <3>2. Made(b.hash)' = Made(b.hash)
      BY <1>2, MadeForGood DEF TurnInv, AllSettled, Settled
    <3> QED BY <1>1, <1>2, <2>1, <3>1, <3>2 DEF Writer, ResultOfOwn, HasBase
  <2>2. CASE job[p].kind # Promote
    BY <1>1, <1>2, <1>5, <1>6, <2>2 DEF Writer, ResultOfOwn
  <2> QED BY <2>1, <2>2
<1>8. PutInPlace(p)'
  <2>1. CASE WriteState(p)
    <3>1. stateObj'[TargetPath(p)] = result[p]
      BY <2>1 DEF WriteState, Put
    <3>2. TargetPath(p)' = TargetPath(p)
      BY <1>1 DEF TargetPath
    <3> QED BY <1>1, <2>1, <3>1, <3>2 DEF PutInPlace, At
  <2>2. CASE WriteIac(p)
    <3>1. PathOf(own[p]) \in DOMAIN iacObj' /\ iacObj'[PathOf(own[p])] = result[p]
      BY <2>2 DEF WriteIac, Put
    <3>2. PathOf(own[p])' = PathOf(own[p])
      BY <1>1 DEF PathOf
    <3> QED BY <1>1, <2>2, <3>1, <3>2 DEF PutInPlace, At
  <2> QED BY <2>1, <2>2
<1> QED BY <1>3, <1>4, <1>7, <1>8 DEF Writer

LEMMA StepKeepsWriting ==
  ASSUME TypeInv, TurnInv, InTurn, NEW p \in Request, Step(p), NEW q \in Request
  PROVE  Writer(q)'
<1>1. CASE q # p
  BY <1>1, OthersKeepWriting
<1>2. CASE q = p /\ \E answer \in Answers : Close(p, answer)
  BY <1>2, ClosedIsFree
<1>3. CASE q = p /\ GoesOn(p)
  BY <1>3, EarlyWriter, LoadedWriter, PromotionReads, ComputedWriter, NumberingWriter,
     PuttingWriter DEF GoesOn
<1> QED BY <1>1, <1>2, <1>3, EndsOrGoesOn

LEMMA NextKeepsTurnInv ==
  ASSUME ProdNeverBack, TypeInv, TurnInv, InTurn, [Next]_vars
  PROVE  TurnInv'
<1>1. ASSUME NEW p \in Request, Step(p) PROVE TurnInv'
  <2>1. AllSettled' /\ OneHash' /\ IacOfState'
    BY <1>1, StepKeepsSettled, StepKeepsOneHash, StepKeepsIac
  <2>2. ProdAtLatest'
    BY <1>1, StepKeepsProdAtLatest
  <2>3. \A q \in Request : Writer(q)'
    BY <1>1, StepKeepsWriting
  <2> QED BY <2>1, <2>2, <2>3 DEF TurnInv
<1>2. CASE UNCHANGED vars
  <2> USE <1>2 DEF vars, db, bucket, session, TurnInv
  <2>1. Seen' = Seen
    BY DEF Seen, WithOwnRow, WithBaseRow
  <2>2. AllSettled' /\ OneHash' /\ IacOfState' /\ ProdAtLatest'
    BY <2>1 DEF AllSettled, Settled, OneHash, IacOfState, ProdAtLatest, Answered, StateOf,
                Made, PathOf, RowsOf
  <2>3. \A q \in Request : Writer(q)'
    BY DEF Writer, KindAllowed, OwnOfEnv, NumberFree, ResultOfOwn, PutInPlace, MarksInTurn,
           Numbered, InFlight, At, TargetPath, PathOf, RowsOf, Made
  <2> QED BY <2>2, <2>3
<1> QED BY <1>1, <1>2 DEF Next, Quiet

LEMMA InitTurnInv == Init => TurnInv
<1> SUFFICES ASSUME Init PROVE TurnInv
  OBVIOUS
<1>1. \A q \in Request : phase[q] = "idle" /\ future[q] = {} /\ job[q].kind = Iac
  BY DEF Init
<1>2. rows = {FirstRow(e) : e \in Env} /\ current = [e \in Env |-> 0]
  BY DEF Init
<1>3. Seen = rows
  BY <1>1 DEF Seen, WithOwnRow, WithBaseRow, HasOwn, HasBase, Waiting
<1>4. \A r \in rows : /\ r.hash = NoRequest /\ r.tracks = NoRequest
                      /\ ~r.stored /\ ~r.iac /\ r.version = 0
  BY <1>2 DEF FirstRow
<1>5. AllSettled
  BY <1>3, <1>4 DEF AllSettled, Settled, Answered, StateOf, Made, RowsOf
<1>6. OneHash /\ IacOfState
  BY <1>3, <1>4 DEF OneHash, IacOfState
<1>7. ProdAtLatest
  BY <1>2, <1>4 DEF ProdAtLatest, RowsOf
<1>8. \A q \in Request : Writer(q)
  BY <1>1 DEF Writer, KindAllowed, OwnOfEnv, NumberFree, ResultOfOwn, PutInPlace, MarksInTurn,
              Numbered, InFlight, HasOwn, At, Waiting
<1> QED BY <1>5, <1>6, <1>7, <1>8 DEF TurnInv

LEMMA TurnInvHolds ==
  ASSUME ProdNeverBack
  PROVE  Spec /\ []InTurn => [](TypeInv /\ TurnInv)
<1>1. TypeInv /\ TurnInv /\ InTurn /\ [Next]_vars => TypeInv' /\ TurnInv'
  BY ProdNeverBack, NextKeepsTypeInv, NextKeepsTurnInv
<1> QED BY <1>1, InitTypeInv, InitTurnInv, PTL DEF Spec

\* If the numbers of an environment are taken in turn, and prod is never moved
\* back, every version has the state it was made with, whatever else overlaps:
\* runs in the engine or waiting for the assistant, exports, undo and redo in
\* the base, a promotion with the runs of the base, crashes after a put.
THEOREM StatesAreOwnInTurn ==
  ASSUME ProdNeverBack
  PROVE  Spec /\ []InTurn => []EveryOwnState
<1>1. TypeInv /\ TurnInv => EveryOwnState
  BY DEF TypeInv, LoadedInv, RowsLocated, Located, TurnInv, AllSettled, Settled, Seen,
         EveryOwnState, OwnState, RowsOf, StateOf
<1> QED BY <1>1, TurnInvHolds, PTL

\* And the IaC offered for a version was exported from its own state, although
\* an export puts its archive without looking whether its version still exists.
THEOREM IacIsOwnInTurn ==
  ASSUME ProdNeverBack
  PROVE  Spec /\ []InTurn => []IacOfState
<1>1. TurnInv => IacOfState
  BY DEF TurnInv
<1> QED BY <1>1, TurnInvHolds, PTL

\* And is_in_sync does not lie: prod holds every edit of the version it tracks,
\* although the promotion read that version before the base went on.
THEOREM SyncedHoldsBaseInTurn ==
  ASSUME ProdNeverBack
  PROVE  Spec /\ []InTurn => []InSyncHasBase
<1>1. TurnInv => InSyncHasBase
  <2> SUFFICES ASSUME TurnInv, NEW r \in rows, NEW b \in rows, r.tracks = b.hash
               PROVE  Made(b.hash) \subseteq Made(r.hash)
    BY DEF InSyncHasBase
  <2>1. Settled(r)
    BY DEF TurnInv, AllSettled, Seen
  <2> QED BY <2>1 DEF Settled
<1> QED BY <1>1, TurnInvHolds, PTL

\* And no number is used again: the latest version never drops.
THEOREM NumbersNeverReusedInTurn ==
  ASSUME ProdNeverBack
  PROVE  Spec /\ []InTurn => LatestNeverDrops
<1>1. TypeInv /\ TurnInv /\ [Next]_vars =>
        [\A e \in Env, r \in rows : IsLatest(r, e)
           => \E s \in rows' : s.env = e /\ s.version >= r.version]_vars
  <2> SUFFICES ASSUME TypeInv, TurnInv, [Next]_vars, NEW e \in Env, NEW r \in rows,
                      IsLatest(r, e)
               PROVE  \E s \in rows' : s.env = e /\ s.version >= r.version
    OBVIOUS
  <2>1. PICK s \in rows' : s.env = r.env /\ r.version <= s.version
    BY LatestGrows
  <2>2. r.env = e /\ r.version \in Nat /\ s.version \in Nat
    BY NextKeepsTypeInv DEF TypeInv, TypeOK, Row, IsLatest, RowsOf
  <2> QED BY <2>1, <2>2
<1> QED BY <1>1, TurnInvHolds, PTL DEF LatestNeverDrops, Spec

\* And a promotion for which the engine has returned a state is committed.
THEOREM PromotionsCommitInTurn ==
  ASSUME ProdNeverBack
  PROVE  Spec /\ []InTurn => PromoteCommits
<1>1. TypeInv /\ TurnInv => [\A p \in Request : ~(CommitFails(p) /\ job[p].kind = Promote)]_vars
  <2> SUFFICES ASSUME TypeInv, TurnInv, NEW p \in Request, CommitFails(p),
                      job[p].kind = Promote
               PROVE  FALSE
    OBVIOUS
  <2>1. future[p] = {}
    BY DEF TurnInv, Writer, MarksInTurn
  <2>2. PICK r \in rows : TargetRow(p, r)
    BY <2>1 DEF CommitFails, Writable
  <2>3. r \in Seen /\ r.env = job[p].env /\ r.version = target[p]
    BY <2>2 DEF TargetRow, IsVersion, RowsOf, Seen
  <2>4. r.version < target[p] /\ r.version \in Nat
    BY <2>3, NumberAbove, SeenLoaded DEF CommitFails, Loaded, Row
  <2> QED BY <2>3, <2>4
<1> QED BY <1>1, TurnInvHolds, PTL DEF PromoteCommits

\* And a promotion commits only if the version it started from is still the
\* current one, although clients may overwrite and move the base back.
THEOREM PromotionIsOptimisticInTurn ==
  ASSUME ProdNeverBack
  PROVE  Spec /\ []InTurn => PromoteFromCurrent
<1> DEFINE FromCurrent ==
      \A p \in Request : job[p].kind = Promote /\ Numbered(p)
        => own[p].version = current[job[p].env]
<1>1. ASSUME TypeInv, TurnInv, InTurn, FromCurrent, [Next]_vars PROVE FromCurrent'
  <2> USE DEF TypeInv, TypeOK
  <2>1. ASSUME NEW q \in Request, Step(q), NEW p \in Request,
               job'[p].kind = Promote, Numbered(p)'
        PROVE  own'[p].version = current'[job'[p].env]
    <3>1. CASE p # q
      <4>1. /\ job'[p] = job[p] /\ own'[p] = own[p] /\ job[p].kind = Promote /\ Numbered(p)
        BY <1>1, <2>1, <3>1, OwnSession DEF Numbered
      <4>2. job[p].env = PROD_ENV_ID
        BY <1>1, <4>1, KindsAssumption DEF TurnInv, Writer, KindAllowed, InFlight, Numbered,
                                           Waiting, Job
      <4>3. ~(CommitVersion(q) /\ job[q].env = PROD_ENV_ID)
        BY <1>1, <3>1, <4>1, <4>2 DEF InTurn, CommitVersion, At, Numbered
      <4>4. ~(SetCurrentVersion(q) /\ job[q].env = PROD_ENV_ID)
        BY <1>1, ProdNeverBack DEF ProdNeverBack, TurnInv, Writer, KindAllowed, InFlight,
                                   SetCurrentVersion, At, Waiting
      <4>5. current'[PROD_ENV_ID] = current[PROD_ENV_ID]
        BY <1>1, <2>1, <4>3, <4>4, PointerMoves
      <4> QED BY <1>1, <4>1, <4>2, <4>5
    <3>2. CASE p = q
      <4>1. ~\E answer \in Answers : Close(p, answer)
        BY <1>1, <2>1 DEF Close, Goto, Answers, Numbered
      <4>2. ~CommitVersion(p) /\ ~SetCurrentVersion(p)
        BY <4>1 DEF CommitVersion, SetCurrentVersion, Answers
      <4>3. current'[job[p].env] = current[job[p].env]
        BY <1>1, <2>1, <3>2, <4>2, PointerMoves DEF Job
      <4>4. GoesOn(p)
        BY <2>1, <3>2, <4>1, EndsOrGoesOn
      <4>5. CASE \E r \in rows : /\ PromoteLoad(p) /\ IsCurrent(r, job[p].env)
                                 /\ Keep(p, r, "base")
        BY <1>1, <3>2, <4>3, <4>5 DEF Keep, IsCurrent, IsVersion
      <4>6. CASE ~\E r \in rows : /\ PromoteLoad(p) /\ IsCurrent(r, job[p].env)
                                  /\ Keep(p, r, "base")
        <5>1. UNCHANGED <<own, job>> /\ job[p].kind = Promote /\ Numbered(p)
          <6>1. CASE Arrive(p)
            BY <1>1, <2>1, <6>1 DEF Arrive, Goto, FirstStep, Numbered
          <6>2. CASE phase[p] = "ask" /\ Goto(p, "load")
            BY <1>1, <2>1, <6>2 DEF Goto, Numbered
          <6>3. CASE RunLoad(p) \/ IacLoad(p)
            BY <1>1, <2>1, <3>2, <4>1, <6>3 DEF RunLoad, IacLoad, At, Keep, Answer, Answers, Refusal
          <6>4. CASE ~Arrive(p) /\ ~(phase[p] = "ask" /\ Goto(p, "load"))
                     /\ ~RunLoad(p) /\ ~IacLoad(p)
            <7>1. UNCHANGED <<own, job>>
              BY <4>4, <4>6, <6>4 DEF GoesOn, RunEngine, ReadLatest, DeleteFuture, WriteState,
                   PromoteEngine, ExportIac, WriteIac, Compute, session
            <7>2. job[p].kind = Promote => phase[p] \in {"base", "collect", "engine", "write"}
              BY <4>4, <4>6, <6>4 DEF GoesOn, RunEngine, ReadLatest, DeleteFuture, WriteState,
                   PromoteEngine, ExportIac, WriteIac, At
            <7> QED BY <2>1, <7>1, <7>2 DEF Numbered
          <6> QED BY <6>1, <6>2, <6>3, <6>4
        <5> QED BY <1>1, <3>2, <4>3, <5>1
      <4> QED BY <4>5, <4>6
    <3> QED BY <3>1, <3>2
  <2>2. CASE UNCHANGED vars
    BY <1>1, <2>2 DEF vars, db, session, Numbered
  <2> QED BY <1>1, <2>1, <2>2 DEF Next, Quiet
<1>2. Init => FromCurrent
  BY DEF Init, Numbered
<1>3. FromCurrent => [\A p \in Request : CommitVersion(p) /\ job[p].kind = Promote
                        => own[p].version = current[job[p].env]]_vars
  BY DEF CommitVersion, At, Numbered
<1>4. TypeInv /\ TurnInv /\ InTurn /\ FromCurrent /\ [Next]_vars => FromCurrent'
  BY <1>1
<1> HIDE DEF FromCurrent
<1> QED BY <1>2, <1>3, <1>4, TurnInvHolds, PTL DEF PromoteFromCurrent, Spec

-----------------------------------------------------------------------------
(* What a lock per environment would give *)

\* A run or a promotion is at work once it has loaded the version it follows, a
\* move once it knows where to.
Adds(p) == job[p].kind \in RunKinds \cup {Promote} /\ phase[p] \in HasOwn
Moves(p) == job[p].kind \in MoveKinds /\ phase[p] = "move"

AtWork(p) == Adds(p) \/ Moves(p)

\* No two are at work on one environment.
OnePerEnv ==
  \A p, q \in Request : AtWork(p) /\ AtWork(q) /\ job[p].env = job[q].env => p = q

(***************************************************************************)
(* The invariant then says where the edits of prod are, and of a request   *)
(* at work that what it has read of its environment is still so.           *)
(***************************************************************************)
Done == {p \in Request : phase[p] = "ok"}

\* Edits that are listed or in a state are of requests that are done.
EditsDone ==
  /\ \A r \in rows : r.constraints \subseteq Done
  /\ \A p \in Request : result[p] \subseteq Done \cup {p} /\ overrides[p] \subseteq Done

\* An edit made in prod that a version of prod holds is listed by an earlier
\* version, or itself, that tracks what it tracks: where get_overrides looks.
OverridesTracked ==
  \A r \in RowsOf(PROD_ENV_ID) : \A x \in Made(r.hash) :
    (\E s \in RowsOf(PROD_ENV_ID) : x \in s.constraints)
    => \E s \in RowsOf(PROD_ENV_ID) :
         s.version <= r.version /\ s.tracks = r.tracks /\ x \in s.constraints

\* The edits made in prod never reach the base, versions a promotion still has
\* included.
OverridesApart ==
  \A b \in Seen, s \in RowsOf(PROD_ENV_ID) :
    b.env = BASE_ENV_ID => Made(b.hash) \cap s.constraints = {}

\* One version, but for the mark of an export
Like(s, r) ==
  /\ s.env = r.env /\ s.version = r.version /\ s.hash = r.hash
  /\ s.tracks = r.tracks /\ s.constraints = r.constraints

OwnThere(p) ==
  Adds(p) =>
    /\ \E r \in rows : Like(r, own[p])
    /\ job[p].kind # Overwrite => own[p].version = current[job[p].env]
    /\ job[p].kind \in RunKinds => own[p].version = job[p].version

TargetExists(p) ==
  job[p].kind \in {Undo, Redo} /\ phase[p] = "move" =>
    \E r \in RowsOf(job[p].env) : r.version = target[p]

LaterMarked(p) ==
  job[p].kind = Overwrite /\ phase[p] \in {"write", "commit"} =>
    \A r \in RowsOf(job[p].env) : r.version \in future[p] <=> own[p].version < r.version

BaseOfBase(p) ==
  job[p].kind = Promote /\ phase[p] \in HasBase => base[p].env = BASE_ENV_ID

Gathered(p) ==
  job[p].kind = Promote /\ phase[p] \in {"engine", "write", "commit"} =>
    overrides[p] = UNION {s.constraints : s \in TrackingRows(job[p].env, own[p].tracks)}

Merged(p) ==
  job[p].kind = Promote /\ phase[p] \in {"write", "commit"} =>
    result[p] = Made(base[p].hash) \cup overrides[p]

Worker(p) ==
  /\ OwnThere(p) /\ TargetExists(p) /\ LaterMarked(p)
  /\ BaseOfBase(p) /\ Gathered(p) /\ Merged(p)

WorkInv ==
  /\ EditsDone /\ OverridesTracked /\ OverridesApart
  /\ \A p \in Request : Worker(p)

\* Whoever is numbered is at work, so numbers are taken in turn.
LEMMA OneWorkerIsInTurn == OnePerEnv => InTurn
BY DEF OnePerEnv, InTurn, AtWork, Adds, Numbered, HasOwn, Waiting

\* What a step makes of the table: at most a commit takes versions away, and it
\* adds one; the others stay, but for the mark of an export.
LEMMA RowsLike ==
  ASSUME TypeInv, NEW p \in Request, Step(p)
  PROVE  /\ \A r \in rows : \/ CommitVersion(p) /\ r \in Deleted(p)
                            \/ \E s \in rows' : Like(s, r)
         /\ \A s \in rows' : \/ \E r \in rows : Like(s, r)
                             \/ CommitVersion(p) /\ \E iac \in BOOLEAN : s = NewRow(p, iac)
<1> USE DEF TypeInv, TypeOK
<1>1. CASE CommitVersion(p)
  <2>1. PICK iac \in BOOLEAN : rows' = (rows \ Deleted(p)) \cup {NewRow(p, iac)}
    BY <1>1, CommitAdds
  <2> QED BY <1>1, <2>1 DEF Like
<1>2. CASE CommitIac(p) /\ ~UNCHANGED rows
  <2>1. PICK t \in rows : rows' = (rows \ {t}) \cup {[t EXCEPT !.iac = TRUE]}
    BY <1>2 DEF CommitIac, Answer, db
  <2>2. Like([t EXCEPT !.iac = TRUE], t) /\ \A r : Like(r, r)
    BY DEF Like, Row
  <2> QED BY <2>1, <2>2
<1>3. CASE UNCHANGED rows
  BY <1>3 DEF Like
<1>4. ASSUME ~CommitVersion(p), ~CommitIac(p) PROVE UNCHANGED rows
  BY <1>4 DEF Step, Arrive, Crash, ChatLoad, RunLoad, RunEngine, EngineRefuses,
       ReadLatest, DeleteFuture, WriteState, CommitFails, PromoteLoad, PromoteBase,
       PromoteCollect, PromoteEngine, IacLoad, ExportIac, WriteIac, FindNeighbour,
       SetCurrentVersion, Answer, Keep, Compute, db, session
<1> QED BY <1>1, <1>2, <1>3, <1>4

\* The edits of a version somebody can see are done.
LEMMA MadeDone ==
  ASSUME TurnInv, EditsDone, NEW h \in Seen
  PROVE  Made(h.hash) \subseteq Done
<1>1. Answered(h.hash)
  BY DEF TurnInv, AllSettled, Settled
<1> QED BY <1>1 DEF Answered, Made, EditsDone, Done

LEMMA DoneGrows ==
  ASSUME TypeInv, NEW p \in Request, Step(p)
  PROVE  Done \subseteq Done' /\ p \notin Done
BY OwnSession DEF Done

LEMMA StepKeepsEditsDone ==
  ASSUME TypeInv, TurnInv, EditsDone, NEW p \in Request, Step(p)
  PROVE  EditsDone'
<1> USE DEF TypeInv, TypeOK
<1>1. Done \subseteq Done'
  BY DoneGrows
<1>2. ASSUME NEW s \in rows' PROVE s.constraints \subseteq Done'
  <2>1. CASE \E r \in rows : Like(s, r)
    BY <1>1, <2>1 DEF EditsDone, Like
  <2>2. CASE CommitVersion(p) /\ \E iac \in BOOLEAN : s = NewRow(p, iac)
    <3>1. p \in Done'
      BY <2>2 DEF CommitVersion, Close, Goto, Done
    <3>2. overrides[p] \subseteq Done'
      BY <1>1 DEF EditsDone
    <3>3. s.constraints = IF job[p].kind = Promote THEN overrides[p] ELSE {p}
      BY <2>2 DEF NewRow
    <3> QED BY <3>1, <3>2, <3>3
  <2> QED BY <2>1, <2>2, RowsLike
<1>3. ASSUME NEW q \in Request
      PROVE  result'[q] \subseteq Done' \cup {q} /\ overrides'[q] \subseteq Done'
  <2>1. result[q] \subseteq Done' \cup {q} /\ overrides[q] \subseteq Done'
    BY <1>1 DEF EditsDone
  <2>2. CASE q # p
    BY <2>1, <2>2, OwnSession
  <2>3. CASE q = p
    <3>1. CASE PromoteCollect(p)
      <4>1. /\ UNCHANGED result \/ result'[p] = {}
            /\ \/ overrides'[p] = {}
               \/ \E t : overrides'[p] = UNION {s.constraints : s \in TrackingRows(job[p].env, t)}
        BY <3>1 DEF PromoteCollect, Answer, Close
      <4>2. \A s \in rows : s.constraints \subseteq Done'
        BY <1>1 DEF EditsDone
      <4> QED BY <2>1, <2>3, <4>1, <4>2 DEF TrackingRows, RowsOf
    <3>2. CASE RunEngine(p) \/ ExportIac(p)
      <4>1. PICK o \in Seen : o = own[p]
        BY <3>2 DEF RunEngine, ExportIac, At, Seen, WithOwnRow, HasOwn, Waiting
      <4>2. StateOf(o) \subseteq Done'
        BY <1>1, <4>1, MadeDone DEF TurnInv, AllSettled, Settled
      <4>3. result'[p] \subseteq StateOf(own[p]) \cup {p} /\ UNCHANGED overrides
        BY <3>2 DEF RunEngine, ExportIac, Compute
      <4> QED BY <2>1, <2>3, <4>1, <4>2, <4>3
    <3>3. CASE PromoteEngine(p)
      <4>1. PICK b \in Seen : b = base[p]
        BY <3>3 DEF PromoteEngine, At, Seen, WithBaseRow, HasBase
      <4>2. StateOf(b) \subseteq Done'
        BY <1>1, <4>1, MadeDone DEF TurnInv, AllSettled, Settled
      <4>3. result'[p] = StateOf(base[p]) \cup overrides[p] /\ UNCHANGED overrides
        BY <3>3 DEF PromoteEngine, Compute
      <4> QED BY <2>1, <2>3, <4>1, <4>2, <4>3
    <3>4. CASE ~PromoteCollect(p) /\ ~RunEngine(p) /\ ~ExportIac(p) /\ ~PromoteEngine(p)
      <4>1. /\ UNCHANGED result \/ result'[p] = {}
            /\ UNCHANGED overrides \/ overrides'[p] = {}
        BY <3>4 DEF Step, Arrive, Crash, ChatLoad, RunLoad, EngineRefuses,
             ReadLatest, DeleteFuture, WriteState, CommitVersion, CommitFails, PromoteLoad,
             PromoteBase, IacLoad, WriteIac, CommitIac, FindNeighbour,
             SetCurrentVersion, Answer, Close, Keep, session
      <4> QED BY <2>1, <2>3, <4>1
    <3> QED BY <3>1, <3>2, <3>3, <3>4
  <2> QED BY <2>2, <2>3
<1> QED BY <1>2, <1>3 DEF EditsDone

\* The edit of a request that adds is new: no version seen holds it, and none of
\* prod lists it.
LEMMA EditIsNew ==
  ASSUME TypeInv, TurnInv, EditsDone, NEW p \in Request, Step(p)
  PROVE  /\ \A h \in Seen : p \notin Made(h.hash)
         /\ \A r \in rows : p \notin r.constraints
<1>1. p \notin Done
  BY DoneGrows
<1> QED BY <1>1, MadeDone DEF EditsDone

\* What the new version of a run or a promotion holds and lists
LEMMA NewVersion ==
  ASSUME TypeInv, TurnInv, WorkInv, NEW p \in Request, CommitVersion(p),
         NEW iac \in BOOLEAN, NEW n, n = NewRow(p, iac)
  PROVE  /\ n.env = job[p].env /\ n.version = target[p] /\ n.version \in Nat
         /\ Made(n.hash)' = result[p]
         /\ job[p].kind = Promote =>
              /\ job[p].env = PROD_ENV_ID /\ Deleted(p) = {}
              /\ base[p] \in Seen /\ base[p].env = BASE_ENV_ID
              /\ n.constraints = overrides[p]
              /\ result[p] = Made(base[p].hash) \cup overrides[p]
              /\ overrides[p] = UNION {s.constraints : s \in TrackingRows(job[p].env, own[p].tracks)}
         /\ job[p].kind # Promote =>
              /\ own[p] \in Seen /\ own[p].env = job[p].env
              /\ n.constraints = {p} /\ n.tracks = own[p].tracks
              /\ result[p] = Made(own[p].hash) \cup {p}
              /\ \E o \in rows : Like(o, own[p])
<1> USE DEF TypeInv, TypeOK
<1>1. At(p, RunKinds \cup {Promote}, "commit") /\ p # NoRequest
  BY NoRequestAssumption DEF CommitVersion
<1>2. /\ n.env = job[p].env /\ n.version = target[p] /\ n.hash = p
      /\ n.constraints = IF job[p].kind = Promote THEN overrides[p] ELSE {p}
      /\ job[p].kind # Promote => n.tracks = own[p].tracks
  BY DEF NewRow
<1>3. Made(n.hash)' = result[p]
  BY <1>1, <1>2 DEF CommitVersion, Made
<1>4. Worker(p) /\ Writer(p)
  BY DEF WorkInv, TurnInv
<1>5. ASSUME job[p].kind = Promote
      PROVE  /\ job[p].env = PROD_ENV_ID /\ Deleted(p) = {}
             /\ base[p] \in Seen /\ base[p].env = BASE_ENV_ID
             /\ result[p] = Made(base[p].hash) \cup overrides[p]
             /\ overrides[p] = UNION {s.constraints : s \in TrackingRows(job[p].env, own[p].tracks)}
  <2>1. job[p].env = PROD_ENV_ID
    BY <1>1, <1>4, <1>5, KindsAssumption DEF Writer, KindAllowed, InFlight, Waiting, At, Job
  <2>2. Deleted(p) = {}
    BY <1>4, <1>5 DEF Writer, MarksInTurn, Deleted
  <2>3. base[p] \in Seen
    BY <1>1, <1>5 DEF Seen, WithBaseRow, HasBase, At
  <2>4. /\ base[p].env = BASE_ENV_ID
        /\ result[p] = Made(base[p].hash) \cup overrides[p]
        /\ overrides[p] = UNION {s.constraints : s \in TrackingRows(job[p].env, own[p].tracks)}
    BY <1>1, <1>4, <1>5 DEF Worker, BaseOfBase, Merged, Gathered, HasBase, At
  <2> QED BY <2>1, <2>2, <2>3, <2>4
<1>6. ASSUME job[p].kind # Promote
      PROVE  /\ own[p] \in Seen /\ own[p].env = job[p].env
             /\ result[p] = Made(own[p].hash) \cup {p}
             /\ \E o \in rows : Like(o, own[p])
  <2>1. phase[p] \in HasOwn /\ job[p].kind \in RunKinds
    BY <1>1, <1>6 DEF At, HasOwn, Waiting
  <2>2. own[p] \in Seen /\ own[p].env = job[p].env
    BY <1>4, <2>1 DEF Seen, WithOwnRow, Writer, OwnOfEnv
  <2>3. result[p] = Made(own[p].hash) \cup {p}
    BY <1>1, <1>4, <2>1 DEF Writer, ResultOfOwn, At
  <2>4. \E o \in rows : Like(o, own[p])
    BY <1>4, <2>1 DEF Worker, OwnThere, Adds
  <2> QED BY <2>2, <2>3, <2>4
<1> QED BY <1>2, <1>3, <1>5, <1>6

\* An overwrite deletes the later versions, so a version it leaves keeps the
\* earlier ones.
LEMMA EarlierStay ==
  ASSUME TypeInv, TurnInv, WorkInv, NEW p \in Request, CommitVersion(p),
         NEW s \in rows, s.env = job[p].env,
         \/ \E r \in rows \ Deleted(p) : r.env = job[p].env /\ s.version <= r.version
         \/ job[p].kind # Promote /\ s.version <= own[p].version
  PROVE  s \in rows'
<1> USE DEF TypeInv, TypeOK
<1>1. \A r \in rows : r.version \in Nat
  BY DEF Row
<1>2. s \in rows \ Deleted(p) => s \in rows'
  BY CommitAdds
<1>3. CASE job[p].kind = Overwrite
  <2>1. \A r \in RowsOf(job[p].env) : r.version \in future[p] <=> own[p].version < r.version
    BY <1>3 DEF WorkInv, Worker, LaterMarked, CommitVersion, At
  <2>2. own[p].version \in Nat
    BY <1>3, NewVersion, SeenLoaded DEF Loaded, Row
  <2>3. s.version <= own[p].version
    BY <1>1, <1>3, <2>1, <2>2 DEF Deleted, RowsOf
  <2>4. s.version \notin future[p]
    BY <1>1, <2>1, <2>2, <2>3 DEF RowsOf
  <2> QED BY <1>2, <2>4 DEF Deleted
<1>4. CASE job[p].kind # Overwrite
  <2>1. future[p] = {}
    BY <1>4 DEF TurnInv, Writer, MarksInTurn
  <2> QED BY <1>2, <2>1 DEF Deleted
<1> QED BY <1>3, <1>4

LEMMA StepKeepsApart ==
  ASSUME TypeInv, TurnInv, WorkInv, NEW p \in Request, Step(p)
  PROVE  OverridesApart'
<1> USE DEF TypeInv, TypeOK
<1> SUFFICES ASSUME NEW b \in Seen', NEW s \in rows', s.env = PROD_ENV_ID, b.env = BASE_ENV_ID
             PROVE  Made(b.hash)' \cap s.constraints = {}
  BY DEF OverridesApart, RowsOf
<1>0. [Next]_vars /\ EditsDone
  BY DEF Next, WorkInv
<1>1. ASSUME NEW c \in Seen, c.env = BASE_ENV_ID, NEW r \in rows, r.env = PROD_ENV_ID
      PROVE  Made(c.hash) \cap r.constraints = {}
  BY <1>1 DEF WorkInv, OverridesApart, RowsOf
<1>2. CASE \E c \in Seen : c.env = b.env /\ c.hash = b.hash
  <2>1. PICK c \in Seen : c.env = b.env /\ c.hash = b.hash
    BY <1>2
  <2>2. Made(c.hash)' = Made(c.hash)
    BY <1>0, MadeForGood DEF TurnInv, AllSettled, Settled
  <2>3. CASE \E r \in rows : Like(s, r)
    BY <1>1, <2>1, <2>2, <2>3 DEF Like
  <2>4. CASE CommitVersion(p) /\ \E iac \in BOOLEAN : s = NewRow(p, iac)
    <3>1. CASE job[p].kind = Promote
      <4>1. s.constraints = UNION {t.constraints : t \in TrackingRows(PROD_ENV_ID, own[p].tracks)}
        BY <2>4, <3>1, NewVersion
      <4>2. \A t \in TrackingRows(PROD_ENV_ID, own[p].tracks) :
              Made(c.hash) \cap t.constraints = {}
        BY <1>1, <2>1 DEF TrackingRows, RowsOf
      <4> QED BY <2>1, <2>2, <4>1, <4>2
    <3>2. CASE job[p].kind # Promote
      <4>1. s.constraints = {p}
        BY <2>4, <3>2, NewVersion
      <4>2. p \notin Made(c.hash)
        BY <1>0, EditIsNew
      <4> QED BY <2>1, <2>2, <4>1, <4>2
    <3> QED BY <3>1, <3>2
  <2> QED BY <2>3, <2>4, RowsLike
<1>3. CASE CommitVersion(p) /\ \E iac \in BOOLEAN : b = NewRow(p, iac)
  <2>1. job[p].env = BASE_ENV_ID /\ job[p].kind # Promote
    BY <1>3, NewVersion
  <2>2. /\ Made(b.hash)' = Made(own[p].hash) \cup {p}
        /\ own[p] \in Seen /\ own[p].env = BASE_ENV_ID
    BY <1>3, <2>1, NewVersion
  <2>3. PICK r \in rows : Like(s, r)
    BY <2>1, RowsLike DEF NewRow
  <2>4. Made(own[p].hash) \cap r.constraints = {} /\ p \notin r.constraints
    BY <1>0, <1>1, <2>2, <2>3, EditIsNew DEF Like
  <2> QED BY <2>2, <2>3, <2>4 DEF Like
<1>4. ASSUME NEW r \in rows, b = [r EXCEPT !.iac = TRUE]
      PROVE  r \in Seen /\ r.env = b.env /\ r.hash = b.hash
  BY <1>4 DEF Seen, Row
<1> QED BY <1>2, <1>3, <1>4, SeenNext

LEMMA StepKeepsTracked ==
  ASSUME TypeInv, TurnInv, WorkInv, NEW p \in Request, Step(p)
  PROVE  OverridesTracked'
<1> USE DEF TypeInv, TypeOK
<1> SUFFICES ASSUME NEW r \in rows', r.env = PROD_ENV_ID, NEW x \in Made(r.hash)',
                    NEW s \in rows', s.env = PROD_ENV_ID, x \in s.constraints
             PROVE  \E w \in rows' : /\ w.env = PROD_ENV_ID /\ w.version <= r.version
                                     /\ w.tracks = r.tracks /\ x \in w.constraints
  BY DEF OverridesTracked, RowsOf
<1>0. [Next]_vars /\ EditsDone
  BY DEF Next, WorkInv
<1>1. ASSUME NEW c \in rows, c.env = PROD_ENV_ID, x \in Made(c.hash),
             NEW t \in rows, t.env = PROD_ENV_ID, x \in t.constraints
      PROVE  \E w \in rows : /\ w.env = PROD_ENV_ID /\ w.version <= c.version
                             /\ w.tracks = c.tracks /\ x \in w.constraints
  BY <1>1 DEF WorkInv, OverridesTracked, RowsOf
<1>2. \A c \in rows : Made(c.hash)' = Made(c.hash)
  BY <1>0, MadeForGood DEF TurnInv, AllSettled, Settled, Seen
<1>3. ASSUME x # p
      PROVE  \/ \E t \in rows : t.env = PROD_ENV_ID /\ x \in t.constraints
             \/ CommitVersion(p) /\ \E iac \in BOOLEAN : s = NewRow(p, iac)
  BY RowsLike DEF Like
<1>4. ASSUME CommitVersion(p), NEW iac \in BOOLEAN, s = NewRow(p, iac), x # p
      PROVE  \E t \in rows : t.env = PROD_ENV_ID /\ x \in t.constraints
  <2>1. job[p].kind = Promote
    BY <1>4, NewVersion
  <2>2. x \in UNION {t.constraints : t \in TrackingRows(PROD_ENV_ID, own[p].tracks)}
    BY <1>4, <2>1, NewVersion
  <2> QED BY <2>2 DEF TrackingRows, RowsOf
<1>5. x # p => \E t \in rows : t.env = PROD_ENV_ID /\ x \in t.constraints
  BY <1>3, <1>4
<1>6. CASE CommitVersion(p) /\ r \in rows \ Deleted(p)
  <2>1. x \in Made(r.hash) /\ x # p
    BY <1>0, <1>2, <1>6, EditIsNew DEF Seen
  <2>2. PICK w \in rows : /\ w.env = PROD_ENV_ID /\ w.version <= r.version
                          /\ w.tracks = r.tracks /\ x \in w.constraints
    BY <1>1, <1>5, <1>6, <2>1
  <2>3. CASE job[p].env = PROD_ENV_ID
    BY <1>6, <2>2, <2>3, EarlierStay
  <2>4. CASE job[p].env # PROD_ENV_ID
    BY <1>6, <2>2, <2>4, CommitAdds DEF Deleted, RowsOf
  <2> QED BY <2>2, <2>3, <2>4
<1>7. CASE CommitVersion(p) /\ \E iac \in BOOLEAN : r = NewRow(p, iac)
  <2>1. PICK iac \in BOOLEAN : r = NewRow(p, iac)
    BY <1>7
  <2>2. x \in r.constraints => r.version <= r.version
    BY <1>7, <2>1, NewVersion
  <2>3. CASE job[p].kind = Promote
    <3>1. x \in Made(base[p].hash) \cup r.constraints
      BY <1>7, <2>1, <2>3, NewVersion
    <3>2. x \in Made(base[p].hash) => ~\E t \in rows : t.env = PROD_ENV_ID /\ x \in t.constraints
      BY <1>7, <2>1, <2>3, NewVersion DEF WorkInv, OverridesApart, RowsOf
    <3>3. x \in Made(base[p].hash) => x # p
      BY <1>0, <1>7, <2>1, <2>3, NewVersion, EditIsNew
    <3> QED BY <1>5, <2>2, <3>1, <3>2, <3>3
  <2>4. CASE job[p].kind # Promote
    <3>1. /\ job[p].env = PROD_ENV_ID /\ r.constraints = {p} /\ r.tracks = own[p].tracks
          /\ r.version = target[p] /\ r.version \in Nat
          /\ x \in Made(own[p].hash) \cup {p}
          /\ own[p] \in Seen /\ own[p].env = job[p].env
      BY <1>7, <2>1, <2>4, NewVersion
    <3>2. CASE x # p
      <4>1. PICK o \in rows : Like(o, own[p])
        BY <1>7, <2>1, <2>4, NewVersion
      <4>2. PICK w \in rows : /\ w.env = PROD_ENV_ID /\ w.version <= o.version
                              /\ w.tracks = o.tracks /\ x \in w.constraints
        BY <1>1, <1>5, <3>1, <3>2, <4>1 DEF Like
      <4>3. w \in rows'
        BY <1>7, <2>4, <3>1, <4>1, <4>2, EarlierStay DEF Like
      <4>4. own[p].version < target[p]
        BY <1>7, <3>1, NumberAbove DEF CommitVersion
      <4>5. w.version \in Nat /\ o.version \in Nat
        BY DEF Row
      <4> QED BY <3>1, <4>1, <4>2, <4>3, <4>4, <4>5 DEF Like
    <3> QED BY <2>2, <3>1, <3>2
  <2> QED BY <2>3, <2>4
<1>8. CASE ~CommitVersion(p)
  <2>1. PICK c \in rows : Like(r, c)
    BY <1>8, RowsLike
  <2>2. x \in Made(c.hash) /\ x # p
    BY <1>0, <1>2, <2>1, EditIsNew DEF Seen, Like
  <2>3. PICK w \in rows : /\ w.env = PROD_ENV_ID /\ w.version <= c.version
                          /\ w.tracks = c.tracks /\ x \in w.constraints
    BY <1>1, <1>5, <2>1, <2>2 DEF Like
  <2>4. PICK v \in rows' : Like(v, w)
    BY <1>8, RowsLike
  <2> QED BY <2>1, <2>3, <2>4 DEF Like
<1> QED BY <1>6, <1>7, <1>8, CommitAdds

\* Nobody else changes the environment of a request at work.
LEMMA OthersLeaveIt ==
  ASSUME TypeInv, OnePerEnv, NEW p \in Request, Step(p),
         NEW q \in Request, q # p, AtWork(q)
  PROVE  /\ \A r \in rows : r.env = job[q].env => \E s \in rows' : Like(s, r)
         /\ \A s \in rows' : s.env = job[q].env => \E r \in rows : Like(s, r)
         /\ current'[job[q].env] = current[job[q].env]
<1> USE DEF TypeInv, TypeOK
<1>1. CommitVersion(p) \/ SetCurrentVersion(p) => job[p].env # job[q].env
  BY DEF OnePerEnv, AtWork, Adds, Moves, CommitVersion, SetCurrentVersion, At, HasOwn, Waiting
<1>2. \A r \in Deleted(p) : r.env = job[p].env
  BY DEF Deleted, RowsOf
<1>3. \A iac : NewRow(p, iac).env = job[p].env
  BY DEF NewRow
<1>4. current'[job[q].env] = current[job[q].env]
  BY <1>1, PointerMoves DEF Job
<1> QED BY <1>1, <1>2, <1>3, <1>4, RowsLike

LEMMA OthersKeepWorking ==
  ASSUME TypeInv, TurnInv, WorkInv, OnePerEnv, NEW p \in Request, Step(p),
         NEW q \in Request, q # p
  PROVE  Worker(q)'
<1> USE DEF TypeInv, TypeOK
<1>0. Worker(q) /\ [Next]_vars
  BY DEF WorkInv, Next
<1>1. /\ phase'[q] = phase[q] /\ job'[q] = job[q] /\ own'[q] = own[q]
      /\ base'[q] = base[q] /\ result'[q] = result[q]
      /\ target'[q] = target[q] /\ future'[q] = future[q]
      /\ overrides'[q] = overrides[q]
  BY OwnSession
<1>2. Adds(q)' <=> Adds(q)
  BY <1>1 DEF Adds
<1>3. OwnThere(q)'
  <2>1. CASE Adds(q)
    <3>1. PICK r \in rows : Like(r, own[q])
      BY <1>0, <2>1 DEF Worker, OwnThere
    <3>2. own[q].env = job[q].env
      BY <2>1 DEF TurnInv, Writer, OwnOfEnv, Adds
    <3>3. PICK s \in rows' : Like(s, r)
      BY <2>1, <3>1, <3>2, OthersLeaveIt DEF AtWork, Like
    <3>4. current'[job[q].env] = current[job[q].env]
      BY <2>1, OthersLeaveIt DEF AtWork
    <3>5. Like(s, own'[q])
      BY <1>1, <3>1, <3>3 DEF Like
    <3>6. (\E t \in rows : Like(t, own[q]))'
      BY <3>5 DEF Like
    <3> QED BY <1>0, <1>1, <1>2, <2>1, <3>4, <3>6 DEF Worker, OwnThere
  <2> QED BY <1>2, <2>1 DEF OwnThere
<1>4. TargetExists(q)'
  <2>1. ASSUME job[q].kind \in {Undo, Redo}, phase[q] = "move"
        PROVE  \E r \in rows' : r.env = job[q].env /\ r.version = target[q]
    <3>1. PICK r \in rows : r.env = job[q].env /\ r.version = target[q]
      BY <1>0, <2>1 DEF Worker, TargetExists, RowsOf
    <3>2. AtWork(q)
      BY <2>1 DEF AtWork, Moves
    <3> QED BY <3>1, <3>2, OthersLeaveIt DEF Like
  <2> QED BY <1>1, <2>1 DEF TargetExists, RowsOf
<1>5. LaterMarked(q)'
  <2>1. ASSUME job[q].kind = Overwrite, phase[q] \in {"write", "commit"},
               NEW s \in rows', s.env = job[q].env
        PROVE  s.version \in future[q] <=> own[q].version < s.version
    <3>1. AtWork(q)
      BY <2>1 DEF AtWork, Adds, HasOwn, Waiting
    <3>2. PICK r \in rows : Like(s, r)
      BY <2>1, <3>1, OthersLeaveIt
    <3> QED BY <1>0, <2>1, <3>2 DEF Worker, LaterMarked, RowsOf, Like
  <2> QED BY <1>1, <2>1 DEF LaterMarked, RowsOf
<1>6. BaseOfBase(q)'
  BY <1>0, <1>1 DEF Worker, BaseOfBase
<1>7. Gathered(q)'
  <2>1. ASSUME job[q].kind = Promote, phase[q] \in {"engine", "write", "commit"}
        PROVE  UNION {s.constraints : s \in {r \in rows' : r.env = job[q].env /\ r.tracks = own[q].tracks}}
                 = UNION {s.constraints : s \in {r \in rows : r.env = job[q].env /\ r.tracks = own[q].tracks}}
    <3>1. AtWork(q)
      BY <2>1 DEF AtWork, Adds, HasOwn, Waiting
    <3>2. /\ \A r \in rows : r.env = job[q].env => \E s \in rows' : Like(s, r)
          /\ \A s \in rows' : s.env = job[q].env => \E r \in rows : Like(s, r)
      BY <3>1, OthersLeaveIt
    <3> QED BY <3>2 DEF Like
  <2> QED BY <1>0, <1>1, <2>1 DEF Worker, Gathered, TrackingRows, RowsOf
<1>8. Merged(q)'
  <2>1. ASSUME job[q].kind = Promote, phase[q] \in {"write", "commit"}
        PROVE  Made(base[q].hash)' = Made(base[q].hash)
    <3>1. PICK b \in Seen : b = base[q]
      BY <2>1 DEF Seen, WithBaseRow, HasBase
    <3>2. Made(b.hash)' = Made(b.hash)
      BY <1>0, MadeForGood DEF TurnInv, AllSettled, Settled
    <3>3. b = base'[q]
      BY <1>1, <3>1
    <3> QED BY <3>1, <3>2, <3>3
  <2> QED BY <1>0, <1>1, <2>1 DEF Worker, Merged
<1> QED BY <1>3, <1>4, <1>5, <1>6, <1>7, <1>8 DEF Worker

\* Where nothing is loaded, nothing is claimed.
LEMMA IdleIsWorker ==
  ASSUME NEW p \in Request, phase'[p] \notin HasOwn,
         job'[p].kind \in {Undo, Redo} => phase'[p] # "move"
  PROVE  Worker(p)'
<1>1. OwnThere(p)' /\ TargetExists(p)'
  BY DEF OwnThere, TargetExists, Adds
<1>2. LaterMarked(p)' /\ BaseOfBase(p)' /\ Gathered(p)' /\ Merged(p)'
  BY DEF LaterMarked, BaseOfBase, Gathered, Merged, HasOwn, HasBase, Waiting
<1> QED BY <1>1, <1>2 DEF Worker

\* Nor of an export.
LEMMA ExportIsWorker ==
  ASSUME NEW p \in Request, job'[p].kind = Iac
  PROVE  Worker(p)'
BY DEF Worker, OwnThere, TargetExists, LaterMarked, BaseOfBase, Gathered, Merged, Adds

LEMMA FoundWorker ==
  ASSUME TypeInv, WorkInv, NEW p \in Request, FindNeighbour(p)
  PROVE  Worker(p)'
<1> USE DEF TypeInv, TypeOK
<1>1. CASE \E r \in rows : Neighbour(p, r) /\ target' = [target EXCEPT ![p] = r.version]
                           /\ UNCHANGED <<db, job>> /\ Goto(p, "move")
  <2>1. PICK r \in rows : Neighbour(p, r) /\ target'[p] = r.version
    BY <1>1
  <2>2. r.env = job[p].env /\ UNCHANGED <<rows, job>> /\ phase'[p] = "move"
    BY <1>1, <2>1 DEF Neighbour, IsPrevious, IsNext, RowsOf, Goto, db
  <2>3. TargetExists(p)'
    BY <2>1, <2>2 DEF TargetExists, RowsOf
  <2>4. OwnThere(p)' /\ LaterMarked(p)' /\ BaseOfBase(p)' /\ Gathered(p)' /\ Merged(p)'
    BY <2>2 DEF OwnThere, LaterMarked, BaseOfBase, Gathered, Merged, Adds, HasOwn, HasBase
  <2> QED BY <2>3, <2>4 DEF Worker
<1>2. CASE Answer(p, "refused")
  BY <1>2, IdleIsWorker DEF Answer, Close, Goto, Idle, HasOwn, Waiting
<1> QED BY <1>1, <1>2 DEF FindNeighbour

\* What is loaded is there, and current but for an overwrite.
LEMMA LoadedWorker ==
  ASSUME TypeInv, WorkInv, NEW p \in Request, NEW r \in rows,
         \/ RunLoad(p) /\ BuildsOn(p, r) /\ Keep(p, r, "engine")
         \/ PromoteLoad(p) /\ IsCurrent(r, job[p].env) /\ Keep(p, r, "base")
  PROVE  Worker(p)'
<1> USE DEF TypeInv, TypeOK
<1>1. /\ UNCHANGED <<rows, current, job>> /\ own'[p] = r
      /\ RunLoad(p) => job[p].kind \in RunKinds /\ phase'[p] = "engine"
      /\ PromoteLoad(p) => job[p].kind = Promote /\ phase'[p] = "base"
  BY DEF RunLoad, PromoteLoad, At, Keep, Goto, db
<1>2. /\ job[p].kind # Overwrite => r.version = current[job[p].env]
      /\ job[p].kind \in RunKinds => r.version = job[p].version
  BY DEF RunLoad, PromoteLoad, At, BuildsOn, IsCurrent, IsVersion
<1>3. Like(r, r)
  BY DEF Like
<1>4. OwnThere(p)'
  BY <1>1, <1>2, <1>3 DEF OwnThere, Like
<1>5. /\ TargetExists(p)' /\ LaterMarked(p)' /\ BaseOfBase(p)' /\ Gathered(p)' /\ Merged(p)'
  BY <1>1 DEF TargetExists, LaterMarked, BaseOfBase, Gathered, Merged, HasBase
<1> QED BY <1>4, <1>5 DEF Worker

\* A promotion reads a version of the base, and gathers the overrides of all the
\* versions that track what its own version does.
LEMMA ReadingWorker ==
  ASSUME TypeInv, UniqueVersions, TurnInv, WorkInv, NEW p \in Request, PromoteBase(p) \/ PromoteCollect(p)
  PROVE  Worker(p)'
<1> USE DEF TypeInv, TypeOK
<1>1. CASE \E answer \in Answers : Close(p, answer)
  BY <1>1, IdleIsWorker DEF Close, Goto, Idle, Answers, HasOwn, Waiting
<1>2. CASE ~\E answer \in Answers : Close(p, answer)
  <2>1. /\ job[p].kind = Promote /\ UNCHANGED <<rows, current, job, own>>
        /\ PromoteBase(p) => phase[p] = "base" /\ phase'[p] = "collect"
        /\ PromoteCollect(p) => phase[p] = "collect" /\ phase'[p] = "engine"
    BY <1>2 DEF PromoteBase, PromoteCollect, At, Goto, Answer, Answers, db
  <2>2. Adds(p) /\ Worker(p)
    BY <2>1 DEF WorkInv, Adds, HasOwn, Waiting, PromoteBase, PromoteCollect, At
  <2>3. OwnThere(p)'
    <3>1. PICK r \in rows : Like(r, own[p])
      BY <2>2 DEF Worker, OwnThere
    <3>2. (\E t \in rows : Like(t, own[p]))'
      BY <2>1, <3>1 DEF Like
    <3> QED BY <2>1, <2>2, <3>2 DEF Worker, OwnThere
  <2>4. TargetExists(p)' /\ LaterMarked(p)' /\ Merged(p)'
    BY <2>1 DEF TargetExists, LaterMarked, Merged
  <2>5. BaseOfBase(p)'
    <3>1. CASE PromoteBase(p)
      <4>1. PICK b \in rows : IsCurrent(b, BASE_ENV_ID) /\ base' = [base EXCEPT ![p] = b]
        BY <1>2, <3>1 DEF PromoteBase, Answer, Answers
      <4> QED BY <4>1 DEF BaseOfBase, IsCurrent, IsVersion, RowsOf
    <3>2. CASE PromoteCollect(p)
      <4>1. UNCHANGED base /\ phase[p] \in HasBase
        BY <1>2, <2>1, <3>2 DEF PromoteCollect, Answer, Answers, HasBase
      <4> QED BY <2>1, <2>2, <4>1 DEF Worker, BaseOfBase
    <3> QED BY <3>1, <3>2
  <2>6. Gathered(p)'
    <3>1. CASE PromoteBase(p)
      BY <2>1, <3>1 DEF Gathered
    <3>2. CASE PromoteCollect(p)
      <4>1. PICK r \in rows : /\ IsCurrent(r, job[p].env)
                              /\ overrides' = [overrides EXCEPT ![p] =
                                   UNION {s.constraints : s \in TrackingRows(job[p].env, r.tracks)}]
        BY <1>2, <3>2 DEF PromoteCollect, Answer, Answers
      <4>2. PICK o \in rows : Like(o, own[p])
        BY <2>2 DEF Worker, OwnThere
      <4>3. own[p].version = current[job[p].env] /\ own[p].env = job[p].env
        BY <2>1, <2>2 DEF Worker, OwnThere, TurnInv, Writer, OwnOfEnv, Adds
      <4>4. r.env = job[p].env /\ r.version = current[job[p].env]
        BY <4>1 DEF IsCurrent, IsVersion, RowsOf
      <4>5. r.tracks = own[p].tracks
        BY <4>2, <4>3, <4>4 DEF Like, UniqueVersions, PathOf
      <4>6. overrides'[p] = UNION {s.constraints : s \in TrackingRows(job[p].env, own[p].tracks)}
        BY <4>1, <4>5
      <4> QED BY <2>1, <4>6 DEF Gathered, TrackingRows, RowsOf
    <3> QED BY <3>1, <3>2
  <2> QED BY <2>3, <2>4, <2>5, <2>6 DEF Worker
<1> QED BY <1>1, <1>2

\* The steps that work on what was loaded
LEMMA WorkingOn ==
  ASSUME TypeInv, TurnInv, WorkInv, NEW p \in Request,
         \/ RunEngine(p) \/ ReadLatest(p) \/ DeleteFuture(p) \/ WriteState(p)
         \/ PromoteEngine(p)
  PROVE  Worker(p)'
<1> USE DEF TypeInv, TypeOK
<1>1. /\ UNCHANGED <<rows, current, job, own, base, overrides>>
      /\ Adds(p) /\ Adds(p)'
      /\ job[p].kind \in RunKinds \cup {Promote}
  BY DEF RunEngine, ReadLatest, DeleteFuture, WriteState, PromoteEngine, Compute, Goto, At,
         Adds, HasOwn, Waiting, db, session
<1>2. Worker(p) /\ [Next]_vars
  BY DEF WorkInv, Next, Step
<1>3. OwnThere(p)'
  <2>1. PICK r \in rows : Like(r, own[p])
    BY <1>1, <1>2 DEF Worker, OwnThere
  <2>2. (\E t \in rows : Like(t, own[p]))'
    BY <1>1, <2>1 DEF Like
  <2> QED BY <1>1, <1>2, <2>2 DEF Worker, OwnThere
<1>4. TargetExists(p)'
  BY <1>1 DEF TargetExists
<1>5. BaseOfBase(p)' /\ Gathered(p)'
  <2>1. job[p].kind = Promote => phase[p] \in {"engine", "write"}
    BY DEF RunEngine, ReadLatest, DeleteFuture, WriteState, PromoteEngine, At
  <2> QED BY <1>1, <1>2, <2>1 DEF Worker, BaseOfBase, Gathered, TrackingRows, RowsOf, HasBase
<1>6. LaterMarked(p)'
  <2>1. CASE DeleteFuture(p)
    <3>1. /\ future'[p] = FutureVersions(job[p].env, own[p].version)
      BY <1>1, <1>2, <2>1 DEF DeleteFuture, At, Worker, OwnThere
    <3> QED BY <1>1, <3>1 DEF LaterMarked, FutureVersions, RowsOf
  <2>2. CASE WriteState(p)
    <3>1. phase[p] = "write" /\ UNCHANGED future
      BY <2>2 DEF WriteState, At, session
    <3> QED BY <1>1, <1>2, <3>1 DEF Worker, LaterMarked, RowsOf
  <2>3. CASE RunEngine(p) \/ ReadLatest(p) \/ PromoteEngine(p)
    <3>1. job'[p].kind = Overwrite => phase'[p] \notin {"write", "commit"}
      BY <1>1, <2>3 DEF RunEngine, ReadLatest, PromoteEngine, At, Compute, Goto
    <3> QED BY <3>1 DEF LaterMarked
  <2> QED BY <2>1, <2>2, <2>3
<1>7. Merged(p)'
  <2>1. CASE job[p].kind = Promote
    <3>1. PICK b \in Seen : b = base[p]
      BY <2>1 DEF RunEngine, ReadLatest, DeleteFuture, WriteState, PromoteEngine, At,
                  Seen, WithBaseRow, HasBase
    <3>2. StateOf(b) = Made(b.hash) /\ Made(b.hash)' = Made(b.hash)
      BY <1>2, MadeForGood DEF TurnInv, AllSettled, Settled
    <3>3. \/ phase[p] = "write" /\ UNCHANGED result
          \/ result'[p] = StateOf(base[p]) \cup overrides[p]
      BY <2>1 DEF RunEngine, ReadLatest, DeleteFuture, WriteState, PromoteEngine, At,
                  Compute, session
    <3> QED BY <1>1, <1>2, <3>1, <3>2, <3>3 DEF Worker, Merged
  <2>2. CASE job[p].kind # Promote
    BY <1>1, <2>2 DEF Merged
  <2> QED BY <2>1, <2>2
<1> QED BY <1>3, <1>4, <1>5, <1>6, <1>7 DEF Worker

LEMMA StepKeepsWorking ==
  ASSUME TypeInv, UniqueVersions, TurnInv, WorkInv, OnePerEnv, NEW p \in Request, Step(p), NEW q \in Request
  PROVE  Worker(q)'
<1> USE DEF TypeInv, TypeOK
<1>1. CASE q # p
  BY <1>1, OthersKeepWorking
<1>2. CASE q = p /\ \E answer \in Answers : Close(p, answer)
  BY <1>2, IdleIsWorker DEF Close, Goto, Idle, Answers, HasOwn, Waiting
<1>3. CASE q = p /\ (FindNeighbour(p) \/ PromoteBase(p) \/ PromoteCollect(p))
  BY <1>3, FoundWorker, ReadingWorker
<1>4. CASE /\ q = p /\ GoesOn(p) /\ ~\E answer \in Answers : Close(p, answer)
           /\ ~(FindNeighbour(p) \/ PromoteBase(p) \/ PromoteCollect(p))
  <2>1. CASE Arrive(p)
    <3>1. phase'[p] \in {"ask", "load", "move"}
      BY <2>1 DEF Arrive, Goto, FirstStep
    <3>2. PICK e \in Env, v \in Versions : \E kind \in Kinds[e] :
            /\ job' = [job EXCEPT ![p] = [kind |-> kind, env |-> e, version |-> v]]
            /\ Goto(p, FirstStep(kind))
      BY <2>1 DEF Arrive
    <3>3. PICK kind \in Kinds[e] :
            /\ job' = [job EXCEPT ![p] = [kind |-> kind, env |-> e, version |-> v]]
            /\ Goto(p, FirstStep(kind))
      BY <3>2
    <3>4. job'[p].kind = kind /\ phase'[p] = FirstStep(kind)
      BY <3>3 DEF Goto
    <3> QED BY <1>4, <3>1, <3>4, IdleIsWorker DEF FirstStep, HasOwn
  <2>2. CASE ChatLoad(p)
    <3>1. phase'[p] \notin HasOwn \cup {"move"}
      BY <2>2 DEF ChatLoad, Answer, Close, Goto, HasOwn, Waiting, Refusal
    <3> QED BY <1>4, <3>1, IdleIsWorker
  <2>3. CASE RunLoad(p) \/ PromoteLoad(p)
    BY <1>4, <2>3, LoadedWorker DEF GoesOn, RunLoad, PromoteLoad, IacLoad, At, Arrive,
       RunEngine, ReadLatest, DeleteFuture, WriteState, PromoteEngine, ExportIac, WriteIac
  <2>4. CASE IacLoad(p) \/ ExportIac(p) \/ WriteIac(p)
    <3>1. job'[p].kind = Iac
      BY <2>4 DEF IacLoad, ExportIac, WriteIac, At, Answer, Close, Keep, Compute, Idle
    <3> QED BY <1>4, <3>1, ExportIsWorker
  <2>5. CASE RunEngine(p) \/ ReadLatest(p) \/ DeleteFuture(p) \/ WriteState(p) \/ PromoteEngine(p)
    BY <1>4, <2>5, WorkingOn
  <2>6. CASE \/ Crash(p) \/ EngineRefuses(p) \/ CommitVersion(p) \/ CommitFails(p)
             \/ CommitIac(p) \/ SetCurrentVersion(p)
    <3>1. \A answer \in {"ok", "refused", "failed", Refusal(p)} :
            ~Close(p, answer) /\ ~Answer(p, answer)
      BY <1>4 DEF Answer, Answers, Refusal
    <3> QED BY <2>6, <3>1 DEF Crash, EngineRefuses, CommitVersion, CommitFails, CommitIac,
                              SetCurrentVersion
  <2> QED BY <1>4, <2>1, <2>2, <2>3, <2>4, <2>5, <2>6 DEF Step
<1> QED BY <1>1, <1>2, <1>3, <1>4, EndsOrGoesOn

LEMMA NextKeepsWorkInv ==
  ASSUME TypeInv, UniqueVersions, TurnInv, WorkInv, OnePerEnv, [Next]_vars
  PROVE  WorkInv'
<1>1. ASSUME NEW p \in Request, Step(p) PROVE WorkInv'
  <2>1. EditsDone'
    BY <1>1, StepKeepsEditsDone DEF WorkInv
  <2>2. OverridesTracked' /\ OverridesApart'
    BY <1>1, StepKeepsTracked, StepKeepsApart
  <2>3. \A q \in Request : Worker(q)'
    BY <1>1, StepKeepsWorking
  <2> QED BY <2>1, <2>2, <2>3 DEF WorkInv
<1>2. CASE UNCHANGED vars
  <2> USE <1>2 DEF vars, db, bucket, session, WorkInv
  <2>1. Seen' = Seen
    BY DEF Seen, WithOwnRow, WithBaseRow
  <2>2. EditsDone' /\ OverridesTracked' /\ OverridesApart'
    BY <2>1 DEF EditsDone, OverridesTracked, OverridesApart, Done, Made, RowsOf
  <2>3. \A q \in Request : Worker(q)'
    BY DEF Worker, OwnThere, TargetExists, LaterMarked, BaseOfBase, Gathered, Merged, Adds,
           Like, TrackingRows, RowsOf, Made
  <2> QED BY <2>2, <2>3
<1> QED BY <1>1, <1>2 DEF Next, Quiet

LEMMA InitWorkInv == Init => WorkInv
<1> SUFFICES ASSUME Init PROVE WorkInv
  OBVIOUS
<1>1. \A q \in Request : /\ phase[q] = "idle" /\ job[q].kind = Iac
                         /\ result[q] = {} /\ overrides[q] = {}
  BY DEF Init
<1>2. \A r \in rows : r.hash = NoRequest /\ r.constraints = {}
  BY DEF Init, FirstRow
<1>3. EditsDone
  BY <1>1, <1>2 DEF EditsDone
<1>4. OverridesTracked /\ OverridesApart
  BY <1>2 DEF OverridesTracked, OverridesApart, RowsOf
<1>5. \A q \in Request : Worker(q)
  BY <1>1 DEF Worker, OwnThere, TargetExists, LaterMarked, BaseOfBase, Gathered, Merged, Adds,
              HasOwn, HasBase, Waiting
<1> QED BY <1>3, <1>4, <1>5 DEF WorkInv

LEMMA WorkInvHolds ==
  ASSUME ProdNeverBack
  PROVE  Spec /\ []OnePerEnv => [](TypeInv /\ TurnInv /\ WorkInv)
<1>1. Spec /\ []OnePerEnv => [](TypeInv /\ TurnInv)
  BY OneWorkerIsInTurn, ProdNeverBack, TurnInvHolds, PTL
<1>2. TypeInv /\ TurnInv /\ UniqueVersions /\ WorkInv /\ OnePerEnv /\ [Next]_vars => WorkInv'
  BY NextKeepsWorkInv
<1> QED BY <1>1, <1>2, VersionsAreUnique, InitWorkInv, PTL DEF Spec

\* If the requests that change one environment work on it one after another, a
\* run that commits on the current version loses no edit of it.
THEOREM RunsKeepEditsPerEnv ==
  ASSUME ProdNeverBack
  PROVE  Spec /\ []OnePerEnv => RunKeepsEdits
<1>1. TypeInv /\ TurnInv /\ WorkInv =>
        [\A p \in Request, r \in rows :
           CommitVersion(p) /\ job[p].kind \in {Run, Chat} /\ IsCurrent(r, job[p].env)
           => result[p] = Made(r.hash) \cup {p}]_vars
  <2> SUFFICES ASSUME TypeInv, TurnInv, WorkInv, NEW p \in Request, NEW r \in rows,
                      CommitVersion(p), job[p].kind \in {Run, Chat}, IsCurrent(r, job[p].env)
               PROVE  result[p] = Made(r.hash) \cup {p}
    OBVIOUS
  <2>1. /\ own[p] \in Seen /\ own[p].env = job[p].env
        /\ result[p] = Made(own[p].hash) \cup {p}
    BY NewVersion
  <2>2. own[p].version = current[job[p].env]
    BY DEF WorkInv, Worker, OwnThere, Adds, CommitVersion, At, HasOwn, Waiting
  <2>3. r \in Seen /\ PathOf(r) = PathOf(own[p])
    BY <2>1, <2>2 DEF Seen, IsCurrent, IsVersion, RowsOf, PathOf
  <2>4. r.hash = own[p].hash
    BY <2>1, <2>3 DEF TurnInv, OneHash
  <2> QED BY <2>1, <2>4
<1> QED BY <1>1, WorkInvHolds, PTL DEF RunKeepsEdits, Spec

\* And a promotion keeps every edit made in the environment itself that the
\* version before it holds, whatever overwrites came before.
THEOREM PromotionsKeepOverridesPerEnv ==
  ASSUME ProdNeverBack
  PROVE  Spec /\ []OnePerEnv => PromoteKeepsOverrides
<1>1. TypeInv /\ UniqueVersions /\ TurnInv /\ WorkInv =>
        [\A p \in Request, r \in rows :
           CommitVersion(p) /\ job[p].kind = Promote /\ IsCurrent(r, job[p].env)
           => Made(r.hash) \cap UNION {s.constraints : s \in RowsOf(job[p].env)}
                \subseteq result[p]]_vars
  <2> SUFFICES ASSUME TypeInv, UniqueVersions, TurnInv, WorkInv, NEW p \in Request,
                      NEW r \in rows, CommitVersion(p), job[p].kind = Promote,
                      IsCurrent(r, job[p].env), NEW x \in Made(r.hash),
                      NEW s \in RowsOf(job[p].env), x \in s.constraints
               PROVE  x \in result[p]
    OBVIOUS
  <2>1. /\ job[p].env = PROD_ENV_ID
        /\ result[p] = Made(base[p].hash) \cup overrides[p]
        /\ overrides[p] = UNION {t.constraints : t \in TrackingRows(job[p].env, own[p].tracks)}
    BY NewVersion
  <2>2. Adds(p)
    BY DEF Adds, CommitVersion, At, HasOwn, Waiting
  <2>3. PICK o \in rows : Like(o, own[p]) /\ o.version = current[job[p].env]
    BY <2>2 DEF WorkInv, Worker, OwnThere, Like
  <2>4. own[p].env = job[p].env
    BY <2>2 DEF TurnInv, Writer, OwnOfEnv, Adds
  <2>5. r.tracks = own[p].tracks
    BY <2>3, <2>4 DEF UniqueVersions, PathOf, Like, IsCurrent, IsVersion, RowsOf
  <2>6. PICK w \in RowsOf(PROD_ENV_ID) : w.tracks = r.tracks /\ x \in w.constraints
    BY <2>1 DEF WorkInv, OverridesTracked, IsCurrent, IsVersion
  <2>7. w \in TrackingRows(job[p].env, own[p].tracks)
    BY <2>1, <2>5, <2>6 DEF TrackingRows
  <2> QED BY <2>1, <2>6, <2>7
<1> QED BY <1>1, VersionsAreUnique, WorkInvHolds, PTL DEF PromoteKeepsOverrides, Spec

\* Clients move only to versions the server told them of.
SetNever == Set \notin Kinds[BASE_ENV_ID]

\* And undo and redo move to a version that is still there: every environment
\* always has a current version.
THEOREM CurrentAlwaysExistsPerEnv ==
  ASSUME ProdNeverBack, SetNever
  PROVE  Spec /\ []OnePerEnv => []CurrentExists
<1>1. ASSUME TypeInv, TurnInv, WorkInv, CurrentExists, [Next]_vars PROVE CurrentExists'
  <2> SUFFICES ASSUME NEW e \in Env PROVE (\E r \in rows : IsCurrent(r, e))'
    BY <1>1 DEF CurrentExists
  <2>1. PICK c \in rows : IsCurrent(c, e)
    BY <1>1 DEF CurrentExists
  <2>2. CASE \A p \in Request : ~SetCurrentVersion(p)
    BY <1>1, <2>1, <2>2, OthersKeepCurrent
  <2>3. ASSUME NEW p \in Request, SetCurrentVersion(p) PROVE (\E r \in rows : IsCurrent(r, e))'
    <3>1. /\ job[p].kind \in MoveKinds /\ phase[p] = "move" /\ UNCHANGED rows
          /\ current' = [current EXCEPT ![job[p].env] = target[p]]
      BY <2>3 DEF SetCurrentVersion, At
    <3>2. job[p].kind \in Kinds[job[p].env] /\ job[p].env \in Env
      BY <1>1, <3>1 DEF TurnInv, Writer, KindAllowed, InFlight, Waiting, TypeInv, TypeOK, Job
    <3>3. job[p].kind \in {Undo, Redo}
      BY <3>1, <3>2, ProdNeverBack, SetNever DEF ProdNeverBack, SetNever
    <3>4. PICK r \in RowsOf(job[p].env) : r.version = target[p]
      BY <1>1, <3>1, <3>3 DEF WorkInv, Worker, TargetExists
    <3>5. CASE e = job[p].env
      BY <1>1, <3>1, <3>4, <3>5 DEF IsCurrent, IsVersion, RowsOf, TypeInv, TypeOK
    <3>6. CASE e # job[p].env
      BY <1>1, <2>1, <3>1, <3>6 DEF IsCurrent, IsVersion, RowsOf, TypeInv, TypeOK
    <3> QED BY <3>5, <3>6
  <2> QED BY <2>2, <2>3
<1>2. Init => CurrentExists
  <2>1. \A e \in Env : FirstRow(e).env = e /\ FirstRow(e).version = 0
    BY DEF FirstRow
  <2> QED BY <2>1 DEF Init, CurrentExists, IsCurrent, IsVersion, RowsOf
<1>3. TypeInv /\ TurnInv /\ WorkInv /\ CurrentExists /\ [Next]_vars => CurrentExists'
  BY <1>1
<1> QED BY <1>2, <1>3, WorkInvHolds, PTL DEF Spec

===============================================================================
